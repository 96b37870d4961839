\* Three variables, three descriptors, three sockets: a number given back is given out again.
SPECIFICATION Spec
CONSTANTS
  Slots = {c1, c2, c3}
  Fds <- DescriptorNumbers
  Addresses <- SomeAddresses
  Domains = {"unix"}
  Types = {"stream", "dgram", "raw"}
  Unnamed = Unnamed
  SunPath = 2
  MaxSockets = 3
  MaxQueue = 1
SYMMETRY SlotSymmetry
INVARIANT HoldsItsSocket
CHECK_DEADLOCK FALSE
