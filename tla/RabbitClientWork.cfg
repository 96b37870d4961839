\* Two consumers of one connection, as in examples/work/consumer.cpp; no fault.
SPECIFICATION Spec
CONSTANTS
  ChannelMax = 2
  Main = main
  Producers = {p1}
  Consumers = {k1, k2}
  Clients = {main, p1, k1, k2}
  NoChannel = NoChannel
  Nobody = Nobody
  NoDelivery = NoDelivery
  NoAck = FALSE
  TimesOut = TRUE
  Prefetch = 1
  MaxSent = 3
  MaxStarts = 2
  MaxFaults = 0
INVARIANT AckedIsHandled
CHECK_DEADLOCK FALSE
