\* The main thread, a producer and a consumer share two channels; three messages, two faults.
SPECIFICATION FairSpec
CONSTANTS
  ChannelMax = 2
  Main = main
  Producers = {p1}
  Consumers = {k1}
  Clients = {main, p1, k1}
  NoChannel = NoChannel
  Nobody = Nobody
  NoDelivery = NoDelivery
  NoAck = FALSE
  TimesOut = TRUE
  Prefetch = 0
  MaxSent = 3
  MaxStarts = 2
  MaxFaults = 2
INVARIANTS
  NoMessageLost
  ToldTruly
PROPERTIES
  ImplementsLoanPool
  StopJoins
CHECK_DEADLOCK FALSE
