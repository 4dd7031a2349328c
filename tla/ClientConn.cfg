\* Queues of three, so that they fill, drain and hold something behind the shutdown.
CONSTANTS
  SendQueueSize = 3
  MaxOvertaken = 2
SPECIFICATION FairSpec
INVARIANTS AtMostOneOvertakes ShutdownIsLast
PROPERTIES ShutdownDelivered DisconnectEnds SenderEnds
CHECK_DEADLOCK FALSE
