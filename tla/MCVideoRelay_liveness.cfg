SPECIFICATION FairSpec
CONSTANTS
  Subscribers = {s1, s2}
  Producers = {p1, p2}
  NoProducer = NoProducer
  EOF = EOF
  QueueMax = 1
  BackoffInitial = 1
  BackoffMax = 1
  MaxFrame = 1
  Faults = {"open", "probe", "read", "encode"}
PROPERTIES
  LeaverFinishes
  CameraReleased
  WaitingIsServed
