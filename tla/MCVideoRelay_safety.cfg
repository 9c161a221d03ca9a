SPECIFICATION Spec
CONSTANTS
  Subscribers = {s1, s2}
  Producers = {p1, p2}
  NoProducer = NoProducer
  EOF = EOF
  QueueMax = 2
  BackoffInitial = 1
  BackoffMax = 2
  MaxFrame = 3
  Faults = {"open", "probe", "read", "encode"}
SYMMETRY Symmetry
INVARIANTS
  TypeOK
  OneActiveProducer
  ProducerServesAudience
  FramesInOrder
  FailureReachesAudience
  OverlapOnlyAfterCancel
