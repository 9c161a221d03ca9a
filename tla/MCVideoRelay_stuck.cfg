SPECIFICATION Spec
CONSTANTS
  Subscribers = {s1, s2}
  Producers = {p1, p2}
  NoProducer = NoProducer
  EOF = EOF
  QueueMax = 2
  BackoffInitial = 1
  BackoffMax = 3
  MaxFrame = 2
  Faults = {"encode"}
INVARIANT StoppedProducerUnblocks
