SPECIFICATION Spec
CONSTANTS
  Nodes = {"a", "b"}
  Conns = {1, 2}
  Client <- FromB
  Server <- ToA
  Hashes = {1}
  Origin <- AtA
  Supersedes <- TwoOverOne
  QueueSize = 2
  AnnQueueSize = 1
  WireSize = 1
  ChunkSize = 1
  PingAfter = 0
  DropAfter = 1
  MaxLag <- NoPings
  Strays <- OddPeer
  Hung = {}
CHECK_DEADLOCK FALSE
INVARIANTS TypeOK NoneMissed AnswersExpected
