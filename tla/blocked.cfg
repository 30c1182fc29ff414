SPECIFICATION Spec
CONSTANTS
  Nodes = {"a", "b"}
  Conns = {1}
  Client <- FromB
  Server <- ToA
  Hashes = {1, 3, 4}
  Origin <- AtA
  Supersedes <- TwoOverOne
  QueueSize = 2
  AnnQueueSize = 1
  WireSize = 2
  ChunkSize = 2
  PingAfter = 0
  DropAfter = 1
  MaxLag <- NoPings
  Strays = {}
  Hung = {}
CHECK_DEADLOCK FALSE
PROPERTIES Redials
