SPECIFICATION Spec
CONSTANTS
  Nodes = {"a", "b"}
  Conns = {1}
  Client <- FromB
  Server <- ToA
  Hashes = {1, 2}
  Origin <- AtA
  Supersedes <- TwoOverOne
  QueueSize = 5
  AnnQueueSize = 1
  WireSize = 4
  ChunkSize = 1
  PingAfter = 0
  DropAfter = 1
  MaxLag <- NoPings
  Strays = {}
  Hung = {}
CHECK_DEADLOCK FALSE
PROPERTIES Delivered Completes
