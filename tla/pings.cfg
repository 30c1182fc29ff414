SPECIFICATION Spec
CONSTANTS
  Nodes = {"a", "b"}
  Conns = {1}
  Client <- FromB
  Server <- ToA
  Hashes = {1}
  Origin <- AtA
  Supersedes <- TwoOverOne
  QueueSize = 9
  AnnQueueSize = 1
  WireSize = 1
  ChunkSize = 1
  PingAfter = 0
  DropAfter = 1
  MaxLag <- APings
  Strays = {}
  Hung <- HungClient
CHECK_DEADLOCK FALSE
PROPERTIES SilentDropped
