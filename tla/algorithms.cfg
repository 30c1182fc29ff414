SPECIFICATION ASpec
CONSTANTS
  Slots = 4
  Window = 5
  Sample = {0, 1}
  MaxLag = 5
  MaxSlot = 9
  None = None
  BitSize = 26
  Ip = {"n", "s"}
  PeerNum = {1, 2}
  AgreedTimeout = 2
  MaxAdds = 4
  Ann <- MCAnn
  Unanswered = Unanswered
  Tag <- MCTag
  Graph <- MCGraph
  Query <- MCQuery
INVARIANTS SamplesInPlace LoopKeepsLast SearchConsistent LabelsKeepWay LabelsLeadAlong
  DnsHolds RepliesReturn FramesReturn ChecksumHolds BencodeExact
PROPERTIES AllButOldest FindsShortest
CHECK_DEADLOCK FALSE
