SPECIFICATION Spec
CONSTANTS
  Ip <- MCIp
  PeerNum = {1, 2}
  AgreedTimeout = 2
  Ann <- RedeliveredAnn
  Handlers = {"gossip", "service"}
  Obj = {o1, o2, o3, o4, o5}
  SelfIp = "s"
  GlobalTimeout = 2
  MaxClockSkew = 1
  MaxNow = 4
  MaxDeliveries = 1
  None = None
INVARIANTS StateHashCurrent
CHECK_DEADLOCK FALSE
