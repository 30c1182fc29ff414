SPECIFICATION Spec
CONSTANTS
  Ip <- MCIp
  PeerNum = {1, 2}
  AgreedTimeout = 2
  Ann <- OneHandlerAnn
  Handlers = {"gossip"}
  Obj = {o1, o2, o3}
  SelfIp = "s"
  GlobalTimeout = 2
  MaxClockSkew = 1
  MaxNow = 4
  MaxDeliveries = 2
  None = None
INVARIANTS NodeFollowsList StateHashCurrent
PROPERTIES NeverOlder NothingLost
