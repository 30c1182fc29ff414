SPECIFICATION Spec
CONSTANTS
  Ip <- MCIp
  PeerNum = {1, 2}
  AgreedTimeout = 2
  Ann <- BothAnn
  Handlers = {"gossip", "service"}
  Obj = {o1, o2, o3, o4, o5}
  SelfIp = "s"
  GlobalTimeout = 2
  MaxClockSkew = 1
  MaxNow = 4
  MaxDeliveries = 2
  None = None
CONSTRAINT OnceOrTwice
INVARIANTS IndInv StateServed ResetServed
PROPERTIES WithdrawnWhenDead
CHECK_DEADLOCK FALSE
