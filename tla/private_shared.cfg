SPECIFICATION Spec
CONSTANTS
  Cred <- MCCred
  PubId = {"PUB_x"}
  Posts <- MCPosts
  InFlight = {"r"}
  Unfit <- MCUnfit
  Result = {FALSE}
  Respond = 1
  Share = 1
  Cutoff = 2
  MaxAge = 1
  MaxNow = 2
  MaxPeers = 2
INVARIANT PrivateNotShared
CHECK_DEADLOCK FALSE
