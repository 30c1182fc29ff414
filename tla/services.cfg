SPECIFICATION SSpec
CONSTANTS
  Thread = {"handler", "cleaner", "web"}
  Sections <- MCSections
  Peers <- MCPeers
  Domain <- MCDomain
  Caller <- MCCaller
  Streamer <- MCStreamer
  Seeded <- MCSeeded
  Shared <- MCShared
  Tested <- MCTested
  Line <- MCLine
  Pair <- MCPair
  Message <- MCMessage
  Administered <- MCAdministered
INVARIANTS StatesTyped  LoaderAlive ShortageIsRace EventsOnce OneProviderPerLoss SeedsFit
  SentApart   OnlyKnownDeadlocks AnswerHasSlot 
PROPERTIES BufferIsStack
CHECK_DEADLOCK FALSE
