SPECIFICATION FairSpec
CONSTANTS
  Clients = {c1}
  RawPeers = {r1}
  Sessions = {s1}
  Operations = {o1, o2}
  Bindings = {b1, b2}
  Backlog = 1
  MaxSolves = 2
  MaxCalls = 3
  MaxFrames = 3
  MaxRestarts = 1
  None = None
INVARIANTS TypeOK TranscriptOwned DecidedOnce ReplyPairing FinishFindsTranscript
PROPERTIES NeverResumed CspIsSingleUse CallsEnd
CHECK_DEADLOCK FALSE
