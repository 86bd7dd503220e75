SPECIFICATION Spec
CONSTANTS
  User = User
  Early = Early
  Agents <- LoopAgents
  Root = "root"
  Kind <- LoopKind
  Subs <- LoopSubs
  MaxIterations = 2
  DisallowPeers = {"helper"}
  DisallowParent = {}
  MaxLlmCalls = 2
  PauseModes = {FALSE, TRUE}
  Callbacks <- LoopCallbacks
  Responses = {"empty", "text", "chunk", "call"}
  Outcomes = {"plain", "escalate", "auth", "confirm", "authTransfer", "transfer", "skip", "end", "structured"}
  Targets = {"helper", "refine", "nobody"}
  Edits = {"text"}
  MaxTurns = 1
  MaxCalls = 2
  MaxResponses = 1
INVARIANTS
  TypeOK
  ResponsesFollowCalls
PROPERTIES
  EndedFrameAsksNothing
  AnsweredBeforeNextCall
  EscalateEndsLoops
  TurnEnds
