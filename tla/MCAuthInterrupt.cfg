SPECIFICATION Spec
CONSTANTS
  User = User
  Early = Early
  Agents <- LoopAgents
  Root = "root"
  Kind <- LoopKind
  Subs <- LoopSubs
  MaxIterations = 2
  DisallowPeers = {"helper"}
  DisallowParent = {}
  MaxLlmCalls = 3
  PauseModes = {FALSE}
  Callbacks <- LoopCallbacks
  Responses = {"empty", "text", "chunk", "call"}
  Outcomes = {"plain", "escalate", "auth", "confirm", "authTransfer", "transfer"}
  Targets = {"helper", "refine", "nobody"}
  Edits = {"text"}
  MaxTurns = 1
  MaxCalls = 2
  MaxResponses = 1
PROPERTY
  AuthInterrupts
