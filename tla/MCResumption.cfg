SPECIFICATION Spec
CONSTANTS
  User = User
  Early = Early
  Agents <- FlowAgents
  Root = "root"
  Kind <- FlowKind
  Subs <- FlowSubs
  MaxIterations = 1
  DisallowPeers = {}
  DisallowParent = {}
  MaxLlmCalls = 0
  PauseModes = {FALSE, TRUE}
  Callbacks <- FlowCallbacks
  Responses = {"chunk", "call", "longCall"}
  Outcomes = {"plain", "none", "exit", "authConfirm", "transfer"}
  Targets = {"flow", "editor"}
  Edits = {"response"}
  MaxTurns = 2
  MaxCalls = 2
  MaxResponses = 2
INVARIANTS
  HistoryMatchesStream
  AnswerReachesCaller
