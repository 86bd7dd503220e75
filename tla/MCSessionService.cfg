SPECIFICATION Spec
CONSTANTS
  t1 = t1
  t2 = t2
  u1 = u1
  u2 = u2
  s1 = s1
  e1 = e1
  e2 = e2
  e3 = e3
  NoThread = NoThread
  NoEvent = NoEvent
  Unset = Unset
  Given = Given
  Threads = {t1, t2}
  Users = {u1}
  Ids = {s1}
  Events = {e1, e2, e3}
  ScopeOf <- MCScopeOf
  Partials <- MCPartials
  InitialScopes <- MCInitialScopes
  MaxEntries = 2
  MaxDeletes = 1
  DeletesOverlap = FALSE
INVARIANTS
  TypeOK
  OneWriterPerSession
  NoLostEvent
  StateMatchesHistory
  CopyOrderKept
PROPERTIES
  AppendReturns
  StoreSpec
