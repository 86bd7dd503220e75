SPECIFICATION Spec
CONSTANTS
  t1 = t1
  t2 = t2
  u1 = u1
  s1 = s1
  s2 = s2
  x = x
  y = y
  e1 = e1
  e2 = e2
  App = App
  NoEvent = NoEvent
  Unset = Unset
  Given = Given
  Threads = {t1, t2}
  Users = {u1}
  Ids = {s1, s2}
  Vars = {x, y}
  Events = {e1, e2}
  Delta <- MCDelta
  Givens <- MCGivens
  MaxConvs = 2
  MaxDeletes = 1
SYMMETRY Callers
INVARIANTS
  TypeOK
  LostOnlyByOverlap
  CopyStateExplained
PROPERTY
  StoreSpec
