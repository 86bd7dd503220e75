SPECIFICATION Spec
CONSTANTS
  t1 = t1
  t2 = t2
  s1 = s1
  s2 = s2
  s3 = s3
  Missing = Missing
  Torn = Torn
  Mixed = Mixed
  NoSave = NoSave
  Threads = {t1, t2}
  Saves = {s1, s2, s3}
  MaxDeletes = 0
INVARIANT
  FreshVersion
