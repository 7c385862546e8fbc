SPECIFICATION Spec
CONSTANTS
  h1 = h1  h2 = h2  f1 = f1  f2 = f2  t1 = t1  t2 = t2  p1 = p1  p2 = p2
  NoTask = NoTask  NoHash = NoHash  NoFile = NoFile
  Hash = {h1, h2}
  File = {f1, f2}
  Task = {t1, t2}
  Handler = {t1, t2}
  Job = {t2}
  Process = {p1, p2}
  ProcessOf <- EachItsOwn
  Thumbnail = {h2}
  Importable = {}
  MayExpire = {f1, f2}
  SingleWriter = TRUE
  Faults = TRUE
  LateDeletes = TRUE
SYMMETRY FileSymmetry
INVARIANTS RefCountExact
