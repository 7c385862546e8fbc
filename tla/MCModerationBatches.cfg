SPECIFICATION Spec
CONSTANTS
  f1 = f1  f2 = f2  f3 = f3  x1 = x1  r1 = r1  r2 = r2
  m1 = m1  m2 = m2  d1 = d1  s1 = s1  s2 = s2
  NoTask = NoTask  NoItem = NoItem
  Rank <- ById
  Age <- ByAge
  MayExpire = {f1, x1}
  File = {f1}
  Paste = {x1}
  Report = {r1, r2}
  Moderator = {m1, m2}
  Deleter = {}
  Scanner = {}
  Scanning = FALSE
  Hopeless = {}
  RetryLimit = 1
SYMMETRY ModeratorSymmetry
INVARIANTS ModerationInvariant NoStandstill
PROPERTIES RetiredFilesStay
