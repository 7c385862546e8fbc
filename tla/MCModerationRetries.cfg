SPECIFICATION FairSpec
CONSTANTS
  f1 = f1  f2 = f2  f3 = f3  x1 = x1  r1 = r1  r2 = r2
  m1 = m1  m2 = m2  d1 = d1  s1 = s1  s2 = s2
  NoTask = NoTask  NoItem = NoItem
  Rank <- ById
  Age <- ByAge
  MayExpire = {}
  File = {f1, f2}
  Paste = {x1}
  Report = {}
  Moderator = {m1}
  Deleter = {d1}
  Scanner = {s1}
  Scanning = TRUE
  Hopeless = {f2}
  RetryLimit = 2
CHECK_DEADLOCK FALSE
PROPERTIES VerdictsResolved WithheldKept RetiredFilesStay
