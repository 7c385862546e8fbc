SPECIFICATION Spec
CONSTANTS
  ann = ann  ada = ada  p1 = p1  r1 = r1  r2 = r2
  f1 = f1  f2 = f2  f3 = f3  s1 = s1  s2 = s2  login = login  upload = upload
  None = None  NoRow = NoRow  Nobody = Nobody  Anonymous = Anonymous
  Author = {ann, ada}
  Admin = {ada}
  Paste = {p1}
  Request = {r1, r2}
  MaxText = 3
  TokensGiven = TRUE
  Features = {"pastes", "paste_editing", "api"}
  Rules <- OpenRules
  Account = {ann}
  File = {f1, f2, f3}
  Replica = {s1, s2}
  Sizes = {1}
  Quota <- SmallQuota
  Process = {s1, s2}
  Action = {login, upload}
  Identity = {ann}
  Requests <- FewRequests
  Window <- LongAndShort
  Backends = {TRUE, FALSE}
  Lag = 1
  Retention = 3
  Eternity = 6
  PreviewBytes = 24
  MaxSegments = 2
CHECK_DEADLOCK FALSE
SYMMETRY Symmetries
INVARIANTS PastesInvariant HistoryKept QuotasInvariant LimitsInvariant StrippingInvariant
PROPERTIES OwnerStays CountsLast
