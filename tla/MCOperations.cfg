SPECIFICATION Spec
CONSTANTS
  loop = loop  u1 = u1  s1 = s1  s2 = s2  s3 = s3  h1 = h1  h2 = h2  a1 = a1  b1 = b1
  p1 = p1  p2 = p2  m1 = m1  m2 = m2
  nobody = nobody  stranger = stranger  owner = owner  mod = mod  admin = admin
  Runner = {loop}
  Loop = loop
  MaxUpload = 2
  MaxLost = 1
  RetryLimit = 1
  MetadataLimit = 1
  OnError = "quarantined"
  NoFile = NoFile
  Upload = {u1}
  Scrap = {s1, s2, s3}
  NoScrap = NoScrap
  Admin = {a1}
  Blocker = {b1}
  BlockHash = {h1, h2}
  FileSettings <- Configured
  Environments <- Environs
  Typed <- FormValues
  Idle = Idle
  Server = {p1, p2}
  Supports <- OneVersionOn
  Member = {m1, m2}
  Postgres = TRUE
  NoServer = NoServer
  NoMember = NoMember
  Ids = {1, 2}
  LastSecond = 2
  MaxItems = 3
  PageSize = 1
  NoCursor = NoCursor
  Visitor = {nobody, stranger, owner, mod, admin}
  RoleOf <- Visitors
  OwnerOf = owner
  Modes <- EveryMode
  MaxSize = 2
  MaxCached = 1
INVARIANTS ScratchInvariant SettingsInvariant MigrationsInvariant BrowseInvariant DeliveryInvariant
PROPERTIES ScratchReclaimed ImageProcessed VerifyRuns HashesKept
CHECK_DEADLOCK FALSE
