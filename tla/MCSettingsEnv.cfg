SPECIFICATION Spec
CONSTANTS
  a1 = a1  b1 = b1  h1 = h1
  Admin = {a1}
  Blocker = {b1}
  BlockHash = {h1}
  FileSettings <- Configured
  Environments <- ScanByEnv
  Typed <- FormValues
  Idle = Idle
INVARIANT EnvNeverStored
CHECK_DEADLOCK FALSE
