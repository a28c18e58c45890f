SPECIFICATION SslFairSpec
CONSTANTS
  Configs <- MCConfigs
  UserFiles <- MCUserFiles
  Locals = {"alice", "bob"}
  Listed = {"bob"}
  HasCaps = TRUE
  HasCapsNonRoot = TRUE
  None = None
  StrictReadEof = TRUE
  StrictShutdown = TRUE
  RequireReuse = FALSE
  AsyncAbor = TRUE
  MaxLines = 2
  MaxChunks = 1
INVARIANTS SslTypeOK NoBug LeastPrivilege ServedAsAuthenticated RequestsGuarded OneSpeaker InStep SlaveReleases UploadWhole
PROPERTIES NobodyLingers TimeoutsReach LoginSpec
CHECK_DEADLOCK FALSE
