SPECIFICATION HsSpec
CONSTANTS
  MAX_STARTUP_LEN = 20
  SCAN_CAP = 6
  HsScenes <- MCScenes
  Passwords <- MCPasswords
  OtherKey <- MCOtherKey
  HsChunks = {1, 2, 3, 5, 12}
INVARIANTS SessionExact 
CHECK_DEADLOCK FALSE
