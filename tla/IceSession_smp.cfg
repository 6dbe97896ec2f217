CONSTANTS
  MaxDepth = 3
  MaxKeys = 1
  MaxText = 1
  KbdSites <- OtherOnly
  UserEvents <- ExitEvents
SPECIFICATION Spec
INVARIANTS RunningSession
