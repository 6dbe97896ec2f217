CONSTANTS
  MaxDepth = 4
  MaxKeys = 1
  MaxText = 1
  KbdSites <- OtherOnly
  UserEvents <- AllEvents
SPECIFICATION Spec
PROPERTIES NextTimerPauses
