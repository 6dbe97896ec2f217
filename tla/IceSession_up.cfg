CONSTANTS
  MaxDepth = 5
  MaxKeys = 1
  MaxText = 1
  KbdSites <- HookedOnly
  UserEvents <- AllEvents
SPECIFICATION FairSpec
INVARIANTS TypeOK SessionExclusive HookedOnlyWhileEngaged ResumeHonoured OnlyHotkeyIsPreempted BoundedNesting
PROPERTIES NextTimerPauses BreakHonoured ImplementsDebugger
