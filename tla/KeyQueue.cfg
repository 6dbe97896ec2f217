CONSTANTS
  KEYQ_MAX <- Max4
  Keys <- TwoKeys
SPECIFICATION FairSpec
INVARIANTS TypeOK NoLap
PROPERTIES DropOnlyWhenFull KeyWakesReader ImplementsFifo
