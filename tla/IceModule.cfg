SPECIFICATION Spec
CONSTANTS
  cpu0 = cpu0
  cpu1 = cpu1
  kbdA = kbdA
  kbdB = kbdB
  CPUs = {cpu0, cpu1}
  Devices = {kbdA, kbdB}
  CpuOf <- SameCpu
  MaxEvents = 3
  MaxCalls = 2
INVARIANTS NeverTorn DeliveredOnce CleanUnload
PROPERTIES HookedAgain
CHECK_DEADLOCK FALSE
