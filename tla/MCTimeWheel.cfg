SPECIFICATION Spec
CONSTANTS
  t1 = t1
  t2 = t2
  Timer <- MCTimer
  Timeout = {0, 2, 3, 4}
  nslosts_ = 3
  IntMod = 8
  UllMod = 32
  Boot <- MCBoot
  MaxNap = 3
  MaxTick = 8
INVARIANTS TypeOK FiresOnTime NoDrift
SYMMETRY MCSymmetry
CHECK_DEADLOCK FALSE
