SPECIFICATION Spec
CONSTANTS
  Key <- MCKey
  hash <- MChash
  primeNum <- MCprimeNum
  Lsn = {1, 2}
  Preload = 17
  PreloadKey = "a"
  MaxCopies <- MCMaxCopies
INVARIANTS NothingLost MissedOnlyIfCollides  OverrunNeedsChains
CHECK_DEADLOCK FALSE
