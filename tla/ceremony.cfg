CONSTANTS
  N = 3
  T = 2
  Spreads <- MCSpreads
  MaxLost = 1
SPECIFICATION FairSpec
CHECK_DEADLOCK FALSE
INVARIANTS
  CeremonyTypeOK
  PhasesComputable
  NumbersDistinct
PROPERTIES
  RefinesLockstep
  CeremonyEnds
