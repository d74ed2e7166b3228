\* Three boots of two binaries over three migrations.
CONSTANTS
  branch = branch
  deployed = deployed
  rerun = rerun
  Boots = {branch, deployed, rerun}
  Versions <- EarlyAndLate
  Embedded <- Binaries

SPECIFICATION FairSpec

INVARIANTS
  TypeOK
  AppliedOnce
  NobodyRepeats
  ServesMigrated
PROPERTIES
  InOrder
  BootsFinish

\* Every boot may end up dead, and every session ended.
CHECK_DEADLOCK FALSE
