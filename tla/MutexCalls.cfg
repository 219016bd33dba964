SPECIFICATION MCFairSpec
CONSTANTS
  t1 = t1
  t2 = t2
  t3 = t3
  t4 = t4
  m1 = m1
  m2 = m2
  Thread <- MCThree
  NoThread = NoThread
  Eternal = {}
  MaxTime = 0
  Mtx <- MCMtx
  NoMtx = NoMtx
  Slots = 4
  Timeouts = {0}
  Kills = TRUE
  Reuse = TRUE
  Untidy = FALSE
CHECK_DEADLOCK FALSE
INVARIANTS MutualExclusion WaitersKept
PROPERTIES LockReturned
