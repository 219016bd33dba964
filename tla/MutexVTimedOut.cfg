SPECIFICATION MCSpec
CONSTANTS
  t1 = t1
  t2 = t2
  t3 = t3
  t4 = t4
  m1 = m1
  m2 = m2
  Thread = {t1, t2, t3}
  NoThread = NoThread
  Eternal = {}
  MaxTime = 1
  Mtx = {m1}
  NoMtx = NoMtx
  Slots = 4
  Timeouts = {1}
  Kills = FALSE
  Reuse = FALSE
  Untidy = FALSE
CHECK_DEADLOCK FALSE
INVARIANT OwnerAsked
