SPECIFICATION FairSpec
CONSTANTS
  Thread = {t1, t2}
  NoThread = NoThread
  Eternal = {}
  MaxTime = 2
  Queue = {q1}
  NoQueue = NoQueue
  Event = {a1, e1}
  EvTimeouts = {0, 1}
  WatchMany = FALSE
  Capacity = 2
  Alarm = {a1}
  AlmPeriod = {1, 2}
  Hasty = FALSE
  CreateCut = FALSE
  Kills = TRUE
CHECK_DEADLOCK FALSE
INVARIANTS EventsSound
PROPERTIES UntimedGetsEvent SentInTime EventWakes
