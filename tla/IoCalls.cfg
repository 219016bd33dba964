SPECIFICATION Spec
CONSTANTS
  Thread = {t1, t2}
  NoThread = NoThread
  Eternal = {}
  MaxTime = 1
  WaitQueue = {"r", "w"}
  MaxItems = 3
  Aliases = FALSE
  Null = Null
  Device = {"uart", "kbd", "mouse"}
  Job = {"read", "write", "poll", "timed", "none"}
  Sharing = FALSE
  BUF_SIZE = 4
  RX_SEQ_MAX = 2
  TX_SEQ_MAX = 2
  FifoSize = 2
  Bytes = {1, 3}
  PollTimes = {0, 1}
  Races = FALSE
  Stops = FALSE
  KillIo = TRUE
CHECK_DEADLOCK FALSE
SYMMETRY Symmetry
INVARIANTS RingsSound WaitQueuesSound NobodyForgotten
