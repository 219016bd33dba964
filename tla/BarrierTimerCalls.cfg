SPECIFICATION MCFairSpec
CONSTANTS
  Thread = {tmr, t2, t3}
  NoThread = NoThread
  Eternal = {tmr}
  MaxTime = 3
  Barrier = {b1, bar, b3}
  NoBarrier = NoBarrier
  AutoClose = {bar}
  Timer = {x1, x2}
  TimersThread = tmr
  Bar = bar
  Period = {1, 2}
  Stops = FALSE
  Toggles = FALSE
  Isr = {b1, bar, b3}
  Closed = {b1}
  Destroys = "unused"
  Late = {t3}
CHECK_DEADLOCK FALSE
INVARIANTS WaitersKnown
PROPERTIES OpenResumes CallbackInTime DueCalled
