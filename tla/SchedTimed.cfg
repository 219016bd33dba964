SPECIFICATION Spec
CONSTANTS
  MaxThreads = 4
  CreatePrios = {1, 2}
  SchedDelayMax = 2
  Delays = {1, 2}
  Timeouts = {0, 1}
  Sources = {"io_wait"}
  WaitKinds = {"COMPLETION"}
  KillTargets = {{}}
  Calls = {"suspend", "may_suspend", "delay", "wait"}
  MaxTime = 2
INVARIANTS TypeOK WaitLoopHasHead QueuesSound
PROPERTIES NotEarly
