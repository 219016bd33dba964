SPECIFICATION Spec
CONSTANTS
  MaxThreads = 4
  CreatePrios = {1, 2}
  SchedDelayMax = 2
  Delays = {}
  Timeouts = {0}
  Sources = {"events"}
  WaitKinds = {"EVENT", "MUTEX"}
  KillTargets = {{}, {"EVENT"}}
  Calls = {"suspend", "may_suspend", "wait", "terminate", "create", "kill", "unlock"}
  MaxTime = 0
INVARIANTS ThreadsKept IdleSchedulable
PROPERTIES ImplementsThreads
