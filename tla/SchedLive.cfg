SPECIFICATION FairSpec
CONSTANTS
  MaxThreads = 4
  CreatePrios = {1}
  SchedDelayMax = 2
  Delays = {1}
  Timeouts = {0, 1}
  Sources = {"io_wait"}
  WaitKinds = {"COMPLETION"}
  KillTargets = {{}}
  Calls = {"suspend", "delay", "wait"}
  MaxTime = 2
PROPERTY ResumedLeaves TimeoutEnds
