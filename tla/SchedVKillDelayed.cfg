SPECIFICATION Spec
CONSTANTS
  MaxThreads = 4
  CreatePrios = {1}
  SchedDelayMax = 2
  Delays = {1}
  Timeouts = {0}
  Sources = {}
  WaitKinds = {}
  KillTargets = {{}, {"TIMEOUT"}}
  Calls = {"suspend", "delay", "kill"}
  MaxTime = 2
INVARIANT RemovedIsQueued
