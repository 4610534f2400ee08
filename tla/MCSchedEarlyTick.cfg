\* A timer tick while start_tasks is on its way into the first task.
CONSTANTS
  Demos <- MCDemos
  EarlyTick = TRUE
SPECIFICATION SchedSpec
INVARIANT NeverWild
