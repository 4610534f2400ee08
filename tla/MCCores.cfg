\* The two disks, the second core and the preemptive tasks, one part at a time.
\* The last two come to their end.
CONSTANTS
  Blk = {b1, b2}
  Data = {z, d1}
  IdxMod = 3
  Zero = z
  MaxLate = 1
  Lba = {1}
  NvData = {z, d1}
  NVQ_DEPTH = 3
  NvZero = z
  NvMaxLate = 1
  SMP_M = 1
  SMP_N = 1
  MaxJobs = 2
  MayTimeOut = TRUE
  Demos <- CoresDemos
  EarlyTick = FALSE
  Parts = {"disk", "nvme", "smp", "sched"}
SPECIFICATION CoresSpec
INVARIANTS AnswerIsOwn CompletionIsOwn JoinSeesWork ContextsKept
PROPERTIES BootEnds DemosEnd
CHECK_DEADLOCK FALSE
