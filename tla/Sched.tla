-------------------------------- MODULE Sched --------------------------------
(***************************************************************************)
(* The task substrate of the kernel (kernel.c STEP 11): tasks on stacks of *)
(* their own, one switch routine, a round-robin pick, cooperative yields   *)
(* and a timer interrupt that may switch a task out between any two of its *)
(* steps.  A saved stack pointer is a context: whose stack it points into, *)
(* where that one continues, and whether it was saved by the interrupt,    *)
(* whose return turns interrupts on again.                                 *)
(***************************************************************************)
EXTENDS Integers, FiniteSets

CONSTANTS Demos,     \* [n: tasks, rounds of each, yields, timer]: the demonstrations
          EarlyTick  \* may the timer fire between start_tasks setting g_cur and
                     \* loading the first task's stack pointer

VARIABLES demo,       \* the demonstration under way
          state,      \* g_tasks[i].state
          rsp,        \* g_tasks[i].rsp
          main_rsp,   \* g_main_task.rsp
          g_cur,
          g_sched_on,
          cpu         \* the context running now, its local nxt and loaded rsp

hvars == <<demo, state, rsp, main_rsp, g_cur, g_sched_on, cpu>>

Main   == -1
Tasks  == 0..(demo.n - 1)
NoFrame == [who |-> Main, at |-> "none"]
Saved(who, at, r, isr) == [who |-> who, at |-> at, r |-> r, isr |-> isr, nxt |-> Main, to |-> NoFrame]
Boot(i) == Saved(i, "boot", 0, FALSE)
Running(c, iff) == [who |-> c.who, at |-> c.at, r |-> c.r, iff |-> iff, nxt |-> c.nxt, to |-> c.to]
(* what an interrupt saves: the registers are part of it *)
Interrupted == [Saved(cpu.who, cpu.at, cpu.r, TRUE) EXCEPT !.nxt = cpu.nxt, !.to = cpu.to]

(* The first ready or running task after cur, or -1 when all are done. *)
PickRunning(cur) ==
  LET ok(k) == state[(cur + k) % demo.n] = "running"
      ks    == {k \in 1..demo.n : ok(k)}
  IN  IF ks = {} THEN -1 ELSE (cur + (CHOOSE k \in ks : \A j \in ks : k <= j)) % demo.n
pick_next(cur) ==
  LET ok(k) == state[(cur + k) % demo.n] \in {"ready", "running"}
      ks    == {k \in 1..demo.n : ok(k)}
  IN  IF ks = {} THEN -1 ELSE (cur + (CHOOSE k \in ks : \A j \in ks : k <= j)) % demo.n

(* switch_to: continue from a saved context.  A context saved in the       *)
(* interrupt returns through IRET with interrupts on, any other one keeps  *)
(* the flag of the switch; a stack whose owner is running holds no frame.  *)
Resume(c, iff) ==
  IF c.who = cpu.who THEN [Running(c, iff) EXCEPT !.at = "wild"]
  ELSE Running(c, c.isr \/ iff)

OnCpu(who, at) == cpu.who = who /\ cpu.at = at
Goto(at) == [cpu EXCEPT !.at = at]
InTask(at) == cpu.who # Main /\ cpu.at = at

-----------------------------------------------------------------------------
(* task_create for every task of the demonstration, from kmain. *)
Created(d) ==
  /\ demo' = d
  /\ state' = [i \in 0..(d.n - 1) |-> "ready"]
  /\ rsp' = [i \in 0..(d.n - 1) |-> Boot(i)]
  /\ g_sched_on' = d.timer
  /\ cpu' = Running(Saved(Main, "start", 0, FALSE), TRUE)

SchedInit ==
  /\ demo \in Demos
  /\ state = [i \in Tasks |-> "ready"]
  /\ rsp = [i \in Tasks |-> Boot(i)]
  /\ main_rsp = Saved(Main, "none", 0, FALSE)
  /\ g_cur = -1
  /\ g_sched_on = demo.timer
  /\ cpu = Running(Saved(Main, "start", 0, FALSE), TRUE)

NextDemo ==
  /\ OnCpu(Main, "back")
  /\ \E d \in Demos : Created(d)
  /\ UNCHANGED <<main_rsp, g_cur>>

(* start_tasks, in its order. *)
StartCur ==
  /\ OnCpu(Main, "start") /\ g_cur' = 0 /\ cpu' = Goto("first")
  /\ UNCHANGED <<demo, state, rsp, main_rsp, g_sched_on>>
StartFirst ==
  /\ OnCpu(Main, "first")
  /\ state' = [state EXCEPT ![0] = "running"]
  /\ cpu' = Goto("load")
  /\ UNCHANGED <<demo, rsp, main_rsp, g_cur, g_sched_on>>
StartLoad ==
  /\ OnCpu(Main, "load") /\ cpu' = [Goto("jump") EXCEPT !.to = rsp[0]]
  /\ UNCHANGED <<demo, state, rsp, main_rsp, g_cur, g_sched_on>>
StartJump ==
  /\ OnCpu(Main, "jump")
  /\ main_rsp' = Saved(Main, "home", 0, FALSE)
  /\ cpu' = Resume(cpu.to, cpu.iff)
  /\ UNCHANGED <<demo, state, rsp, g_cur, g_sched_on>>
StartReturns ==
  /\ OnCpu(Main, "home")
  /\ g_cur' = -1 /\ g_sched_on' = FALSE /\ cpu' = Goto("back")
  /\ UNCHANGED <<demo, state, rsp, main_rsp>>

(* task_trampoline turns interrupts on, then the task's function runs: a   *)
(* round of work, a yield after it where the task yields.                  *)
Enter ==
  /\ InTask("boot") /\ cpu' = [Goto("body") EXCEPT !.iff = TRUE]
  /\ UNCHANGED <<demo, state, rsp, main_rsp, g_cur, g_sched_on>>
TaskRound ==
  /\ InTask("body") /\ cpu.r < demo.rounds[cpu.who]
  /\ cpu' = [Goto(IF demo.yields THEN "yield" ELSE "body") EXCEPT !.r = @ + 1]
  /\ UNCHANGED <<demo, state, rsp, main_rsp, g_cur, g_sched_on>>

(* yield: pick, hand over, then load and switch. *)
Yield ==
  LET cur == g_cur
      nxt == pick_next(cur)
  IN
  /\ InTask("yield")
  /\ IF nxt < 0 \/ nxt = cur
     THEN cpu' = Goto("body") /\ UNCHANGED <<state, g_cur>>
     ELSE /\ state' = [state EXCEPT ![cur] = IF @ = "running" THEN "ready" ELSE @, ![nxt] = "running"]
          /\ g_cur' = nxt
          /\ cpu' = [Goto("yielding") EXCEPT !.nxt = nxt]
  /\ UNCHANGED <<demo, rsp, main_rsp, g_sched_on>>
YieldSavesInNext ==
  /\ InTask("yielding")
  /\ rsp' = [rsp EXCEPT ![g_cur] = Saved(cpu.who, "body", cpu.r, FALSE)]
  /\ cpu' = Resume(rsp[cpu.nxt], cpu.iff)
  /\ UNCHANGED <<demo, state, main_rsp, g_cur, g_sched_on>>
YieldSwitch ==
  /\ InTask("yielding")
  /\ rsp' = [rsp EXCEPT ![cpu.who] = Saved(cpu.who, "body", cpu.r, FALSE)]
  /\ cpu' = Resume(rsp[cpu.nxt], cpu.iff)
  /\ UNCHANGED <<demo, state, main_rsp, g_cur, g_sched_on>>

(* task_exit: done, pick, then the next task or, when none is left, kmain. *)
ExitDone ==
  /\ InTask("body") /\ cpu.r = demo.rounds[cpu.who]
  /\ state' = [state EXCEPT ![g_cur] = "done"]
  /\ cpu' = Goto("exit")
  /\ UNCHANGED <<demo, rsp, main_rsp, g_cur, g_sched_on>>
ExitPick ==
  /\ InTask("exit") /\ cpu' = [Goto("leave") EXCEPT !.nxt = pick_next(g_cur)]
  /\ UNCHANGED <<demo, state, rsp, main_rsp, g_cur, g_sched_on>>
ExitLast ==
  /\ InTask("leave") /\ cpu.nxt < 0
  /\ g_sched_on' = FALSE /\ g_cur' = -1
  /\ cpu' = Resume(main_rsp, cpu.iff)
  /\ UNCHANGED <<demo, state, rsp, main_rsp>>
ExitHandOver ==
  /\ InTask("leave") /\ cpu.nxt >= 0
  /\ state' = [state EXCEPT ![cpu.nxt] = "running"]
  /\ g_cur' = cpu.nxt
  /\ cpu' = Goto("leaving")
  /\ UNCHANGED <<demo, rsp, main_rsp, g_sched_on>>
ExitSwitch ==
  /\ InTask("leaving")
  /\ cpu' = Resume(rsp[cpu.nxt], cpu.iff)
  /\ UNCHANGED <<demo, state, rsp, main_rsp, g_cur, g_sched_on>>

(* isr_timer acknowledges the interrupt, then sched_tick runs with         *)
(* interrupts off: the context interrupted is saved as the current task's. *)
SwitchesOnTick == g_sched_on /\ g_cur >= 0
sched_tick ==
  LET cur == g_cur
      nxt == pick_next(cur)
  IN
  /\ cpu.iff /\ cpu.at # "wild" /\ SwitchesOnTick
  /\ ~EarlyTick => ~(cpu.who = Main /\ cpu.at \in {"first", "load", "jump"})
  /\ nxt >= 0 /\ nxt # cur
  /\ state' = [state EXCEPT ![cur] = IF @ = "running" THEN "ready" ELSE @, ![nxt] = "running"]
  /\ g_cur' = nxt
  /\ rsp' = [rsp EXCEPT ![cur] = Interrupted]
  /\ cpu' = Resume(rsp[nxt], FALSE)
  /\ UNCHANGED <<demo, main_rsp, g_sched_on>>

CpuStep ==
  \/ StartCur \/ StartFirst \/ StartLoad \/ StartJump \/ StartReturns
  \/ Enter \/ TaskRound \/ Yield \/ YieldSwitch
  \/ ExitDone \/ ExitPick \/ ExitLast \/ ExitHandOver \/ ExitSwitch

SchedNext == CpuStep \/ sched_tick \/ NextDemo
SchedSpec == SchedInit /\ [][SchedNext]_hvars /\ WF_hvars(CpuStep)

-----------------------------------------------------------------------------
(* Each unfinished task is on the CPU, or the stack pointer kept for it    *)
(* points into its own stack: no switch, yield or tick, wherever it lands  *)
(* in an exit or an entry, ever saves one task's context over another's.   *)
ContextsKept ==
  /\ cpu.at # "wild"
  /\ \A i \in Tasks : state[i] # "done" => cpu.who = i \/ rsp[i].who = i

(* A demonstration ends: every task runs its rounds, is done, and control  *)
(* is back in kmain behind start_tasks.                                    *)
BackInMain == OnCpu(Main, "start") ~> (OnCpu(Main, "back") /\ \A i \in Tasks : state[i] = "done")

(* "jump in; returns here when all DONE": kmain never switches into its    *)
(* own abandoned interrupt frame.                                          *)
NeverWild == cpu.at # "wild"
=============================================================================
