-------------------------------- MODULE Smp --------------------------------
(***************************************************************************)
(* The second core (kernel.c S1-S4 and U-3): bring-up, the inter-processor *)
(* interrupts, the xchg spinlock, and the mailbox through which the boot   *)
(* core (BSP) hands jobs to the application core (AP) and joins them.      *)
(*                                                                         *)
(* Every access to a word both cores use is a step of its own.  x86 keeps  *)
(* the stores of one core in order and the lock is a locked exchange; no   *)
(* word pair here is used store-then-load by both sides, so interleaving   *)
(* the steps is all the hardware can do.  Every wait of the BSP is bounded *)
(* in the code: it may give up as long as what it waits for has not come.  *)
(***************************************************************************)
EXTENDS Naturals

CONSTANTS SMP_M,     \* unlocked increments of a work loop
          SMP_N,     \* locked increments of a work loop
          MaxJobs,   \* jobs the BSP dispatches before the shutdown
          MayTimeOut \* whether a bounded wait may run out

VARIABLES bsp,   \* the boot core's dense slot (the other core has the other one)
          core,  \* per core: where it is, the job it runs and its registers
          mem,   \* the words both cores use
          irq,   \* IPIs sent and not yet taken
          jobs,  \* jobs dispatched so far
          overdue   \* some bounded wait has run out

svars == <<bsp, core, mem, irq, jobs, overdue>>

Core == {"bsp", "ap"}
Slot == 0..1
Job  == {"proc", "drf", "racy"}
NoJob == "none"

SlotOf(c) == IF c = "bsp" THEN bsp ELSE 1 - bsp

(* The start flag a job spins on: g_smp_go, u3_go or u3_dr_go. *)
Flag(j) == CASE j = "s4" -> "smp" [] j = "proc" -> "u3" [] OTHER -> "dr"

At(c, pc) == core[c].pc = pc
Go(c, pc) == core' = [core EXCEPT ![c].pc = pc]

(* run_smp has filled percpu[] and marked the BSP up before it releases the AP. *)
SmpInit ==
  /\ bsp \in Slot
  /\ core = [c \in Core |-> [pc   |-> IF c = "bsp" THEN "start" ELSE "held",
                             job  |-> "s4", i |-> 0, reg |-> 0, gen |-> 0,
                             own |-> TRUE]]
  /\ mem = [up       |-> [s \in Slot |-> s = bsp],     announced |-> FALSE,
            received |-> [s \in Slot |-> FALSE],       counter   |-> [s \in Slot |-> 0],
            go       |-> [f \in {"smp", "u3", "dr"} |-> FALSE],
            lock |-> FALSE, race |-> 0, locked |-> 0, done |-> FALSE, idx |-> 0,
            fn |-> NoJob, kick |-> FALSE, gen |-> 0, shutdown |-> FALSE,
            slot |-> [s \in Slot |-> 0]]
  /\ irq = {} /\ jobs = 0 /\ overdue = FALSE

-----------------------------------------------------------------------------
(* smp_work, u3_proc and u3_drf: one routine with the job as parameter.    *)

WorkGo(c) ==
  /\ At(c, "go") /\ mem.go[Flag(core[c].job)]
  /\ core' = [core EXCEPT ![c].pc = IF core[c].job = "drf" THEN "own" ELSE "read",
                          ![c].i = 0]
  /\ UNCHANGED mem

WorkRead(c) ==
  /\ At(c, "read")
  /\ core' = [core EXCEPT ![c].reg = mem.race, ![c].pc = "write"]
  /\ UNCHANGED mem

WorkWrite(c) ==
  /\ At(c, "write")
  /\ mem' = [mem EXCEPT !.race = core[c].reg + 1]
  /\ core' = IF core[c].i + 1 < SMP_M
             THEN [core EXCEPT ![c].i = @ + 1, ![c].pc = "read"]
             ELSE [core EXCEPT ![c].i = 0, ![c].reg = 0,
                               ![c].pc = IF core[c].job = "racy" THEN "ret" ELSE "lock"]

(* Mutant: the lock word is read and written without the exchange. *)
TestOnly(c) ==
  /\ At(c, "lock") /\ ~mem.lock
  /\ Go(c, "lread") /\ UNCHANGED mem

smp_lock(c) ==
  /\ At(c, "lock") /\ ~mem.lock
  /\ mem' = [mem EXCEPT !.lock = TRUE]
  /\ Go(c, "lread")

LockedRead(c) ==
  /\ At(c, "lread")
  /\ core' = [core EXCEPT ![c].reg = mem.locked, ![c].pc = "lwrite"]
  /\ UNCHANGED mem

LockedWrite(c) ==
  /\ At(c, "lwrite")
  /\ mem' = [mem EXCEPT !.locked = core[c].reg + 1]
  /\ core' = [core EXCEPT ![c].reg = 0, ![c].pc = "unlock"]

smp_unlock(c) ==
  /\ At(c, "unlock")
  /\ mem' = [mem EXCEPT !.lock = FALSE]
  /\ core' = IF core[c].i + 1 < SMP_N
             THEN [core EXCEPT ![c].i = @ + 1, ![c].pc = "lock"]
             ELSE [core EXCEPT ![c].pc = "count"]

WorkCount(c) ==
  /\ At(c, "count")
  /\ mem' = [mem EXCEPT !.counter[SlotOf(c)] = @ + 1]
  /\ Go(c, "ret")

(* The race-free job writes the core's own slot only. *)
WorkOwn(c) ==
  /\ At(c, "own")
  /\ mem' = [mem EXCEPT !.slot[SlotOf(c)] = 1 + SlotOf(c)]
  /\ Go(c, "ret")

JobStep(c) ==
  /\ \/ WorkGo(c) \/ WorkRead(c) \/ WorkWrite(c) \/ smp_lock(c) \/ LockedRead(c)
     \/ LockedWrite(c) \/ smp_unlock(c) \/ WorkCount(c) \/ WorkOwn(c)
  /\ UNCHANGED <<bsp, irq, jobs, overdue>>

(* isr_ipi on a core with interrupts on: note it in the core's own slot, EOI. *)
isr_ipi(c) ==
  /\ c \in irq
  /\ ~(c = "bsp" /\ core[c].pc \in {"start", "up?", "announced?"})
  /\ ~(c = "ap" /\ core[c].pc \in {"held", "entry", "up", "parked"})
  /\ irq' = irq \ {c}
  /\ mem' = [mem EXCEPT !.received[SlotOf(c)] = TRUE]
  /\ UNCHANGED <<bsp, core, jobs, overdue>>

-----------------------------------------------------------------------------
(* The application core. *)

ApUp ==
  /\ At("ap", "entry")
  /\ mem' = [mem EXCEPT !.received[1 - bsp] = FALSE, !.counter[1 - bsp] = 0,
                        !.up[1 - bsp] = TRUE]
  /\ Go("ap", "up") /\ UNCHANGED irq

(* announce, sti, and the interrupt to the BSP. *)
ApAnnounce ==
  /\ At("ap", "up")
  /\ mem' = [mem EXCEPT !.announced = TRUE]
  /\ irq' = irq \cup {"bsp"}
  /\ Go("ap", "go")

(* smp_work returns: g_ap_done=1; g_ap_idx is published by the next store. *)
ApS4Done ==
  /\ At("ap", "ret") /\ core["ap"].job = "s4"
  /\ mem' = [mem EXCEPT !.done = TRUE]
  /\ Go("ap", "publish") /\ UNCHANGED irq

ApPublish ==
  /\ At("ap", "publish")
  /\ mem' = [mem EXCEPT !.idx = 1 - bsp]
  /\ Go("ap", "idle") /\ UNCHANGED irq

ApWake ==
  /\ At("ap", "idle") /\ (mem.kick \/ mem.shutdown)
  /\ Go("ap", IF mem.shutdown THEN "parked" ELSE "take") /\ UNCHANGED <<mem, irq>>

ApTake ==
  /\ At("ap", "take")
  /\ mem' = [mem EXCEPT !.kick = FALSE]
  /\ Go("ap", "call") /\ UNCHANGED irq

ApCall ==
  /\ At("ap", "call")
  /\ core' = [core EXCEPT !["ap"].job = mem.fn,
                          !["ap"].pc = IF mem.fn = NoJob THEN "ret" ELSE "go"]
  /\ UNCHANGED <<mem, irq>>

ApReport ==
  /\ At("ap", "ret") /\ core["ap"].job # "s4"
  /\ mem' = [mem EXCEPT !.gen = @ + 1]
  /\ Go("ap", "idle") /\ UNCHANGED irq

ApStep ==
  /\ \/ ApUp \/ ApAnnounce \/ ApS4Done \/ ApPublish \/ ApWake \/ ApTake \/ ApCall
     \/ ApReport
  /\ UNCHANGED <<bsp, jobs, overdue>>

-----------------------------------------------------------------------------
(* The boot core. *)

(* A bounded wait ends when its condition holds or, before that, at its bound. *)
Wait(pc, cond, then, expired) ==
  /\ At("bsp", pc)
  /\ \/ cond /\ Go("bsp", then) /\ UNCHANGED overdue
     \/ ~cond /\ MayTimeOut /\ Go("bsp", expired) /\ overdue' = TRUE
  /\ UNCHANGED <<bsp, mem, irq, jobs>>

BspStart ==
  /\ At("bsp", "start")
  /\ core' = [core EXCEPT !["bsp"].pc = "up?", !["ap"].pc = "entry"]
  /\ UNCHANGED <<mem, irq, jobs>>

BspSendIpi ==
  /\ At("bsp", "send")
  /\ mem' = [mem EXCEPT !.received[1 - bsp] = FALSE]
  /\ irq' = irq \cup {"ap"}
  /\ Go("bsp", "fwd?") /\ UNCHANGED jobs

BspReset ==
  /\ At("bsp", "reset")
  /\ mem' = [mem EXCEPT !.race = 0, !.locked = 0, !.lock = FALSE, !.done = FALSE]
  /\ Go("bsp", "release") /\ UNCHANGED <<irq, jobs>>

(* Mutant: the BSP goes to its half, and never raises the start flag. *)
BspHoldsBack ==
  /\ At("bsp", "release")
  /\ Go("bsp", IF core["bsp"].own THEN "go" ELSE "gen?") /\ UNCHANGED <<mem, irq, jobs>>

(* Sets the job's start flag and runs the BSP's half, or (the U3-5 loop) only joins. *)
BspRelease ==
  /\ At("bsp", "release")
  /\ mem' = [mem EXCEPT !.go[Flag(core["bsp"].job)] = TRUE]
  /\ Go("bsp", IF core["bsp"].own THEN "go" ELSE "gen?") /\ UNCHANGED <<irq, jobs>>

BspHalfDone ==
  /\ At("bsp", "ret")
  /\ Go("bsp", IF core["bsp"].job = "s4" THEN "done?" ELSE "gen?")
  /\ UNCHANGED <<mem, irq, jobs>>

(* run_u3u4's test that the second core is there. *)
U3Enter ==
  /\ At("bsp", "u3")
  /\ Go("bsp", IF mem.up[mem.idx] THEN "dispatch" ELSE "end")
  /\ UNCHANGED <<mem, irq, jobs>>

U3Dispatch(j, own) ==
  /\ At("bsp", "dispatch") /\ jobs < MaxJobs
  /\ own \/ j = "drf"
  /\ jobs' = jobs + 1
  /\ mem' = [mem EXCEPT !.race = 0, !.locked = 0, !.slot = [s \in Slot |-> 0],
                        !.go[Flag(j)] = FALSE]
  /\ core' = [core EXCEPT !["bsp"].job = j, !["bsp"].own = own,
                          !["bsp"].gen = mem.gen, !["bsp"].pc = "fn"]
  /\ UNCHANGED irq

(* ap_kick: the function first, then the flag. *)
KickFn ==
  /\ At("bsp", "fn")
  /\ mem' = [mem EXCEPT !.fn = core["bsp"].job]
  /\ Go("bsp", "kick") /\ UNCHANGED <<irq, jobs>>

KickFlag ==
  /\ At("bsp", "kick")
  /\ mem' = [mem EXCEPT !.kick = TRUE]
  /\ Go("bsp", IF core["bsp"].job = NoJob THEN "end" ELSE "release") /\ UNCHANGED <<irq, jobs>>

(* The cut: the BSP reads both slots and the counters after the join. *)
BspCut ==
  /\ At("bsp", "cut") /\ Go("bsp", "dispatch")
  /\ UNCHANGED <<mem, irq, jobs>>

U3Shutdown ==
  /\ At("bsp", "dispatch") /\ jobs = MaxJobs
  /\ mem' = [mem EXCEPT !.shutdown = TRUE]
  /\ core' = [core EXCEPT !["bsp"].job = NoJob, !["bsp"].pc = "fn"]
  /\ UNCHANGED <<irq, jobs>>

BspWait ==
  \/ Wait("up?", mem.up[1 - bsp], "announced?", "u3")
  \/ Wait("announced?", mem.announced, "send", "send")
  \/ Wait("fwd?", mem.received[1 - bsp], "rev?", "rev?")
  \/ Wait("rev?", mem.received[bsp], "reset", "reset")
  \/ Wait("done?", mem.done, "s4", "s4")
  \/ Wait("gen?", mem.gen # core["bsp"].gen, "cut", "cut")

BspStep ==
  \/ BspWait
  \/ /\ \/ BspStart \/ BspSendIpi \/ BspReset \/ BspRelease \/ BspHalfDone
        \/ U3Enter \/ KickFn \/ KickFlag \/ BspCut \/ U3Shutdown
        \/ \E j \in Job, own \in BOOLEAN : U3Dispatch(j, own)
        \/ At("bsp", "s4") /\ Go("bsp", "u3") /\ UNCHANGED <<mem, irq, jobs>>
     /\ UNCHANGED <<bsp, overdue>>

SmpNext == BspStep \/ ApStep \/ \E c \in Core : JobStep(c) \/ isr_ipi(c)

(* Both cores run: each goes on with its program or takes an interrupt.    *)
SmpFairness ==
  /\ WF_svars(BspStep \/ JobStep("bsp") \/ isr_ipi("bsp"))
  /\ WF_svars(ApStep \/ JobStep("ap") \/ isr_ipi("ap"))

SmpSpec == SmpInit /\ [][SmpNext]_svars /\ SmpFairness

-----------------------------------------------------------------------------
InSection(c) == core[c].pc \in {"lread", "lwrite", "unlock"}

(* The lock excludes, whatever waits have run out and whichever job is late; *)
(* and a join that no timeout has preceded sees the other core's half        *)
(* complete: after g_ap_done (S4) the locked counter and both per-CPU        *)
(* counters are exact; after ap_wait the AP runs nothing, the locked counter *)
(* of u3_proc is exact and the cut of u3_drf holds both cores' results.      *)
(* After a timeout that is false: the late job's generation ends the next    *)
(* wait.                                                                     *)
JoinSeesWork ==
  /\ ~(InSection("bsp") /\ InSection("ap"))
  /\ ~overdue =>
       /\ At("bsp", "s4") => /\ mem.locked = 2 * SMP_N
                             /\ \A s \in Slot : mem.counter[s] = 1
       /\ At("bsp", "cut") =>
            /\ core["ap"].pc = "idle" /\ ~mem.kick
            /\ core["bsp"].job = "proc" => mem.locked = 2 * SMP_N
            /\ core["bsp"].job = "drf" =>
                 \A s \in Slot : mem.slot[s] = IF s # bsp \/ core["bsp"].own THEN 1 + s ELSE 0

(* The boot goes on behind U-3 however the second core behaves, and, unless  *)
(* a wait has run out, with the AP parked: no kick is lost, no start flag is *)
(* withdrawn before the AP has seen it, and the shutdown reaches the worker  *)
(* loop ("On shutdown the AP parks", kernel.c:5912).                         *)
BootGoesOn == <>[](At("bsp", "end") /\ (overdue \/ At("ap", "parked")))
=============================================================================
