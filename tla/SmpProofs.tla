----------------------------- MODULE SmpProofs -----------------------------
(* Proofs about Smp: the two cores' lock excludes, and a join sees both halves of the
   work, in every interleaving. *)
EXTENDS Smp, TLAPS

Loops == SMP_M \in Nat \ {0} /\ SMP_N \in Nat \ {0}

(* Where a core can be: in the jobs' routine, or in its own program. *)
Section == {"lread", "lwrite", "unlock"}
Locking == {"lock"} \cup Section
Counts  == Locking \cup {"count"}
JobPc   == {"go", "read", "write", "own", "ret"} \cup Counts
Early   == {"start", "up?", "announced?", "send", "fwd?", "rev?", "reset"}
BspPc   == JobPc \cup Early \cup {"release", "done?", "s4", "u3", "dispatch", "fn", "kick", "gen?", "cut", "end"}
ApPc    == JobPc \cup {"held", "entry", "up", "publish", "idle", "take", "call", "parked"}
AnyJob  == Job \cup {"s4", NoJob}

CoreRec == [pc : BspPc \cup ApPc, job : AnyJob, i : Nat, reg : Nat, gen : Nat, own : BOOLEAN]
MemRec  == [up : [Slot -> BOOLEAN], announced : BOOLEAN, received : [Slot -> BOOLEAN],
            counter : [Slot -> Nat], go : [{"smp", "u3", "dr"} -> BOOLEAN], lock : BOOLEAN,
            race : Nat, locked : Nat, done : BOOLEAN, idx : Slot, fn : Job \cup {NoJob},
            kick : BOOLEAN, gen : Nat, shutdown : BOOLEAN, slot : [Slot -> Nat]]

SmpTypes ==
  /\ bsp \in Slot
  /\ core \in [Core -> CoreRec] /\ core["bsp"].pc \in BspPc /\ core["ap"].pc \in ApPc
  /\ mem \in MemRec

(* Which job brings a core where; a loop's counter is below its bound. *)
JobOK(c) ==
  /\ core[c].pc \in JobPc => core[c].job # NoJob \/ (c = "ap" /\ core[c].pc = "ret")
  /\ core[c].pc \in {"held", "entry", "up"} => core[c].job = "s4"
  /\ core[c].pc = "own" => core[c].job = "drf"
  /\ core[c].pc \in {"read", "write"} => core[c].job \in {"s4", "proc", "racy"}
  /\ core[c].pc \in Counts => core[c].job \in {"s4", "proc"}
  /\ core[c].pc \in Locking => core[c].i < SMP_N
BspOK ==
  /\ core["bsp"].pc \in Early \cup {"done?", "s4"} => core["bsp"].job = "s4"
  /\ core["bsp"].pc \in {"gen?", "cut"} => core["bsp"].job \in Job
  /\ core["bsp"].pc \in {"fn", "kick"} => core["bsp"].job \in Job \cup {NoJob}
  /\ core["bsp"].pc = "release" => core["bsp"].job \in Job \cup {"s4"}
  /\ ~core["bsp"].own => core["bsp"].job \in {"drf", NoJob}
  /\ core["bsp"].job = "s4" \/ core["bsp"].pc \in JobPc => core["bsp"].own

(* The lock is held while a core is in its section, and by one core only.  run_smp
   clears it when the second core is still waiting for the start flag. *)
Exclusion ==
  /\ \A c \in Core : InSection(c) => mem.lock
  /\ ~(InSection("bsp") /\ InSection("ap"))
  /\ core["bsp"].pc \in Early =>
       /\ core["ap"].pc \in {"held", "entry", "up", "go"} /\ core["ap"].job = "s4"
       /\ ~mem.go["smp"]

SmpLock == SmpTypes /\ (\A c \in Core : JobOK(c)) /\ BspOK /\ Exclusion

LEMMA InitLock == Loops /\ SmpInit => SmpLock
<1> SUFFICES ASSUME Loops, SmpInit PROVE SmpLock
  BY Zenon
<1>1. /\ core = [c \in Core |-> [pc |-> IF c = "bsp" THEN "start" ELSE "held", job |-> "s4", i |-> 0,
                                 reg |-> 0, gen |-> 0, own |-> TRUE]]
      /\ bsp \in Slot
  BY Zenon DEF SmpInit
<1>2. /\ core["bsp"].pc = "start" /\ core["bsp"].job = "s4" /\ core["bsp"].own
      /\ core["ap"].pc = "held" /\ core["ap"].job = "s4"
  BY Zenon, <1>1 DEF Core
<1>3. core \in [Core -> CoreRec]
  BY Zenon, <1>1 DEF Core, CoreRec, BspPc, ApPc, AnyJob, Early, NoJob
<1>4. mem \in MemRec
  BY DEF SmpInit, MemRec, Slot, Job, NoJob
<1>5. SmpTypes
  BY Zenon, <1>1, <1>2, <1>3, <1>4 DEF SmpTypes, BspPc, ApPc, Early
<1>6. \A c \in Core : JobOK(c)
  BY Zenon, <1>2 DEF Core, JobOK, JobPc, Counts, Locking, Section
<1>7. BspOK
  BY Zenon, <1>2 DEF BspOK, Early
<1>8. ~mem.go["smp"]
  BY Zenon DEF SmpInit
<1>9. Exclusion
  BY Zenon, <1>2, <1>8 DEF Exclusion, InSection, Core
<1> QED BY Zenon, <1>5, <1>6, <1>7, <1>9 DEF SmpLock

(* A step of the jobs' routine leaves the other core's registers alone. *)
LEMMA JobFrame ==
  ASSUME SmpTypes, NEW c \in Core, JobStep(c)
  PROVE  /\ \A d \in Core : d # c => core'[d] = core[d]
         /\ core'[c].job = core[c].job /\ core'[c].gen = core[c].gen /\ core'[c].own = core[c].own
         /\ core' \in [Core -> CoreRec] /\ core[c].pc \in JobPc /\ core'[c].pc \in JobPc
         /\ mem' \in MemRec
         /\ UNCHANGED <<bsp, irq, jobs, overdue>>
<1> USE DEF SmpTypes, At, Go
<1> DEFINE Frame == /\ \A d \in Core : d # c => core'[d] = core[d]
                    /\ core'[c].job = core[c].job /\ core'[c].gen = core[c].gen
                    /\ core'[c].own = core[c].own
                    /\ core' \in [Core -> CoreRec] /\ core[c].pc \in JobPc /\ core'[c].pc \in JobPc
<1>0. UNCHANGED <<bsp, irq, jobs, overdue>>
  BY Zenon DEF JobStep
<1>1. CASE WorkGo(c)
  <2>0. PICK p \in {"own", "read"} : core' = [core EXCEPT ![c].pc = p, ![c].i = 0]
    BY Zenon, <1>1 DEF WorkGo
  <2>3. core[c].pc = "go"
    BY Zenon, <1>1 DEF WorkGo
  <2>1. Frame
    BY ZenonT(30), <2>0, <2>3 DEF CoreRec, BspPc, JobPc, Counts, Locking, Section
  <2>2. mem' \in MemRec
    BY Zenon, <1>1 DEF WorkGo, CoreRec, MemRec, SlotOf, Slot
  <2> QED BY Zenon, <1>0, <2>1, <2>2
<1>2. CASE WorkRead(c)
  <2>0. mem.race \in Nat
    BY Zenon DEF MemRec
  <2>1. Frame
    BY <1>2, <2>0 DEF WorkRead, CoreRec, BspPc, JobPc, Counts, Locking, Section
  <2>2. mem' \in MemRec
    BY Zenon, <1>2 DEF WorkRead, CoreRec, MemRec, SlotOf, Slot
  <2> QED BY Zenon, <1>0, <2>1, <2>2
<1>3. CASE WorkWrite(c)
  <2>1. Frame
    BY <1>3 DEF WorkWrite, CoreRec, BspPc, JobPc, Counts, Locking, Section, MemRec
  <2>2. mem' \in MemRec
    BY <1>3 DEF WorkWrite, CoreRec, MemRec, SlotOf, Slot
  <2> QED BY Zenon, <1>0, <2>1, <2>2
<1>4. CASE smp_lock(c)
  <2>1. Frame
    BY <1>4 DEF smp_lock, CoreRec, BspPc, JobPc, Counts, Locking, Section, MemRec
  <2>2. mem' \in MemRec
    BY Zenon, <1>4 DEF smp_lock, CoreRec, MemRec, SlotOf, Slot
  <2> QED BY Zenon, <1>0, <2>1, <2>2
<1>5. CASE LockedRead(c)
  <2>0. mem.locked \in Nat
    BY Zenon DEF MemRec
  <2>1. Frame
    BY <1>5, <2>0 DEF LockedRead, CoreRec, BspPc, JobPc, Counts, Locking, Section
  <2>2. mem' \in MemRec
    BY Zenon, <1>5 DEF LockedRead, CoreRec, MemRec, SlotOf, Slot
  <2> QED BY Zenon, <1>0, <2>1, <2>2
<1>6. CASE LockedWrite(c)
  <2>1. Frame
    BY <1>6 DEF LockedWrite, CoreRec, BspPc, JobPc, Counts, Locking, Section, MemRec
  <2>2. mem' \in MemRec
    BY <1>6 DEF LockedWrite, CoreRec, MemRec, SlotOf, Slot
  <2> QED BY Zenon, <1>0, <2>1, <2>2
<1>7. CASE smp_unlock(c)
  <2>1. Frame
    BY <1>7 DEF smp_unlock, CoreRec, BspPc, JobPc, Counts, Locking, Section, MemRec
  <2>2. mem' \in MemRec
    BY Zenon, <1>7 DEF smp_unlock, CoreRec, MemRec, SlotOf, Slot
  <2> QED BY Zenon, <1>0, <2>1, <2>2
<1>8. CASE WorkCount(c)
  <2>1. Frame
    BY <1>8 DEF WorkCount, CoreRec, BspPc, JobPc, Counts, Locking, Section, MemRec
  <2>2. mem' \in MemRec
    BY SMTT(30), <1>8 DEF WorkCount, CoreRec, MemRec, SlotOf, Slot
  <2> QED BY Zenon, <1>0, <2>1, <2>2
<1>9. CASE WorkOwn(c)
  <2>1. Frame
    BY <1>9 DEF WorkOwn, CoreRec, BspPc, JobPc, Counts, Locking, Section, MemRec
  <2>2. mem' \in MemRec
    BY SMTT(30), <1>9 DEF WorkOwn, CoreRec, MemRec, SlotOf, Slot
  <2> QED BY Zenon, <1>0, <2>1, <2>2
<1> QED BY Zenon, <1>1, <1>2, <1>3, <1>4, <1>5, <1>6, <1>7, <1>8, <1>9 DEF JobStep




(* What a step of the jobs' routine does to the words it writes, step by step. *)
Share(c) ==
  IF core[c].pc \in {"lock", "lread", "lwrite"} THEN core[c].i
  ELSE IF core[c].pc = "unlock" THEN core[c].i + 1
  ELSE IF core[c].pc \in {"count", "ret"} THEN SMP_N ELSE 0

(* The words of the mailbox, which the jobs leave alone. *)
Mailbox == <<mem.go, mem.done, mem.fn, mem.kick, mem.gen, mem.shutdown>>

LEMMA JobEffect ==
  ASSUME Loops, SmpLock, NEW c \in Core, JobStep(c)
  PROVE  /\ JobOK(c)' /\ UNCHANGED Mailbox
         /\ InSection(c)' => mem'.lock
         /\ \A d \in Core : (d # c /\ InSection(d)) => mem'.lock /\ ~InSection(c)'
         /\ core[c].pc = "go" => mem.go[Flag(core[c].job)]
         /\ (core[c].job \in {"s4", "proc"} /\ (core[c].pc = "lwrite" => core[c].reg = mem.locked)) =>
              /\ mem'.locked + Share(c) = mem.locked + Share(c)'
              /\ core'[c].pc = "lwrite" => core'[c].reg = mem'.locked
         /\ mem'.locked # mem.locked => InSection(c)
         /\ \A s \in Slot : mem'.counter[s] = mem.counter[s] +
                              IF s = SlotOf(c) /\ core[c].pc = "count" THEN 1 ELSE 0
         /\ \A s \in Slot : mem'.slot[s] = IF s = SlotOf(c) /\ core[c].pc = "own" THEN 1 + s
                                           ELSE mem.slot[s]
         /\ core[c].pc \in {"count", "own"} => core'[c].pc = "ret"
         /\ core'[c].pc = "ret" => core[c].pc \in {"count", "own"} \/ core[c].job = "racy"
         /\ core[c].pc # "ret"
         /\ core'[c].pc = "own" => core[c].pc = "go"
<1> DEFINE Owns == /\ InSection(c)' => mem'.lock
                   /\ \A d \in Core : (d # c /\ InSection(d)) => mem'.lock /\ ~InSection(c)'
                   /\ core[c].pc = "go" => mem.go[Flag(core[c].job)]
                   /\ mem'.locked # mem.locked => InSection(c)
           Adds == (core[c].job \in {"s4", "proc"} /\ (core[c].pc = "lwrite" => core[c].reg = mem.locked)) =>
                     /\ mem'.locked + Share(c) = mem.locked + Share(c)'
                     /\ core'[c].pc = "lwrite" => core'[c].reg = mem'.locked
           Stores == /\ \A s \in Slot : mem'.counter[s] = mem.counter[s] +
                                          IF s = SlotOf(c) /\ core[c].pc = "count" THEN 1 ELSE 0
                     /\ \A s \in Slot : mem'.slot[s] = IF s = SlotOf(c) /\ core[c].pc = "own" THEN 1 + s
                                                       ELSE mem.slot[s]
           Ends == /\ core[c].pc \in {"count", "own"} => core'[c].pc = "ret"
                   /\ core'[c].pc = "ret" => core[c].pc \in {"count", "own"} \/ core[c].job = "racy"
                   /\ core[c].pc # "ret"
                   /\ core'[c].pc = "own" => core[c].pc = "go"
<1>0. /\ core \in [Core -> CoreRec] /\ mem \in MemRec /\ bsp \in Slot /\ SlotOf(c) \in Slot
      /\ core[c].i \in Nat /\ core[c].reg \in Nat /\ mem.locked \in Nat
      /\ mem.counter \in [Slot -> Nat] /\ mem.slot \in [Slot -> Nat]
      /\ SMP_M \in Nat \ {0} /\ SMP_N \in Nat \ {0}
  BY DEF SmpLock, SmpTypes, CoreRec, MemRec, Loops, Slot, SlotOf
<1>10. /\ core'[c].job = core[c].job /\ JobOK(c)
       /\ core[c].job \in {"proc", "drf", "racy", "s4", "none"}
  BY Zenon, <1>0, JobFrame DEF SmpLock, CoreRec, AnyJob, Job, NoJob
<1>11. /\ \A d \in Core : InSection(d) => mem.lock
       /\ \A d \in Core : (d # c /\ InSection(d)) => ~InSection(c)
  BY Zenon DEF SmpLock, Exclusion, Core, InSection
<1>1. CASE WorkGo(c)
  <2>1. /\ core[c].pc = "go" /\ core'[c].pc = (IF core[c].job = "drf" THEN "own" ELSE "read") /\ core'[c].i = 0
    <3>1. core' = [core EXCEPT ![c].pc = IF core[c].job = "drf" THEN "own" ELSE "read", ![c].i = 0]
      BY Zenon, <1>1 DEF WorkGo
    <3>2. core[c].pc = "go"
      BY Zenon, <1>1 DEF WorkGo, At
    <3> QED BY Zenon, <1>0, <3>1, <3>2 DEF CoreRec
  <2>2. mem' = mem
    BY Zenon, <1>1 DEF WorkGo
  <2>3. JobOK(c)'
    BY Zenon, <1>0, <1>10, <2>1 DEF JobOK, JobPc, Counts, Locking, Section, Job, NoJob
  <2>4. Owns
    <3>1. mem.go[Flag(core[c].job)]
      BY Zenon, <1>1 DEF WorkGo
    <3> QED BY Zenon, <1>11, <2>1, <2>2, <3>1 DEF InSection
  <2>5. Adds
    BY Zenon, <1>0, <1>10, <2>1, <2>2 DEF Share, MemRec, JobOK, Locking, Section
  <2>6. Stores
    BY <1>0, <2>1, <2>2 DEF MemRec
  <2>7. Ends
    BY Zenon, <1>0, <1>10, <2>1 DEF JobOK, Counts, Locking, Section
  <2>8. UNCHANGED Mailbox
    BY Zenon, <1>0, <2>2 DEF Mailbox, MemRec
  <2> QED BY Zenon, <2>3, <2>4, <2>5, <2>6, <2>7, <2>8
<1>2. CASE WorkRead(c)
  <2>1. /\ core[c].pc = "read" /\ core'[c].pc = "write"
    BY Zenon, <1>0, <1>2 DEF WorkRead, At, Go, CoreRec
  <2>2. mem' = mem
    BY Zenon, <1>2 DEF WorkRead
  <2>3. JobOK(c)'
    BY Zenon, <1>0, <1>10, <2>1 DEF JobOK, JobPc, Counts, Locking, Section, Job, NoJob
  <2>4. Owns
    BY Zenon, <1>0, <1>11, <2>1, <2>2 DEF InSection, MemRec
  <2>5. Adds
    BY Zenon, <1>0, <1>10, <2>1, <2>2 DEF Share, MemRec, JobOK, Locking, Section
  <2>6. Stores
    BY <1>0, <2>1, <2>2 DEF MemRec
  <2>7. Ends
    BY Zenon, <1>0, <1>10, <2>1 DEF JobOK, Counts, Locking, Section
  <2>8. UNCHANGED Mailbox
    BY Zenon, <1>0, <2>2 DEF Mailbox, MemRec
  <2> QED BY Zenon, <2>3, <2>4, <2>5, <2>6, <2>7, <2>8
<1>3. CASE WorkWrite(c)
  <2>1. /\ core[c].pc = "write" /\ core'[c].pc \in {"read", "lock", "ret"}
        /\ (core'[c].pc = "ret" <=> core[c].job = "racy" /\ core'[c].pc # "read")
        /\ (core'[c].pc = "lock" => core'[c].i = 0)
    BY <1>0, <1>3 DEF WorkWrite, At, Go, CoreRec
  <2>2. mem' = [mem EXCEPT !.race = core[c].reg + 1]
    BY Zenon, <1>3 DEF WorkWrite
  <2>3. JobOK(c)'
    BY <1>0, <1>10, <2>1 DEF JobOK, JobPc, Counts, Locking, Section, Job, NoJob
  <2>4. Owns
    BY Zenon, <1>0, <1>11, <2>1, <2>2 DEF InSection, MemRec
  <2>5. Adds
    BY Zenon, <1>0, <1>10, <2>1, <2>2 DEF Share, MemRec, JobOK, Locking, Section
  <2>6. Stores
    BY <1>0, <2>1, <2>2 DEF MemRec
  <2>7. Ends
    BY Zenon, <1>0, <1>10, <2>1 DEF JobOK, Counts, Locking, Section
  <2>8. UNCHANGED Mailbox
    BY Zenon, <1>0, <2>2 DEF Mailbox, MemRec
  <2> QED BY Zenon, <2>3, <2>4, <2>5, <2>6, <2>7, <2>8
<1>4. CASE smp_lock(c)
  <2>1. /\ core[c].pc = "lock" /\ core'[c].pc = "lread" /\ core'[c].i = core[c].i /\ ~mem.lock
    BY Zenon, <1>0, <1>4 DEF smp_lock, At, Go, CoreRec
  <2>2. mem' = [mem EXCEPT !.lock = TRUE]
    BY Zenon, <1>4 DEF smp_lock
  <2>3. JobOK(c)'
    BY Zenon, <1>0, <1>10, <2>1 DEF JobOK, JobPc, Counts, Locking, Section, Job, NoJob
  <2>4. Owns
    BY Zenon, <1>0, <1>11, <2>1, <2>2 DEF InSection, MemRec
  <2>5. Adds
    BY Zenon, <1>0, <1>10, <2>1, <2>2 DEF Share, MemRec, JobOK, Locking, Section
  <2>6. Stores
    BY <1>0, <2>1, <2>2 DEF MemRec
  <2>7. Ends
    BY Zenon, <1>0, <1>10, <2>1 DEF JobOK, Counts, Locking, Section
  <2>8. UNCHANGED Mailbox
    BY Zenon, <1>0, <2>2 DEF Mailbox, MemRec
  <2> QED BY Zenon, <2>3, <2>4, <2>5, <2>6, <2>7, <2>8
<1>5. CASE LockedRead(c)
  <2>1. /\ core[c].pc = "lread" /\ core'[c].pc = "lwrite" /\ core'[c].i = core[c].i /\ core'[c].reg = mem.locked
    BY Zenon, <1>0, <1>5 DEF LockedRead, At, Go, CoreRec
  <2>2. mem' = mem
    BY Zenon, <1>5 DEF LockedRead
  <2>3. JobOK(c)'
    BY Zenon, <1>0, <1>10, <2>1 DEF JobOK, JobPc, Counts, Locking, Section, Job, NoJob
  <2>4. Owns
    BY Zenon, <1>0, <1>11, <2>1, <2>2 DEF InSection, MemRec
  <2>5. Adds
    BY Zenon, <1>0, <1>10, <2>1, <2>2 DEF Share, MemRec, JobOK, Locking, Section
  <2>6. Stores
    BY <1>0, <2>1, <2>2 DEF MemRec
  <2>7. Ends
    BY Zenon, <1>0, <1>10, <2>1 DEF JobOK, Counts, Locking, Section
  <2>8. UNCHANGED Mailbox
    BY Zenon, <1>0, <2>2 DEF Mailbox, MemRec
  <2> QED BY Zenon, <2>3, <2>4, <2>5, <2>6, <2>7, <2>8
<1>6. CASE LockedWrite(c)
  <2>1. /\ core[c].pc = "lwrite" /\ core'[c].pc = "unlock" /\ core'[c].i = core[c].i
    BY Zenon, <1>0, <1>6 DEF LockedWrite, At, Go, CoreRec
  <2>2. mem' = [mem EXCEPT !.locked = core[c].reg + 1]
    BY Zenon, <1>6 DEF LockedWrite
  <2>3. JobOK(c)'
    BY Zenon, <1>0, <1>10, <2>1 DEF JobOK, JobPc, Counts, Locking, Section, Job, NoJob
  <2>4. Owns
    BY Zenon, <1>0, <1>11, <2>1, <2>2 DEF InSection, MemRec
  <2>5. Adds
    BY <1>0, <1>10, <2>1, <2>2 DEF Share, MemRec, JobOK, Locking, Section
  <2>6. Stores
    BY <1>0, <2>1, <2>2 DEF MemRec
  <2>7. Ends
    BY Zenon, <1>0, <1>10, <2>1 DEF JobOK, Counts, Locking, Section
  <2>8. UNCHANGED Mailbox
    BY Zenon, <1>0, <2>2 DEF Mailbox, MemRec
  <2> QED BY Zenon, <2>3, <2>4, <2>5, <2>6, <2>7, <2>8
<1>7. CASE smp_unlock(c)
  <2>1. /\ core[c].pc = "unlock"
        /\ IF core[c].i + 1 < SMP_N THEN core'[c].pc = "lock" /\ core'[c].i = core[c].i + 1
                                    ELSE core'[c].pc = "count"
    BY Zenon, <1>0, <1>7 DEF smp_unlock, At, Go, CoreRec
  <2>2. mem' = [mem EXCEPT !.lock = FALSE]
    BY Zenon, <1>7 DEF smp_unlock
  <2>3. JobOK(c)'
    BY Zenon, <1>0, <1>10, <2>1 DEF JobOK, JobPc, Counts, Locking, Section, Job, NoJob
  <2>4. Owns
    BY Zenon, <1>0, <1>11, <2>1, <2>2 DEF InSection, MemRec
  <2>5. Adds
    BY <1>0, <1>10, <2>1, <2>2 DEF Share, MemRec, JobOK, Locking, Section
  <2>6. Stores
    BY <1>0, <2>1, <2>2 DEF MemRec
  <2>7. Ends
    BY Zenon, <1>0, <1>10, <2>1 DEF JobOK, Counts, Locking, Section
  <2>8. UNCHANGED Mailbox
    BY Zenon, <1>0, <2>2 DEF Mailbox, MemRec
  <2> QED BY Zenon, <2>3, <2>4, <2>5, <2>6, <2>7, <2>8
<1>8. CASE WorkCount(c)
  <2>1. /\ core[c].pc = "count" /\ core'[c].pc = "ret"
    BY Zenon, <1>0, <1>8 DEF WorkCount, At, Go, CoreRec
  <2>2. mem' = [mem EXCEPT !.counter[SlotOf(c)] = @ + 1]
    BY Zenon, <1>8 DEF WorkCount
  <2>3. JobOK(c)'
    BY Zenon, <1>0, <1>10, <2>1 DEF JobOK, JobPc, Counts, Locking, Section, Job, NoJob
  <2>4. Owns
    BY Zenon, <1>0, <1>11, <2>1, <2>2 DEF InSection, MemRec
  <2>5. Adds
    BY Zenon, <1>0, <1>10, <2>1, <2>2 DEF Share, MemRec, JobOK, Locking, Section
  <2>6. Stores
    BY <1>0, <2>1, <2>2 DEF MemRec
  <2>7. Ends
    BY Zenon, <1>0, <1>10, <2>1 DEF JobOK, Counts, Locking, Section
  <2>8. UNCHANGED Mailbox
    BY Zenon, <1>0, <2>2 DEF Mailbox, MemRec
  <2> QED BY Zenon, <2>3, <2>4, <2>5, <2>6, <2>7, <2>8
<1>9. CASE WorkOwn(c)
  <2>1. /\ core[c].pc = "own" /\ core'[c].pc = "ret"
    BY Zenon, <1>0, <1>9 DEF WorkOwn, At, Go, CoreRec
  <2>2. mem' = [mem EXCEPT !.slot[SlotOf(c)] = 1 + SlotOf(c)]
    BY Zenon, <1>9 DEF WorkOwn
  <2>3. JobOK(c)'
    BY Zenon, <1>0, <1>10, <2>1 DEF JobOK, JobPc, Counts, Locking, Section, Job, NoJob
  <2>4. Owns
    BY Zenon, <1>0, <1>11, <2>1, <2>2 DEF InSection, MemRec
  <2>5. Adds
    BY Zenon, <1>0, <1>10, <2>1, <2>2 DEF Share, MemRec, JobOK, Locking, Section
  <2>6. Stores
    BY <1>0, <2>1, <2>2 DEF MemRec
  <2>7. Ends
    BY Zenon, <1>0, <1>10, <2>1 DEF JobOK, Counts, Locking, Section
  <2>8. UNCHANGED Mailbox
    BY Zenon, <1>0, <2>2 DEF Mailbox, MemRec
  <2> QED BY Zenon, <2>3, <2>4, <2>5, <2>6, <2>7, <2>8
<1> QED BY Zenon, <1>1, <1>2, <1>3, <1>4, <1>5, <1>6, <1>7, <1>8, <1>9 DEF JobStep

(* While no wait has run out, the two cores go through a job together.  The locked
   counter holds what each of them has added; fin: the second core is through. *)
Idle == ~mem.kick /\ ~mem.shutdown
Totals(fin) ==
  /\ mem.locked = (IF core["bsp"].pc \in {"done?", "s4", "gen?", "cut"} THEN SMP_N ELSE Share("bsp"))
                  + (IF fin THEN SMP_N ELSE Share("ap"))
  /\ \A c \in Core : core[c].pc = "lwrite" => core[c].reg = mem.locked

BeforeS4 ==
  core["bsp"].pc \in Early => Idle /\ ~mem.done /\ \A s \in Slot : mem.counter[s] = 0

InS4 ==
  (core["bsp"].job = "s4" /\ core["bsp"].pc \in JobPc \cup {"release", "done?", "s4"}) =>
    /\ Idle /\ core["ap"].job = "s4"
    /\ core["ap"].pc \in JobPc \cup {"held", "entry", "up", "publish", "idle"}
    /\ mem.done \/ core["bsp"].pc = "s4" => mem.done /\ core["ap"].pc \in {"publish", "idle"}
    /\ Totals(core["ap"].pc \in {"publish", "idle"})
    /\ mem.counter[bsp] = IF core["bsp"].pc \in {"ret", "done?", "s4"} THEN 1 ELSE 0
    /\ mem.counter[1 - bsp] = IF core["ap"].pc \in {"ret", "publish", "idle"} THEN 1 ELSE 0

BetweenJobs ==
  core["bsp"].pc \in {"u3", "dispatch"} => Idle /\ core["ap"].pc \in {"publish", "idle"}

HandingOver ==
  (core["bsp"].pc \in {"fn", "kick"} /\ core["bsp"].job \in Job) =>
    /\ Idle /\ core["ap"].pc \in {"publish", "idle"}
    /\ mem.gen = core["bsp"].gen /\ mem.locked = 0 /\ \A s \in Slot : mem.slot[s] = 0
    /\ core["bsp"].pc = "kick" => mem.fn = core["bsp"].job

(* The second core has the job before it, takes it, runs it, or has reported it. *)
Kicked   == core["ap"].pc \in {"publish", "idle", "take"} /\ mem.kick
Taken    == core["ap"].pc = "call" /\ ~mem.kick
Runs     == core["ap"].pc \in JobPc /\ ~mem.kick /\ core["ap"].job = core["bsp"].job
Reported == core["ap"].pc = "idle" /\ ~mem.kick

Joint ==
  (core["bsp"].job \in Job /\ core["bsp"].pc \in JobPc \cup {"release", "gen?", "cut"}) =>
    /\ ~mem.shutdown
    /\ \/ (Kicked \/ Taken) /\ mem.gen = core["bsp"].gen /\ mem.fn = core["bsp"].job
       \/ Runs /\ mem.gen = core["bsp"].gen
       \/ Reported /\ mem.gen = core["bsp"].gen + 1
    /\ core["bsp"].pc = "cut" => mem.gen # core["bsp"].gen
    /\ core["bsp"].job = "proc" => Totals(mem.gen # core["bsp"].gen)
    /\ core["bsp"].job = "drf" =>
         /\ mem.slot[bsp] = IF core["bsp"].own /\ core["bsp"].pc \in {"ret", "gen?", "cut"}
                            THEN 1 + bsp ELSE 0
         /\ mem.slot[1 - bsp] = IF mem.gen # core["bsp"].gen \/ core["ap"].pc = "ret"
                                THEN 2 - bsp ELSE 0

Exact == BeforeS4 /\ InS4 /\ BetweenJobs /\ HandingOver /\ Joint
SmpInv == SmpLock /\ (~overdue => Exact)

(* A step of the jobs' routine keeps the lock in order. *)
LEMMA JobLock == ASSUME Loops, SmpLock, NEW c \in Core, JobStep(c) PROVE SmpLock'
<1>1. /\ \A d \in Core : d # c => core'[d] = core[d]
      /\ core'[c].job = core[c].job /\ core'[c].gen = core[c].gen /\ core'[c].own = core[c].own
      /\ core' \in [Core -> CoreRec] /\ core[c].pc \in JobPc /\ core'[c].pc \in JobPc
      /\ mem' \in MemRec /\ bsp' = bsp
  BY Zenon, JobFrame DEF SmpLock
<1>2. /\ JobOK(c)' /\ mem'.go = mem.go
      /\ InSection(c)' => mem'.lock
      /\ \A d \in Core : (d # c /\ InSection(d)) => mem'.lock /\ ~InSection(c)'
      /\ core[c].pc = "go" => mem.go[Flag(core[c].job)]
  BY Zenon, JobEffect DEF Mailbox
<1>3. SmpTypes'
  <2>1. core'["bsp"].pc \in BspPc /\ core'["ap"].pc \in ApPc
    BY Zenon, <1>1 DEF SmpLock, SmpTypes, Core, BspPc, ApPc
  <2> QED BY Zenon, <1>1, <2>1 DEF SmpLock, SmpTypes
<1>4. \A d \in Core : JobOK(d)'
  <2> SUFFICES ASSUME NEW d \in Core, d # c PROVE JobOK(d)'
    BY Zenon, <1>2
  <2>1. core'[d] = core[d] /\ JobOK(d)
    BY Zenon, <1>1 DEF SmpLock
  <2> QED BY Zenon, <2>1 DEF JobOK
<1>5. BspOK'
  <2>1. CASE c = "bsp"
    BY Zenon, <1>1, <2>1 DEF SmpLock, BspOK, JobPc, Early, Counts, Locking, Section
  <2>2. CASE c # "bsp"
    <3>1. core'["bsp"] = core["bsp"]
      BY Zenon, <1>1, <2>2 DEF Core
    <3> QED BY Zenon, <3>1 DEF SmpLock, BspOK
  <2> QED BY Zenon, <2>1, <2>2
<1>6. Exclusion'
  <2>1. \A d \in Core : InSection(d)' => mem'.lock
    BY Zenon, <1>1, <1>2 DEF InSection
  <2>2. ~(InSection("bsp")' /\ InSection("ap")')
    BY Zenon, <1>1, <1>2 DEF InSection, Core
  <2>3. ASSUME core'["bsp"].pc \in Early
        PROVE  /\ core'["ap"].pc \in {"held", "entry", "up", "go"} /\ core'["ap"].job = "s4"
               /\ ~mem'.go["smp"]
    <3>1. c = "ap"
      BY Zenon, <1>1, <2>3 DEF Core, JobPc, Early, Counts, Locking, Section
    <3>2. core["bsp"].pc \in Early
      BY Zenon, <1>1, <2>3, <3>1 DEF Core
    <3>3. core["ap"].pc = "go" /\ core["ap"].job = "s4" /\ ~mem.go["smp"]
      BY Zenon, <1>1, <3>1, <3>2 DEF SmpLock, Exclusion, JobPc, Counts, Locking, Section
    <3>4. mem.go["smp"]
      BY Zenon, <1>2, <3>1, <3>3 DEF Flag
    <3> QED BY Zenon, <3>3, <3>4
  <2> QED BY Zenon, <2>1, <2>2, <2>3 DEF Exclusion
<1> QED BY Zenon, <1>3, <1>4, <1>5, <1>6 DEF SmpLock

(* A step of the jobs' routine in a job that counts keeps the total. *)
LEMMA JobTotals ==
  ASSUME Loops, SmpLock, NEW c \in Core, JobStep(c), NEW fin \in BOOLEAN, Totals(fin),
         core[c].job \in {"s4", "proc"}, c = "ap" => ~fin
  PROVE  Totals(fin)'
<1>1. /\ \A d \in Core : d # c => core'[d] = core[d]
      /\ core[c].pc \in JobPc /\ core'[c].pc \in JobPc
      /\ mem.locked \in Nat /\ mem'.locked \in Nat
  BY Zenon, JobFrame DEF SmpLock, SmpTypes, MemRec
<1>2. /\ mem'.locked + Share(c) = mem.locked + Share(c)'
      /\ core'[c].pc = "lwrite" => core'[c].reg = mem'.locked
      /\ mem'.locked # mem.locked => InSection(c)
  BY Zenon, JobEffect DEF Totals
<1>3. \A d \in Core : d # c => Share(d)' = Share(d)
  BY Zenon, <1>1 DEF Share
<1>4. \A d \in Core : Share(d) \in Nat /\ Share(d)' \in Nat
  <2>1. \A d \in Core : core[d].i \in Nat /\ core'[d].i \in Nat /\ SMP_N \in Nat
    BY Zenon, JobFrame DEF SmpLock, SmpTypes, CoreRec, Loops
  <2> QED BY <2>1 DEF Share
<1>5. \A d \in Core : core'[d].pc = "lwrite" => core'[d].reg = mem'.locked
  <2> SUFFICES ASSUME NEW d \in Core, d # c, core'[d].pc = "lwrite" PROVE core'[d].reg = mem'.locked
    BY Zenon, <1>2
  <2>1. core'[d] = core[d] /\ InSection(d) /\ core[d].reg = mem.locked
    BY Zenon, <1>1 DEF InSection, Totals
  <2>2. ~InSection(c)
    BY Zenon, <2>1 DEF SmpLock, Exclusion, Core
  <2> QED BY Zenon, <1>2, <2>1, <2>2
<1>6. CASE c = "bsp"
  <2>1. /\ core["bsp"].pc \notin {"done?", "s4", "gen?", "cut"}
        /\ core'["bsp"].pc \notin {"done?", "s4", "gen?", "cut"}
    BY Zenon, <1>1, <1>6 DEF JobPc, Counts, Locking, Section
  <2>2. Share("ap")' = Share("ap")
    BY Zenon, <1>3, <1>6 DEF Core
  <2>3. mem.locked = Share("bsp") + (IF fin THEN SMP_N ELSE Share("ap"))
    BY Zenon, <2>1 DEF Totals
  <2>4. mem'.locked = Share("bsp")' + (IF fin THEN SMP_N ELSE Share("ap")')
    BY <1>1, <1>2, <1>4, <1>6, <2>2, <2>3 DEF Core, Loops
  <2> QED BY Zenon, <1>5, <2>1, <2>4 DEF Totals
<1>7. CASE c = "ap"
  <2>1. core'["bsp"] = core["bsp"] /\ Share("bsp")' = Share("bsp") /\ ~fin
    BY Zenon, <1>1, <1>3, <1>7 DEF Core
  <2> DEFINE b == IF core["bsp"].pc \in {"done?", "s4", "gen?", "cut"} THEN SMP_N ELSE Share("bsp")
  <2>2. mem.locked = b + Share("ap") /\ b \in Nat
    BY Zenon, <1>4, <2>1 DEF Totals, Loops, Core
  <2>3. mem'.locked = b + Share("ap")'
    <3> HIDE DEF b
    <3> QED BY <1>1, <1>2, <1>4, <1>7, <2>2 DEF Core
  <2> QED BY Zenon, <1>5, <2>1, <2>3 DEF Totals
<1> QED BY Zenon, <1>6, <1>7 DEF Core


(* While no wait has run out, a step of the jobs' routine keeps the account of both. *)
LEMMA JobExact ==
  ASSUME Loops, SmpLock, Exact, NEW c \in Core, JobStep(c)
  PROVE  Exact'
<1>1. /\ \A d \in Core : d # c => core'[d] = core[d]
      /\ core'[c].job = core[c].job /\ core'[c].gen = core[c].gen /\ core'[c].own = core[c].own
      /\ core[c].pc \in JobPc /\ core'[c].pc \in JobPc /\ bsp' = bsp
  BY Zenon, JobFrame DEF SmpLock
<1>2. /\ mem'.done = mem.done /\ mem'.fn = mem.fn /\ mem'.kick = mem.kick
      /\ mem'.gen = mem.gen /\ mem'.shutdown = mem.shutdown
      /\ core[c].pc # "ret"
      /\ core[c].pc \in {"count", "own"} => core'[c].pc = "ret"
      /\ core'[c].pc = "ret" => core[c].pc \in {"count", "own"} \/ core[c].job = "racy"
  BY Zenon, JobEffect DEF Mailbox
<1>3. /\ \A s \in Slot : mem'.counter[s] = mem.counter[s] +
                           IF s = SlotOf(c) /\ core[c].pc = "count" THEN 1 ELSE 0
      /\ \A s \in Slot : mem'.slot[s] = IF s = SlotOf(c) /\ core[c].pc = "own" THEN 1 + s
                                        ELSE mem.slot[s]
  BY Zenon, JobEffect
<1>4. bsp \in {0, 1} /\ bsp \in Slot /\ 1 - bsp \in Slot /\ bsp # 1 - bsp
  BY DEF SmpLock, SmpTypes, Slot
<1>5. JobOK(c)
  BY Zenon DEF SmpLock
<1>6. \A s \in Slot : mem.counter[s] \in Nat
  BY Zenon DEF SmpLock, SmpTypes, MemRec
<1>7. CASE c = "bsp"
  <2>1. core'["ap"] = core["ap"] /\ SlotOf(c) = bsp
    BY Zenon, <1>1, <1>7 DEF Core, SlotOf
  <2>2. core'["bsp"].pc \notin Early \cup {"u3", "dispatch", "fn", "kick", "gen?", "cut", "release", "done?", "s4"}
        /\ core["bsp"].pc \notin {"gen?", "cut", "release", "done?", "s4"}
    BY Zenon, <1>1, <1>7 DEF JobPc, Early, Counts, Locking, Section
  <2>3. BeforeS4' /\ BetweenJobs' /\ HandingOver'
    BY Zenon, <2>2 DEF BeforeS4, BetweenJobs, HandingOver
  <2>4. InS4'
    <3> SUFFICES ASSUME core'["bsp"].job = "s4" PROVE InS4'
      BY Zenon DEF InS4
    <3>1. core["bsp"].job = "s4" /\ core["bsp"].pc \in JobPc
      BY Zenon, <1>1, <1>7
    <3>2. /\ Idle /\ core["ap"].job = "s4"
          /\ core["ap"].pc \in JobPc \cup {"held", "entry", "up", "publish", "idle"}
          /\ mem.done => core["ap"].pc \in {"publish", "idle"}
          /\ Totals(core["ap"].pc \in {"publish", "idle"})
          /\ mem.counter[bsp] = 0
          /\ mem.counter[1 - bsp] = IF core["ap"].pc \in {"ret", "publish", "idle"} THEN 1 ELSE 0
      BY Zenon, <1>2, <1>7, <2>2, <3>1 DEF Exact, InS4
    <3>3. Totals(core["ap"].pc \in {"publish", "idle"})'
      <4> DEFINE fin == core["ap"].pc \in {"publish", "idle"}
      <4>1. fin \in BOOLEAN /\ Totals(fin)
        BY <3>2
      <4>2. Totals(fin)' <=> Totals(core["ap"].pc \in {"publish", "idle"})'
        BY Zenon, <2>1 DEF Totals
      <4>3. \A f \in BOOLEAN : Totals(f) => Totals(f)'
        BY Zenon, <1>7, <3>1, JobTotals
      <4>4. fin' = fin
        BY Zenon, <2>1
      <4>5. CASE fin
        BY Zenon, <3>2, <4>3, <4>4, <4>5 DEF Totals
      <4>6. CASE ~fin
        BY Zenon, <3>2, <4>3, <4>4, <4>6 DEF Totals
      <4> QED BY Zenon, <4>5, <4>6
    <3>4. core["bsp"].pc # "own"
      BY Zenon, <1>5, <1>7, <3>1 DEF JobOK
    <3>5. /\ mem'.counter[bsp] = IF core'["bsp"].pc = "ret" THEN 1 ELSE 0
          /\ mem'.counter[1 - bsp] = mem.counter[1 - bsp]
      <4>1. core'["bsp"].pc = "ret" <=> core["bsp"].pc = "count"
        BY Zenon, <1>2, <1>7, <3>1, <3>4
      <4>2. /\ mem'.counter[bsp] = mem.counter[bsp] + IF core["bsp"].pc = "count" THEN 1 ELSE 0
            /\ mem'.counter[1 - bsp] = mem.counter[1 - bsp] + 0
        BY Zenon, <1>3, <1>4, <1>7, <2>1
      <4> QED BY <1>4, <1>6, <3>2, <4>1, <4>2
    <3> QED BY SMTT(30), <1>1, <1>2, <2>1, <2>2, <3>2, <3>3, <3>5 DEF InS4, Idle
  <2>5. Joint'
    <3> SUFFICES ASSUME core'["bsp"].job \in Job PROVE Joint'
      BY Zenon DEF Joint
    <3>1. core["bsp"].job \in Job /\ core["bsp"].pc \in JobPc
      BY Zenon, <1>1, <1>7
    <3>2. /\ ~mem.shutdown
          /\ \/ (Kicked \/ Taken) /\ mem.gen = core["bsp"].gen /\ mem.fn = core["bsp"].job
             \/ Runs /\ mem.gen = core["bsp"].gen
             \/ Reported /\ mem.gen = core["bsp"].gen + 1
          /\ core["bsp"].job = "proc" => Totals(mem.gen # core["bsp"].gen)
          /\ core["bsp"].job = "drf" =>
               /\ mem.slot[bsp] = IF core["bsp"].own /\ core["bsp"].pc \in {"ret", "gen?", "cut"}
                                  THEN 1 + bsp ELSE 0
               /\ mem.slot[1 - bsp] = IF mem.gen # core["bsp"].gen \/ core["ap"].pc = "ret"
                                      THEN 2 - bsp ELSE 0
      BY Zenon, <3>1 DEF Exact, Joint
    <3>3. core'["bsp"].job = "proc" => Totals(mem.gen # core["bsp"].gen)'
      <4> SUFFICES ASSUME core["bsp"].job = "proc" PROVE Totals(mem.gen # core["bsp"].gen)'
        BY Zenon, <1>1, <1>7
      <4> DEFINE fin == mem.gen # core["bsp"].gen
      <4>3. \A f \in BOOLEAN : Totals(f) => Totals(f)'
        BY Zenon, <1>7, JobTotals
      <4>4. fin' = fin
        BY Zenon, <1>1, <1>2, <1>7
      <4>5. CASE fin
        BY Zenon, <3>2, <4>3, <4>4, <4>5 DEF Totals
      <4>6. CASE ~fin
        BY Zenon, <3>2, <4>3, <4>4, <4>6 DEF Totals
      <4> QED BY Zenon, <4>5, <4>6
    <3>4. core["bsp"].own
      BY Zenon, <3>1 DEF SmpLock, BspOK
    <3>5. core["bsp"].job = "drf" =>
            /\ mem'.slot[bsp] = IF core'["bsp"].pc = "ret" THEN 1 + bsp ELSE 0
            /\ mem'.slot[1 - bsp] = mem.slot[1 - bsp]
      BY Zenon, <1>2, <1>3, <1>4, <1>5, <1>7, <2>1, <2>2, <3>2 DEF JobOK, Counts
    <3>6. \/ (Kicked' \/ Taken') /\ mem'.gen = core'["bsp"].gen /\ mem'.fn = core'["bsp"].job
          \/ Runs' /\ mem'.gen = core'["bsp"].gen
          \/ Reported' /\ mem'.gen = core'["bsp"].gen + 1
      BY Zenon, <1>1, <1>2, <1>7, <2>1, <3>2 DEF Kicked, Taken, Runs, Reported
    <3>7. /\ core'["bsp"].own /\ core'["ap"].pc = core["ap"].pc /\ bsp' = bsp
          /\ core'["bsp"].gen = core["bsp"].gen /\ mem'.gen = mem.gen
          /\ core'["bsp"].job = core["bsp"].job
      BY Zenon, <1>1, <1>2, <1>7, <2>1, <3>4
    <3>8. core'["bsp"].job = "drf" =>
            /\ mem'.slot[bsp'] = IF core'["bsp"].own /\ core'["bsp"].pc \in {"ret", "gen?", "cut"}
                                 THEN 1 + bsp' ELSE 0
            /\ mem'.slot[1 - bsp'] = IF mem'.gen # core'["bsp"].gen \/ core'["ap"].pc = "ret"
                                     THEN 2 - bsp' ELSE 0
      BY Zenon, <2>2, <3>2, <3>5, <3>7
    <3>9. ~mem'.shutdown /\ core'["bsp"].pc # "cut"
      BY Zenon, <1>2, <2>2, <3>2
    <3> QED BY Zenon, <3>3, <3>6, <3>8, <3>9 DEF Joint
  <2> QED BY Zenon, <2>3, <2>4, <2>5 DEF Exact
<1>8. CASE c = "ap"
  <2>1. core'["bsp"] = core["bsp"] /\ SlotOf(c) = 1 - bsp
    BY Zenon, <1>1, <1>8 DEF Core, SlotOf
  <2>2. core["ap"].pc \notin {"publish", "idle", "take", "call", "held", "entry", "up"}
        /\ core'["ap"].pc \notin {"publish", "idle", "take", "call", "held", "entry", "up"}
    BY Zenon, <1>1, <1>8 DEF JobPc, Counts, Locking, Section
  <2>3. BeforeS4' /\ BetweenJobs' /\ HandingOver'
    <3>1. core["bsp"].pc \notin Early
      <4> SUFFICES ASSUME core["bsp"].pc \in Early PROVE FALSE
        BY Zenon
      <4>1. core["ap"].pc = "go" /\ core["ap"].job = "s4" /\ ~mem.go["smp"]
        BY Zenon, <2>2 DEF SmpLock, Exclusion
      <4>2. mem.go["smp"]
        BY Zenon, <1>8, <4>1, JobEffect DEF Flag
      <4> QED BY Zenon, <4>1, <4>2
    <3> QED BY Zenon, <2>1, <2>2, <3>1 DEF Exact, BeforeS4, BetweenJobs, HandingOver
  <2>4. InS4'
    <3> SUFFICES ASSUME core["bsp"].job = "s4", core["bsp"].pc \in JobPc \cup {"release", "done?", "s4"}
                 PROVE  InS4'
      BY Zenon, <2>1 DEF InS4
    <3>1. /\ Idle /\ core["ap"].job = "s4" /\ ~mem.done /\ core["bsp"].pc # "s4"
          /\ Totals(core["ap"].pc \in {"publish", "idle"})
          /\ mem.counter[bsp] = IF core["bsp"].pc \in {"ret", "done?", "s4"} THEN 1 ELSE 0
          /\ mem.counter[1 - bsp] = 0
      BY Zenon, <1>2, <1>8, <2>2 DEF Exact, InS4
    <3>2. Totals(FALSE)
      BY Zenon, <2>2, <3>1 DEF Totals
    <3>3. Totals(FALSE)'
      BY Zenon, <1>8, <3>1, <3>2, JobTotals
    <3>4. Totals(core["ap"].pc \in {"publish", "idle"})'
      BY Zenon, <2>2, <3>3 DEF Totals
    <3>5. core["ap"].pc # "own"
      BY Zenon, <1>5, <1>8, <3>1 DEF JobOK
    <3>6. /\ mem'.counter[1 - bsp] = IF core'["ap"].pc = "ret" THEN 1 ELSE 0
          /\ mem'.counter[bsp] = mem.counter[bsp]
      BY <1>2, <1>3, <1>4, <1>6, <1>8, <2>1, <3>1, <3>5
    <3> QED BY Zenon, <1>1, <1>2, <1>8, <2>1, <2>2, <3>1, <3>4, <3>6 DEF InS4, Idle
  <2>5. Joint'
    <3> SUFFICES ASSUME core["bsp"].job \in Job, core["bsp"].pc \in JobPc \cup {"release", "gen?", "cut"}
                 PROVE  Joint'
      BY Zenon, <2>1 DEF Joint
    <3>1. /\ ~mem.shutdown /\ Runs /\ mem.gen = core["bsp"].gen /\ core["bsp"].pc # "cut"
          /\ core["bsp"].job = "proc" => Totals(FALSE)
          /\ core["bsp"].job = "drf" =>
               /\ mem.slot[bsp] = IF core["bsp"].own /\ core["bsp"].pc \in {"ret", "gen?", "cut"}
                                  THEN 1 + bsp ELSE 0
               /\ mem.slot[1 - bsp] = 0
      <4>1. Runs /\ mem.gen = core["bsp"].gen
        BY Zenon, <2>2 DEF Exact, Joint, Kicked, Taken, Reported
      <4> QED BY Zenon, <1>2, <1>8, <4>1 DEF Exact, Joint, Totals
    <3>2. Runs'
      BY Zenon, <1>1, <1>2, <1>8, <2>1, <3>1 DEF Runs
    <3>3. core["bsp"].job = "proc" => Totals(FALSE)'
      BY Zenon, <1>8, <3>1, JobTotals DEF Runs
    <3>4. core["bsp"].job = "proc" => Totals(mem.gen # core["bsp"].gen)'
      BY Zenon, <1>2, <2>1, <3>1, <3>3 DEF Totals
    <3>5. core["bsp"].job = "drf" =>
            /\ mem'.slot[1 - bsp] = IF core'["ap"].pc = "ret" THEN 2 - bsp ELSE 0
            /\ mem'.slot[bsp] = mem.slot[bsp]
      BY SMTT(30), <1>2, <1>3, <1>4, <1>5, <1>8, <2>1, <3>1 DEF JobOK, Counts, Runs
    <3> QED BY Zenon, <1>1, <1>2, <2>1, <3>1, <3>2, <3>4, <3>5 DEF Joint
  <2> QED BY Zenon, <2>3, <2>4, <2>5 DEF Exact
<1> QED BY Zenon, <1>7, <1>8 DEF Core

(* A step of the second core's own program, in terms of what the account looks at. *)
ApMove(pc0, pc1) ==
  core["ap"].pc = pc0 /\ core'["ap"].pc = pc1 /\ core'["ap"].job = core["ap"].job
ApOther(kick, gen, done, counter) ==
  mem'.kick = kick /\ mem'.gen = gen /\ mem'.done = done /\ mem'.counter = counter
ApSteps ==
  \/ ApMove("entry", "up") /\ ApOther(mem.kick, mem.gen, mem.done, [mem.counter EXCEPT ![1 - bsp] = 0])
  \/ ApMove("up", "go") /\ ApOther(mem.kick, mem.gen, mem.done, mem.counter)
  \/ /\ ApMove("ret", "publish") /\ core["ap"].job = "s4"
     /\ ApOther(mem.kick, mem.gen, TRUE, mem.counter)
  \/ ApMove("publish", "idle") /\ ApOther(mem.kick, mem.gen, mem.done, mem.counter)
  \/ /\ ApMove("idle", IF mem.shutdown THEN "parked" ELSE "take") /\ (mem.kick \/ mem.shutdown)
     /\ ApOther(mem.kick, mem.gen, mem.done, mem.counter)
  \/ ApMove("take", "call") /\ ApOther(FALSE, mem.gen, mem.done, mem.counter)
  \/ /\ core["ap"].pc = "call" /\ core'["ap"].job = mem.fn
     /\ core'["ap"].pc = (IF mem.fn = NoJob THEN "ret" ELSE "go")
     /\ ApOther(mem.kick, mem.gen, mem.done, mem.counter)
  \/ /\ ApMove("ret", "idle") /\ core["ap"].job # "s4"
     /\ ApOther(mem.kick, mem.gen + 1, mem.done, mem.counter)

LEMMA ApEffect ==
  ASSUME SmpTypes, ApStep
  PROVE  /\ core'["bsp"] = core["bsp"] /\ core' \in [Core -> CoreRec] /\ core'["ap"].pc \in ApPc
         /\ core'["ap"].i = core["ap"].i /\ core'["ap"].reg = core["ap"].reg
         /\ mem' \in MemRec /\ UNCHANGED <<bsp, jobs, overdue>>
         /\ mem'.go = mem.go /\ mem'.lock = mem.lock /\ mem'.locked = mem.locked
         /\ mem'.slot = mem.slot /\ mem'.fn = mem.fn /\ mem'.shutdown = mem.shutdown
         /\ ApSteps
<1> DEFINE Cores == /\ core'["bsp"] = core["bsp"] /\ core' \in [Core -> CoreRec]
                    /\ core'["ap"].pc \in ApPc
                    /\ core'["ap"].i = core["ap"].i /\ core'["ap"].reg = core["ap"].reg
           Words == /\ mem' \in MemRec
                    /\ mem'.go = mem.go /\ mem'.lock = mem.lock /\ mem'.locked = mem.locked
                    /\ mem'.slot = mem.slot /\ mem'.fn = mem.fn /\ mem'.shutdown = mem.shutdown
<1>0. /\ UNCHANGED <<bsp, jobs, overdue>> /\ core \in [Core -> CoreRec] /\ mem \in MemRec
      /\ 1 - bsp \in Slot
  BY DEF ApStep, SmpTypes, Slot
<1>1. CASE ApUp
  <2>1. core' = [core EXCEPT !["ap"].pc = "up"] /\ core["ap"].pc = "entry"
    BY Zenon, <1>0, <1>1 DEF ApUp, At, Go
  <2>2. mem' = [mem EXCEPT !.received[1 - bsp] = FALSE, !.counter[1 - bsp] = 0,
                             !.up[1 - bsp] = TRUE]
    BY Zenon, <1>1 DEF ApUp
  <2>3. Cores
    BY Zenon, <1>0, <2>1 DEF Core, CoreRec, ApPc, JobPc, Counts, Locking, Section
  <2>4. Words
    BY Zenon, <1>0, <2>2 DEF MemRec
  <2>5. ApSteps
    BY <1>0, <2>1, <2>2 DEF ApSteps, ApMove, ApOther, Core, CoreRec, MemRec
  <2> QED BY Zenon, <1>0, <2>3, <2>4, <2>5
<1>2. CASE ApAnnounce
  <2>1. core' = [core EXCEPT !["ap"].pc = "go"] /\ core["ap"].pc = "up"
    BY Zenon, <1>0, <1>2 DEF ApAnnounce, At, Go
  <2>2. mem' = [mem EXCEPT !.announced = TRUE]
    BY Zenon, <1>2 DEF ApAnnounce
  <2>3. Cores
    BY Zenon, <1>0, <2>1 DEF Core, CoreRec, ApPc, JobPc, Counts, Locking, Section
  <2>4. Words
    BY Zenon, <1>0, <2>2 DEF MemRec
  <2>5. ApSteps
    BY Zenon, <1>0, <2>1, <2>2 DEF ApSteps, ApMove, ApOther, Core, CoreRec, MemRec
  <2> QED BY Zenon, <1>0, <2>3, <2>4, <2>5
<1>3. CASE ApS4Done
  <2>1. core' = [core EXCEPT !["ap"].pc = "publish"] /\ core["ap"].pc = "ret" /\ core["ap"].job = "s4"
    BY Zenon, <1>0, <1>3 DEF ApS4Done, At, Go
  <2>2. mem' = [mem EXCEPT !.done = TRUE]
    BY Zenon, <1>3 DEF ApS4Done
  <2>3. Cores
    BY Zenon, <1>0, <2>1 DEF Core, CoreRec, ApPc, JobPc, Counts, Locking, Section
  <2>4. Words
    BY Zenon, <1>0, <2>2 DEF MemRec
  <2>5. ApSteps
    BY Zenon, <1>0, <2>1, <2>2 DEF ApSteps, ApMove, ApOther, Core, CoreRec, MemRec
  <2> QED BY Zenon, <1>0, <2>3, <2>4, <2>5
<1>4. CASE ApPublish
  <2>1. core' = [core EXCEPT !["ap"].pc = "idle"] /\ core["ap"].pc = "publish"
    BY Zenon, <1>0, <1>4 DEF ApPublish, At, Go
  <2>2. mem' = [mem EXCEPT !.idx = 1 - bsp]
    BY Zenon, <1>4 DEF ApPublish
  <2>3. Cores
    BY Zenon, <1>0, <2>1 DEF Core, CoreRec, ApPc, JobPc, Counts, Locking, Section
  <2>4. Words
    BY Zenon, <1>0, <2>2 DEF MemRec
  <2>5. ApSteps
    BY Zenon, <1>0, <2>1, <2>2 DEF ApSteps, ApMove, ApOther, Core, CoreRec, MemRec
  <2> QED BY Zenon, <1>0, <2>3, <2>4, <2>5
<1>5. CASE ApWake
  <2>1. /\ core' = [core EXCEPT !["ap"].pc = IF mem.shutdown THEN "parked" ELSE "take"]
        /\ core["ap"].pc = "idle" /\ (mem.kick \/ mem.shutdown)
    BY Zenon, <1>0, <1>5 DEF ApWake, At, Go
  <2>2. mem' = mem
    BY Zenon, <1>5 DEF ApWake
  <2>3. Cores
    BY <1>0, <2>1 DEF Core, CoreRec, ApPc, JobPc, Counts, Locking, Section
  <2>4. Words
    BY Zenon, <1>0, <2>2 DEF MemRec
  <2>5. ApSteps
    BY Zenon, <1>0, <2>1, <2>2 DEF ApSteps, ApMove, ApOther, Core, CoreRec, MemRec
  <2> QED BY Zenon, <1>0, <2>3, <2>4, <2>5
<1>6. CASE ApTake
  <2>1. core' = [core EXCEPT !["ap"].pc = "call"] /\ core["ap"].pc = "take"
    BY Zenon, <1>0, <1>6 DEF ApTake, At, Go
  <2>2. mem' = [mem EXCEPT !.kick = FALSE]
    BY Zenon, <1>6 DEF ApTake
  <2>3. Cores
    BY Zenon, <1>0, <2>1 DEF Core, CoreRec, ApPc, JobPc, Counts, Locking, Section
  <2>4. Words
    BY Zenon, <1>0, <2>2 DEF MemRec
  <2>5. ApSteps
    BY Zenon, <1>0, <2>1, <2>2 DEF ApSteps, ApMove, ApOther, Core, CoreRec, MemRec
  <2> QED BY Zenon, <1>0, <2>3, <2>4, <2>5
<1>7. CASE ApCall
  <2>1. /\ core' = [core EXCEPT !["ap"].job = mem.fn, !["ap"].pc = IF mem.fn = NoJob THEN "ret" ELSE "go"]
        /\ core["ap"].pc = "call" /\ mem.fn \in AnyJob
    BY Zenon, <1>0, <1>7 DEF ApCall, At, Go, MemRec, AnyJob
  <2>2. mem' = mem
    BY Zenon, <1>7 DEF ApCall
  <2>3. Cores
    BY <1>0, <2>1 DEF Core, CoreRec, ApPc, JobPc, Counts, Locking, Section
  <2>4. Words
    BY Zenon, <1>0, <2>2 DEF MemRec
  <2>5. ApSteps
    BY <1>0, <2>1, <2>2 DEF ApSteps, ApMove, ApOther, Core, CoreRec, MemRec
  <2> QED BY Zenon, <1>0, <2>3, <2>4, <2>5
<1>8. CASE ApReport
  <2>1. core' = [core EXCEPT !["ap"].pc = "idle"] /\ core["ap"].pc = "ret" /\ core["ap"].job # "s4"
    BY Zenon, <1>0, <1>8 DEF ApReport, At, Go
  <2>2. mem' = [mem EXCEPT !.gen = @ + 1]
    BY Zenon, <1>8 DEF ApReport
  <2>3. Cores
    BY <1>0, <2>1 DEF Core, CoreRec, ApPc, JobPc, Counts, Locking, Section
  <2>4. Words
    BY <1>0, <2>2 DEF MemRec
  <2>5. ApSteps
    BY Zenon, <1>0, <2>1, <2>2 DEF ApSteps, ApMove, ApOther, Core, CoreRec, MemRec
  <2> QED BY Zenon, <1>0, <2>3, <2>4, <2>5
<1> QED BY Zenon, <1>1, <1>2, <1>3, <1>4, <1>5, <1>6, <1>7, <1>8 DEF ApStep

(* The second core's own program keeps the lock in order. *)
LEMMA ApLock == ASSUME SmpLock, ApStep PROVE SmpLock'
<1>1. /\ core'["bsp"] = core["bsp"] /\ core' \in [Core -> CoreRec] /\ core'["ap"].pc \in ApPc
      /\ mem' \in MemRec /\ bsp' = bsp /\ mem'.go = mem.go /\ mem'.lock = mem.lock
      /\ mem.fn \in Job \cup {NoJob} /\ ApSteps
  BY Zenon, ApEffect DEF SmpLock, SmpTypes, MemRec
<1>2. /\ core["ap"].pc \in {"entry", "up", "ret", "publish", "idle", "take", "call"}
      /\ core'["ap"].pc \in {"up", "go", "publish", "idle", "take", "parked", "call", "ret"}
      /\ core'["ap"].pc = "up" => core["ap"].pc = "entry"
      /\ core'["ap"].pc = "go" => core["ap"].pc \in {"up", "call"}
      /\ core'["ap"].pc = "ret" => core["ap"].pc = "call"
      /\ core["ap"].pc # "call" => core'["ap"].job = core["ap"].job
      /\ core["ap"].pc = "call" => /\ core'["ap"].job = mem.fn
                                   /\ core'["ap"].pc = IF mem.fn = NoJob THEN "ret" ELSE "go"
  BY Zenon, <1>1 DEF ApSteps, ApMove
<1>3. SmpTypes'
  BY Zenon, <1>1 DEF SmpLock, SmpTypes
<1>4. JobOK("ap")'
  <2>1. core["ap"].pc \in {"entry", "up"} => core["ap"].job = "s4"
    BY Zenon DEF SmpLock, JobOK, Core
  <2> QED BY Zenon, <1>1, <1>2, <2>1 DEF JobOK, JobPc, Counts, Locking, Section, Job, NoJob
<1>5. JobOK("bsp")' /\ BspOK'
  BY Zenon, <1>1 DEF SmpLock, JobOK, BspOK, Core
<1>6. Exclusion'
  <2>1. ~InSection("ap")' /\ InSection("bsp")' = InSection("bsp")
    BY Zenon, <1>1, <1>2 DEF InSection
  <2>2. InSection("bsp") => mem.lock
    BY Zenon DEF SmpLock, Exclusion, Core
  <2>3. core'["bsp"].pc \in Early =>
          /\ core'["ap"].pc \in {"held", "entry", "up", "go"} /\ core'["ap"].job = "s4"
          /\ ~mem'.go["smp"]
    BY Zenon, <1>1, <1>2 DEF SmpLock, Exclusion, ApSteps, ApMove
  <2> QED BY Zenon, <1>1, <2>1, <2>2, <2>3 DEF Exclusion, Core
<1> QED BY Zenon, <1>3, <1>4, <1>5, <1>6 DEF SmpLock, Core

(* While no wait has run out, it keeps the account: the second core takes a job that
   was handed to it, and reports it when its share is done. *)
LEMMA ApExact == ASSUME Loops, SmpLock, Exact, ApStep PROVE Exact'
<1>1. /\ core'["bsp"] = core["bsp"] /\ bsp' = bsp
      /\ core'["ap"].i = core["ap"].i /\ core'["ap"].reg = core["ap"].reg
      /\ mem'.locked = mem.locked /\ mem'.slot = mem.slot /\ mem'.fn = mem.fn
      /\ mem'.shutdown = mem.shutdown /\ ApSteps
      /\ mem.counter \in [Slot -> Nat] /\ mem.gen \in Nat /\ core["bsp"].gen \in Nat
      /\ bsp \in {0, 1} /\ bsp \in Slot /\ 1 - bsp \in Slot /\ bsp # 1 - bsp
  BY ApEffect DEF SmpLock, SmpTypes, MemRec, CoreRec, Core, Slot
<1>2. /\ core["ap"].pc \in {"entry", "up", "ret", "publish", "idle", "take", "call"}
      /\ core'["ap"].pc \in {"up", "go", "publish", "idle", "take", "parked", "call", "ret"}
  BY Zenon, <1>1 DEF ApSteps, ApMove
<1>3. Share("bsp")' = Share("bsp")
  BY Zenon, <1>1 DEF Share
<1>4. Share("ap") = (IF core["ap"].pc = "ret" THEN SMP_N ELSE 0)
      /\ Share("ap")' = (IF core'["ap"].pc = "ret" THEN SMP_N ELSE 0)
  BY Zenon, <1>2 DEF Share
<1>5. \A f, g \in BOOLEAN :
        (Totals(f) /\ (f \/ core["ap"].pc = "ret" <=> g \/ core'["ap"].pc = "ret")) => Totals(g)'
  <2> SUFFICES ASSUME NEW f \in BOOLEAN, NEW g \in BOOLEAN, Totals(f),
                      f \/ core["ap"].pc = "ret" <=> g \/ core'["ap"].pc = "ret"
               PROVE  Totals(g)'
    BY Zenon
  <2>1. \A c \in Core : core'[c].pc = "lwrite" => core'[c].reg = mem'.locked
    BY Zenon, <1>1, <1>2 DEF Totals, Core
  <2> QED BY Zenon, <1>1, <1>3, <1>4, <2>1 DEF Totals
<1>6. BeforeS4'
  <2> SUFFICES ASSUME core["bsp"].pc \in Early PROVE BeforeS4'
    BY Zenon, <1>1 DEF BeforeS4
  <2>1. /\ core["ap"].pc \in {"entry", "up"} /\ ~mem.kick /\ ~mem.shutdown /\ ~mem.done
        /\ \A s \in Slot : mem.counter[s] = 0
    BY Zenon, <1>2 DEF SmpLock, Exclusion, Exact, BeforeS4, Idle
  <2>2. ~mem'.kick /\ ~mem'.done /\ \A s \in Slot : mem'.counter[s] = 0
    BY Zenon, <1>1, <2>1 DEF ApSteps, ApMove, ApOther
  <2> QED BY Zenon, <1>1, <2>1, <2>2 DEF BeforeS4, Idle
<1>7. InS4'
  <2> SUFFICES ASSUME core["bsp"].job = "s4", core["bsp"].pc \in JobPc \cup {"release", "done?", "s4"}
               PROVE  InS4'
    BY Zenon, <1>1 DEF InS4
  <2>1. /\ ~mem.kick /\ ~mem.shutdown /\ core["ap"].job = "s4"
        /\ core["ap"].pc \in {"entry", "up", "ret", "publish"}
        /\ mem.done \/ core["bsp"].pc = "s4" => mem.done /\ core["ap"].pc \in {"publish", "idle"}
        /\ Totals(core["ap"].pc \in {"publish", "idle"})
        /\ mem.counter[bsp] = IF core["bsp"].pc \in {"ret", "done?", "s4"} THEN 1 ELSE 0
        /\ mem.counter[1 - bsp] = IF core["ap"].pc \in {"ret", "publish", "idle"} THEN 1 ELSE 0
    <3>1. /\ ~mem.kick /\ ~mem.shutdown /\ core["ap"].job = "s4"
          /\ core["ap"].pc \in JobPc \cup {"held", "entry", "up", "publish", "idle"}
      BY Zenon DEF Exact, InS4, Idle
    <3>2. core["ap"].pc \in {"entry", "up", "ret", "publish"}
      BY Zenon, <1>1, <3>1 DEF ApSteps, ApMove, JobPc, Counts, Locking, Section
    <3> QED BY Zenon, <3>1, <3>2 DEF Exact, InS4
  <2>2. /\ ~mem'.kick /\ core'["ap"].job = "s4"
        /\ core'["ap"].pc \in {"up", "go", "publish", "idle"}
        /\ (core'["ap"].pc \in {"publish", "idle"} <=> core["ap"].pc \in {"ret", "publish", "idle"})
        /\ mem'.done => core'["ap"].pc \in {"publish", "idle"}
        /\ mem.done => mem'.done
        /\ mem'.counter[bsp] = mem.counter[bsp]
        /\ mem'.counter[1 - bsp] = IF core'["ap"].pc \in {"publish", "idle"} THEN 1 ELSE 0
    BY Zenon, <1>1, <2>1 DEF ApSteps, ApMove, ApOther
  <2>3. Totals(core["ap"].pc \in {"publish", "idle"})'
    <3> DEFINE f == core["ap"].pc \in {"publish", "idle"}
               g == core'["ap"].pc \in {"publish", "idle"}
    <3>1. f \in BOOLEAN /\ g \in BOOLEAN /\ Totals(f)
          /\ (f \/ core["ap"].pc = "ret" <=> g \/ core'["ap"].pc = "ret")
      BY <2>1, <2>2
    <3>2. CASE g
      <4>1. Totals(TRUE)'
        <5>1. CASE f
          BY Zenon, <1>5, <3>1, <3>2, <5>1 DEF Totals
        <5>2. CASE ~f
          <6>1. Totals(FALSE)
            BY Zenon, <3>1, <5>2 DEF Totals
          <6> QED BY Zenon, <1>5, <3>1, <3>2, <5>2, <6>1
        <5> QED BY Zenon, <5>1, <5>2
      <4> QED BY Zenon, <3>2, <4>1 DEF Totals
    <3>3. CASE ~g
      <4>1. Totals(FALSE)
        BY Zenon, <2>1, <2>2, <3>3 DEF Totals
      <4>2. Totals(FALSE)'
        BY Zenon, <1>5, <2>1, <2>2, <3>1, <3>3, <4>1
      <4> QED BY Zenon, <3>3, <4>2 DEF Totals
    <3> QED BY Zenon, <3>2, <3>3
  <2> QED BY Zenon, <1>1, <2>1, <2>2, <2>3 DEF InS4, Idle, JobPc
<1>8. BetweenJobs'
  <2> SUFFICES ASSUME core["bsp"].pc \in {"u3", "dispatch"} PROVE BetweenJobs'
    BY Zenon, <1>1 DEF BetweenJobs
  <2>1. ~mem.kick /\ ~mem.shutdown /\ core["ap"].pc \in {"publish", "idle"}
    BY Zenon DEF Exact, BetweenJobs, Idle
  <2>2. ~mem'.kick /\ core'["ap"].pc = "idle"
    BY Zenon, <1>1, <2>1 DEF ApSteps, ApMove, ApOther
  <2> QED BY Zenon, <1>1, <2>1, <2>2 DEF BetweenJobs, Idle
<1>9. HandingOver'
  <2> SUFFICES ASSUME core["bsp"].pc \in {"fn", "kick"}, core["bsp"].job \in Job PROVE HandingOver'
    BY Zenon, <1>1 DEF HandingOver
  <2>1. /\ ~mem.kick /\ ~mem.shutdown /\ core["ap"].pc \in {"publish", "idle"}
        /\ mem.gen = core["bsp"].gen /\ mem.locked = 0 /\ \A s \in Slot : mem.slot[s] = 0
        /\ core["bsp"].pc = "kick" => mem.fn = core["bsp"].job
    BY Zenon DEF Exact, HandingOver, Idle
  <2>2. ~mem'.kick /\ core'["ap"].pc = "idle" /\ mem'.gen = mem.gen
    BY Zenon, <1>1, <2>1 DEF ApSteps, ApMove, ApOther
  <2> QED BY Zenon, <1>1, <2>1, <2>2 DEF HandingOver, Idle
<1>10. Joint'
  <2> SUFFICES ASSUME core["bsp"].job \in Job, core["bsp"].pc \in JobPc \cup {"release", "gen?", "cut"}
               PROVE  Joint'
    BY Zenon, <1>1 DEF Joint
  <2> DEFINE Slots(fin, ret) ==
               core["bsp"].job = "drf" =>
                 /\ mem.slot[bsp] = IF core["bsp"].own /\ core["bsp"].pc \in {"ret", "gen?", "cut"}
                                    THEN 1 + bsp ELSE 0
                 /\ mem.slot[1 - bsp] = IF fin \/ ret THEN 2 - bsp ELSE 0
  <2>1. /\ ~mem.shutdown
        /\ \/ (Kicked \/ Taken) /\ mem.gen = core["bsp"].gen /\ mem.fn = core["bsp"].job
           \/ Runs /\ mem.gen = core["bsp"].gen
           \/ Reported /\ mem.gen = core["bsp"].gen + 1
        /\ core["bsp"].pc = "cut" => mem.gen # core["bsp"].gen
        /\ core["bsp"].job = "proc" => Totals(mem.gen # core["bsp"].gen)
        /\ Slots(mem.gen # core["bsp"].gen, core["ap"].pc = "ret")
    BY Zenon DEF Exact, Joint
  <2>2. core["bsp"].job # NoJob /\ core["bsp"].job # "s4"
    BY Zenon DEF Job, NoJob
  <2>3. ~Reported
    BY Zenon, <1>1, <2>1 DEF ApSteps, ApMove, Reported
  <2>4. CASE (Kicked \/ Taken) /\ mem.gen = core["bsp"].gen /\ mem.fn = core["bsp"].job
    <3>1. /\ (Kicked' \/ Taken' \/ Runs') /\ mem'.gen = mem.gen
          /\ core["ap"].pc # "ret" /\ core'["ap"].pc # "ret"
      BY Zenon, <1>1, <2>1, <2>2, <2>4 DEF ApSteps, ApMove, ApOther, Kicked, Taken, Runs, JobPc
    <3>2. core["bsp"].job = "proc" => Totals(FALSE)'
      <4> SUFFICES ASSUME core["bsp"].job = "proc" PROVE Totals(FALSE)'
        BY Zenon
      <4>1. Totals(FALSE)
        BY Zenon, <2>1, <2>4 DEF Totals
      <4> QED BY Zenon, <1>5, <3>1, <4>1
    <3>3. core["bsp"].job = "proc" => Totals(mem.gen # core["bsp"].gen)'
      BY Zenon, <1>1, <2>4, <3>1, <3>2 DEF Totals
    <3> QED BY Zenon, <1>1, <2>1, <2>4, <3>1, <3>3 DEF Joint
  <2>5. CASE Runs /\ mem.gen = core["bsp"].gen
    <3>1. /\ Reported' /\ mem'.gen = core["bsp"].gen + 1 /\ core["ap"].pc = "ret"
          /\ core'["ap"].pc = "idle"
      BY Zenon, <1>1, <2>2, <2>5 DEF ApSteps, ApMove, ApOther, Reported, Runs, JobPc, Counts, Locking, Section
    <3>2. mem'.gen # core["bsp"].gen
      BY SMTT(30), <1>1, <3>1
    <3>3. core["bsp"].job = "proc" => Totals(TRUE)'
      <4> SUFFICES ASSUME core["bsp"].job = "proc" PROVE Totals(TRUE)'
        BY Zenon
      <4>1. Totals(FALSE)
        BY Zenon, <2>1, <2>5 DEF Totals
      <4> QED BY Zenon, <1>5, <3>1, <4>1
    <3>4. core["bsp"].job = "proc" => Totals(mem.gen # core["bsp"].gen)'
      BY Zenon, <1>1, <3>2, <3>3 DEF Totals
    <3> QED BY Zenon, <1>1, <2>1, <3>1, <3>2, <3>4 DEF Joint
  <2> QED BY Zenon, <2>1, <2>3, <2>4, <2>5
<1> QED BY Zenon, <1>6, <1>7, <1>8, <1>9, <1>10 DEF Exact





(* A step of the boot core that leaves the second core where it is. *)
BspFrame ==
  /\ core' \in [Core -> CoreRec] /\ core'["ap"] = core["ap"] /\ core'["bsp"].pc \in BspPc
  /\ core'["bsp"].i = core["bsp"].i /\ core'["bsp"].reg = core["bsp"].reg
  /\ mem' \in MemRec /\ bsp' = bsp
BspStays == core'["bsp"].job = core["bsp"].job /\ core'["bsp"].gen = core["bsp"].gen
            /\ core'["bsp"].own = core["bsp"].own

LEMMA BspGoes ==
  ASSUME SmpTypes, NEW pc1 \in BspPc, Go("bsp", pc1)
  PROVE  /\ core' \in [Core -> CoreRec] /\ core'["ap"] = core["ap"] /\ core'["bsp"].pc = pc1
         /\ core'["bsp"].i = core["bsp"].i /\ core'["bsp"].reg = core["bsp"].reg
         /\ BspStays
<1>1. core \in [Core -> CoreRec] /\ core' = [core EXCEPT !["bsp"].pc = pc1]
  BY Zenon DEF SmpTypes, Go
<1>2. core'["bsp"] = [core["bsp"] EXCEPT !.pc = pc1] /\ core'["ap"] = core["ap"]
  BY Zenon, <1>1 DEF Core, CoreRec
<1>3. core' \in [Core -> CoreRec]
  BY Zenon, <1>1 DEF Core, CoreRec
<1> QED BY Zenon, <1>1, <1>2, <1>3 DEF Core, CoreRec, BspStays

(* It keeps the lock in order if it does not touch the word, or no core is near it. *)
LEMMA BspLock ==
  ASSUME SmpLock, BspFrame, ~InSection("bsp"), ~InSection("bsp")',
         mem'.lock = mem.lock \/ core["bsp"].pc \in Early,
         core'["bsp"].pc \in Early => core["bsp"].pc \in Early /\ mem'.go = mem.go,
         JobOK("bsp")', BspOK'
  PROVE  SmpLock'
<1>1. SmpTypes'
  BY Zenon DEF SmpLock, SmpTypes, BspFrame
<1>2. JobOK("ap")'
  <2>1. JobOK("ap") /\ core'["ap"] = core["ap"]
    BY Zenon DEF SmpLock, Core, BspFrame
  <2> QED BY Zenon, <2>1 DEF JobOK
<1>3. InSection("ap")' = InSection("ap") /\ (InSection("ap") => mem'.lock)
  <2>1. InSection("ap") => mem.lock /\ core["bsp"].pc \notin Early
    BY Zenon DEF SmpLock, Exclusion, Core, InSection
  <2> QED BY Zenon, <2>1 DEF BspFrame, InSection
<1>4. Exclusion'
  BY Zenon, <1>3 DEF SmpLock, Exclusion, BspFrame, Core
<1> QED BY Zenon, <1>1, <1>2, <1>4 DEF SmpLock, Core

(* The waits.  A wait that ends in time finds what it waited for. *)
LEMMA BspWaits ==
  ASSUME Loops, SmpInv, BspWait
  PROVE  SmpInv'
<1> DEFINE Waits(pc0, pc1) == /\ core["bsp"].pc = pc0 /\ core'["bsp"].pc = pc1 /\ BspStays
                              /\ core'["ap"] = core["ap"] /\ BspFrame /\ mem' = mem
<1>1. ASSUME NEW pc0, NEW pc1 \in BspPc, At("bsp", pc0), Go("bsp", pc1), UNCHANGED <<bsp, mem>>
      PROVE  Waits(pc0, pc1)
  <2>1. core["bsp"].pc = pc0 /\ mem' = mem /\ bsp' = bsp /\ mem \in MemRec
    BY Zenon, <1>1 DEF At, SmpInv, SmpLock, SmpTypes
  <2> QED BY Zenon, <1>1, <2>1, BspGoes DEF BspFrame, SmpInv, SmpLock
<1>2. /\ "announced?" \in BspPc /\ "u3" \in BspPc /\ "send" \in BspPc /\ "rev?" \in BspPc
      /\ "reset" \in BspPc /\ "s4" \in BspPc /\ "cut" \in BspPc
  BY Zenon DEF BspPc, Early
<1>3. \/ Waits("up?", "u3") /\ overdue'
      \/ Waits("up?", "announced?") \/ Waits("announced?", "send") \/ Waits("fwd?", "rev?")
      \/ Waits("rev?", "reset")
      \/ Waits("done?", "s4") /\ (overdue' \/ (mem.done /\ overdue' = overdue))
      \/ Waits("gen?", "cut") /\ (overdue' \/ (mem.gen # core["bsp"].gen /\ overdue' = overdue))
  <2> HIDE DEF Waits
  <2>1. CASE Wait("up?", mem.up[1 - bsp], "announced?", "u3")
    BY Zenon, <1>1, <1>2, <2>1 DEF Wait
  <2>2. CASE Wait("announced?", mem.announced, "send", "send")
    BY Zenon, <1>1, <1>2, <2>2 DEF Wait
  <2>3. CASE Wait("fwd?", mem.received[1 - bsp], "rev?", "rev?")
    BY Zenon, <1>1, <1>2, <2>3 DEF Wait
  <2>4. CASE Wait("rev?", mem.received[bsp], "reset", "reset")
    BY Zenon, <1>1, <1>2, <2>4 DEF Wait
  <2>5. CASE Wait("done?", mem.done, "s4", "s4")
    <3>1. Waits("done?", "s4")
      BY Zenon, <1>1, <1>2, <2>5 DEF Wait
    <3>2. overdue' \/ (mem.done /\ overdue' = overdue)
      BY Zenon, <2>5 DEF Wait
    <3> QED BY Zenon, <3>1, <3>2
  <2>6. CASE Wait("gen?", mem.gen # core["bsp"].gen, "cut", "cut")
    <3>1. Waits("gen?", "cut")
      BY Zenon, <1>1, <1>2, <2>6 DEF Wait
    <3>2. overdue' \/ (mem.gen # core["bsp"].gen /\ overdue' = overdue)
      BY Zenon, <2>6 DEF Wait
    <3> QED BY Zenon, <3>1, <3>2
  <2> QED BY Zenon, <2>1, <2>2, <2>3, <2>4, <2>5, <2>6 DEF BspWait
<1>4. overdue => overdue'
  BY Zenon DEF BspWait, Wait
<1>5. /\ core["bsp"].pc \in {"up?", "announced?", "fwd?", "rev?", "done?", "gen?"}
      /\ core'["bsp"].pc \in {"u3", "announced?", "send", "rev?", "reset", "s4", "cut"}
      /\ BspStays /\ BspFrame /\ mem' = mem
  BY Zenon, <1>3
<1>6. SmpLock'
  <2>1. JobOK("bsp")'
    BY Zenon, <1>5 DEF JobOK, JobPc, Counts, Locking, Section
  <2>2. BspOK'
    <3>1. BspOK
      BY Zenon DEF SmpInv, SmpLock
    <3> QED BY Zenon, <1>3, <1>5, <3>1 DEF BspOK, BspStays, Early, JobPc, Counts, Locking, Section
  <2>3. ~InSection("bsp") /\ ~InSection("bsp")'
    BY Zenon, <1>5 DEF InSection
  <2>4. core'["bsp"].pc \in Early => core["bsp"].pc \in Early
    BY Zenon, <1>3 DEF Early
  <2> QED BY Zenon, <1>5, <2>1, <2>2, <2>3, <2>4, BspLock DEF SmpInv
<1>7. ASSUME ~overdue' PROVE Exact'
  <2>1. ~overdue /\ Exact
    BY Zenon, <1>4, <1>7 DEF SmpInv
  <2>2. CASE core["bsp"].pc \in {"up?", "announced?", "fwd?", "rev?"}
    <3>1. core["bsp"].pc \in Early /\ core'["bsp"].pc \in {"announced?", "send", "rev?", "reset"}
      BY Zenon, <1>3, <1>7, <2>2 DEF Early
    <3>2. BeforeS4'
      BY Zenon, <1>5, <2>1, <3>1 DEF Exact, BeforeS4, Idle, BspFrame
    <3> QED BY Zenon, <3>1, <3>2 DEF Exact, InS4, BetweenJobs, HandingOver, Joint, JobPc, Counts, Locking, Section
  <2>3. CASE Waits("done?", "s4") /\ mem.done
    <3>1. core["bsp"].job = "s4"
      BY Zenon, <2>3 DEF SmpInv, SmpLock, BspOK
    <3>2. InS4'
      <4>1. /\ Idle /\ core["ap"].job = "s4" /\ core["ap"].pc \in {"publish", "idle"}
            /\ Totals(core["ap"].pc \in {"publish", "idle"})
            /\ mem.counter[bsp] = 1 /\ mem.counter[1 - bsp] = 1
        BY Zenon, <2>1, <2>3, <3>1 DEF Exact, InS4
      <4>2. Share("ap")' = Share("ap")
        BY Zenon, <2>3 DEF Share
      <4>3. Totals(core["ap"].pc \in {"publish", "idle"})'
        BY Zenon, <2>3, <4>1, <4>2 DEF Totals, Core
      <4> QED BY Zenon, <2>3, <4>1, <4>3 DEF InS4, Idle, BspStays, BspFrame
    <3> QED BY Zenon, <2>3, <3>1, <3>2
            DEF Exact, BeforeS4, BetweenJobs, HandingOver, Joint, Early, BspStays, JobPc, Counts, Locking, Section
  <2>4. CASE Waits("gen?", "cut") /\ mem.gen # core["bsp"].gen
    <3>1. core["bsp"].job \in Job
      BY Zenon, <2>4 DEF SmpInv, SmpLock, BspOK
    <3>2. Joint'
      <4>1. /\ ~mem.shutdown /\ Reported /\ mem.gen = core["bsp"].gen + 1
            /\ core["bsp"].job = "proc" => Totals(mem.gen # core["bsp"].gen)
            /\ core["bsp"].job = "drf" =>
                 /\ mem.slot[bsp] = IF core["bsp"].own THEN 1 + bsp ELSE 0
                 /\ mem.slot[1 - bsp] = 2 - bsp
        BY Zenon, <2>1, <2>4, <3>1 DEF Exact, Joint
      <4>2. Share("ap")' = Share("ap")
        BY Zenon, <2>4 DEF Share
      <4>3. core["bsp"].job = "proc" => Totals(mem.gen # core["bsp"].gen)'
        BY Zenon, <2>4, <4>1, <4>2 DEF Totals, Core, BspStays
      <4>4. Reported' /\ mem'.gen = core'["bsp"].gen + 1 /\ mem'.gen # core'["bsp"].gen
        BY Zenon, <2>4, <4>1 DEF Reported, BspStays
      <4> QED BY Zenon, <2>4, <4>1, <4>3, <4>4 DEF Joint, BspStays, BspFrame
    <3> QED BY Zenon, <2>4, <3>1, <3>2
            DEF Exact, BeforeS4, BetweenJobs, HandingOver, InS4, Early, BspStays, Job, JobPc, Counts, Locking, Section
  <2> QED BY Zenon, <1>3, <1>7, <2>2, <2>3, <2>4
<1> QED BY Zenon, <1>6, <1>7 DEF SmpInv

(* The boot core's steps of bring-up and of S4, up to the start flag. *)
LEMMA BspBringUp ==
  ASSUME Loops, SmpInv, BspStart \/ BspSendIpi \/ BspReset, UNCHANGED <<bsp, overdue>>
  PROVE  SmpInv'
<1>0. /\ SmpLock /\ SmpTypes /\ mem \in MemRec /\ core \in [Core -> CoreRec]
      /\ bsp \in Slot /\ 1 - bsp \in Slot
  BY DEF SmpInv, SmpLock, SmpTypes, Slot
<1>1. CASE BspStart
  <2>1. /\ core["bsp"].pc = "start" /\ core' = [core EXCEPT !["bsp"].pc = "up?", !["ap"].pc = "entry"]
        /\ mem' = mem
    BY Zenon, <1>1 DEF BspStart, At
  <2>2. /\ core' \in [Core -> CoreRec] /\ core'["bsp"].pc = "up?" /\ core'["ap"].pc = "entry"
        /\ BspStays /\ core'["ap"].job = core["ap"].job
    BY <1>0, <2>1 DEF Core, CoreRec, BspPc, ApPc, Early, BspStays
  <2>3. core["bsp"].pc \in Early /\ core["ap"].job = "s4" /\ core["bsp"].job = "s4" /\ ~mem.go["smp"]
        /\ core["bsp"].own
    BY Zenon, <1>0, <2>1 DEF Early, SmpLock, Exclusion, BspOK
  <2>4. SmpTypes'
    BY Zenon, <1>0, <2>1, <2>2 DEF SmpTypes, BspPc, ApPc, Early
  <2>5. JobOK("bsp")' /\ JobOK("ap")' /\ BspOK'
    BY Zenon, <2>2, <2>3 DEF JobOK, BspOK, BspStays, Early, JobPc, Counts, Locking, Section
  <2>6. Exclusion'
    BY Zenon, <2>1, <2>2, <2>3 DEF Exclusion, InSection, Core
  <2>7. ASSUME ~overdue PROVE Exact'
    <3>1. BeforeS4'
      BY Zenon, <2>1, <2>3, <2>7 DEF SmpInv, Exact, BeforeS4, Idle
    <3> QED BY Zenon, <2>2, <3>1 DEF Exact, InS4, BetweenJobs, HandingOver, Joint, JobPc, Counts, Locking, Section
  <2> QED BY Zenon, <2>4, <2>5, <2>6, <2>7 DEF SmpInv, SmpLock, Core
<1>2. CASE BspSendIpi
  <2>1. /\ core["bsp"].pc = "send" /\ mem' = [mem EXCEPT !.received[1 - bsp] = FALSE]
        /\ Go("bsp", "fwd?") /\ "fwd?" \in BspPc
    BY Zenon, <1>2 DEF BspSendIpi, At, BspPc, Early
  <2>2. /\ core'["bsp"].pc = "fwd?" /\ BspStays /\ core'["ap"] = core["ap"]
        /\ core' \in [Core -> CoreRec]
        /\ core'["bsp"].i = core["bsp"].i /\ core'["bsp"].reg = core["bsp"].reg
    BY Zenon, <1>0, <2>1, BspGoes
  <2>3. /\ mem' \in MemRec /\ mem'.lock = mem.lock /\ mem'.go = mem.go /\ mem'.kick = mem.kick
        /\ mem'.shutdown = mem.shutdown /\ mem'.done = mem.done /\ mem'.counter = mem.counter
    BY Zenon, <1>0, <2>1 DEF MemRec
  <2>4. core["bsp"].pc \in Early /\ core["bsp"].job = "s4" /\ core["bsp"].own
    BY Zenon, <1>0, <2>1 DEF Early, SmpLock, BspOK
  <2>5. SmpLock'
    <3>1. JobOK("bsp")' /\ BspOK'
      BY Zenon, <2>2, <2>4 DEF JobOK, BspOK, BspStays, Early, JobPc, Counts, Locking, Section
    <3>2. BspFrame
      BY Zenon, <2>1, <2>2, <2>3 DEF BspFrame
    <3>3. ~InSection("bsp") /\ ~InSection("bsp")'
      BY Zenon, <2>1, <2>2 DEF InSection
    <3> QED BY Zenon, <1>0, <2>3, <2>4, <3>1, <3>2, <3>3, BspLock
  <2>6. ASSUME ~overdue PROVE Exact'
    <3>1. BeforeS4'
      BY Zenon, <2>3, <2>4, <2>6 DEF SmpInv, Exact, BeforeS4, Idle
    <3> QED BY Zenon, <2>2, <3>1 DEF Exact, InS4, BetweenJobs, HandingOver, Joint, JobPc, Counts, Locking, Section
  <2> QED BY Zenon, <2>5, <2>6 DEF SmpInv
<1>3. CASE BspReset
  <2>1. /\ core["bsp"].pc = "reset" /\ Go("bsp", "release") /\ "release" \in BspPc
        /\ mem' = [mem EXCEPT !.race = 0, !.locked = 0, !.lock = FALSE, !.done = FALSE]
    BY Zenon, <1>3 DEF BspReset, At, BspPc
  <2>2. /\ core'["bsp"].pc = "release" /\ BspStays /\ core'["ap"] = core["ap"]
        /\ core' \in [Core -> CoreRec]
        /\ core'["bsp"].i = core["bsp"].i /\ core'["bsp"].reg = core["bsp"].reg
    BY Zenon, <1>0, <2>1, BspGoes
  <2>3. /\ mem' \in MemRec /\ mem'.go = mem.go /\ mem'.kick = mem.kick /\ mem'.locked = 0
        /\ mem'.shutdown = mem.shutdown /\ ~mem'.done /\ mem'.counter = mem.counter
    BY Zenon, <1>0, <2>1 DEF MemRec
  <2>4. /\ core["bsp"].pc \in Early /\ core["bsp"].job = "s4" /\ core["bsp"].own
        /\ core["ap"].pc \in {"held", "entry", "up", "go"} /\ core["ap"].job = "s4"
    BY Zenon, <1>0, <2>1 DEF Early, SmpLock, BspOK, Exclusion
  <2>5. SmpLock'
    <3>1. JobOK("bsp")' /\ BspOK'
      BY Zenon, <2>2, <2>4 DEF JobOK, BspOK, BspStays, Early, JobPc, Counts, Locking, Section
    <3>2. BspFrame
      BY Zenon, <2>1, <2>2, <2>3 DEF BspFrame
    <3>3. ~InSection("bsp") /\ ~InSection("bsp")'
      BY Zenon, <2>1, <2>2 DEF InSection
    <3>4. core'["bsp"].pc \notin Early
      BY Zenon, <2>2 DEF Early
    <3> QED BY Zenon, <1>0, <2>4, <3>1, <3>2, <3>3, <3>4, BspLock
  <2>6. ASSUME ~overdue PROVE Exact'
    <3>1. Idle /\ \A s \in Slot : mem.counter[s] = 0
      BY Zenon, <2>4, <2>6 DEF SmpInv, Exact, BeforeS4
    <3>2. Share("bsp")' = 0 /\ Share("ap")' = 0
      BY Zenon, <2>2, <2>4 DEF Share
    <3>3. Totals(core["ap"].pc \in {"publish", "idle"})'
      BY <2>2, <2>3, <2>4, <3>2 DEF Totals, Core
    <3>4. InS4'
      BY Zenon, <1>0, <2>2, <2>3, <2>4, <3>1, <3>3 DEF InS4, Idle, BspStays, JobPc
    <3> QED BY Zenon, <2>2, <2>4, <3>4 DEF Exact, BeforeS4, BetweenJobs, HandingOver, Joint, Early, BspStays, Job
  <2> QED BY Zenon, <2>5, <2>6 DEF SmpInv
<1> QED BY Zenon, <1>1, <1>2, <1>3

(* The boot core's steps that change no word of the job: start flag, end of its half,
   the way to the next job. *)
LEMMA BspPasses ==
  ASSUME Loops, SmpInv, UNCHANGED <<bsp, overdue>>,
         \/ BspRelease \/ BspHalfDone \/ U3Enter \/ BspCut
         \/ At("bsp", "s4") /\ Go("bsp", "u3") /\ UNCHANGED <<mem, irq, jobs>>
  PROVE  SmpInv'
<1>0. /\ SmpLock /\ SmpTypes /\ mem \in MemRec /\ core \in [Core -> CoreRec]
      /\ bsp \in Slot /\ 1 - bsp \in Slot /\ core["bsp"].job \in AnyJob /\ BspOK /\ JobOK("bsp")
  BY DEF SmpInv, SmpLock, SmpTypes, Slot, CoreRec, Core
<1>1. PICK pc1 \in {"go", "gen?", "done?", "dispatch", "end", "u3"} :
        /\ Go("bsp", pc1)
        /\ \/ /\ core["bsp"].pc = "release" /\ pc1 = IF core["bsp"].own THEN "go" ELSE "gen?"
              /\ mem' = [mem EXCEPT !.go[Flag(core["bsp"].job)] = TRUE]
           \/ /\ core["bsp"].pc = "ret" /\ pc1 = IF core["bsp"].job = "s4" THEN "done?" ELSE "gen?"
              /\ mem' = mem
           \/ core["bsp"].pc = "u3" /\ pc1 \in {"dispatch", "end"} /\ mem' = mem
           \/ core["bsp"].pc = "cut" /\ pc1 = "dispatch" /\ mem' = mem
           \/ core["bsp"].pc = "s4" /\ pc1 = "u3" /\ mem' = mem
  <2>1. CASE BspRelease
    BY Zenon, <2>1 DEF BspRelease, At
  <2>2. CASE BspHalfDone
    BY Zenon, <2>2 DEF BspHalfDone, At
  <2>3. CASE U3Enter
    BY Zenon, <2>3 DEF U3Enter, At
  <2>4. CASE BspCut
    BY Zenon, <2>4 DEF BspCut, At
  <2>5. CASE At("bsp", "s4") /\ Go("bsp", "u3") /\ UNCHANGED <<mem, irq, jobs>>
    BY Zenon, <2>5 DEF At
  <2> QED BY Zenon, <2>1, <2>2, <2>3, <2>4, <2>5
<1>2. pc1 \in BspPc
  BY Zenon DEF BspPc, JobPc, Early, Counts, Locking, Section
<1>3. /\ core'["bsp"].pc = pc1 /\ BspStays /\ core'["ap"] = core["ap"]
      /\ core' \in [Core -> CoreRec]
      /\ core'["bsp"].i = core["bsp"].i /\ core'["bsp"].reg = core["bsp"].reg
  BY Zenon, <1>0, <1>1, <1>2, BspGoes
<1>4. /\ mem' \in MemRec /\ mem'.lock = mem.lock /\ mem'.kick = mem.kick /\ mem'.gen = mem.gen
      /\ mem'.shutdown = mem.shutdown /\ mem'.done = mem.done /\ mem'.counter = mem.counter
      /\ mem'.locked = mem.locked /\ mem'.slot = mem.slot /\ mem'.fn = mem.fn
  <2>1. CASE mem' = mem
    BY Zenon, <1>0, <2>1
  <2>2. CASE mem' = [mem EXCEPT !.go[Flag(core["bsp"].job)] = TRUE]
    <3>1. Flag(core["bsp"].job) \in {"smp", "u3", "dr"}
      BY Zenon DEF Flag
    <3> QED BY Zenon, <1>0, <2>2, <3>1 DEF MemRec
  <2> QED BY Zenon, <1>1, <2>1, <2>2
<1>5. core["bsp"].pc \notin Early /\ pc1 \notin Early /\ ~InSection("bsp") /\ ~InSection("bsp")'
  BY Zenon, <1>1, <1>3 DEF Early, InSection
<1>6. SmpLock'
  <2>1. /\ pc1 = "go" => core["bsp"].pc = "release" /\ core["bsp"].own
        /\ pc1 = "done?" => core["bsp"].job = "s4"
        /\ pc1 = "gen?" => core["bsp"].job # "s4" /\ core["bsp"].pc \in {"release", "ret"}
    BY Zenon, <1>0, <1>1 DEF BspOK
  <2>2. core["bsp"].pc \in {"release", "ret"} => core["bsp"].job \in Job \cup {"s4"}
    BY Zenon, <1>0, <1>1 DEF BspOK, JobOK, AnyJob, JobPc
  <2>3. JobOK("bsp")'
    BY Zenon, <1>1, <1>3, <2>1, <2>2 DEF JobOK, BspStays, Job, NoJob, JobPc, Counts, Locking, Section
  <2>4. BspOK'
    BY Zenon, <1>0, <1>3, <1>5, <2>1, <2>2 DEF BspOK, BspStays, JobPc, Counts, Locking, Section
  <2>5. BspFrame
    BY Zenon, <1>2, <1>3, <1>4 DEF BspFrame
  <2> QED BY Zenon, <1>0, <1>3, <1>4, <1>5, <2>3, <2>4, <2>5, BspLock
<1>7. ASSUME ~overdue PROVE Exact'
  <2>1. Exact /\ Share("ap")' = Share("ap") /\ bsp' = bsp
    BY Zenon, <1>3, <1>7 DEF SmpInv, Share
  <2>2. BeforeS4'
    BY Zenon, <1>3, <1>5 DEF BeforeS4
  <2>3. ASSUME core["bsp"].pc \in {"release", "ret"} PROVE Exact'
    <3>1. pc1 \in {"go", "gen?", "done?"}
      BY Zenon, <1>1, <2>3
    <3>2. BetweenJobs' /\ HandingOver'
      BY Zenon, <1>3, <3>1 DEF BetweenJobs, HandingOver
    <3>3. Share("bsp") = IF core["bsp"].pc = "ret" THEN SMP_N ELSE 0
      BY Zenon, <2>3 DEF Share
    <3>4. core["bsp"].job \in {"s4", "proc"} =>
            (IF core'["bsp"].pc \in {"done?", "s4", "gen?", "cut"} THEN SMP_N ELSE Share("bsp")')
              = Share("bsp")
      <4>1. CASE core["bsp"].pc = "ret"
        BY Zenon, <1>1, <1>3, <3>3, <4>1
      <4>2. CASE core["bsp"].pc = "release" /\ core["bsp"].job \in {"s4", "proc"}
        <5>1. core'["bsp"].pc = "go"
          BY Zenon, <1>0, <1>1, <1>3, <4>2 DEF BspOK, NoJob
        <5> QED BY Zenon, <3>3, <4>2, <5>1 DEF Share
      <4> QED BY Zenon, <2>3, <4>1, <4>2
    <3>5. core["bsp"].job \in {"s4", "proc"} => \A f \in BOOLEAN : Totals(f) => Totals(f)'
      <4>1. core["bsp"].pc \notin {"done?", "s4", "gen?", "cut"} /\ pc1 # "lwrite"
        BY Zenon, <2>3, <3>1
      <4> QED BY SMTT(30), <1>3, <1>4, <2>1, <3>4, <4>1 DEF Totals, Core
    <3>6. InS4'
      <4> SUFFICES ASSUME core["bsp"].job = "s4" PROVE InS4'
        BY Zenon, <1>3 DEF InS4, BspStays
      <4>1. /\ Idle /\ core["ap"].job = "s4"
            /\ core["ap"].pc \in JobPc \cup {"held", "entry", "up", "publish", "idle"}
            /\ mem.done => core["ap"].pc \in {"publish", "idle"}
            /\ Totals(core["ap"].pc \in {"publish", "idle"})
            /\ mem.counter[bsp] = IF core["bsp"].pc = "ret" THEN 1 ELSE 0
            /\ mem.counter[1 - bsp] = IF core["ap"].pc \in {"ret", "publish", "idle"} THEN 1 ELSE 0
        BY Zenon, <2>1, <2>3 DEF Exact, InS4, JobPc
      <4>2. Totals(core["ap"].pc \in {"publish", "idle"})'
        <5>1. CASE core["ap"].pc \in {"publish", "idle"}
          <6>1. Totals(TRUE)'
            BY Zenon, <3>5, <4>1, <5>1 DEF Totals
          <6> QED BY Zenon, <1>3, <5>1, <6>1 DEF Totals
        <5>2. CASE core["ap"].pc \notin {"publish", "idle"}
          <6>1. Totals(FALSE)'
            BY Zenon, <3>5, <4>1, <5>2 DEF Totals
          <6> QED BY Zenon, <1>3, <5>2, <6>1 DEF Totals
        <5> QED BY Zenon, <5>1, <5>2
      <4>3. pc1 # "s4" /\ (pc1 \in {"ret", "done?", "s4"} <=> core["bsp"].pc = "ret")
        BY Zenon, <1>0, <1>1, <2>3 DEF BspOK
      <4> QED BY Zenon, <1>3, <1>4, <2>1, <4>1, <4>2, <4>3 DEF InS4, Idle
    <3>7. Joint'
      <4> SUFFICES ASSUME core["bsp"].job \in Job PROVE Joint'
        BY Zenon, <1>3 DEF Joint, BspStays
      <4>1. /\ ~mem.shutdown
            /\ \/ (Kicked \/ Taken) /\ mem.gen = core["bsp"].gen /\ mem.fn = core["bsp"].job
               \/ Runs /\ mem.gen = core["bsp"].gen
               \/ Reported /\ mem.gen = core["bsp"].gen + 1
            /\ core["bsp"].job = "proc" => Totals(mem.gen # core["bsp"].gen)
            /\ core["bsp"].job = "drf" =>
                 /\ mem.slot[bsp] = IF core["bsp"].own /\ core["bsp"].pc \in {"ret", "gen?", "cut"}
                                    THEN 1 + bsp ELSE 0
                 /\ mem.slot[1 - bsp] = IF mem.gen # core["bsp"].gen \/ core["ap"].pc = "ret"
                                        THEN 2 - bsp ELSE 0
        BY Zenon, <2>1, <2>3 DEF Exact, Joint, JobPc
      <4>2. core["bsp"].job = "proc" => Totals(mem.gen # core["bsp"].gen)'
        <5> SUFFICES ASSUME core["bsp"].job = "proc" PROVE Totals(mem.gen # core["bsp"].gen)'
          BY Zenon
        <5>1. mem'.gen # core'["bsp"].gen <=> mem.gen # core["bsp"].gen
          BY Zenon, <1>3, <1>4 DEF BspStays
        <5>2. CASE mem.gen # core["bsp"].gen
          <6>1. Totals(TRUE)'
            BY Zenon, <3>5, <4>1, <5>2 DEF Totals
          <6> QED BY Zenon, <5>1, <5>2, <6>1 DEF Totals
        <5>3. CASE mem.gen = core["bsp"].gen
          <6>1. Totals(FALSE)'
            BY Zenon, <3>5, <4>1, <5>3 DEF Totals
          <6> QED BY Zenon, <5>1, <5>3, <6>1 DEF Totals
        <5> QED BY Zenon, <5>2, <5>3
      <4>3. core["bsp"].job = "drf" =>
              (core["bsp"].own /\ pc1 \in {"ret", "gen?", "cut"} <=>
               core["bsp"].own /\ core["bsp"].pc \in {"ret", "gen?", "cut"})
        BY Zenon, <1>1, <2>3
      <4>4. \/ (Kicked' \/ Taken') /\ mem'.gen = core'["bsp"].gen /\ mem'.fn = core'["bsp"].job
            \/ Runs' /\ mem'.gen = core'["bsp"].gen
            \/ Reported' /\ mem'.gen = core'["bsp"].gen + 1
        BY Zenon, <1>3, <1>4, <4>1 DEF Kicked, Taken, Runs, Reported, BspStays
      <4>5. core'["bsp"].job = "drf" =>
              /\ mem'.slot[bsp'] = IF core'["bsp"].own /\ core'["bsp"].pc \in {"ret", "gen?", "cut"}
                                   THEN 1 + bsp' ELSE 0
              /\ mem'.slot[1 - bsp'] = IF mem'.gen # core'["bsp"].gen \/ core'["ap"].pc = "ret"
                                       THEN 2 - bsp' ELSE 0
        BY Zenon, <1>3, <1>4, <2>1, <4>1, <4>3 DEF BspStays
      <4>6. ~mem'.shutdown /\ core'["bsp"].pc # "cut"
        BY Zenon, <1>3, <1>4, <3>1, <4>1
      <4> QED BY Zenon, <1>3, <4>2, <4>4, <4>5, <4>6 DEF Joint, BspStays
    <3> QED BY Zenon, <2>2, <3>2, <3>6, <3>7 DEF Exact
  <2>4. ASSUME core["bsp"].pc \in {"u3", "cut", "s4"} PROVE Exact'
    <3>1. pc1 \in {"dispatch", "end", "u3"}
      BY Zenon, <1>1, <2>4
    <3>2. InS4' /\ HandingOver' /\ Joint'
      BY Zenon, <1>3, <3>1 DEF InS4, HandingOver, Joint, JobPc, Counts, Locking, Section
    <3>3. Idle /\ core["ap"].pc \in {"publish", "idle"}
      <4>1. CASE core["bsp"].pc = "u3"
        BY Zenon, <2>1, <4>1 DEF Exact, BetweenJobs
      <4>2. CASE core["bsp"].pc = "s4"
        BY Zenon, <1>0, <2>1, <4>2 DEF Exact, InS4, BspOK
      <4>3. CASE core["bsp"].pc = "cut"
        <5>1. core["bsp"].job \in Job
          BY Zenon, <1>0, <4>3 DEF BspOK
        <5>2. ~mem.shutdown /\ Reported
          BY Zenon, <2>1, <4>3, <5>1 DEF Exact, Joint
        <5> QED BY Zenon, <5>2 DEF Idle, Reported
      <4> QED BY Zenon, <2>4, <4>1, <4>2, <4>3
    <3>4. BetweenJobs'
      BY Zenon, <1>3, <1>4, <3>3 DEF BetweenJobs, Idle
    <3> QED BY Zenon, <2>2, <3>2, <3>4 DEF Exact
  <2> QED BY Zenon, <1>1, <2>3, <2>4
<1> QED BY Zenon, <1>6, <1>7 DEF SmpInv

(* The boot core hands a job over: the words cleared, the function, the flag; or it
   shuts the second core down. *)
LEMMA BspHands ==
  ASSUME Loops, SmpInv, UNCHANGED <<bsp, overdue>>,
         \/ KickFn \/ KickFlag \/ U3Shutdown
         \/ \E j \in Job, own \in BOOLEAN : U3Dispatch(j, own)
  PROVE  SmpInv'
<1>0. /\ SmpLock /\ SmpTypes /\ mem \in MemRec /\ core \in [Core -> CoreRec]
      /\ bsp \in Slot /\ 1 - bsp \in Slot /\ BspOK /\ core["bsp"].own \in BOOLEAN
  BY DEF SmpInv, SmpLock, SmpTypes, Slot, CoreRec, Core
<1>1. ASSUME NEW j \in Job, NEW own \in BOOLEAN, U3Dispatch(j, own) PROVE SmpInv'
  <2>1. /\ core["bsp"].pc = "dispatch" /\ (own \/ j = "drf")
        /\ mem' = [mem EXCEPT !.race = 0, !.locked = 0, !.slot = [s \in Slot |-> 0],
                              !.go[Flag(j)] = FALSE]
        /\ core' = [core EXCEPT !["bsp"].job = j, !["bsp"].own = own,
                                !["bsp"].gen = mem.gen, !["bsp"].pc = "fn"]
    BY Zenon, <1>1 DEF U3Dispatch, At
  <2>2. /\ core' \in [Core -> CoreRec] /\ core'["ap"] = core["ap"] /\ core'["bsp"].pc = "fn"
        /\ core'["bsp"].i = core["bsp"].i /\ core'["bsp"].reg = core["bsp"].reg
        /\ core'["bsp"].job = j /\ core'["bsp"].own = own /\ core'["bsp"].gen = mem.gen
    <3>1. mem.gen \in Nat /\ j \in AnyJob /\ "fn" \in BspPc
      BY Zenon, <1>0 DEF MemRec, AnyJob, BspPc
    <3> QED BY <1>0, <2>1, <3>1 DEF Core, CoreRec
  <2>3. /\ mem' \in MemRec /\ mem'.lock = mem.lock /\ mem'.kick = mem.kick /\ mem'.gen = mem.gen
        /\ mem'.shutdown = mem.shutdown /\ mem'.locked = 0 /\ \A s \in Slot : mem'.slot[s] = 0
    <3>1. Flag(j) \in {"smp", "u3", "dr"}
      BY Zenon DEF Flag
    <3> QED BY Zenon, <1>0, <2>1, <3>1 DEF MemRec
  <2>4. SmpLock'
    <3>1. JobOK("bsp")' /\ BspOK'
      BY Zenon, <2>1, <2>2 DEF JobOK, BspOK, Early, JobPc, Counts, Locking, Section, Job
    <3>2. BspFrame
      BY Zenon, <2>2, <2>3 DEF BspFrame, BspPc
    <3>3. ~InSection("bsp") /\ ~InSection("bsp")' /\ core'["bsp"].pc \notin Early
      BY Zenon, <2>1, <2>2 DEF InSection, Early
    <3> QED BY Zenon, <1>0, <2>3, <3>1, <3>2, <3>3, BspLock
  <2>5. ASSUME ~overdue PROVE Exact'
    <3>1. Idle /\ core["ap"].pc \in {"publish", "idle"}
      BY Zenon, <2>1, <2>5 DEF SmpInv, Exact, BetweenJobs
    <3>2. HandingOver'
      BY Zenon, <2>2, <2>3, <3>1 DEF HandingOver, Idle
    <3> QED BY Zenon, <2>2, <3>2 DEF Exact, BeforeS4, InS4, BetweenJobs, Joint, Early, JobPc, Counts, Locking, Section
  <2> QED BY Zenon, <2>4, <2>5 DEF SmpInv
<1>2. CASE U3Shutdown
  <2>1. /\ core["bsp"].pc = "dispatch" /\ mem' = [mem EXCEPT !.shutdown = TRUE]
        /\ core' = [core EXCEPT !["bsp"].job = NoJob, !["bsp"].pc = "fn"]
    BY Zenon, <1>2 DEF U3Shutdown, At
  <2>2. /\ core' \in [Core -> CoreRec] /\ core'["ap"] = core["ap"] /\ core'["bsp"].pc = "fn"
        /\ core'["bsp"].i = core["bsp"].i /\ core'["bsp"].reg = core["bsp"].reg
        /\ core'["bsp"].job = NoJob
    <3>1. NoJob \in AnyJob /\ "fn" \in BspPc
      BY Zenon DEF AnyJob, BspPc
    <3> QED BY <1>0, <2>1, <3>1 DEF Core, CoreRec
  <2>3. mem' \in MemRec /\ mem'.lock = mem.lock
    BY Zenon, <1>0, <2>1 DEF MemRec
  <2>4. SmpLock'
    <3>1. JobOK("bsp")' /\ BspOK'
      BY Zenon, <2>2 DEF JobOK, BspOK, Early, JobPc, Counts, Locking, Section, Job, NoJob
    <3>2. BspFrame
      BY Zenon, <2>2, <2>3 DEF BspFrame, BspPc
    <3>3. ~InSection("bsp") /\ ~InSection("bsp")' /\ core'["bsp"].pc \notin Early
      BY Zenon, <2>1, <2>2 DEF InSection, Early
    <3> QED BY Zenon, <1>0, <2>3, <3>1, <3>2, <3>3, BspLock
  <2>5. Exact'
    BY Zenon, <2>2 DEF Exact, BeforeS4, InS4, BetweenJobs, HandingOver, Joint, Early, JobPc, Counts, Locking,
                Section, Job, NoJob
  <2> QED BY Zenon, <2>4, <2>5 DEF SmpInv
<1>3. CASE KickFn
  <2>1. /\ core["bsp"].pc = "fn" /\ mem' = [mem EXCEPT !.fn = core["bsp"].job]
        /\ Go("bsp", "kick") /\ "kick" \in BspPc
    BY Zenon, <1>3 DEF KickFn, At, BspPc
  <2>2. /\ core'["bsp"].pc = "kick" /\ BspStays /\ core'["ap"] = core["ap"]
        /\ core' \in [Core -> CoreRec]
        /\ core'["bsp"].i = core["bsp"].i /\ core'["bsp"].reg = core["bsp"].reg
    BY Zenon, <1>0, <2>1, BspGoes
  <2>3. core["bsp"].job \in Job \cup {NoJob}
    BY Zenon, <1>0, <2>1 DEF BspOK
  <2>4. /\ mem' \in MemRec /\ mem'.lock = mem.lock /\ mem'.kick = mem.kick /\ mem'.gen = mem.gen
        /\ mem'.shutdown = mem.shutdown /\ mem'.locked = mem.locked /\ mem'.slot = mem.slot
        /\ mem'.fn = core["bsp"].job
    BY Zenon, <1>0, <2>1, <2>3 DEF MemRec
  <2>5. SmpLock'
    <3>1. JobOK("bsp")' /\ BspOK'
      BY Zenon, <1>0, <2>2, <2>3 DEF JobOK, BspOK, BspStays, Early, JobPc, Counts, Locking, Section
    <3>2. BspFrame
      BY Zenon, <2>2, <2>4 DEF BspFrame, BspPc
    <3>3. ~InSection("bsp") /\ ~InSection("bsp")' /\ core'["bsp"].pc \notin Early
      BY Zenon, <2>1, <2>2 DEF InSection, Early
    <3> QED BY Zenon, <1>0, <2>4, <3>1, <3>2, <3>3, BspLock
  <2>6. ASSUME ~overdue PROVE Exact'
    <3>1. HandingOver
      BY Zenon, <2>6 DEF SmpInv, Exact
    <3>2. HandingOver'
      BY Zenon, <2>1, <2>2, <2>4, <3>1 DEF HandingOver, Idle, BspStays
    <3> QED BY Zenon, <2>2, <3>2 DEF Exact, BeforeS4, InS4, BetweenJobs, Joint, Early, JobPc, Counts, Locking, Section
  <2> QED BY Zenon, <2>5, <2>6 DEF SmpInv
<1>4. CASE KickFlag
  <2> DEFINE pc1 == IF core["bsp"].job = NoJob THEN "end" ELSE "release"
  <2>1. /\ core["bsp"].pc = "kick" /\ mem' = [mem EXCEPT !.kick = TRUE]
        /\ Go("bsp", pc1) /\ pc1 \in BspPc
    BY Zenon, <1>4 DEF KickFlag, At, BspPc
  <2>2. /\ core'["bsp"].pc = pc1 /\ BspStays /\ core'["ap"] = core["ap"]
        /\ core' \in [Core -> CoreRec]
        /\ core'["bsp"].i = core["bsp"].i /\ core'["bsp"].reg = core["bsp"].reg
    <3> HIDE DEF pc1
    <3> QED BY Zenon, <1>0, <2>1, BspGoes
  <2>3. core["bsp"].job \in Job \cup {NoJob}
    BY Zenon, <1>0, <2>1 DEF BspOK
  <2>4. /\ mem' \in MemRec /\ mem'.lock = mem.lock /\ mem'.kick = TRUE /\ mem'.gen = mem.gen
        /\ mem'.shutdown = mem.shutdown /\ mem'.locked = mem.locked /\ mem'.slot = mem.slot
        /\ mem'.fn = mem.fn
    BY Zenon, <1>0, <2>1 DEF MemRec
  <2>5. SmpLock'
    <3>1. JobOK("bsp")' /\ BspOK'
      BY Zenon, <1>0, <2>2, <2>3 DEF JobOK, BspOK, BspStays, Early, JobPc, Counts, Locking, Section
    <3>2. BspFrame
      BY Zenon, <2>1, <2>2, <2>4 DEF BspFrame
    <3>3. ~InSection("bsp") /\ ~InSection("bsp")' /\ core'["bsp"].pc \notin Early
      BY Zenon, <2>1, <2>2 DEF InSection, Early
    <3> QED BY Zenon, <1>0, <2>4, <3>1, <3>2, <3>3, BspLock
  <2>6. ASSUME ~overdue PROVE Exact'
    <3>1. CASE core["bsp"].job = NoJob
      BY Zenon, <2>2, <3>1 DEF Exact, BeforeS4, InS4, BetweenJobs, HandingOver, Joint, Early, JobPc, Counts,
                        Locking, Section
    <3>2. CASE core["bsp"].job \in Job
      <4>1. /\ Idle /\ core["ap"].pc \in {"publish", "idle"}
            /\ mem.gen = core["bsp"].gen /\ mem.locked = 0 /\ \A s \in Slot : mem.slot[s] = 0
            /\ mem.fn = core["bsp"].job
        BY Zenon, <2>1, <2>6, <3>2 DEF SmpInv, Exact, HandingOver
      <4>2. core'["bsp"].pc = "release" /\ core["bsp"].job # "s4"
        BY Zenon, <2>2, <3>2 DEF Job, NoJob
      <4>3. Share("bsp")' = 0 /\ Share("ap")' = 0
        BY Zenon, <2>2, <4>1, <4>2 DEF Share
      <4>4. mem'.gen = core'["bsp"].gen
        BY Zenon, <2>2, <2>4, <4>1 DEF BspStays
      <4>5. Totals(mem.gen # core["bsp"].gen)'
        BY SMTT(30), <2>2, <2>4, <4>1, <4>2, <4>3, <4>4 DEF Totals, Core
      <4>6. Kicked' /\ ~mem'.shutdown
        BY Zenon, <2>2, <2>4, <4>1 DEF Kicked, Idle
      <4>7. Joint'
        BY SMTT(30), <1>0, <2>2, <2>4, <4>1, <4>2, <4>4, <4>5, <4>6 DEF Joint, BspStays
      <4> QED BY Zenon, <2>2, <4>2, <4>7 DEF Exact, BeforeS4, InS4, BetweenJobs, HandingOver, Early, BspStays
    <3> QED BY Zenon, <2>3, <3>1, <3>2
  <2> QED BY Zenon, <2>5, <2>6 DEF SmpInv
<1> QED BY Zenon, <1>1, <1>2, <1>3, <1>4

(* An interrupt only notes itself. *)
LEMMA IpiStep == ASSUME SmpInv, NEW c \in Core, isr_ipi(c) PROVE SmpInv'
<1>1. /\ mem' = [mem EXCEPT !.received[SlotOf(c)] = TRUE] /\ UNCHANGED <<bsp, core, overdue>>
      /\ mem \in MemRec /\ SlotOf(c) \in Slot
  BY DEF isr_ipi, SmpInv, SmpLock, SmpTypes, SlotOf, Slot
<1>2. /\ mem' \in MemRec /\ mem'.lock = mem.lock /\ mem'.go = mem.go /\ mem'.kick = mem.kick
      /\ mem'.gen = mem.gen /\ mem'.shutdown = mem.shutdown /\ mem'.locked = mem.locked
      /\ mem'.slot = mem.slot /\ mem'.fn = mem.fn /\ mem'.done = mem.done /\ mem'.counter = mem.counter
  BY Zenon, <1>1 DEF MemRec
<1>3. SmpLock'
  BY Zenon, <1>1, <1>2 DEF SmpInv, SmpLock, SmpTypes, JobOK, BspOK, Exclusion, InSection
<1>4. ASSUME Exact PROVE Exact'
  <2>1. BeforeS4' /\ BetweenJobs' /\ HandingOver'
    BY Zenon, <1>1, <1>2, <1>4 DEF Exact, BeforeS4, BetweenJobs, HandingOver, Idle
  <2>2. InS4'
    BY <1>1, <1>2, <1>4 DEF Exact, InS4, Idle, Totals, Share
  <2>3. Joint'
    BY <1>1, <1>2, <1>4 DEF Exact, Joint, Kicked, Taken, Runs, Reported, Totals, Share
  <2> QED BY Zenon, <2>1, <2>2, <2>3 DEF Exact
<1> QED BY Zenon, <1>1, <1>3, <1>4 DEF SmpInv

(* For every length of the two work loops, every number of jobs and every interleaving
   of the two cores with each other, with their interrupts and with the bounds of the
   waits: the xchg lock excludes; and as long as no wait has run out, a join (g_ap_done
   in S4, the generation counter in U-3) is passed only when both halves of the work
   are done and the second core is idle. *)
THEOREM JoinsSeeWork ==
  ASSUME SMP_M \in Nat \ {0}, SMP_N \in Nat \ {0}
  PROVE  SmpSpec => []JoinSeesWork
<1> USE DEF Loops
<1>1. SmpInit => SmpInv
  <2> SUFFICES ASSUME SmpInit PROVE SmpInv
    BY Zenon
  <2>1. SmpLock
    BY Zenon, InitLock
  <2>2. core["bsp"].pc = "start"
    BY Zenon DEF SmpInit, Core
  <2>3. BeforeS4
    BY Zenon DEF SmpInit, BeforeS4, Idle
  <2> QED BY Zenon, <2>1, <2>2, <2>3
          DEF SmpInv, Exact, InS4, BetweenJobs, HandingOver, Joint, JobPc, Counts, Locking, Section
<1>2. SmpInv /\ [SmpNext]_svars => SmpInv'
  <2> SUFFICES ASSUME SmpInv, [SmpNext]_svars PROVE SmpInv'
    BY Zenon
  <2>1. CASE UNCHANGED svars
    <3>1. UNCHANGED <<bsp, core, mem, overdue>>
      BY Zenon, <2>1 DEF svars
    <3>2. SmpLock'
      BY Zenon, <3>1 DEF SmpInv, SmpLock, SmpTypes, JobOK, BspOK, Exclusion, InSection
    <3>3. ASSUME Exact PROVE Exact'
      <4>1. BeforeS4' /\ BetweenJobs' /\ HandingOver'
        BY Zenon, <3>1, <3>3 DEF Exact, BeforeS4, BetweenJobs, HandingOver, Idle
      <4>2. InS4'
        BY Zenon, <3>1, <3>3 DEF Exact, InS4, Idle, Totals, Share
      <4>3. Joint'
        BY Zenon, <3>1, <3>3 DEF Exact, Joint, Kicked, Taken, Runs, Reported, Totals, Share
      <4> QED BY Zenon, <4>1, <4>2, <4>3 DEF Exact
    <3> QED BY Zenon, <3>1, <3>2, <3>3 DEF SmpInv
  <2>2. CASE BspStep
    BY Zenon, <2>2, BspWaits, BspBringUp, BspPasses, BspHands DEF BspStep
  <2>3. CASE ApStep
    <3>1. overdue' = overdue
      BY Zenon, <2>3 DEF ApStep
    <3> QED BY Zenon, <2>3, <3>1, ApLock, ApExact DEF SmpInv
  <2>4. ASSUME NEW c \in Core, JobStep(c) PROVE SmpInv'
    <3>1. overdue' = overdue
      BY Zenon, <2>4 DEF JobStep
    <3> QED BY Zenon, <2>4, <3>1, JobLock, JobExact DEF SmpInv
  <2>5. ASSUME NEW c \in Core, isr_ipi(c) PROVE SmpInv'
    BY Zenon, <2>5, IpiStep
  <2> QED BY Zenon, <2>1, <2>2, <2>3, <2>4, <2>5 DEF SmpNext
<1>3. SmpInv => JoinSeesWork
  <2> SUFFICES ASSUME SmpInv PROVE JoinSeesWork
    BY Zenon
  <2>1. /\ ~(InSection("bsp") /\ InSection("ap")) /\ bsp \in {0, 1} /\ Slot = {bsp, 1 - bsp}
        /\ BspOK
    BY DEF SmpInv, SmpLock, Exclusion, SmpTypes, Slot
  <2>2. ASSUME ~overdue, At("bsp", "s4")
        PROVE  mem.locked = 2 * SMP_N /\ \A s \in Slot : mem.counter[s] = 1
    <3>1. core["bsp"].pc = "s4" /\ core["bsp"].job = "s4"
      BY Zenon, <2>1, <2>2 DEF At, BspOK
    <3>2. /\ core["ap"].pc \in {"publish", "idle"} /\ Totals(core["ap"].pc \in {"publish", "idle"})
          /\ mem.counter[bsp] = 1 /\ mem.counter[1 - bsp] = 1
      BY Zenon, <2>2, <3>1 DEF SmpInv, Exact, InS4
    <3>3. mem.locked = SMP_N + SMP_N
      BY Zenon, <3>1, <3>2 DEF Totals
    <3> QED BY <2>1, <3>2, <3>3
  <2>3. ASSUME ~overdue, At("bsp", "cut")
        PROVE  /\ core["ap"].pc = "idle" /\ ~mem.kick
               /\ core["bsp"].job = "proc" => mem.locked = 2 * SMP_N
               /\ core["bsp"].job = "drf" =>
                    \A s \in Slot : mem.slot[s] = IF s # bsp \/ core["bsp"].own THEN 1 + s ELSE 0
    <3>1. core["bsp"].pc = "cut" /\ core["bsp"].job \in Job
      BY Zenon, <2>1, <2>3 DEF At, BspOK
    <3>2. /\ mem.gen # core["bsp"].gen /\ Reported
          /\ core["bsp"].job = "proc" => Totals(mem.gen # core["bsp"].gen)
          /\ core["bsp"].job = "drf" =>
               /\ mem.slot[bsp] = IF core["bsp"].own THEN 1 + bsp ELSE 0
               /\ mem.slot[1 - bsp] = 2 - bsp
      BY Zenon, <2>3, <3>1 DEF SmpInv, Exact, Joint
    <3>3. core["bsp"].job = "proc" => mem.locked = SMP_N + SMP_N
      BY Zenon, <3>1, <3>2 DEF Totals
    <3>4. core["bsp"].job = "drf" =>
            \A s \in Slot : mem.slot[s] = IF s # bsp \/ core["bsp"].own THEN 1 + s ELSE 0
      BY SMTT(30), <2>1, <3>2
    <3> QED BY <3>2, <3>3, <3>4 DEF Reported
  <2> QED BY Zenon, <2>1, <2>2, <2>3 DEF JoinSeesWork
<1> QED BY <1>1, <1>2, <1>3, PTL DEF SmpSpec
=============================================================================
