------------------------------ MODULE ConcProc ------------------------------
(* kernel/kernel.c C0-C3, PP0-PP4 and FA0-FA2: ring-3 processes preempted by the
   timer, taken to a content hash while they are parked and brought back, the
   policy that decides when, and the control that keeps the policy fair.

   kmain drives: it enters a process, which comes back when the scheduler parks
   it or when every process has exited, and in between takes processes out and
   in again.  stage, fixed by Init, says whose calls a behaviour is made of:
   conc_run's, pp_run's over one process, or fa_run's, which enters none; each
   builds its processes afresh.  Within a stage they may come in any order.
   A data page is its counter, a trap frame the place in the program's loop.
   done, lost, leaked, since and thrash are history: the increments a process
   has made, the processes whose put was refused, the frames a failed
   rematerialisation forgot, the decisions since the last backoff was granted,
   and whether the policy dematerialised within one. *)
EXTENDS Integers, Sequences, FiniteSets, SequencesExt

CONSTANTS NProc,             \* g_ncp: processes 0..NProc-1
          Target,            \* n_target: writes before a process exits
          ParkAt,            \* values of g_c2_park_at; 0 is never
          POOL,              \* frames of the pool
          PRESSURE_LO, COOLDOWN_BUDGET, REUSE_HOT, GRANT_CAP,
          StoreCap,          \* images conc_store has room for
          StackResidue,      \* an uninitialised hash may be an earlier one
          MaxTax             \* bound on the tax counted

VARIABLES stage, cp, mode, cur, park_at, free, mem, images, pins, fa_on,
          done, lost, leaked, since, thrash

cvars == <<stage, cp, mode, cur, park_at, free, mem, images, pins, fa_on,
           done, lost, leaked, since, thrash>>

Proc == 0..(NProc - 1)
NoFrame == 0
NoImage == [tag |-> NProc, tf |-> "none", n |-> 0]
Image(p) == [tag |-> p, tf |-> cp[p].tf, n |-> mem[cp[p].data]]

(* conc_make_proc: stack and data reserved, counter zero, clean policy fields *)
Made(p) == [live |-> TRUE, present |-> TRUE, stack |-> 2 * p + 2, data |-> 2 * p + 1,
            tf |-> "spin", root |-> NoImage, cooldown |-> 0, wakeups |-> 0, tax |-> 0, grant |-> 0]

ConcInit ==
  /\ stage \in {"conc", "pp", "fa"}
  /\ cp = [p \in Proc |-> [Made(p) EXCEPT !.live = (stage = "pp" => p = 0)]]
  /\ mode = "kmain" /\ cur = 0 /\ park_at = 0
  /\ free = [i \in 1..(POOL - 2 * NProc) |-> POOL + 1 - i]
  /\ mem = [f \in 1..POOL |-> 0] /\ images = {} /\ pins = {} /\ fa_on = FALSE
  /\ done = [p \in Proc |-> 0] /\ lost = {} /\ leaked = {}
  /\ since = [p \in Proc |-> COOLDOWN_BUDGET] /\ thrash = FALSE

history == <<done, lost, leaked, since, thrash>>
-----------------------------------------------------------------------------
(* frame_reserve pops the free stack, or yields no frame; frame_release_physical
   pushes a frame of the pool.  s is a free stack. *)
Reserve(s) == IF s = <<>> THEN [frame |-> NoFrame, rest |-> s]
                          ELSE [frame |-> Last(s), rest |-> Front(s)]
Release(s, f) == IF f = NoFrame THEN s ELSE Append(s, f)

(* Mutants: the image is taken after the page has been given up and cleared; the
   stack's frame is forgotten. *)
DematerializeClearsFirst(p) ==
  /\ images' = images \cup {[Image(p) EXCEPT !.n = 0]} /\ UNCHANGED lost
  /\ cp' = [cp EXCEPT ![p].root = [Image(p) EXCEPT !.n = 0], ![p].present = FALSE,
                      ![p].stack = NoFrame, ![p].data = NoFrame]
  /\ free' = Release(Release(free, cp[p].stack), cp[p].data)
DematerializeKeepsStack(p) ==
  /\ images' = images \cup {Image(p)} /\ UNCHANGED lost
  /\ cp' = [cp EXCEPT ![p].root = Image(p), ![p].present = FALSE,
                      ![p].stack = NoFrame, ![p].data = NoFrame]
  /\ free' = Release(free, cp[p].data)

(* conc_dematerialize: the image is put, what the put yields is kept as the root
   (of a refused put the uninitialised hash, which may be an earlier one), and
   both frames go back *)
conc_dematerialize(p) ==
  /\ LET fits == Image(p) \in images \/ Cardinality(images) < StoreCap IN
     \E root \in IF fits THEN {Image(p)} ELSE {NoImage} \cup (IF StackResidue THEN images ELSE {}) :
       /\ images' = IF fits THEN images \cup {Image(p)} ELSE images
       /\ lost' = IF fits THEN lost ELSE lost \cup {p}
       /\ cp' = [cp EXCEPT ![p].root = root, ![p].present = FALSE,
                           ![p].stack = NoFrame, ![p].data = NoFrame]
  /\ free' = Release(Release(free, cp[p].stack), cp[p].data)

(* conc_rematerialize: a miss changes nothing; registers first, then two frames;
   with only one of them left it fails and the next attempt overwrites it.
   The result is the process's new record, the free stack and the memory. *)
conc_rematerialize(p) ==
  LET s == Reserve(free)
      d == Reserve(s.rest)
      regs == [cp[p] EXCEPT !.tf = cp[p].root.tf, !.stack = s.frame, !.data = d.frame] IN
  IF cp[p].root \notin images THEN [proc |-> cp[p], free |-> free, mem |-> mem]
  ELSE IF d.frame = NoFrame THEN [proc |-> regs, free |-> d.rest, mem |-> mem]
  ELSE [proc |-> [regs EXCEPT !.present = TRUE], free |-> d.rest,
        mem |-> [mem EXCEPT ![d.frame] = cp[p].root.n]]
Rematerialized(p) ==
  LET r == conc_rematerialize(p) IN
  /\ cp' = [cp EXCEPT ![p] = r.proc] /\ free' = r.free /\ mem' = r.mem
  /\ leaked' = leaked \cup
       IF r.proc.stack # cp[p].stack THEN {cp[p].stack} \ {NoFrame} ELSE {}

(* conc_pick_next: round robin over the live and present, then over the live;
   NProc when none is left *)
conc_pick_next(c, ps) ==
  LET order == [k \in 1..NProc |-> (c + k) % NProc]
      ready == SelectSeq(order, LAMBDA i : ps[i].live /\ ps[i].present)
      alive == SelectSeq(order, LAMBDA i : ps[i].live) IN
  IF ready # <<>> THEN Head(ready) ELSE IF alive # <<>> THEN Head(alive) ELSE NProc

(* the end of conc_sched: leave the demo, or switch, bringing back a process that
   is not present; what conc_rematerialize returned is not looked at *)
Switch(ps) ==
  LET nxt == conc_pick_next(cur, ps) IN
  \/ /\ nxt = NProc /\ mode' = "kmain" /\ cp' = ps
     /\ UNCHANGED <<cur, free, mem, leaked>>
  \/ /\ nxt # NProc /\ ps[nxt].present /\ cur' = nxt /\ cp' = ps
     /\ UNCHANGED <<mode, free, mem, leaked>>
  \/ /\ nxt # NProc /\ ~ps[nxt].present /\ cur' = nxt
     /\ LET r == conc_rematerialize(nxt) IN
          /\ cp' = [ps EXCEPT ![nxt] = r.proc] /\ free' = r.free /\ mem' = r.mem
          /\ leaked' = leaked \cup
               IF r.proc.stack # ps[nxt].stack THEN {ps[nxt].stack} \ {NoFrame} ELSE {}
     /\ UNCHANGED mode

(* conc_enter: into ring 3 with one process, parking it once its counter is k *)
conc_enter(p, k) ==
  /\ stage # "fa" /\ mode = "kmain" /\ cp[p].live /\ cp[p].present
  /\ mode' = "ring3" /\ cur' = p /\ park_at' = k
  /\ UNCHANGED <<cp, free, mem, images, pins, fa_on, history>>

Running(p, at) == mode = "ring3" /\ cur = p /\ cp[p].tf = at

(* the program: spin, write its tag (a system call that stays on the process),
   add one to the counter, and again or exit.  The pages of a process that could
   not be brought back are not mapped: it faults, and the kernel stops. *)
SysWrite(p) ==
  /\ Running(p, "spin") /\ cp[p].present
  /\ cp' = [cp EXCEPT ![p].tf = "bump"]
  /\ UNCHANGED <<mode, cur, park_at, free, mem, images, pins, fa_on, history>>
Bump(p) ==
  /\ Running(p, "bump") /\ cp[p].present
  /\ mem' = [mem EXCEPT ![cp[p].data] = @ + 1] /\ done' = [done EXCEPT ![p] = IF p \in lost THEN @ ELSE @ + 1]
  /\ cp' = [cp EXCEPT ![p].tf = IF mem[cp[p].data] + 1 < Target THEN "spin" ELSE "exit"]
  /\ UNCHANGED <<mode, cur, park_at, free, images, pins, fa_on, lost, leaked, since, thrash>>
SysExit(p) ==
  /\ Running(p, "exit") /\ cp[p].present
  /\ Switch([cp EXCEPT ![p].live = FALSE])
  /\ UNCHANGED <<park_at, images, pins, fa_on, done, lost, since, thrash>>
Fault(p) ==
  /\ mode = "ring3" /\ cur = p /\ ~cp[p].present
  /\ mode' = "halted"
  /\ UNCHANGED <<cp, cur, park_at, free, mem, images, pins, fa_on, history>>

(* conc_trap and conc_sched with reason 0: park, or preempt *)
Timer ==
  /\ mode = "ring3" /\ cp[cur].present
  /\ \/ /\ park_at > 0 /\ mem[cp[cur].data] >= park_at
        /\ mode' = "kmain"
        /\ UNCHANGED <<cp, cur, free, mem, leaked>>
     \/ /\ ~(park_at > 0 /\ mem[cp[cur].data] >= park_at)
        /\ Switch(cp)
  /\ UNCHANGED <<park_at, images, pins, fa_on, done, lost, since, thrash>>
-----------------------------------------------------------------------------
(* pp_pin_frames and pp_release_frames: the driver makes pressure and ends it *)
pp_pin_frames(target) ==
  /\ stage # "conc" /\ mode = "kmain" /\ pins = {} /\ Len(free) > target
  /\ pins' = {free[i] : i \in (target + 1)..Len(free)}
  /\ free' = SubSeq(free, 1, target)
  /\ UNCHANGED <<cp, mode, cur, park_at, mem, images, fa_on, history>>
pp_release_frames ==
  /\ mode = "kmain" /\ pins # {}
  /\ pins' = {} /\ free' = free \o SetToSortSeq(pins, >)
  /\ UNCHANGED <<cp, mode, cur, park_at, mem, images, fa_on, history>>

pp_under_pressure == Len(free) < PRESSURE_LO

(* Mutant: the backoff is spent before it is looked at. *)
DecideSpentFirst(r, predict_long, amortizes) ==
  LET cooldown == IF r.cooldown > 0 THEN r.cooldown - 1 ELSE 0
      fair == pp_under_pressure /\ fa_on /\ r.grant > 0 IN
  [demat |-> /\ pp_under_pressure /\ ~fair /\ predict_long
             /\ r.wakeups < REUSE_HOT /\ cooldown = 0 /\ amortizes,
   proc |-> [r EXCEPT !.cooldown = cooldown, !.grant = IF fair THEN @ - 1 ELSE @]]

(* should_dematerialize of the process r: each call spends one attempt of the
   backoff; a grant of the fairness control is spent when it is the reason to
   keep.  predict_long is pp_predict_long of the reason, amortizes the comparison
   with pp_breakeven_cyc. *)
should_dematerialize(r, predict_long, amortizes) ==
  LET in_cooldown == r.cooldown > 0
      fair == pp_under_pressure /\ fa_on /\ r.grant > 0 IN
  [demat |-> /\ pp_under_pressure /\ ~fair /\ predict_long
             /\ r.wakeups < REUSE_HOT /\ ~in_cooldown /\ amortizes,
   proc |-> [r EXCEPT !.cooldown = IF in_cooldown THEN @ - 1 ELSE 0,
                      !.grant = IF fair THEN @ - 1 ELSE @]]

(* pp_run: one attempt under the policy, which acts on the answer *)
Attempt(p, predict_long, amortizes) ==
  /\ stage = "pp" /\ mode = "kmain" /\ cp[p].live /\ cp[p].present
  /\ LET d == should_dematerialize(cp[p], predict_long, amortizes) IN
     \/ /\ ~d.demat /\ cp' = [cp EXCEPT ![p] = d.proc]
        /\ since' = [since EXCEPT ![p] = IF @ < COOLDOWN_BUDGET THEN @ + 1 ELSE @]
        /\ UNCHANGED <<free, images, lost, thrash>>
     \/ /\ d.demat /\ conc_dematerialize(p)
        /\ thrash' = (thrash \/ since[p] < COOLDOWN_BUDGET)
        /\ UNCHANGED since
  /\ UNCHANGED <<mode, cur, park_at, mem, pins, fa_on, done, leaked>>

(* conc_run (C2, and C3 after the process has exited) and the tidying of pp_run
   take a process out unasked *)
Dematerialize(p) ==
  /\ mode = "kmain" /\ cp[p].present
  /\ stage = "conc" \/ (stage = "pp" /\ cp[p].live)
  /\ conc_dematerialize(p)
  /\ UNCHANGED <<mode, cur, park_at, mem, pins, fa_on, done, leaked, since, thrash>>

(* conc_run brings it back and, in C2, enters it whatever came of that; pp_run
   looks at the result, grants the backoff and counts the wakeup *)
Rematerialize(p) ==
  /\ stage = "conc" /\ mode = "kmain" /\ ~cp[p].present
  /\ Rematerialized(p)
  /\ \/ UNCHANGED <<mode, cur>>
     \/ cp[p].live /\ ~cp'[p].present /\ mode' = "ring3" /\ cur' = p
  /\ UNCHANGED <<park_at, images, pins, fa_on, done, lost, since, thrash>>
RematerializeGranting(p) ==
  /\ stage = "pp" /\ mode = "kmain" /\ cp[p].live /\ ~cp[p].present /\ cp[p].wakeups < REUSE_HOT
  /\ LET r == conc_rematerialize(p) IN
       /\ r.proc.present
       /\ cp' = [cp EXCEPT ![p] = [r.proc EXCEPT !.cooldown = COOLDOWN_BUDGET, !.wakeups = @ + 1]]
       /\ free' = r.free /\ mem' = r.mem
  /\ since' = [since EXCEPT ![p] = 0]
  /\ leaked' = leaked \cup ({cp[p].stack} \ {NoFrame})
  /\ UNCHANGED <<mode, cur, park_at, images, pins, fa_on, done, lost, thrash>>
-----------------------------------------------------------------------------
(* fa_race, the top-up: behind its peer, who is never taxed, and out of grants *)
TopUp(p) == IF fa_on /\ cp[p].tax > 0 /\ cp[p].grant = 0 THEN GRANT_CAP ELSE cp[p].grant

(* fa_race, one turn of the victim: pressure is on, its reason is LONG_SLEEP and
   the sleep four times the break-even; the turn is taxed when the policy would
   have taken it out.  Process 1 is its peer. *)
fa_race ==
  /\ stage = "fa" /\ mode = "kmain" /\ pp_under_pressure
  /\ LET d == should_dematerialize([cp[0] EXCEPT !.grant = TopUp(0)], TRUE, TRUE) IN
       /\ d.demat => cp[0].tax < MaxTax
       /\ cp' = [cp EXCEPT ![0] = [d.proc EXCEPT !.tax = IF d.demat THEN @ + 1 ELSE @]]
  /\ UNCHANGED <<mode, cur, park_at, free, mem, images, pins, fa_on, history>>

(* a race begins with the control on or off *)
FaControl ==
  /\ stage = "fa" /\ mode = "kmain" /\ fa_on' = ~fa_on
  /\ UNCHANGED <<cp, mode, cur, park_at, free, mem, images, pins, history>>

ConcNext == UNCHANGED stage /\
  (\/ \E p \in Proc :
       \/ \E k \in ParkAt : conc_enter(p, k)
       \/ SysWrite(p) \/ Bump(p) \/ SysExit(p) \/ Fault(p)
       \/ \E predict_long, amortizes \in BOOLEAN : Attempt(p, predict_long, amortizes)
       \/ Dematerialize(p) \/ Rematerialize(p) \/ RematerializeGranting(p)
  \/ Timer \/ fa_race
  \/ \E target \in 0..(PRESSURE_LO - 1) : pp_pin_frames(target)
  \/ pp_release_frames
  \/ FaControl)

ConcSpec == ConcInit /\ [][ConcNext]_cvars
-----------------------------------------------------------------------------
Frames(p) == {cp[p].stack, cp[p].data} \ {NoFrame}

(* Whatever the order of preemptions, parkings and trips through the store, a
   process resumes with every increment it made and none it did not, in the place
   of the loop it left: its data page while it is present, the image its root
   names while it is not (conc_sched, conc_dematerialize, conc_rematerialize).
   The exception is the one the code has: a process whose put was refused. *)
ProgressSurvives ==
  \A p \in Proc : cp[p].live /\ p \notin lost =>
    IF cp[p].present THEN mem[cp[p].data] = done[p] /\ (cp[p].tf = "exit" <=> done[p] = Target)
    ELSE cp[p].root \in images /\ cp[p].root.tag = p /\ cp[p].root.n = done[p]

(* Every frame of the pool is free once, pinned, or one page of one process;
   what a failed rematerialisation forgot is the only loss. *)
FramesAccounted ==
  /\ \A i, j \in DOMAIN free : i # j => free[i] # free[j]
  /\ \A p \in Proc : cp[p].present => Cardinality(Frames(p)) = 2
  /\ \A p, q \in Proc : p # q => Frames(p) \cap Frames(q) = {}
  /\ LET held == UNION {Frames(p) : p \in Proc} IN
       /\ ToSet(free) \cap (held \cup pins \cup leaked) = {} /\ pins \cap (held \cup leaked) = {}
       /\ ToSet(free) \cup held \cup pins \cup leaked = 1..POOL

(* PP4, "paid ONCE, kept resident every retry": after a rematerialisation that
   granted the backoff, the policy takes the process out again only when the
   whole budget of decisions has gone by, whatever those decisions were about. *)
BackoffBoundsThrash == ~thrash
=============================================================================
