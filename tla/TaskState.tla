------------------------------ MODULE TaskState ------------------------------
(* kernel/kernel.c TS0-TS5 and SM0-SM5: a whole process, page tables and
   authority included, reduced to one content hash and rebuilt from it; and two
   processes that share one frame, before and after both made the trip.

   In the stage "ts" the processes are those of conc_make_proc (code by hash,
   stack and data private); in "sm" those of sm_make_proc (a private page and the
   shared object, which the first process maps writable).  A hash is the content
   it names, BLAKE3 being assumed collision free; the metadata record of TS1,
   which names the descriptor, is one object with it.
   want, gone and leaked are history: what each process is, the processes whose
   trip lost something to a refused put or a refused page table, and the
   references that failed rebuilds did not give back. *)
EXTENDS Integers, Sequences, FiniteSets, SequencesExt, FiniteSetsExt

CONSTANTS Proc, Writer,     \* Writer: the process is_writer is set for
          FRAMES,           \* frames of the pool
          Caps,             \* [rm, ts, pt]: objects rm_store and ts_store have
                            \* room for, page-table frames falloc can give
          MaxRun, MaxLeak   \* bounds on the runs in ring 3, on lost references

VARIABLES stage, cap, proc, pool, pages, records, spacers, want, gone, leaked

tvars == <<stage, cap, proc, pool, pages, records, spacers, want, gone, leaked>>

Frame == 1..FRAMES
None  == 0                     \* no frame, and no page table root
Garbage == <<"uninitialised">>
Blob  == <<"blob", 0>>         \* conc_blob; what it is loaded as fills a page
Loaded(h) == IF h = Blob THEN <<"code", 0>> ELSE h

(* the leaves of an address space in the order of their page numbers *)
Leaves == IF stage = "ts" THEN <<"code", "stack", "data">> ELSE <<"data", "shared">>
Vpns   == ToSet(Leaves)
Absent == [present |-> FALSE, pt |-> 0, map |-> [v \in Vpns |-> None], writable |-> {},
           regs |-> 0, ceil |-> {}, root |-> Garbage, code |-> Blob]
Unmade == [canon |-> <<>>, regs |-> 0, ceil |-> {}]
Made(p) == want[p].ceil # {}

TaskInit ==
  /\ stage \in {"ts", "sm"} /\ cap \in Caps
  /\ proc = [p \in Proc |-> Absent]
  /\ pool = [free |-> [i \in 1..FRAMES |-> FRAMES + 1 - i], refs |-> [f \in Frame |-> 0],
             rset |-> {}, mem |-> [f \in Frame |-> Garbage], frame |-> None, pt |-> cap.pt]
  /\ pages = (IF stage = "ts" THEN {Blob} ELSE {<<"shared", 0>>}) /\ records = {} /\ spacers = {}
  /\ want = [p \in Proc |-> Unmade] /\ gone = {} /\ leaked = [f \in Frame |-> 0]
-----------------------------------------------------------------------------
(* frame_reserve, frame_release_physical, rm_materialize and refdrop on a pool s;
   s.frame is the frame the last of them returned.  Nothing reads the bytes a free
   frame still has, and the model forgets them. *)
Reserve(s) == IF s.free = <<>> THEN [s EXCEPT !.frame = None]
              ELSE [s EXCEPT !.frame = Last(s.free), !.free = Front(@), !.refs[Last(s.free)] = 1]
Release(s, f) == IF f = None \/ s.refs[f] = 0 THEN s
                 ELSE [s EXCEPT !.free = Append(@, f), !.refs[f] = 0, !.mem[f] = Garbage]
Settled(s) == [s EXCEPT !.frame = None]
Load(s, c) == IF s.frame = None THEN s ELSE [s EXCEPT !.mem[s.frame] = c]
Resident(s, h) == \E e \in s.rset : e[1] = h
FrameOf(s, h)  == (CHOOSE e \in s.rset : e[1] = h)[2]
rm_materialize(s, h) ==
  LET t == Reserve(s) IN
  IF Resident(s, h) THEN [s EXCEPT !.frame = FrameOf(s, h), !.refs[FrameOf(s, h)] = @ + 1]
  ELSE IF h \notin pages \/ t.frame = None THEN [s EXCEPT !.frame = None]
  ELSE [Load(t, Loaded(h)) EXCEPT !.rset = @ \cup {<<h, t.frame>>}]
refdrop(s, h) ==
  IF ~Resident(s, h) THEN s
  ELSE LET f == FrameOf(s, h) IN
       IF s.refs[f] > 1 THEN [s EXCEPT !.refs[f] = @ - 1]
       ELSE [Release(s, f) EXCEPT !.rset = {e \in @ : e[1] # h}]

(* mm_map of the i-th leaf in a new space: the first needs a PDPT, a PD and a PT,
   the others, 2 MiB and more apart, a PT each; the tables made before falloc
   gave out stay linked.  q is the process, its map being filled. *)
mm_map(q, s, i, w) ==
  LET need == IF i = 1 THEN 3 ELSE 1
      v == Leaves[i]
      ok == s.pt >= need /\ s.frame # None
      take == IF s.pt >= need THEN need ELSE s.pt IN
  [q |-> [q EXCEPT !.pt = @ + take, !.map[v] = IF ok THEN s.frame ELSE @,
                   !.writable = IF ok /\ w THEN @ \cup {v} ELSE @],
   s |-> [s EXCEPT !.pt = @ - take]]

(* cvsasx_store_put with its status ignored: the set afterwards, and what the
   hash variable may hold - on a refusal what its stack slot held before, an
   earlier hash of the same kind *)
Put(set, o, n) == IF o \in set \/ Cardinality(set) < n THEN set \cup {o} ELSE set
Yields(set, o, n) == IF o \in set \/ Cardinality(set) < n THEN {o}
                     ELSE {Garbage} \cup {e \in set : e[1] = o[1]}
-----------------------------------------------------------------------------
CeilingOf(p) == IF p = Writer THEN {"LOAD", "STORE"} ELSE {"LOAD"}
Fresh(p, v) == CASE v = "code" -> <<"code", 0>> [] v = "shared" -> <<"shared", 0>>
                 [] OTHER -> <<v, IF stage = "ts" THEN 0 ELSE p>>
(* ts_canonicalize and ts_put_descriptor: per leaf the page number, the content
   hash and the permission bits; never a frame *)
Canon(q, s) == [v \in Vpns |-> [c |-> IF q.map[v] = None THEN Garbage ELSE s.mem[q.map[v]],
                                w |-> v \in q.writable]]
Task(q, s) == [canon |-> Canon(q, s), regs |-> q.regs, ceil |-> q.ceil]

(* one leaf of a process being built; got are the frames taken so far *)
Leaf(p, b, i) ==
  LET v == Leaves[i]
      s == CASE v = "code" -> rm_materialize(b.s, Blob)
             [] v = "shared" -> rm_materialize(b.s, <<"shared", 0>>)
             [] OTHER -> Load(Reserve(b.s), Fresh(p, v))
      m == mm_map(b.q, s, i, v # "code" /\ (v = "shared" => p = Writer)) IN
  [q |-> m.q, s |-> m.s, got |-> Append(b.got, s.frame)]
Unmapped(b) == [f \in Frame |-> Cardinality({i \in DOMAIN b.got : b.got[i] = f})
                                - Cardinality({v \in Vpns : b.q.map[v] = f})]
Whole(q) == \A v \in Vpns : q.map[v] # None

(* conc_make_proc and sm_make_proc: without a root page or a frame the stage is
   given up, in sm_make_proc without a table too; conc_make_proc does not look
   at mm_map's result, and the page is missing *)
MakeProc(p) ==
  /\ stage # "over" /\ ~Made(p) /\ spacers = {}
  /\ LET new == [Absent EXCEPT !.present = TRUE, !.pt = 1, !.ceil = CeilingOf(p)]
         b == FoldLeft(LAMBDA acc, i : Leaf(p, acc, i),
                       [q |-> new, s |-> [pool EXCEPT !.pt = @ - 1], got |-> <<>>],
                       [i \in 1..Len(Leaves) |-> i])
         fails == pool.pt = 0 \/ None \in ToSet(b.got) \/ (stage = "sm" /\ ~Whole(b.q)) IN
       \/ /\ ~fails
          /\ proc' = [proc EXCEPT ![p] = b.q] /\ pool' = Settled(b.s)
          /\ want' = [want EXCEPT ![p] = Task(b.q, b.s)]
          /\ gone' = IF Whole(b.q) THEN gone ELSE gone \cup {p}
          /\ leaked' = [f \in Frame |-> leaked[f] + Unmapped(b)[f]]
          /\ UNCHANGED stage
       \/ /\ fails
          /\ stage' = "over" /\ UNCHANGED <<proc, pool, want, gone, leaked>>
  /\ UNCHANGED <<cap, pages, records, spacers>>

(* ts_run_ring3: the process goes on until it parks; its data, its stack and its
   registers move on *)
ts_run_ring3(p) ==
  /\ stage = "ts" /\ proc[p].present /\ proc[p].regs < MaxRun /\ p \notin gone
  /\ LET n == proc[p].regs + 1
         s == [pool EXCEPT !.mem[proc[p].map["data"]] = <<"data", n>>,
                           !.mem[proc[p].map["stack"]] = <<"stack", n>>]
         q == [proc[p] EXCEPT !.regs = n] IN
       /\ pool' = s /\ proc' = [proc EXCEPT ![p] = q] /\ want' = [want EXCEPT ![p] = Task(q, s)]
  /\ UNCHANGED <<stage, cap, pages, records, spacers, gone, leaked>>

(* dematerialize_frame for every page, the code's under its own page hash *)
PutPages(q) == FoldLeft(LAMBDA set, v : Put(set, pool.mem[q.map[v]], cap.rm), pages, Leaves)

(* the root page and the tables under it go back to falloc *)
ts_free_pagetables(s, q) == [s EXCEPT !.pt = @ + q.pt]

(* Mutant: the shared page is released like a private one. *)
FreeAll(q) ==
  LET s == FoldLeft(LAMBDA t, v : Release(t, q.map[v]), pool, Leaves) IN
  [ts_free_pagetables(s, q) EXCEPT !.rset = {e \in @ : s.refs[e[2]] > 0}]

(* the frames go back: the code and the shared page by their hash, what is
   private at once; then ts_free_pagetables *)
FreeFrames(q) ==
  LET drop(t, v) == CASE v = "code" -> refdrop(t, q.code)
                      [] v = "shared" -> refdrop(t, pool.mem[q.map[v]])
                      [] OTHER -> Release(t, q.map[v]) IN
  ts_free_pagetables(FoldLeft(drop, pool, Leaves), q)

(* TS1 and TS2, sm_demat: nodes, registers, descriptor and manifest are put, then
   everything is freed.  The kernel takes out processes it built by their code's
   blob hash; a rebuilt one holds its code by its page hash. *)
Dematerialize(p) ==
  /\ stage # "over" /\ proc[p].present /\ p \notin gone /\ proc[p].code = Blob
  /\ LET q == proc[p]
         canon == Canon(q, pool)
         n == cap.ts
         r0 == Put(records, <<"nodes", canon>>, n)
         r1 == Put(r0, <<"regs", q.regs>>, n)
         r2 == Put(r1, <<"desc", canon>>, n)
         lostPage == \E v \in Vpns : pool.mem[q.map[v]] \notin PutPages(q) IN
     \E rh \in Yields(r0, <<"regs", q.regs>>, n), dh \in Yields(r1, <<"desc", canon>>, n) :
       LET man == <<"man", [regs |-> rh, desc |-> dh, ceil |-> q.ceil]>>
           refused == {rh, dh} \cap {<<"regs", q.regs>>, <<"desc", canon>>}
                        # {<<"regs", q.regs>>, <<"desc", canon>>} IN
       \E th \in Yields(r2, man, n) :
         /\ records' = Put(r2, man, n) /\ pages' = PutPages(q) /\ pool' = FreeFrames(q)
         /\ proc' = [proc EXCEPT ![p] = [Absent EXCEPT !.root = th, !.regs = q.regs, !.ceil = q.ceil]]
         /\ gone' = IF refused \/ th # man \/ lostPage THEN gone \cup {p} ELSE gone
  /\ UNCHANGED <<stage, cap, spacers, want, leaked>>

(* the owner's ceiling, from the manifest; the gate re-mints under it *)
RestoredCeiling(man) == man.ceil

(* one leaf of a rebuild: SHARED attaches or materialises, writable private is
   copied to a fresh frame, read-only private is shared by hash; the first to
   fail ends the rebuild *)
Rebuilt(desc, b, i) ==
  LET v == Leaves[i]
      c == desc[v].c
      s == IF v = "shared" \/ ~desc[v].w THEN rm_materialize(b.s, c)
           ELSE IF c \in pages THEN Load(Reserve(b.s), c) ELSE [b.s EXCEPT !.frame = None]
      w == IF v = "shared" THEN "STORE" \in b.q.ceil ELSE desc[v].w IN
  IF ~b.ok THEN b
  ELSE IF s.frame = None THEN [b EXCEPT !.ok = FALSE, !.s = s]
  ELSE LET m == mm_map(b.q, s, i, w) IN
       [q |-> m.q, s |-> m.s, ok |-> TRUE, got |-> Append(b.got, s.frame)]

(* TS3 and sm_remat.  A miss, or no root page, changes nothing.  TS3 insists on
   the registers; sm_remat keeps those the process record still has.  What a
   failed rebuild took it does not give back; and mm_map's result is not looked
   at, so a process may come back without a page. *)
Rematerialize(p) ==
  /\ stage # "over" /\ Made(p) /\ ~proc[p].present
  /\ LET th == proc[p].root IN
     /\ th \in records /\ th[2].desc \in records /\ pool.pt > 0
     /\ LET man == th[2]
            new == [Absent EXCEPT !.pt = 1, !.ceil = RestoredCeiling(man), !.root = th,
                                  !.regs = IF man.regs \in records THEN man.regs[2] ELSE proc[p].regs]
            b == FoldLeft(LAMBDA acc, i : Rebuilt(man.desc[2], acc, i),
                          [q |-> new, s |-> [pool EXCEPT !.pt = @ - 1], ok |-> TRUE, got |-> <<>>],
                          [i \in 1..Len(Leaves) |-> i])
            ok == b.ok /\ (stage = "ts" => man.regs \in records)
            took == [f \in Frame |-> Cardinality({i \in DOMAIN b.got : b.got[i] = f})] IN
          /\ pool' = Settled(b.s)
          /\ \/ /\ ok
                /\ proc' = [proc EXCEPT ![p] = [b.q EXCEPT !.present = TRUE,
                              !.code = IF stage = "ts" THEN <<"code", 0>> ELSE Blob]]
                /\ leaked' = [f \in Frame |-> leaked[f] + Unmapped(b)[f]]
                /\ gone' = IF Whole(b.q) THEN gone ELSE gone \cup {p}
             \/ /\ ~ok
                /\ proc' = [proc EXCEPT ![p].regs = IF stage = "ts" THEN @ ELSE new.regs]
                /\ leaked' = [f \in Frame |-> leaked[f] + took[f]]
                /\ UNCHANGED gone
          /\ \A f \in Frame : leaked'[f] <= MaxLeak
  /\ UNCHANGED <<stage, cap, pages, records, spacers, want>>

(* TS3 holds frames during the rebuild, so that it cannot get its old ones; one
   is enough here to change them *)
HoldSpacer ==
  /\ stage = "ts" /\ spacers = {} /\ pool.free # <<>> /\ \E p \in Proc : ~proc[p].present /\ Made(p)
  /\ pool' = Settled(Reserve(pool)) /\ spacers' = spacers \cup {Last(pool.free)}
  /\ UNCHANGED <<stage, cap, proc, pages, records, want, gone, leaked>>
DropSpacers ==
  /\ spacers # {}
  /\ pool' = FoldLeft(Release, pool, SetToSortSeq(spacers, <)) /\ spacers' = {}
  /\ UNCHANGED <<stage, cap, proc, pages, records, want, gone, leaked>>

TaskNext ==
  \/ \E p \in Proc : MakeProc(p) \/ ts_run_ring3(p) \/ Dematerialize(p) \/ Rematerialize(p)
  \/ HoldSpacer \/ DropSpacers

TaskSpec == TaskInit /\ [][TaskNext]_tvars
-----------------------------------------------------------------------------
Owners(f) == {x \in Proc \X Vpns : proc[x[1]].present /\ proc[x[1]].map[x[2]] = f}

(* SM3, "ONE shared frame for BOTH owners": whichever owners are present map the
   shared object in one frame, and a frame is free exactly when no owner, no
   spacer and no forgotten reference is left - so it outlives every owner but
   the last, in whatever order they leave and come back (sm_demat, sm_remat). *)
SharedOneFrame ==
  stage # "over" =>
    /\ \A p, q \in Proc : "shared" \in Vpns /\ proc[p].present /\ proc[q].present
         /\ {p, q} \cap gone = {} => proc[p].map["shared"] = proc[q].map["shared"]
    /\ \A f \in Frame :
         /\ pool.refs[f] = Cardinality(Owners(f)) + leaked[f] + (IF f \in spacers THEN 1 ELSE 0)
         /\ f \in ToSet(pool.free) <=> pool.refs[f] = 0
    /\ Cardinality(ToSet(pool.free)) = Len(pool.free)

(* TS3, "BIT-EXACT": re-canonicalised, a process that is there is the task it was
   when it last ran, page contents, permissions, registers and its own ceiling;
   of one that is not, the hash it left resolves to all of that. *)
TaskRoundTrip ==
  stage # "over" => \A p \in Proc \ gone : Made(p) =>
    IF proc[p].present THEN Task(proc[p], pool) = want[p]
    ELSE /\ proc[p].root \in records
         /\ LET man == proc[p].root[2] IN
              /\ man.regs = <<"regs", want[p].regs>> /\ man.ceil = want[p].ceil
              /\ man.desc = <<"desc", want[p].canon>> /\ {man.regs, man.desc} \subseteq records
              /\ \A v \in Vpns : want[p].canon[v].c \in pages
=============================================================================
