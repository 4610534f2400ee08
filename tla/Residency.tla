----------------------------- MODULE Residency -----------------------------
(* kernel/kernel.c, the residency manager (M0-M3), the rematerialising page
   fault handler (F0-F5) and the paging of a process heap built on them
   (PM2, PM3): frames of a fixed pool are reserved, filled from the content
   store by hash, shared by hash, dropped, evicted, and paged out and in.

   A Page is a page of an address space.  One store object is one frame of
   content.  The store is ObjectStore seen through what it promises: the
   content under each hash it holds, and a put that may find it full.
   val, written and leaked are history: what each page's owner last put in the
   page, the contents run_m3 wrote into a cached frame, and the references taken
   by faults that then could not map the frame. *)
EXTENDS Integers, Sequences, FiniteSetsExt

CONSTANTS Page, Content, Zero, None,
          FRAMEDB_N, RSET_MAX, PF_BIND_A_MAX, PF_ANON_MAX,
          MaxRef,          \* bound on a refcount (uint32_t in the code)
          StoreCap,        \* objects the store has room for
          StackResidue,    \* an uninitialised hash may be an earlier one
          MapMayFail,      \* falloc may be out of page-table pages
          Tampering,       \* the F2 stage flips bytes in the store's arena
          PageOutAgain     \* a page may be paged out a second time

ASSUME ResidencyAssumption ==
  /\ IsFiniteSet(Page) /\ IsFiniteSet(Content)
  /\ Zero \in Content /\ None \notin Content \cup Nat
  /\ FRAMEDB_N \in Nat /\ RSET_MAX \in Nat /\ PF_BIND_A_MAX \in Nat /\ PF_ANON_MAX \in Nat
  /\ MaxRef \in Nat /\ StoreCap \in Nat
  /\ {StackResidue, MapMayFail, Tampering, PageOutAgain} \subseteq BOOLEAN

VARIABLES stage,           \* "m3": cached frames written in place; else "paging"
          framedb, freestack, rset, clock_hand, mem, store,
          pte, pf_bindA, pf_anon, val, written, leaked

mgr  == <<framedb, freestack, rset, clock_hand, mem>>
vars == <<stage, mgr, store, pte, pf_bindA, pf_anon, val, written, leaked>>

Frame == 0..(FRAMEDB_N - 1)

(* BLAKE3, assumed collision free; NoHash is the value of an unset hash field
   and of the uninitialised hash of a put that found the store full *)
Hash(c) == <<"blake3", c>>
Hashes  == {Hash(c) : c \in Content}
NoHash  == <<"none">>

FreeRec  == [state |-> "FREE", dirty |-> FALSE, has_hash |-> FALSE,
             clock_ref |-> FALSE, refcount |-> 0, hash |-> NoHash]
FreshRec == [FreeRec EXCEPT !.state = "RESIDENT", !.refcount = 1, !.clock_ref = TRUE]

NotPresent == [tag |-> "none", frame |-> None, rw |-> FALSE, hash |-> NoHash]
Desc(h)    == [NotPresent EXCEPT !.tag = "desc", !.hash = h]    \* binding B
Mapping(f, rw) == [NotPresent EXCEPT !.tag = "map", !.frame = f, !.rw = rw]

Mapped(p)  == pte[p].tag = "map"
Private(p) == Mapped(p) /\ pte[p].rw
Shared(p)  == Mapped(p) /\ ~pte[p].rw

(* framedb_init over a pool, with the resident set cleared as every stage that
   goes on to materialise does *)
PoolInit == /\ framedb = [f \in Frame |-> FreeRec]
            /\ freestack = [i \in 1..FRAMEDB_N |-> FRAMEDB_N - i]
            /\ rset = <<>> /\ clock_hand = 0

Init == /\ stage \in {"m3", "paging"} /\ PoolInit
        /\ mem = [f \in Frame |-> Zero]
        /\ store = [h \in Hashes |-> None]
        /\ pte = [p \in Page |-> NotPresent] /\ pf_bindA = <<>> /\ pf_anon = {}
        /\ val = [p \in Page |-> None] /\ written = {} /\ leaked = [f \in Frame |-> 0]
-----------------------------------------------------------------------------
(* Mutant: the store's index check off by one. *)
StoreRoomLess == Cardinality({h \in Hashes : h \in DOMAIN store /\ store[h] # None}) < StoreCap - 1

(* cvsasx_store_put with its status ignored: the hash it yields. *)
InStore(h)  == h \in Hashes /\ store[h] # None
StoreRoom   == Cardinality({h \in Hashes : InStore(h)}) < StoreCap
Uninitialised == IF StackResidue THEN Hashes \cup {NoHash} ELSE {NoHash}
PutYields(c) == IF InStore(Hash(c)) \/ StoreRoom THEN {Hash(c)} ELSE Uninitialised
Put(c) == IF ~InStore(Hash(c)) /\ StoreRoom THEN [store EXCEPT ![Hash(c)] = c] ELSE store

(* frame_reserve pops the top of the free stack; frame_release_physical pushes.
   They and what follows take and return the record db, free of the pool. *)
pool == [db |-> framedb, free |-> freestack]
Reserved(s)   == s.free[Len(s.free)]
CanReserve(s) == s.free # <<>> /\ s.db[Reserved(s)].state = "FREE"
frame_reserve(s) ==
  [db |-> [s.db EXCEPT ![Reserved(s)] = FreshRec], free |-> SubSeq(s.free, 1, Len(s.free) - 1)]
frame_release_physical(s, f) ==
  IF s.db[f].state = "FREE" THEN s
  ELSE [db |-> [s.db EXCEPT ![f] = FreeRec], free |-> Append(s.free, f)]
SetPool(s) == framedb' = s.db /\ freestack' = s.free

(* rset_find and rset_add: dead slots are reused first; a full table drops the
   entry, and rm_materialize does not look at the result. *)
Live(i)      == i \in DOMAIN rset /\ rset[i].live
Resident(h)  == \E i \in DOMAIN rset : Live(i) /\ rset[i].hash = h
rset_find(h) == CHOOSE i \in DOMAIN rset :
                  /\ Live(i) /\ rset[i].hash = h
                  /\ \A j \in 1..(i-1) : ~(Live(j) /\ rset[j].hash = h)
DeadSlots    == {i \in DOMAIN rset : ~rset[i].live}
Entry(h, f)  == [hash |-> h, frame |-> f, live |-> TRUE]
rset_add(h, f) ==
  IF DeadSlots # {} THEN [rset EXCEPT ![Min(DeadSlots)] = Entry(h, f)]
  ELSE IF Len(rset) < RSET_MAX THEN Append(rset, Entry(h, f))
  ELSE rset

(* Mutants of rm_materialize: no refcount++ on a hit; no re-hash on a miss. *)
ShareUncounted(h, f) ==
  /\ Resident(h) /\ f = rset[rset_find(h)].frame
  /\ UNCHANGED <<framedb, freestack, rset, mem>>
FaultInUnverified(h, f) ==
  /\ ~Resident(h) /\ InStore(h) /\ CanReserve(pool)
  /\ f = Reserved(pool)
  /\ mem' = [mem EXCEPT ![f] = store[h]]
  /\ LET s == frame_reserve(pool) IN
       SetPool([s EXCEPT !.db[f].has_hash = TRUE, !.db[f].hash = h])
  /\ rset' = rset_add(h, f)

(* rm_materialize(h): share the resident frame, or fault the object in.  The
   frame it returned is f; the bytes are re-hashed before the frame is used. *)
ShareByHash(h, f) ==
  /\ Resident(h) /\ f = rset[rset_find(h)].frame /\ framedb[f].refcount < MaxRef
  /\ framedb' = [framedb EXCEPT ![f].refcount = @ + 1, ![f].clock_ref = TRUE]
  /\ UNCHANGED <<freestack, rset, mem>>
FaultIn(h, f) ==
  /\ ~Resident(h) /\ InStore(h) /\ CanReserve(pool)
  /\ f = Reserved(pool)
  /\ mem' = [mem EXCEPT ![f] = store[h]]
  /\ Hash(store[h]) = h
  /\ LET s == frame_reserve(pool) IN
       SetPool([s EXCEPT !.db[f].has_hash = TRUE, !.db[f].hash = h])
  /\ rset' = rset_add(h, f)
rm_materialize(h, f) == ShareByHash(h, f) \/ FaultIn(h, f)

(* a load that fails verification costs the frame's old bytes and nothing else *)
MaterializeRejects(h) ==
  /\ ~Resident(h) /\ InStore(h) /\ CanReserve(pool) /\ Hash(store[h]) # h
  /\ mem' = [mem EXCEPT ![Reserved(pool)] = store[h]]
  /\ SetPool(frame_release_physical(frame_reserve(pool), Reserved(pool)))
  /\ UNCHANGED rset

(* refdrop(h), as a function of the pool it is applied to *)
refdrop(s, h) ==
  LET f == rset[rset_find(h)].frame IN
  IF ~Resident(h) \/ s.db[f].refcount = 0 THEN s
  ELSE IF s.db[f].refcount = 1
       THEN frame_release_physical([s EXCEPT !.db[f].refcount = 0], f)
       ELSE [s EXCEPT !.db[f].refcount = @ - 1]
RsetAfterDrop(h) ==
  IF Resident(h) /\ framedb[rset[rset_find(h)].frame].refcount = 1
  THEN [rset EXCEPT ![rset_find(h)].live = FALSE] ELSE rset
-----------------------------------------------------------------------------
(* The bindings of a page.  pf_bindA is a table of (page, hash) that grows up
   to PF_BIND_A_MAX; a lookup returns the first entry for the page. *)
pf_bindA_add(p, h) ==
  IF Len(pf_bindA) < PF_BIND_A_MAX THEN Append(pf_bindA, [page |-> p, hash |-> h]) ELSE pf_bindA
InA(p) == \E i \in DOMAIN pf_bindA : pf_bindA[i].page = p
pf_bindA_lookup(p) ==
  pf_bindA[Min({i \in DOMAIN pf_bindA : pf_bindA[i].page = p})].hash
Bound(p)   == pte[p].tag = "desc" \/ InA(p)
Resolve(p) == IF pte[p].tag = "desc" THEN pte[p].hash ELSE pf_bindA_lookup(p)

(* pf_publish an object and bind a page to it, through A or through B; a page
   whose object found no room never had content to lose *)
Published(c) == IF InStore(Hash(c)) \/ StoreRoom THEN c ELSE None
BindA(p, c) ==
  /\ pte[p] = NotPresent /\ ~InA(p) /\ p \notin pf_anon
  /\ Len(pf_bindA) < PF_BIND_A_MAX
  /\ store' = Put(c)
  /\ \E h \in PutYields(c) : pf_bindA' = pf_bindA_add(p, h)
  /\ val' = [val EXCEPT ![p] = Published(c)]
  /\ UNCHANGED <<mgr, pte, pf_anon, written, leaked>>
ArmB(p, c) ==
  /\ pte[p] = NotPresent /\ ~InA(p) /\ p \notin pf_anon
  /\ store' = Put(c)
  /\ \E h \in PutYields(c) : pte' = [pte EXCEPT ![p] = Desc(h)]
  /\ val' = [val EXCEPT ![p] = Published(c)]
  /\ UNCHANGED <<mgr, pf_bindA, pf_anon, written, leaked>>
pf_anon_add(p) ==
  /\ pte[p] = NotPresent /\ ~InA(p) /\ p \notin pf_anon
  /\ Cardinality(pf_anon) < PF_ANON_MAX
  /\ pf_anon' = pf_anon \cup {p}
  /\ val' = [val EXCEPT ![p] = Zero]
  /\ UNCHANGED <<mgr, store, pte, pf_bindA, written, leaked>>

(* pf_service on a miss: an anonymous range first, else the binding.  It fails
   closed, leaving the page not present, when there is no binding, no frame,
   no such object, or the bytes do not verify; and when mm_map fails. *)
FaultAnon(p) ==
  /\ ~Mapped(p) /\ p \in pf_anon /\ CanReserve(pool)
  /\ mem' = [mem EXCEPT ![Reserved(pool)] = Zero]
  /\ \/ /\ SetPool(frame_reserve(pool))
        /\ pte' = [pte EXCEPT ![p] = Mapping(Reserved(pool), TRUE)]
     \/ /\ MapMayFail
        /\ SetPool(frame_release_physical(frame_reserve(pool), Reserved(pool)))
        /\ UNCHANGED pte
  /\ UNCHANGED <<rset, clock_hand, store, pf_bindA, pf_anon, val, written, leaked>>

FaultBound(p) ==
  /\ ~Mapped(p) /\ p \notin pf_anon /\ Bound(p)
  /\ \/ \E f \in Frame :
          /\ rm_materialize(Resolve(p), f)
          /\ \/ pte' = [pte EXCEPT ![p] = Mapping(f, FALSE)] /\ UNCHANGED leaked
             \/ /\ MapMayFail /\ leaked' = [leaked EXCEPT ![f] = @ + 1]
                /\ UNCHANGED pte
     \/ MaterializeRejects(Resolve(p)) /\ UNCHANGED <<pte, leaked>>
  /\ UNCHANGED <<clock_hand, store, pf_bindA, pf_anon, val, written>>

(* a store instruction to a page mapped writable *)
Write(p, c) ==
  /\ Private(p)
  /\ mem' = [mem EXCEPT ![pte[p].frame] = c]
  /\ val' = [val EXCEPT ![p] = c]
  /\ UNCHANGED <<framedb, freestack, rset, clock_hand, store, pte, pf_bindA, pf_anon, written, leaked>>

(* PM3: a write to a shared page copies it to a private frame first *)
CopyOnWrite(p, c) ==
  /\ Shared(p) /\ CanReserve(pool)
  /\ LET h == framedb[pte[p].frame].hash
         f == Reserved(pool) IN
       /\ SetPool(refdrop(frame_reserve(pool), h))
       /\ rset' = RsetAfterDrop(h)
       /\ mem' = [mem EXCEPT ![f] = c]
       /\ pte' = [pte EXCEPT ![p] = Mapping(f, TRUE)]
  /\ val' = [val EXCEPT ![p] = c]
  /\ UNCHANGED <<clock_hand, store, pf_bindA, pf_anon, written, leaked>>

(* PM2: dematerialise an idle private page, unmap it, free its frame, bind the
   page to the hash, and disable the anonymous ranges so that the binding is
   what the next fault finds.  Whether the put succeeded is not looked at. *)
PageOut(p) ==
  /\ Private(p) /\ (PageOutAgain \/ ~InA(p))
  /\ store' = Put(mem[pte[p].frame])
  /\ \E h \in PutYields(mem[pte[p].frame]) : pf_bindA' = pf_bindA_add(p, h)
  /\ pte' = [pte EXCEPT ![p] = NotPresent]
  /\ SetPool(frame_release_physical(pool, pte[p].frame))
  /\ pf_anon' = {}
  /\ val' = [q \in Page |-> IF q \in pf_anon /\ ~Mapped(q) THEN None ELSE val[q]]
  /\ UNCHANGED <<rset, clock_hand, mem, written, leaked>>

(* mm_unmap of a private page and release of its frame *)
Discard(p) ==
  /\ Private(p) /\ ~InA(p)
  /\ pte' = [pte EXCEPT ![p] = NotPresent]
  /\ SetPool(frame_release_physical(pool, pte[p].frame))
  /\ val' = [val EXCEPT ![p] = IF p \in pf_anon THEN Zero ELSE None]
  /\ UNCHANGED <<rset, clock_hand, mem, store, pf_bindA, pf_anon, written, leaked>>

(* mm_unmap of a shared page, with refdrop, or with the bare decrement of
   run_m3 (line 1764) that leaves the frame cached for evict_one.  A B page
   loses its descriptor: mm_unmap zeroes the PTE. *)
UnmapShared(p, drop) ==
  /\ Shared(p)
  /\ LET f == pte[p].frame
         h == framedb[f].hash IN
     IF drop THEN SetPool(refdrop(pool, h)) /\ rset' = RsetAfterDrop(h)
     ELSE /\ framedb' = [framedb EXCEPT ![f].refcount = IF @ > 0 THEN @ - 1 ELSE 0]
          /\ UNCHANGED <<freestack, rset>>
  /\ pte' = [pte EXCEPT ![p] = NotPresent]
  /\ val' = [val EXCEPT ![p] = IF InA(p) THEN @ ELSE None]
  /\ UNCHANGED <<clock_hand, mem, store, pf_bindA, pf_anon, written, leaked>>

(* evict_one, the second-chance clock.  Visit k of the scan looks at slot
   Slot(k); a referenced bit is cleared on the way past, so the second visit
   to a slot no longer sees it. *)
Slot(k)   == ((clock_hand + k) % Len(rset)) + 1
Rec(k)    == framedb[rset[Slot(k)].frame]
Victim(k) == /\ rset[Slot(k)].live /\ Rec(k).refcount = 0
             /\ ~Rec(k).clock_ref \/ k >= Len(rset)
Visits    == 0..(2 * Len(rset) + 1)
Cleared(n) ==                       \* framedb after n visits
  LET passed == {rset[Slot(k)].frame : k \in {j \in 0..(n-1) : rset[Slot(j)].live}}
  IN  [f \in Frame |-> IF f \in passed THEN [framedb[f] EXCEPT !.clock_ref = FALSE]
                       ELSE framedb[f]]
EvictNothing ==
  /\ rset # <<>> /\ \A k \in Visits : ~Victim(k)
  /\ framedb' = Cleared(2 * Len(rset) + 2)
  /\ clock_hand' = (clock_hand + 2 * Len(rset) + 2) % Len(rset)
  /\ UNCHANGED <<freestack, rset, mem, store, pte, pf_bindA, pf_anon, val, written, leaked>>

(* drop the victim found at visit k, from the frame database db *)
Reclaim(k, db) ==
  /\ SetPool(frame_release_physical([db |-> db, free |-> freestack], rset[Slot(k)].frame))
  /\ rset' = [rset EXCEPT ![Slot(k)].live = FALSE]

(* a dirty victim is written back; if its hash is then not in the store the
   eviction fails, with the frame marked clean *)
EvictVictim(k) ==
  LET f == rset[Slot(k)].frame IN
  /\ Victim(k) /\ \A j \in 0..(k-1) : ~Victim(j)
  /\ clock_hand' = (clock_hand + k + 1) % Len(rset)
  /\ \/ ~Rec(k).dirty /\ Reclaim(k, Cleared(k)) /\ UNCHANGED store
     \/ /\ Rec(k).dirty
        /\ store' = Put(mem[f])
        /\ \E h \in PutYields(mem[f]) :
             LET db == [Cleared(k) EXCEPT ![f].hash = h, ![f].dirty = FALSE] IN
             IF h \in Hashes /\ store'[h] # None
             THEN Reclaim(k, db)
             ELSE framedb' = db /\ UNCHANGED <<freestack, rset>>
  /\ UNCHANGED <<mem, pte, pf_bindA, pf_anon, val, written, leaked>>
evict_one == rset # <<>> /\ (EvictNothing \/ \E k \in Visits : EvictVictim(k))

(* run_m3's working set: objects published, then touched and let go (a
   materialise, clock_ref set, and the bare decrement of line 1764), so that
   they stay cached with no reference *)
Publish(c) ==
  /\ store' = Put(c)
  /\ UNCHANGED <<mgr, pte, pf_bindA, pf_anon, val, written, leaked>>
ColdTouch(h) ==
  /\ \/ /\ Resident(h)
        /\ framedb' = [framedb EXCEPT ![rset[rset_find(h)].frame].clock_ref = TRUE]
        /\ UNCHANGED <<freestack, rset, mem>>
     \/ /\ ~Resident(h) /\ InStore(h) /\ Hash(store[h]) = h /\ CanReserve(pool)
        /\ LET f == Reserved(pool) IN
             /\ SetPool([frame_reserve(pool) EXCEPT !.db[f] =
                  [FreshRec EXCEPT !.has_hash = TRUE, !.hash = h, !.refcount = 0]])
             /\ rset' = rset_add(h, f)
             /\ mem' = [mem EXCEPT ![f] = store[h]]
  /\ UNCHANGED <<clock_hand, store, pte, pf_bindA, pf_anon, val, written, leaked>>

(* run_m3, lines 1722-1727: fault an object in, change it in place, publish the
   new content, and leave the frame unreferenced and marked dirty *)
M3Write(h, c) ==
  /\ c \notin written
  /\ ~Resident(h) /\ InStore(h) /\ Hash(store[h]) = h /\ CanReserve(pool)
  /\ LET f == Reserved(pool) IN
       /\ \E g \in PutYields(c) :
            SetPool([frame_reserve(pool) EXCEPT !.db[f] =
              [FreshRec EXCEPT !.has_hash = TRUE, !.hash = g, !.dirty = TRUE,
                               !.refcount = 0, !.clock_ref = FALSE]])
       /\ rset' = rset_add(h, f)
       /\ mem' = [mem EXCEPT ![f] = c]
  /\ store' = Put(c)
  /\ written' = written \cup {c}
  /\ UNCHANGED <<clock_hand, pte, pf_bindA, pf_anon, val, leaked>>

(* run_fault, F2: flip a byte of a stored object *)
Tamper(h, c) ==
  /\ Tampering /\ InStore(h)
  /\ store' = [store EXCEPT ![h] = c]
  /\ UNCHANGED <<mgr, pte, pf_bindA, pf_anon, val, written, leaked>>

Paging ==
  \/ \E p \in Page, c \in Content : BindA(p, c) \/ ArmB(p, c) \/ Write(p, c) \/ CopyOnWrite(p, c)
  \/ \E p \in Page : \/ pf_anon_add(p) \/ FaultAnon(p) \/ FaultBound(p)
                     \/ PageOut(p) \/ Discard(p)
  \/ \E p \in Page, drop \in BOOLEAN : UnmapShared(p, drop)
  \/ \E h \in Hashes, c \in Content : Tamper(h, c)
InPlace ==
  \/ \E h \in Hashes, c \in Content : M3Write(h, c)
  \/ \E c \in Content : Publish(c) \/ ColdTouch(Hash(c))

(* each stage starts the manager over a fresh pool, so a run is one stage *)
Next == /\ \/ stage = "paging" /\ Paging
           \/ stage = "m3" /\ InPlace
           \/ evict_one
        /\ UNCHANGED stage

Spec == Init /\ [][Next]_vars
-----------------------------------------------------------------------------
Owners(f) == {p \in Page : Mapped(p) /\ pte[p].frame = f}

(* The records, tables and page tables have their C shapes and capacities. *)
TypeOK ==
  /\ stage \in {"m3", "paging"}
  /\ framedb \in [Frame -> [state : {"FREE", "RESIDENT"}, dirty : BOOLEAN,
                            has_hash : BOOLEAN, clock_ref : BOOLEAN,
                            refcount : Nat, hash : Hashes \cup {NoHash}]]
  /\ freestack \in Seq(Frame)
  /\ rset \in Seq([hash : Hashes, frame : Frame, live : BOOLEAN]) /\ Len(rset) <= RSET_MAX
  /\ clock_hand \in Nat
  /\ mem \in [Frame -> Content]
  /\ store \in [Hashes -> Content \cup {None}]
  /\ pte \in [Page -> [tag : {"none", "desc", "map"}, frame : Frame \cup {None},
                       rw : BOOLEAN, hash : Hashes \cup {NoHash}]]
  /\ pf_bindA \in Seq([page : Page, hash : Hashes \cup {NoHash}])
  /\ Len(pf_bindA) <= PF_BIND_A_MAX
  /\ pf_anon \subseteq Page
  /\ val \in [Page -> Content \cup {None}] /\ written \subseteq Content
  /\ leaked \in [Frame -> Nat]

(* M0 conservation: the free stack holds each FREE frame exactly once and
   nothing else, so no frame is lost, freed twice, or handed out while in use
   (the assertions of framedb_counts, frame_reserve, frame_release_physical). *)
FramesConserved ==
  /\ \A i, j \in DOMAIN freestack : freestack[i] = freestack[j] => i = j
  /\ \A f \in Frame : framedb[f].state = "FREE" <=> f \in Range(freestack)

(* Isolation: no page table entry outlives its frame, a frame some page may
   write is that page's alone, and it is not in the resident set. *)
Isolation ==
  /\ \A p \in Page : Mapped(p) => framedb[pte[p].frame].state = "RESIDENT"
  /\ \A p \in Page : Private(p) =>
       /\ Owners(pte[p].frame) = {p}
       /\ \A i \in DOMAIN rset : Live(i) => rset[i].frame # pte[p].frame

(* Share-by-hash: one resident frame per hash, however many pages map it
   (lines 1318 and 1565: "one resident frame, many refs, by hash identity").
   run_m3's in-place writes rename a frame without looking for another. *)
SharedOnce ==
  written = {} => \A f, g \in Frame : (framedb[f].has_hash /\ framedb[g].has_hash
                        /\ framedb[f].hash = framedb[g].hash) => f = g

(* refcount is "the number of live references (mappings by hash)" (line 1339),
   exact but for the references of faults whose mm_map failed, which pf_service
   does not give back: refdrop frees a shared frame at its last unmap and no
   sooner, and each such failure pins one frame for good. *)
RefcountIsMappings ==
  \A f \in Frame : framedb[f].has_hash =>
    framedb[f].refcount = Cardinality(Owners(f)) + leaked[f]

(* Verified content: a mapped page shows what its owner last put there, also
   when the object was tampered with in the store, or its frame was shared,
   evicted and brought back on the way. *)
VerifiedContent ==
  \A p \in Page : Mapped(p) => mem[pte[p].frame] = val[p]

(* Swap by rematerialisation loses nothing (PM2: "a later forced access
   rematerializes the exact bytes by hash"): a page that is not mapped has a
   binding to the content its owner last put there, and the store has it. *)
SwapKeepsContent ==
  \A p \in Page : (~Mapped(p) /\ val[p] # None /\ p \notin pf_anon) =>
    Bound(p) /\ Resolve(p) = Hash(val[p]) /\ InStore(Hash(val[p]))

(* Writeback before reuse: what was written into a cached frame is in the
   store, or still in the frame (evict_one; lines 1667-1670). *)
WritebackBeforeReuse ==
  \A c \in written : InStore(Hash(c)) \/ \E i \in DOMAIN rset : Live(i) /\ mem[rset[i].frame] = c

(* The frame database tells the truth through every mix of faults, shares,
   evictions and failed mappings: frames are conserved, a page table entry never
   outlives its frame or reaches another page's private one, a content has one
   frame, and the refcount is the number of its mappings. *)
FrameDbExact == FramesConserved /\ Isolation /\ SharedOnce /\ RefcountIsMappings

(* A page shows what its owner last put there, or can be brought back as that. *)
ContentKept == VerifiedContent /\ SwapKeepsContent
=============================================================================
