-------------------------- MODULE ResidencyProofs --------------------------
(* Proofs about Residency, for every number of pages, frames and contents. *)
EXTENDS Residency, FiniteSetTheorems, TLAPS

FrameRec == [state : {"FREE", "RESIDENT"}, dirty : BOOLEAN, has_hash : BOOLEAN,
             clock_ref : BOOLEAN, refcount : Nat, hash : Hashes \cup {NoHash}]
Pool     == [db : [Frame -> FrameRec], free : Seq(Frame)]

(* The free stack of a pool holds each FREE frame once and nothing else, and the
   record of a FREE frame is cleared. *)
Conserved(s) ==
  /\ \A i, j \in DOMAIN s.free : s.free[i] = s.free[j] => i = j
  /\ \A f \in Frame : s.db[f].state = "FREE" <=> \E i \in DOMAIN s.free : s.free[i] = f
  /\ \A f \in Frame : s.db[f].state = "FREE" => s.db[f] = FreeRec

(* The resident set lists exactly the frames that have a hash, each hash and each
   frame once; a frame is listed under its own hash until one is written in place. *)
Listed ==
  /\ \A i, j \in DOMAIN rset : /\ rset[i].live /\ rset[j].live
                               /\ rset[i].hash = rset[j].hash \/ rset[i].frame = rset[j].frame
                               => i = j
  /\ \A i \in DOMAIN rset : rset[i].live =>
       /\ framedb[rset[i].frame].has_hash
       /\ written = {} => framedb[rset[i].frame].hash = rset[i].hash
  /\ \A f \in Frame : framedb[f].has_hash => \E i \in DOMAIN rset : rset[i].live /\ rset[i].frame = f

(* A page maps a resident frame: shared pages one that has a hash, a private page one
   that no other page maps. *)
MapsOK ==
  \A p \in Page : Mapped(p) =>
    /\ pte[p].frame \in Frame /\ framedb[pte[p].frame].state = "RESIDENT"
    /\ pte[p].rw <=> ~framedb[pte[p].frame].has_hash
    /\ pte[p].rw => \A q \in Page : Mapped(q) /\ pte[q].frame = pte[p].frame => q = p

(* The references to a frame are its mappings and the leaked ones. *)
CountsOK ==
  \A f \in Frame : IF framedb[f].has_hash THEN framedb[f].refcount = Cardinality(Owners(f)) + leaked[f]
                   ELSE leaked[f] = 0

(* Pages are mapped in the paging stages and frames written in place in run_m3. *)
StageOK ==
  /\ stage = "paging" => written = {}
  /\ stage = "m3" => (\A p \in Page : pte[p] = NotPresent)
  /\ written = {} => \A f \in Frame : ~framedb[f].dirty

DbInv == TypeOK /\ Conserved(pool) /\ Listed /\ MapsOK /\ CountsOK /\ StageOK

(* A count r of n mappings and l leaked references. *)
LEMMA CountDrops ==
  ASSUME NEW n \in Nat, NEW l \in Nat, NEW r, r = n + l
  PROVE  /\ r = 0 => n = 0 /\ l = 0
         /\ r = 1 /\ n >= 1 => n = 1 /\ l = 0
         /\ n # 0 => r >= 1
  OBVIOUS

(* The same after a mapping was added or has gone, and for a frame just taken. *)
LEMMA CountMoves ==
  ASSUME NEW n \in Nat, NEW l \in Nat
  PROVE  n + l + 1 = (n + 1) + l /\ n + l + 1 = n + (l + 1) /\ (n + l) - 1 = (n - 1) + l /\ 0 + 0 + 1 = 1
  OBVIOUS

(* The last index of a sequence and the ones below it. *)
LEMMA LastIndex ==
  ASSUME NEW n \in Nat
  PROVE  /\ n > 0 => n \in 1..n
         /\ \A i \in 1..(n - 1) : i \in 1..n /\ i # n
         /\ \A i \in 1..n : i = n \/ i \in 1..(n - 1)
         /\ n + 1 \in 1..(n + 1)
         /\ \A i \in 1..(n + 1) : i = n + 1 \/ i \in 1..n
         /\ \A i \in 1..n : i \in 1..(n + 1)
  OBVIOUS

LEMMA NonEmpty ==
  ASSUME NEW S, NEW s \in Seq(S)
  PROVE  /\ Len(s) \in Nat /\ DOMAIN s = 1..Len(s)
         /\ s # <<>> => Len(s) > 0
  OBVIOUS

LEMMA MinIn ==
  ASSUME NEW S \in SUBSET Nat, S # {}
  PROVE  Min(S) \in S
<1> DEFINE T == {1..n : n \in S}
<1>1. T \subseteq FiniteSubsetsOf(Nat) /\ T # {}
  <2>1. \A n \in S : IsFiniteSet(1..n) /\ 1..n \in SUBSET Nat
    BY FS_Interval
  <2> QED BY Zenon, <2>1 DEF FiniteSubsetsOf
<1>2. PICK X \in T : \A Y \in T : ~(<<Y, X>> \in StrictSubsetOrdering(Nat))
  BY Zenon, <1>1, FS_StrictSubsetOrderingWellFounded, WFMin
<1>3. PICK m \in S : X = 1..m
  BY Zenon
<1>4. ASSUME NEW n \in S, n < m
      PROVE  FALSE
  <2>1. 1..n \subseteq 1..m /\ m \in 1..m /\ m \notin 1..n
    BY <1>4
  <2>2. 1..n \in T /\ 1..n \in SUBSET Nat /\ 1..m \in SUBSET Nat
    OBVIOUS
  <2>3. <<1..n, 1..m>> \in StrictSubsetOrdering(Nat)
    BY Zenon, <2>1, <2>2 DEF StrictSubsetOrdering
  <2> QED BY Zenon, <1>2, <1>3, <2>2, <2>3
<1>5. \A n \in S : m <= n
  BY <1>4
<1> QED BY Zenon, <1>5 DEF Min

LEMMA Injects ==
  ASSUME NEW n \in Nat, NEW T, IsFiniteSet(T), NEW g \in [1..n -> T],
         \A i, j \in 1..n : g[i] = g[j] => i = j
  PROVE  n <= Cardinality(T)
<1>1. IsFiniteSet(1..n) /\ Cardinality(1..n) = n
  BY FS_Interval
<1>2. g \in Injection(1..n, T)
  BY Zenon DEF Injection, IsInjective
<1> QED BY <1>1, <1>2, FS_Injection

-----------------------------------------------------------------------------
(* The pool. *)

(* The two updates that refdrop makes of a reference count. *)
LastRef(s, f) == [s EXCEPT !.db[f].refcount = 0]
LessRef(s, f) == [s EXCEPT !.db[f].refcount = @ - 1]

LEMMA RefUpdates ==
  ASSUME NEW s \in Pool, NEW f, NEW r, s.db[f] = r
  PROVE  /\ LastRef(s, f) = [db |-> [s.db EXCEPT ![f] = [r EXCEPT !.refcount = 0]], free |-> s.free]
         /\ LessRef(s, f) =
               [db |-> [s.db EXCEPT ![f] = [r EXCEPT !.refcount = r.refcount - 1]], free |-> s.free]
<1>1. s = [db |-> s.db, free |-> s.free]
  BY Zenon DEF Pool
<1>2. LastRef(s, f) = [db |-> [s.db EXCEPT ![f] = [r EXCEPT !.refcount = 0]], free |-> s.free]
  BY <1>1 DEF LastRef
<1>3. LessRef(s, f) =
        [db |-> [s.db EXCEPT ![f] = [r EXCEPT !.refcount = r.refcount - 1]], free |-> s.free]
  BY <1>1 DEF LessRef
<1> QED BY Zenon, <1>2, <1>3

(* frame_reserve takes a FREE frame off the stack; r is what its record becomes. *)
LEMMA ReserveConserves ==
  ASSUME NEW s \in Pool, Conserved(s), s.free # <<>>, NEW r \in FrameRec, r.state = "RESIDENT",
         NEW t, t = [db |-> [s.db EXCEPT ![Reserved(s)] = r], free |-> SubSeq(s.free, 1, Len(s.free) - 1)]
  PROVE  /\ Reserved(s) \in Frame /\ s.db[Reserved(s)] = FreeRec
         /\ t \in Pool /\ Conserved(t)
<1> DEFINE n == Len(s.free)
<1>1. /\ s.db \in [Frame -> FrameRec] /\ s.free \in Seq(Frame) /\ n \in Nat /\ n > 0
      /\ DOMAIN s.free = 1..n
  BY DEF Pool
<1>2. /\ t.free \in Seq(Frame) /\ DOMAIN t.free = 1..(n - 1)
      /\ \A i \in 1..(n - 1) : t.free[i] = s.free[i]
  BY <1>1
<1>3. Reserved(s) \in Frame /\ s.db[Reserved(s)] = FreeRec
  <2>1. n \in DOMAIN s.free /\ Reserved(s) = s.free[n] /\ s.free[n] \in Frame
    BY <1>1 DEF Reserved
  <2>2. s.db[Reserved(s)].state = "FREE"
    BY Zenon, <2>1 DEF Conserved
  <2> QED BY ZenonT(30), <2>1, <2>2 DEF Conserved
<1>4. t \in Pool /\ t.db = [s.db EXCEPT ![Reserved(s)] = r]
  BY Zenon, <1>1, <1>2, <1>3 DEF Pool
<1>5. \A i, j \in DOMAIN t.free : t.free[i] = t.free[j] => i = j
  BY SMTT(30), <1>1, <1>2 DEF Conserved
<1>6. ASSUME NEW f \in Frame
      PROVE  /\ t.db[f].state = "FREE" <=> \E i \in DOMAIN t.free : t.free[i] = f
             /\ t.db[f].state = "FREE" => t.db[f] = FreeRec
  <2>1. CASE f = Reserved(s)
    <3>1. t.db[f].state = "RESIDENT"
      BY Zenon, <1>1, <1>4, <2>1
    <3>2. \A i \in 1..(n - 1) : s.free[i] # s.free[n]
      BY ZenonT(30), <1>1, LastIndex DEF Conserved
    <3> QED BY Zenon, <1>2, <2>1, <3>1, <3>2 DEF Reserved
  <2>2. CASE f # Reserved(s)
    <3>1. t.db[f] = s.db[f]
      BY Zenon, <1>1, <1>4, <2>2
    <3>2. (\E i \in DOMAIN t.free : t.free[i] = f) <=> (\E i \in DOMAIN s.free : s.free[i] = f)
      BY Zenon, <1>1, <1>2, <2>2, LastIndex DEF Reserved
    <3> QED BY Zenon, <3>1, <3>2 DEF Conserved
  <2> QED BY Zenon, <2>1, <2>2
<1> QED BY Zenon, <1>3, <1>4, <1>5, <1>6 DEF Conserved

(* frame_release_physical clears a frame in use and puts it on the stack. *)
LEMMA ReleaseConserves ==
  ASSUME NEW s \in Pool, Conserved(s), NEW f \in Frame, s.db[f].state = "RESIDENT",
         NEW t, t = frame_release_physical(s, f)
  PROVE  t \in Pool /\ Conserved(t) /\ t.db = [s.db EXCEPT ![f] = FreeRec]
<1> DEFINE n == Len(s.free)
<1>1. /\ s.db \in [Frame -> FrameRec] /\ s.free \in Seq(Frame) /\ n \in Nat
      /\ DOMAIN s.free = 1..n /\ FreeRec \in FrameRec
  BY DEF Pool, FreeRec, FrameRec
<1>2. t.db = [s.db EXCEPT ![f] = FreeRec] /\ t.free = Append(s.free, f) /\ t \in Pool
  BY <1>1 DEF frame_release_physical, Pool
<1>3. /\ DOMAIN t.free = 1..(n + 1) /\ t.free[n + 1] = f
      /\ \A i \in 1..n : t.free[i] = s.free[i]
  BY <1>1, <1>2
<1>4. \A i \in 1..n : s.free[i] # f
  BY Zenon, <1>1 DEF Conserved
<1>5. \A i, j \in DOMAIN t.free : t.free[i] = t.free[j] => i = j
  <2> SUFFICES ASSUME NEW i \in 1..(n + 1), NEW j \in 1..(n + 1), t.free[i] = t.free[j]
               PROVE  i = j
    BY Zenon, <1>3
  <2>1. (i = n + 1 \/ i \in 1..n) /\ (j = n + 1 \/ j \in 1..n)
    BY Zenon, <1>1, LastIndex
  <2>2. CASE i \in 1..n /\ j \in 1..n
    <3>1. s.free[i] = s.free[j]
      BY Zenon, <1>3, <2>2
    <3>2. i \in DOMAIN s.free /\ j \in DOMAIN s.free
      BY Zenon, <1>1, <2>2
    <3> QED BY Zenon, <3>1, <3>2 DEF Conserved
  <2> QED BY Zenon, <1>3, <1>4, <2>1, <2>2
<1>6. ASSUME NEW g \in Frame
      PROVE  /\ t.db[g].state = "FREE" <=> \E i \in DOMAIN t.free : t.free[i] = g
             /\ t.db[g].state = "FREE" => t.db[g] = FreeRec
  <2>1. CASE g = f
    <3>1. n + 1 \in DOMAIN t.free
      BY <1>1, <1>3
    <3> QED BY <1>1, <1>2, <1>3, <2>1, <3>1 DEF FreeRec
  <2>2. CASE g # f
    <3>1. t.db[g] = s.db[g]
      BY Zenon, <1>1, <1>2, <2>2
    <3>2. (\E i \in DOMAIN t.free : t.free[i] = g) <=> (\E i \in DOMAIN s.free : s.free[i] = g)
      BY SMTT(30), <1>1, <1>3, <2>2
    <3> QED BY Zenon, <3>1, <3>2 DEF Conserved
  <2> QED BY Zenon, <2>1, <2>2
<1> QED BY Zenon, <1>2, <1>5, <1>6 DEF Conserved

(* A record changes that stays in use, or stays FREE and cleared. *)
LEMMA RecordConserves ==
  ASSUME NEW s \in Pool, Conserved(s), NEW db \in [Frame -> FrameRec],
         \A f \in Frame : db[f] = s.db[f] \/ (s.db[f].state = "RESIDENT" /\ db[f].state = "RESIDENT"),
         NEW t, t = [db |-> db, free |-> s.free]
  PROVE  t \in Pool /\ Conserved(t)
<1>1. t.db = db /\ t.free = s.free /\ t \in Pool
  BY Zenon DEF Pool
<1>2. \A f \in Frame : db[f].state = "FREE" => db[f] = s.db[f]
  BY Zenon
<1>3. \A f \in Frame : s.db[f].state = "FREE" => db[f] = s.db[f]
  BY Zenon
<1> QED BY <1>1, <1>2, <1>3 DEF Conserved

(* Reserving a frame and giving it back leaves the pool as it was. *)
LEMMA ReserveRelease ==
  ASSUME NEW s \in Pool, Conserved(s), s.free # <<>>
  PROVE  frame_release_physical(frame_reserve(s), Reserved(s)) = s
<1> DEFINE n == Len(s.free)
           t == frame_reserve(s)
<1>1. /\ s.db \in [Frame -> FrameRec] /\ s.free \in Seq(Frame) /\ n \in Nat /\ n > 0
      /\ DOMAIN s.free = 1..n /\ s = [db |-> s.db, free |-> s.free]
  BY DEF Pool
<1>2. FreshRec \in FrameRec /\ FreshRec.state = "RESIDENT"
  BY Zenon DEF FreshRec, FreeRec, FrameRec
<1>3. Reserved(s) \in Frame /\ s.db[Reserved(s)] = FreeRec
  BY Zenon, <1>2, ReserveConserves
<1>4. t.db[Reserved(s)].state = "RESIDENT"
  BY Zenon, <1>1, <1>2, <1>3 DEF frame_reserve
<1>5. frame_release_physical(t, Reserved(s)) =
        [db |-> [t.db EXCEPT ![Reserved(s)] = FreeRec], free |-> Append(t.free, Reserved(s))]
  BY Zenon, <1>4 DEF frame_release_physical
<1>6. [t.db EXCEPT ![Reserved(s)] = FreeRec] = s.db
  BY Zenon, <1>1, <1>3 DEF frame_reserve
<1>7. Append(SubSeq(s.free, 1, n - 1), s.free[n]) = s.free
  BY <1>1
<1> QED BY Zenon, <1>1, <1>5, <1>6, <1>7 DEF frame_reserve, Reserved
-----------------------------------------------------------------------------
(* The resident set. *)
EntryRec == [hash : Hashes, frame : Frame, live : BOOLEAN]
PteRec   == [tag : {"none", "desc", "map"}, frame : Frame \cup {None},
             rw : BOOLEAN, hash : Hashes \cup {NoHash}]

LEMMA Types ==
  ASSUME TypeOK
  PROVE  /\ framedb \in [Frame -> FrameRec] /\ freestack \in Seq(Frame) /\ pool \in Pool
         /\ pool.db = framedb /\ pool.free = freestack
         /\ rset \in Seq(EntryRec) /\ Len(rset) \in Nat /\ DOMAIN rset = 1..Len(rset)
         /\ Len(rset) <= RSET_MAX /\ RSET_MAX \in Nat
         /\ pte \in [Page -> PteRec] /\ leaked \in [Frame -> Nat]
  BY ResidencyAssumption DEF TypeOK, FrameRec, Pool, pool, EntryRec, PteRec

LEMMA Entries ==
  ASSUME TypeOK
  PROVE  \A i \in DOMAIN rset : rset[i].frame \in Frame /\ rset[i].hash \in Hashes
<1>1. \A i \in DOMAIN rset : rset[i] \in EntryRec
  BY Types
<1> QED BY Zenon, <1>1 DEF EntryRec

(* A live entry is what rset_find finds under its hash. *)
LEMMA FindListed ==
  ASSUME TypeOK, Listed, NEW i \in DOMAIN rset, rset[i].live
  PROVE  Resident(rset[i].hash) /\ rset_find(rset[i].hash) = i
<1> DEFINE h == rset[i].hash
           Q(k) == /\ Live(k) /\ rset[k].hash = h
                   /\ \A j \in 1..(k-1) : ~(Live(j) /\ rset[j].hash = h)
<1>1. \A j \in DOMAIN rset : Live(j) /\ rset[j].hash = h => j = i
  BY Zenon DEF Listed, Live
<1>2. Q(i)
  BY SMTT(30), <1>1, Types DEF Live
<1>3. \A k \in DOMAIN rset : Q(k) => k = i
  BY Zenon, <1>1
<1>4. (CHOOSE k \in DOMAIN rset : Q(k)) = i
  <2> HIDE DEF Q
  <2> QED BY Zenon, <1>2, <1>3
<1> QED BY Zenon, <1>2, <1>4 DEF Resident, rset_find

LEMMA FindResident ==
  ASSUME TypeOK, Listed, NEW h, Resident(h)
  PROVE  /\ rset_find(h) \in DOMAIN rset /\ rset[rset_find(h)].live
         /\ rset[rset_find(h)].hash = h /\ rset[rset_find(h)].frame \in Frame
<1>1. PICK i \in DOMAIN rset : rset[i].live /\ rset[i].hash = h
  BY Zenon DEF Resident, Live
<1>2. rset_find(h) = i
  BY Zenon, <1>1, FindListed
<1>3. rset[i] \in EntryRec
  BY Types
<1> QED BY Zenon, <1>1, <1>2, <1>3 DEF EntryRec

(* r is rset with a new entry for h and f in slot k, which held none. *)
Gains(r, k, h, f) ==
  /\ r \in Seq(EntryRec) /\ Len(r) <= RSET_MAX
  /\ k \in DOMAIN r /\ r[k] = Entry(h, f)
  /\ k \in DOMAIN rset => ~rset[k].live
  /\ \A i \in DOMAIN r : i # k => i \in DOMAIN rset /\ r[i] = rset[i]
  /\ \A i \in DOMAIN rset : i \in DOMAIN r

(* r is rset with the entry in slot k dead. *)
Loses(r, k) ==
  /\ r \in Seq(EntryRec) /\ Len(r) = Len(rset)
  /\ k \in DOMAIN rset /\ ~r[k].live
  /\ \A i \in DOMAIN rset : i # k => r[i] = rset[i]

LEMMA DropLoses ==
  ASSUME TypeOK, NEW k \in DOMAIN rset
  PROVE  Loses([rset EXCEPT ![k].live = FALSE], k)
<1>1. rset \in Seq(EntryRec) /\ DOMAIN rset = 1..Len(rset) /\ Len(rset) \in Nat
  BY Zenon, Types
<1>2. [rset[k] EXCEPT !.live = FALSE] \in EntryRec /\ ~[rset[k] EXCEPT !.live = FALSE].live
  <2>1. rset[k] \in EntryRec
    BY <1>1
  <2> QED BY Zenon, <2>1 DEF EntryRec
<1> DEFINE r == [rset EXCEPT ![k] = [rset[k] EXCEPT !.live = FALSE]]
<1>3. r \in Seq(EntryRec) /\ Len(r) = Len(rset) /\ DOMAIN r = DOMAIN rset
  BY <1>1, <1>2
<1>4. ~r[k].live /\ \A i \in DOMAIN rset : i # k => r[i] = rset[i]
  BY Zenon, <1>1, <1>2
<1>5. [rset EXCEPT ![k].live = FALSE] = r
  BY Zenon
<1> QED BY Zenon, <1>3, <1>4, <1>5 DEF Loses

(* Where the set has an entry for every content, rset_add never drops one. *)
LEMMA AddGains ==
  ASSUME TypeOK, Listed, Cardinality(Content) <= RSET_MAX,
         NEW h \in Hashes, ~Resident(h), NEW f \in Frame
  PROVE  \E k \in Nat : Gains(rset_add(h, f), k, h, f)
<1>1. /\ rset \in Seq(EntryRec) /\ DOMAIN rset = 1..Len(rset) /\ Len(rset) \in Nat
      /\ Len(rset) <= RSET_MAX /\ RSET_MAX \in Nat
  BY Zenon, Types
<1>2. Entry(h, f) \in EntryRec
  BY Zenon DEF Entry, EntryRec
<1>3. CASE DeadSlots # {}
  <2> DEFINE k == Min(DeadSlots)
  <2>1. k \in DOMAIN rset /\ ~rset[k].live
    <3>1. DeadSlots \in SUBSET Nat
      BY <1>1 DEF DeadSlots
    <3>2. k \in DeadSlots
      BY Zenon, <3>1, <1>3, MinIn
    <3> QED BY Zenon, <3>2 DEF DeadSlots
  <2>2. rset_add(h, f) = [rset EXCEPT ![k] = Entry(h, f)]
    BY Zenon, <1>3 DEF rset_add
  <2> HIDE DEF k
  <2>3. Gains([rset EXCEPT ![k] = Entry(h, f)], k, h, f)
    BY <1>1, <1>2, <2>1 DEF Gains
  <2> QED BY <1>1, <2>1, <2>2, <2>3
<1>4. CASE DeadSlots = {}
  <2> DEFINE n == Len(rset)
             g == [i \in 1..(n + 1) |-> IF i = n + 1 THEN h[2] ELSE rset[i].hash[2]]
  <2>1. \A i \in 1..n : rset[i].live /\ rset[i].hash \in Hashes /\ rset[i].hash # h
    <3>1. \A i \in 1..n : rset[i].live
      BY Zenon, <1>1, <1>4 DEF DeadSlots
    <3>2. \A i \in 1..n : rset[i] \in EntryRec
      BY <1>1
    <3> QED BY Zenon, <1>1, <3>1, <3>2 DEF EntryRec, Resident, Live
  <2>2. \A x, y \in Hashes : x[2] \in Content /\ (x[2] = y[2] => x = y)
    BY DEF Hashes, Hash
  <2>3. g \in [1..(n + 1) -> Content]
    BY <1>1, <2>1, <2>2
  <2>4. ASSUME NEW i \in 1..(n + 1), NEW j \in 1..(n + 1), g[i] = g[j]
        PROVE  i = j
    <3>1. \A a, b \in 1..n : rset[a].hash = rset[b].hash => a = b
      BY Zenon, <1>1, <2>1 DEF Listed
    <3>2. CASE i \in 1..n /\ j \in 1..n
      BY Zenon, <1>1, <2>1, <2>2, <2>4, <3>1, <3>2
    <3>3. CASE i = n + 1 /\ j \in 1..n
      BY Zenon, <1>1, <2>1, <2>2, <2>4, <3>3
    <3>4. CASE j = n + 1 /\ i \in 1..n
      BY Zenon, <1>1, <2>1, <2>2, <2>4, <3>4
    <3> QED BY <1>1, <3>2, <3>3, <3>4
  <2>5. n + 1 <= Cardinality(Content)
    <3>1. n + 1 \in Nat /\ IsFiniteSet(Content)
      BY <1>1, ResidencyAssumption
    <3> HIDE DEF g
    <3> QED BY Zenon, <2>3, <2>4, <3>1, Injects
  <2>6. n < RSET_MAX
    <3>1. Cardinality(Content) \in Nat
      BY Zenon, ResidencyAssumption, FS_CardinalityType
    <3> QED BY <1>1, <2>5, <3>1
  <2>7. rset_add(h, f) = Append(rset, Entry(h, f))
    BY Zenon, <1>4, <2>6 DEF rset_add
  <2>8. Gains(Append(rset, Entry(h, f)), n + 1, h, f)
    BY <1>1, <1>2, <2>6 DEF Gains
  <2> QED BY <1>1, <2>7, <2>8
<1> QED BY Zenon, <1>3, <1>4

-----------------------------------------------------------------------------
(* The pages that map a frame, when the entry of one page changes. *)
LEMMA OwnersStep ==
  ASSUME TypeOK, NEW p \in Page, NEW e, pte' = [pte EXCEPT ![p] = e], NEW x \in Frame
  PROVE  /\ Cardinality(Owners(x)) \in Nat
         /\ ~(Mapped(p) /\ pte[p].frame = x) /\ ~(e.tag = "map" /\ e.frame = x)
            => Cardinality(Owners(x)') = Cardinality(Owners(x))
         /\ ~(Mapped(p) /\ pte[p].frame = x) /\ e.tag = "map" /\ e.frame = x
            => Cardinality(Owners(x)') = Cardinality(Owners(x)) + 1
         /\ Mapped(p) /\ pte[p].frame = x /\ ~(e.tag = "map" /\ e.frame = x)
            => /\ Cardinality(Owners(x)') = Cardinality(Owners(x)) - 1
               /\ Cardinality(Owners(x)) >= 1
<1> DEFINE was == Mapped(p) /\ pte[p].frame = x
           now == e.tag = "map" /\ e.frame = x
<1>1. IsFiniteSet(Owners(x))
  BY Zenon, ResidencyAssumption, FS_Subset DEF Owners
<1>2. Cardinality(Owners(x)) \in Nat
  BY Zenon, <1>1, FS_CardinalityType
<1>3. pte \in [Page -> PteRec]
  BY Zenon, Types
<1>4. (p \in Owners(x) <=> was) /\ (p \in Owners(x)' <=> now)
      /\ \A q \in Page : q # p => (q \in Owners(x) <=> q \in Owners(x)')
  BY Zenon, <1>3 DEF Owners, Mapped
<1>5. Owners(x) \subseteq Page /\ Owners(x)' \subseteq Page
  BY Zenon DEF Owners
<1> DEFINE A == Owners(x)
           B == Owners(x)'
<1> HIDE DEF A, B, was, now
<1>6. A = Owners(x) /\ B = Owners(x)'
  BY Zenon DEF A, B
<1>7. /\ (was <=> now) => B = A
      /\ now /\ ~was => B = A \cup {p} /\ p \notin A
      /\ was /\ ~now => B = A \ {p} /\ p \in A
  BY <1>4, <1>5, <1>6
<1>8. /\ p \notin A => Cardinality(A \cup {p}) = Cardinality(A) + 1
      /\ p \in A => Cardinality(A \ {p}) = Cardinality(A) - 1
  BY Zenon, <1>1, <1>6, FS_AddElement, FS_RemoveElement
<1>9. p \in A => Cardinality(A) >= 1
  BY <1>1, <1>2, <1>6, FS_EmptySet
<1> QED BY Zenon, <1>2, <1>6, <1>7, <1>8, <1>9 DEF was, now

LEMMA OwnersSame ==
  ASSUME pte' = pte, NEW x
  PROVE  Owners(x)' = Owners(x)
  BY Zenon DEF Owners, Mapped
-----------------------------------------------------------------------------
(* How the invariants of the frame database follow from what a step does to its
   records, the resident set and the page tables. *)
LEMMA PoolPrime ==
  ASSUME NEW s \in Pool, SetPool(s)
  PROVE  pool' = s /\ framedb' = s.db /\ freestack' = s.free
<1>1. s = [db |-> s.db, free |-> s.free]
  BY Zenon DEF Pool
<1> QED BY Zenon, <1>1 DEF SetPool, pool

(* A frame that has a hash, and one that a page maps, is in use. *)
LEMMA ConservedPrime ==
  ASSUME NEW t, Conserved(t), pool' = t
  PROVE  Conserved(pool)'
  BY Zenon DEF Conserved

LEMMA HashedInUse ==
  ASSUME TypeOK, Conserved(pool), NEW f \in Frame, framedb[f].has_hash
  PROVE  framedb[f].state = "RESIDENT"
<1>1. pool.db = framedb /\ framedb[f] \in FrameRec
  BY Zenon, Types
<1>2. framedb[f].state = "FREE" => framedb[f] = FreeRec
  BY Zenon, <1>1 DEF Conserved
<1> QED BY <1>1, <1>2 DEF FreeRec, FrameRec

LEMMA ListedSame ==
  ASSUME Listed, TypeOK, rset' = rset, written' = written,
         \A g \in Frame : /\ (framedb'[g].has_hash <=> framedb[g].has_hash)
                          /\ written = {} => framedb'[g].hash = framedb[g].hash
  PROVE  Listed'
<1>1. \A i \in DOMAIN rset : rset[i].frame \in Frame
  BY Zenon, Entries
<1> QED BY ZenonT(30), <1>1 DEF Listed

LEMMA ListedGains ==
  ASSUME Listed, TypeOK, Conserved(pool),
         NEW h \in Hashes, ~Resident(h), NEW f \in Frame, ~framedb[f].has_hash,
         NEW k, Gains(rset', k, h, f),
         framedb'[f].has_hash,
         written' = {} => written = {} /\ framedb'[f].hash = h,
         \A g \in Frame : g # f => framedb'[g] = framedb[g]
  PROVE  Listed'
<1>1. /\ \A i \in DOMAIN rset : rset[i].frame \in Frame
      /\ \A i \in DOMAIN rset : rset[i].live => rset[i].frame # f /\ rset[i].hash # h
  <2>1. \A i \in DOMAIN rset : rset[i].frame \in Frame
    BY Zenon, Entries
  <2> QED BY Zenon, <2>1 DEF Listed, Resident, Live
<1>2. rset'[k].hash = h /\ rset'[k].frame = f /\ rset'[k].live /\ k \in DOMAIN rset'
  BY DEF Gains, Entry
<1>3. \A i \in DOMAIN rset' : i # k => i \in DOMAIN rset /\ rset'[i] = rset[i]
  BY Zenon DEF Gains
<1>4. \A i \in DOMAIN rset : rset[i].live => i # k /\ i \in DOMAIN rset' /\ rset'[i] = rset[i]
  BY Zenon, <1>3 DEF Gains
<1>5. \A i, j \in DOMAIN rset' : /\ rset'[i].live /\ rset'[j].live
                                 /\ rset'[i].hash = rset'[j].hash \/ rset'[i].frame = rset'[j].frame
                                 => i = j
  BY <1>1, <1>2, <1>3 DEF Listed
<1>6. \A i \in DOMAIN rset' : rset'[i].live =>
        /\ framedb'[rset'[i].frame].has_hash
        /\ written' = {} => framedb'[rset'[i].frame].hash = rset'[i].hash
  BY <1>1, <1>2, <1>3 DEF Listed
<1>7. \A g \in Frame : framedb'[g].has_hash => \E i \in DOMAIN rset' : rset'[i].live /\ rset'[i].frame = g
  <2> SUFFICES ASSUME NEW g \in Frame, framedb'[g].has_hash, g # f
               PROVE  \E i \in DOMAIN rset' : rset'[i].live /\ rset'[i].frame = g
    BY Zenon, <1>2
  <2>1. PICK i \in DOMAIN rset : rset[i].live /\ rset[i].frame = g
    BY Zenon DEF Listed
  <2> QED BY Zenon, <1>4, <2>1
<1> QED BY Zenon, <1>5, <1>6, <1>7 DEF Listed

LEMMA ListedLoses ==
  ASSUME Listed, TypeOK, written' = written, NEW k, Loses(rset', k), rset[k].live,
         ~framedb'[rset[k].frame].has_hash,
         \A g \in Frame : g # rset[k].frame =>
           /\ (framedb'[g].has_hash <=> framedb[g].has_hash)
           /\ framedb'[g].hash = framedb[g].hash
  PROVE  Listed'
<1>1. /\ k \in DOMAIN rset /\ DOMAIN rset' = DOMAIN rset
      /\ \A i \in DOMAIN rset : rset'[i].live => i # k /\ rset[i].live /\ rset'[i] = rset[i]
      /\ \A i \in DOMAIN rset : i # k => rset'[i] = rset[i]
  BY SMTT(30), Types DEF Loses
<1>2. \A i \in DOMAIN rset : rset[i].frame \in Frame
  BY Zenon, Entries
<1>3. \A i \in DOMAIN rset : rset'[i].live => rset[i].frame # rset[k].frame
  BY Zenon, <1>1 DEF Listed
<1>4. \A i, j \in DOMAIN rset' : /\ rset'[i].live /\ rset'[j].live
                                 /\ rset'[i].hash = rset'[j].hash \/ rset'[i].frame = rset'[j].frame
                                 => i = j
  BY ZenonT(30), <1>1 DEF Listed
<1>5. \A i \in DOMAIN rset' : rset'[i].live =>
        /\ framedb'[rset'[i].frame].has_hash
        /\ written' = {} => framedb'[rset'[i].frame].hash = rset'[i].hash
  BY <1>1, <1>2, <1>3 DEF Listed
<1>6. \A g \in Frame : framedb'[g].has_hash => \E i \in DOMAIN rset' : rset'[i].live /\ rset'[i].frame = g
  <2> SUFFICES ASSUME NEW g \in Frame, framedb'[g].has_hash
               PROVE  \E i \in DOMAIN rset' : rset'[i].live /\ rset'[i].frame = g
    BY Zenon
  <2>1. g # rset[k].frame /\ framedb[g].has_hash
    BY Zenon
  <2>2. PICK i \in DOMAIN rset : rset[i].live /\ rset[i].frame = g
    BY Zenon, <2>1 DEF Listed
  <2>3. i # k
    BY Zenon, <2>1, <2>2
  <2> QED BY Zenon, <1>1, <2>2, <2>3
<1> QED BY Zenon, <1>4, <1>5, <1>6 DEF Listed

(* A step that leaves the manager and the mappings alone. *)
LEMMA Quiet ==
  ASSUME DbInv, TypeOK', UNCHANGED <<stage, framedb, freestack, rset, written, leaked>>,
         pte' = pte \/ \E p \in Page, h \in Hashes \cup {NoHash} :
                         stage = "paging" /\ ~Mapped(p) /\ pte' = [pte EXCEPT ![p] = Desc(h)]
  PROVE  DbInv'
<1>1. Conserved(pool)' /\ Listed'
  <2>1. pool' = pool
    BY Zenon DEF pool
  <2> QED BY ZenonT(30), <2>1 DEF DbInv, Conserved, Listed
<1>2. /\ \A p \in Page : Mapped(p)' <=> Mapped(p)
      /\ \A p \in Page : Mapped(p) => pte'[p] = pte[p]
      /\ StageOK'
  <2>1. CASE pte' = pte
    BY Zenon, <2>1 DEF Mapped, StageOK, DbInv
  <2>2. CASE pte' # pte
    <3>1. PICK p \in Page, h \in Hashes \cup {NoHash} :
            stage = "paging" /\ ~Mapped(p) /\ pte' = [pte EXCEPT ![p] = Desc(h)]
      BY Zenon, <2>2
    <3>2. pte \in [Page -> PteRec] /\ Desc(h).tag = "desc"
      BY Zenon, Types DEF DbInv, Desc, NotPresent
    <3> QED BY Zenon, <3>1, <3>2 DEF Mapped, StageOK, DbInv
  <2> QED BY Zenon, <2>1, <2>2
<1>3. MapsOK'
  BY ZenonT(30), <1>2 DEF MapsOK, DbInv
<1>4. \A f \in Frame : Owners(f)' = Owners(f)
  BY Zenon, <1>2 DEF Owners
<1>5. CountsOK'
  BY Zenon, <1>4 DEF CountsOK, DbInv
<1> QED BY Zenon, <1>1, <1>2, <1>3, <1>5 DEF DbInv

(* A step that only touches reference bits, or renames a frame in place. *)
LEMMA Touched ==
  ASSUME DbInv, TypeOK', UNCHANGED <<stage, freestack, rset, written, leaked, pte>>,
         \A g \in Frame : framedb'[g] = framedb[g] \/
           /\ framedb[g].state = "RESIDENT" /\ framedb'[g].state = "RESIDENT"
           /\ (framedb'[g].has_hash <=> framedb[g].has_hash)
           /\ framedb'[g].refcount = framedb[g].refcount
           /\ framedb'[g].dirty => framedb[g].dirty
           /\ written = {} => framedb'[g].hash = framedb[g].hash
  PROVE  DbInv'
<1>1. Conserved(pool)'
  <2>1. framedb' \in [Frame -> FrameRec] /\ pool \in Pool /\ pool.db = framedb /\ pool.free = freestack
    BY Zenon, Types DEF DbInv, TypeOK, FrameRec
  <2>2. pool' = [db |-> framedb', free |-> pool.free]
    BY Zenon, <2>1 DEF pool
  <2>3. Conserved([db |-> framedb', free |-> pool.free])
    BY Zenon, <2>1, RecordConserves DEF DbInv
  <2> QED BY <2>2, <2>3 DEF Conserved
<1>2. Listed'
  BY Zenon, ListedSame DEF DbInv
<1>3. MapsOK'
  BY SMTT(30) DEF MapsOK, Mapped, DbInv
<1>4. \A f \in Frame : Owners(f)' = Owners(f)
  BY Zenon, OwnersSame
<1>5. CountsOK'
  BY Zenon, <1>4 DEF CountsOK, DbInv
<1>6. StageOK'
  BY Zenon DEF StageOK, DbInv
<1> QED BY Zenon, <1>1, <1>2, <1>3, <1>5, <1>6 DEF DbInv
-----------------------------------------------------------------------------
(* The paging actions keep DbInv. *)
LEMMA FreeUnowned ==
  ASSUME DbInv, NEW f \in Frame, framedb[f] = FreeRec
  PROVE  Cardinality(Owners(f)) = 0 /\ leaked[f] = 0 /\ \A q \in Page : Mapped(q) => pte[q].frame # f
<1>1. framedb[f].state = "FREE" /\ ~framedb[f].has_hash
  BY DEF FreeRec
<1>2. \A q \in Page : Mapped(q) => pte[q].frame # f
  BY Zenon, <1>1 DEF DbInv, MapsOK
<1>3. Owners(f) = {}
  BY Zenon, <1>2 DEF Owners
<1> QED BY Zenon, <1>1, <1>2, <1>3, FS_EmptySet DEF DbInv, CountsOK

LEMMA Fresh ==
  ASSUME DbInv, CanReserve(pool)
  PROVE  /\ Reserved(pool) \in Frame /\ framedb[Reserved(pool)] = FreeRec
         /\ frame_reserve(pool) \in Pool /\ Conserved(frame_reserve(pool))
         /\ frame_reserve(pool).db = [framedb EXCEPT ![Reserved(pool)] = FreshRec]
         /\ FreshRec \in FrameRec /\ FreshRec.state = "RESIDENT"
         /\ ~FreshRec.has_hash /\ FreshRec.hash = NoHash /\ ~FreshRec.dirty
         /\ frame_release_physical(frame_reserve(pool), Reserved(pool)) = pool
<1>1. FreshRec \in FrameRec /\ FreshRec.state = "RESIDENT"
      /\ ~FreshRec.has_hash /\ FreshRec.hash = NoHash /\ ~FreshRec.dirty
  BY Zenon DEF FreshRec, FreeRec, FrameRec
<1>2. pool \in Pool /\ pool.db = framedb /\ pool.free # <<>> /\ Conserved(pool)
  BY Zenon, Types DEF DbInv, CanReserve
<1>3. frame_reserve(pool) = [db |-> [pool.db EXCEPT ![Reserved(pool)] = FreshRec],
                             free |-> SubSeq(pool.free, 1, Len(pool.free) - 1)]
  BY Zenon DEF frame_reserve
<1>4. /\ Reserved(pool) \in Frame /\ pool.db[Reserved(pool)] = FreeRec
      /\ frame_reserve(pool) \in Pool /\ Conserved(frame_reserve(pool))
  BY Zenon, <1>1, <1>2, <1>3, ReserveConserves
<1>5. frame_release_physical(frame_reserve(pool), Reserved(pool)) = pool
  BY Zenon, <1>2, ReserveRelease
<1>6. frame_reserve(pool).db = [framedb EXCEPT ![Reserved(pool)] = FreshRec]
  BY <1>2, <1>3
<1> QED BY Zenon, <1>1, <1>2, <1>4, <1>5, <1>6

LEMMA FaultAnonDb ==
  ASSUME DbInv, stage = "paging", NEW p \in Page, FaultAnon(p), stage' = stage
  PROVE  DbInv'
<1> DEFINE f == Reserved(pool)
<1>1. /\ f \in Frame /\ framedb[f] = FreeRec
      /\ frame_reserve(pool) \in Pool /\ Conserved(frame_reserve(pool))
      /\ frame_reserve(pool).db = [framedb EXCEPT ![f] = FreshRec]
      /\ FreshRec \in FrameRec /\ FreshRec.state = "RESIDENT"
      /\ ~FreshRec.has_hash /\ FreshRec.hash = NoHash /\ ~FreshRec.dirty
      /\ frame_release_physical(frame_reserve(pool), f) = pool
  BY Zenon, Fresh DEF FaultAnon
<1>2. /\ pool \in Pool /\ framedb \in [Frame -> FrameRec] /\ pte \in [Page -> PteRec]
      /\ pool.db = framedb /\ pool.free = freestack
  BY Zenon, Types DEF DbInv
<1>3. /\ ~Mapped(p) /\ mem' = [mem EXCEPT ![f] = Zero]
      /\ UNCHANGED <<rset, clock_hand, store, pf_bindA, pf_anon, val, written, leaked>>
  BY Zenon DEF FaultAnon
<1>4. mem' \in [Frame -> Content]
  BY Zenon, <1>1, <1>3, ResidencyAssumption DEF DbInv, TypeOK
<1>5. CASE SetPool(frame_release_physical(frame_reserve(pool), Reserved(pool))) /\ UNCHANGED pte
  <2>1. framedb' = framedb /\ freestack' = freestack
    BY Zenon, <1>1, <1>2, <1>5 DEF SetPool
  <2>2. TypeOK'
    BY Zenon, <1>3, <1>4, <1>5, <2>1 DEF DbInv, TypeOK
  <2> QED BY Zenon, <1>3, <1>5, <2>1, <2>2, Quiet
<1>6. CASE /\ SetPool(frame_reserve(pool))
           /\ pte' = [pte EXCEPT ![p] = Mapping(Reserved(pool), TRUE)]
  <2>1. /\ pool' = frame_reserve(pool) /\ framedb' = [framedb EXCEPT ![f] = FreshRec]
        /\ freestack' = frame_reserve(pool).free
    BY Zenon, <1>1, <1>6, PoolPrime
  <2>2. /\ Mapping(f, TRUE) \in PteRec /\ Mapping(f, TRUE).tag = "map"
        /\ Mapping(f, TRUE).frame = f /\ Mapping(f, TRUE).rw
    BY Zenon, <1>1 DEF Mapping, NotPresent, PteRec
  <2> DEFINE e == Mapping(f, TRUE)
  <2>3. pte' = [pte EXCEPT ![p] = e] /\ pte'[p] = e /\ \A q \in Page : q # p => pte'[q] = pte[q]
    BY Zenon, <1>2, <1>6
  <2> HIDE DEF e, f
  <2>e. e \in PteRec /\ e.tag = "map" /\ e.frame = f /\ e.rw
    BY Zenon, <2>2 DEF e
  <2>4. TypeOK'
    <3>1. framedb' \in [Frame -> FrameRec] /\ freestack' \in Seq(Frame)
      BY Zenon, <1>1, <2>1 DEF Pool
    <3>2. pte' \in [Page -> PteRec]
      BY Zenon, <1>2, <2>3, <2>e
    <3> QED BY Zenon, <1>3, <1>4, <3>1, <3>2 DEF DbInv, TypeOK, FrameRec, PteRec
  <2>5. Conserved(pool)'
    BY Zenon, <1>1, <2>1 DEF Conserved
  <2>6. Listed'
    <3>1. \A g \in Frame : (framedb'[g].has_hash <=> framedb[g].has_hash) /\ framedb'[g].hash = framedb[g].hash
      <4>1. ~FreeRec.has_hash /\ FreeRec.hash = NoHash
        BY Zenon DEF FreeRec
      <4>2. framedb'[f] = FreshRec /\ \A g \in Frame : g # f => framedb'[g] = framedb[g]
        BY Zenon, <1>1, <1>2, <2>1
      <4> QED BY Zenon, <1>1, <4>1, <4>2
    <3> QED BY Zenon, <1>3, <3>1, ListedSame DEF DbInv
  <2>7. \A q \in Page : Mapped(q) => pte[q].frame # f /\ q # p
    BY Zenon, <1>1, <1>3, FreeUnowned
  <2>8. MapsOK'
    <3> SUFFICES ASSUME NEW q \in Page, Mapped(q)'
                 PROVE  /\ pte'[q].frame \in Frame /\ framedb'[pte'[q].frame].state = "RESIDENT"
                        /\ pte'[q].rw <=> ~framedb'[pte'[q].frame].has_hash
                        /\ pte'[q].rw => \A z \in Page : Mapped(z)' /\ pte'[z].frame = pte'[q].frame => z = q
      BY Zenon DEF MapsOK
    <3>1. \A z \in Page : z # p => (Mapped(z)' <=> Mapped(z)) /\ pte'[z] = pte[z]
      BY Zenon, <2>3 DEF Mapped
    <3>2. framedb'[f] = FreshRec /\ \A g \in Frame : g # f => framedb'[g] = framedb[g]
      BY Zenon, <1>1, <1>2, <2>1
    <3>3. CASE q = p
      BY SMTT(30), <1>1, <2>3, <2>e, <2>7, <3>1, <3>2, <3>3
    <3>4. CASE q # p
      BY SMTT(30), <2>3, <2>e, <2>7, <3>1, <3>2, <3>4 DEF MapsOK, DbInv
    <3> QED BY Zenon, <3>3, <3>4
  <2>9. CountsOK'
    <3> SUFFICES ASSUME NEW x \in Frame
                 PROVE  IF framedb'[x].has_hash THEN framedb'[x].refcount = Cardinality(Owners(x)') + leaked'[x]
                        ELSE leaked'[x] = 0
      BY Zenon DEF CountsOK
    <3>1. CASE x = f
      BY Zenon, <1>1, <1>2, <1>3, <2>1, <3>1, FreeUnowned
    <3>2. CASE x # f
      <4>1. Cardinality(Owners(x)') = Cardinality(Owners(x))
        BY ZenonT(30), <1>3, <2>3, <2>e, <3>2, OwnersStep DEF DbInv
      <4>2. framedb'[x] = framedb[x]
        BY Zenon, <1>2, <2>1, <3>2
      <4> QED BY Zenon, <1>3, <4>1, <4>2 DEF CountsOK, DbInv
    <3> QED BY Zenon, <3>1, <3>2
  <2>10. StageOK'
    BY Zenon, <1>1, <1>2, <1>3, <2>1 DEF StageOK, DbInv
  <2> QED BY Zenon, <2>4, <2>5, <2>6, <2>8, <2>9, <2>10 DEF DbInv
<1> QED BY Zenon, <1>5, <1>6 DEF FaultAnon

(* The entry of page p changes, and the frames of the other pages stay in use as
   they were. *)
LEMMA MapsStep ==
  ASSUME DbInv, NEW p \in Page, NEW e, pte' = [pte EXCEPT ![p] = e],
         \A q \in Page : Mapped(q) /\ q # p =>
           /\ framedb'[pte[q].frame].state = "RESIDENT"
           /\ framedb'[pte[q].frame].has_hash <=> framedb[pte[q].frame].has_hash
           /\ e.tag = "map" /\ e.rw => pte[q].frame # e.frame,
         e.tag = "map" => /\ e.frame \in Frame /\ framedb'[e.frame].state = "RESIDENT"
                          /\ e.rw <=> ~framedb'[e.frame].has_hash
  PROVE  MapsOK'
<1>1. pte'[p] = e /\ \A q \in Page : q # p => pte'[q] = pte[q]
  BY Zenon, Types DEF DbInv
<1>2. (Mapped(p)' <=> e.tag = "map") /\ \A q \in Page : q # p => (Mapped(q)' <=> Mapped(q))
  BY Zenon, <1>1 DEF Mapped
<1> SUFFICES ASSUME NEW q \in Page, Mapped(q)'
             PROVE  /\ pte'[q].frame \in Frame /\ framedb'[pte'[q].frame].state = "RESIDENT"
                    /\ pte'[q].rw <=> ~framedb'[pte'[q].frame].has_hash
                    /\ pte'[q].rw => \A z \in Page : Mapped(z)' /\ pte'[z].frame = pte'[q].frame => z = q
  BY Zenon DEF MapsOK
<1>3. CASE q = p
  BY ZenonT(30), <1>1, <1>2, <1>3
<1>4. CASE q # p
  <2>1. /\ Mapped(q) /\ pte'[q] = pte[q] /\ pte[q].frame \in Frame
        /\ pte[q].rw <=> ~framedb[pte[q].frame].has_hash
        /\ pte[q].rw => \A z \in Page : Mapped(z) /\ pte[z].frame = pte[q].frame => z = q
    BY Zenon, <1>1, <1>2, <1>4 DEF DbInv, MapsOK
  <2>2. pte'[q].frame \in Frame /\ framedb'[pte'[q].frame].state = "RESIDENT"
    BY Zenon, <1>4, <2>1
  <2>3. pte'[q].rw <=> ~framedb'[pte'[q].frame].has_hash
    BY Zenon, <1>4, <2>1
  <2>4. ASSUME pte'[q].rw, NEW z \in Page, Mapped(z)', pte'[z].frame = pte'[q].frame
        PROVE  z = q
    <3>1. CASE z # p
      BY ZenonT(30), <1>1, <1>2, <2>1, <2>4, <3>1
    <3>2. CASE z = p
      BY SMTT(30), <1>1, <1>2, <1>4, <2>1, <2>3, <2>4, <3>2
    <3> QED BY Zenon, <3>1, <3>2
  <2> QED BY Zenon, <2>2, <2>3, <2>4
<1> QED BY Zenon, <1>3, <1>4

(* A private page goes and its frame is given back. *)
LEMMA PrivateGone ==
  ASSUME DbInv, stage = "paging", NEW p \in Page, Private(p), TypeOK',
         pte' = [pte EXCEPT ![p] = NotPresent],
         SetPool(frame_release_physical(pool, pte[p].frame)),
         UNCHANGED <<stage, rset, written, leaked>>
  PROVE  DbInv'
<1> DEFINE f == pte[p].frame
           t == frame_release_physical(pool, f)
<1>1. /\ f \in Frame /\ framedb[f].state = "RESIDENT" /\ ~framedb[f].has_hash
      /\ \A q \in Page : Mapped(q) /\ pte[q].frame = f => q = p
  BY Zenon DEF Private, DbInv, MapsOK
<1>2. /\ pool \in Pool /\ framedb \in [Frame -> FrameRec] /\ pool.db = framedb
  BY Zenon, Types DEF DbInv
<1>3. t \in Pool /\ Conserved(t) /\ t.db = [framedb EXCEPT ![f] = FreeRec]
  BY Zenon, <1>1, <1>2, ReleaseConserves DEF DbInv
<1>4. pool' = t /\ framedb' = [framedb EXCEPT ![f] = FreeRec]
  BY Zenon, <1>3, PoolPrime
<1> HIDE DEF t
<1>5. /\ framedb'[f] = FreeRec /\ ~framedb'[f].has_hash /\ ~framedb'[f].dirty
      /\ \A g \in Frame : g # f => framedb'[g] = framedb[g]
  BY Zenon, <1>1, <1>2, <1>4 DEF FreeRec
<1>6. Conserved(pool)'
  BY Zenon, <1>3, <1>4 DEF Conserved
<1>7. Listed'
  <2>1. written' = {} => \A i \in DOMAIN rset : rset[i].live => rset[i].frame # f
    BY Zenon, <1>1 DEF DbInv, Listed
  <2>2. \A i \in DOMAIN rset : rset[i].live => rset[i].frame # f /\ rset[i].frame \in Frame
    BY Zenon, <1>1, Entries DEF DbInv, Listed
  <2>3. \A g \in Frame : framedb'[g].has_hash => framedb[g].has_hash
    BY Zenon, <1>5
  <2> QED BY ZenonT(30), <1>5, <2>2, <2>3 DEF DbInv, Listed
<1>8. NotPresent.tag # "map"
  BY Zenon DEF NotPresent
<1>9. MapsOK'
  <2>1. \A q \in Page : Mapped(q) /\ q # p =>
          /\ framedb'[pte[q].frame].state = "RESIDENT"
          /\ framedb'[pte[q].frame].has_hash <=> framedb[pte[q].frame].has_hash
    BY Zenon, <1>1, <1>5 DEF DbInv, MapsOK
  <2> QED BY Zenon, <1>8, <2>1, MapsStep
<1>10. CountsOK'
  <2> SUFFICES ASSUME NEW x \in Frame
               PROVE  IF framedb'[x].has_hash THEN framedb'[x].refcount = Cardinality(Owners(x)') + leaked'[x]
                      ELSE leaked'[x] = 0
    BY Zenon DEF CountsOK
  <2>1. CASE x = f
    BY Zenon, <1>1, <1>5, <2>1 DEF CountsOK, DbInv
  <2>2. CASE x # f
    <3>1. Cardinality(Owners(x)') = Cardinality(Owners(x))
      BY Zenon, <1>8, <2>2, OwnersStep DEF DbInv
    <3> QED BY Zenon, <1>5, <2>2, <3>1 DEF CountsOK, DbInv
  <2> QED BY Zenon, <2>1, <2>2
<1>11. StageOK'
  BY Zenon, <1>5 DEF StageOK, DbInv
<1> QED BY Zenon, <1>6, <1>7, <1>9, <1>10, <1>11 DEF DbInv

(* The hash a put yields, and the store after it. *)
LEMMA PutTypes ==
  ASSUME TypeOK, NEW c \in Content
  PROVE  Put(c) \in [Hashes -> Content \cup {None}] /\ PutYields(c) \subseteq Hashes \cup {NoHash}
<1>1. Hash(c) \in Hashes /\ store \in [Hashes -> Content \cup {None}]
  BY Zenon DEF Hashes, TypeOK
<1> QED BY Zenon, <1>1 DEF Put, PutYields, Uninitialised

LEMMA BindAddType ==
  ASSUME TypeOK, NEW p \in Page, NEW h \in Hashes \cup {NoHash}
  PROVE  /\ pf_bindA_add(p, h) \in Seq([page : Page, hash : Hashes \cup {NoHash}])
         /\ Len(pf_bindA_add(p, h)) <= PF_BIND_A_MAX
<1>1. /\ pf_bindA \in Seq([page : Page, hash : Hashes \cup {NoHash}])
      /\ Len(pf_bindA) <= PF_BIND_A_MAX /\ PF_BIND_A_MAX \in Nat /\ Len(pf_bindA) \in Nat
      /\ [page |-> p, hash |-> h] \in [page : Page, hash : Hashes \cup {NoHash}]
  BY SMTT(30), ResidencyAssumption DEF TypeOK
<1> DEFINE E == [page |-> p, hash |-> h]
           B == [page : Page, hash : Hashes \cup {NoHash}]
<1> HIDE DEF E, B
<1>2. E \in B /\ pf_bindA \in Seq(B)
  BY Zenon, <1>1 DEF E, B
<1>3. Len(pf_bindA) < PF_BIND_A_MAX =>
        Append(pf_bindA, E) \in Seq(B) /\ Len(Append(pf_bindA, E)) <= PF_BIND_A_MAX
  BY <1>1, <1>2
<1> QED BY Zenon, <1>1, <1>2, <1>3 DEF pf_bindA_add, E, B

LEMMA DiscardDb ==
  ASSUME DbInv, stage = "paging", NEW p \in Page, Discard(p) \/ PageOut(p), stage' = stage
  PROVE  DbInv'
<1>1. /\ Private(p) /\ pte' = [pte EXCEPT ![p] = NotPresent]
      /\ SetPool(frame_release_physical(pool, pte[p].frame))
      /\ UNCHANGED <<rset, clock_hand, mem, written, leaked>>
  BY Zenon DEF Discard, PageOut
<1>2. pte[p].frame \in Frame /\ framedb[pte[p].frame].state = "RESIDENT"
  BY Zenon, <1>1 DEF Private, DbInv, MapsOK
<1>3. framedb' \in [Frame -> FrameRec] /\ freestack' \in Seq(Frame)
  <2>1. frame_release_physical(pool, pte[p].frame) \in Pool
    BY Zenon, <1>2, Types, ReleaseConserves DEF DbInv
  <2> QED BY Zenon, <1>1, <2>1 DEF SetPool, Pool
<1>4. pte' \in [Page -> PteRec]
  <2>1. NotPresent \in PteRec
    BY Zenon DEF NotPresent, PteRec
  <2> QED BY Zenon, <1>1, <2>1, Types DEF DbInv
<1>5. /\ store' \in [Hashes -> Content \cup {None}] /\ val' \in [Page -> Content \cup {None}]
      /\ pf_bindA' \in Seq([page : Page, hash : Hashes \cup {NoHash}]) /\ Len(pf_bindA') <= PF_BIND_A_MAX
      /\ pf_anon' \subseteq Page
  <2>1. CASE Discard(p)
    BY Zenon, <2>1, ResidencyAssumption DEF Discard, DbInv, TypeOK
  <2>2. CASE PageOut(p)
    <3>1. mem[pte[p].frame] \in Content
      BY Zenon, <1>2 DEF DbInv, TypeOK
    <3>2. store' \in [Hashes -> Content \cup {None}]
      BY Zenon, <2>2, <3>1, PutTypes DEF PageOut, DbInv
    <3>3. PICK h \in PutYields(mem[pte[p].frame]) : pf_bindA' = pf_bindA_add(p, h)
      BY Zenon, <2>2 DEF PageOut
    <3>4. h \in Hashes \cup {NoHash}
      BY Zenon, <3>1, <3>3, PutTypes DEF DbInv
    <3>5. /\ pf_bindA' \in Seq([page : Page, hash : Hashes \cup {NoHash}])
          /\ Len(pf_bindA') <= PF_BIND_A_MAX
      BY Zenon, <3>3, <3>4, BindAddType DEF DbInv
    <3> QED BY Zenon, <2>2, <3>2, <3>5 DEF PageOut, DbInv, TypeOK
  <2> QED BY Zenon, <2>1, <2>2
<1>6. TypeOK'
  BY Zenon, <1>1, <1>3, <1>4, <1>5 DEF DbInv, TypeOK, FrameRec, PteRec
<1> QED BY Zenon, <1>1, <1>6, PrivateGone

(* Bindings, anonymous ranges, writes to a private page, publishing, tampering. *)
LEMMA QuietDb ==
  ASSUME DbInv, stage' = stage,
         \/ \E p \in Page, c \in Content : BindA(p, c) \/ Write(p, c) \/ (stage = "paging" /\ ArmB(p, c))
         \/ \E p \in Page : pf_anon_add(p)
         \/ \E c \in Content : Publish(c)
         \/ \E h \in Hashes, c \in Content : Tamper(h, c)
  PROVE  DbInv'
<1>1. ASSUME NEW p \in Page, NEW c \in Content, BindA(p, c)
      PROVE  DbInv'
  <2>1. /\ store' = Put(c) /\ val' = [val EXCEPT ![p] = Published(c)]
        /\ UNCHANGED <<mgr, pte, pf_anon, written, leaked>>
    BY Zenon, <1>1 DEF BindA
  <2>2. PICK h \in PutYields(c) : pf_bindA' = pf_bindA_add(p, h)
    BY Zenon, <1>1 DEF BindA
  <2>3. h \in Hashes \cup {NoHash} /\ store' \in [Hashes -> Content \cup {None}]
    BY Zenon, <2>1, <2>2, PutTypes DEF DbInv
  <2>4. /\ pf_bindA' \in Seq([page : Page, hash : Hashes \cup {NoHash}])
        /\ Len(pf_bindA') <= PF_BIND_A_MAX
    BY Zenon, <2>2, <2>3, BindAddType DEF DbInv
  <2>5. val' \in [Page -> Content \cup {None}]
    BY Zenon, <2>1 DEF DbInv, TypeOK, Published
  <2>6. TypeOK'
    BY Zenon, <2>1, <2>3, <2>4, <2>5 DEF DbInv, TypeOK, mgr
  <2> QED BY Zenon, <2>1, <2>6, Quiet DEF mgr
<1>2. ASSUME NEW p \in Page, NEW c \in Content, ArmB(p, c), stage = "paging"
      PROVE  DbInv'
  <2>1. /\ store' = Put(c) /\ val' = [val EXCEPT ![p] = Published(c)]
        /\ pte[p] = NotPresent /\ UNCHANGED <<mgr, pf_bindA, pf_anon, written, leaked>>
    BY Zenon, <1>2 DEF ArmB
  <2>2. PICK h \in PutYields(c) : pte' = [pte EXCEPT ![p] = Desc(h)]
    BY Zenon, <1>2 DEF ArmB
  <2>3. h \in Hashes \cup {NoHash} /\ store' \in [Hashes -> Content \cup {None}]
    BY Zenon, <2>1, <2>2, PutTypes DEF DbInv
  <2>4. val' \in [Page -> Content \cup {None}]
    BY Zenon, <2>1 DEF DbInv, TypeOK, Published
  <2>5. Desc(h) \in PteRec /\ ~Mapped(p)
    <3>1. NotPresent \in PteRec
      BY Zenon DEF NotPresent, PteRec
    <3>2. Desc(h) \in PteRec
      BY Zenon, <2>3, <3>1 DEF Desc, PteRec
    <3>3. NotPresent.tag # "map"
      BY Zenon DEF NotPresent
    <3> QED BY Zenon, <2>1, <3>2, <3>3 DEF Mapped
  <2>6. pte' \in [Page -> PteRec]
    BY Zenon, <2>2, <2>5, Types DEF DbInv
  <2>7. TypeOK'
    BY Zenon, <2>1, <2>3, <2>4, <2>6 DEF DbInv, TypeOK, mgr, PteRec
  <2>8. /\ UNCHANGED <<stage, framedb, freestack, rset, written, leaked>>
        /\ \E q \in Page, g \in Hashes \cup {NoHash} :
             stage = "paging" /\ ~Mapped(q) /\ pte' = [pte EXCEPT ![q] = Desc(g)]
    BY Zenon, <1>2, <2>1, <2>2, <2>3, <2>5 DEF mgr
  <2> QED BY Zenon, <2>7, <2>8, Quiet
<1>3. ASSUME NEW p \in Page, NEW c \in Content, Write(p, c)
      PROVE  DbInv'
  <2>1. pte[p].frame \in Frame
    BY Zenon, <1>3 DEF Write, Private, DbInv, MapsOK
  <2>2. mem' \in [Frame -> Content] /\ val' \in [Page -> Content \cup {None}]
    BY Zenon, <1>3, <2>1 DEF Write, DbInv, TypeOK
  <2>3. UNCHANGED <<framedb, freestack, rset, clock_hand, store, pte, pf_bindA, pf_anon, written, leaked>>
    BY Zenon, <1>3 DEF Write
  <2>4. TypeOK'
    BY Zenon, <2>2, <2>3 DEF DbInv, TypeOK
  <2> QED BY Zenon, <2>3, <2>4, Quiet
<1>4. ASSUME NEW p \in Page, pf_anon_add(p)
      PROVE  DbInv'
  <2>1. val' \in [Page -> Content \cup {None}] /\ pf_anon' \subseteq Page
    BY Zenon, <1>4, ResidencyAssumption DEF pf_anon_add, DbInv, TypeOK
  <2>2. UNCHANGED <<mgr, store, pte, pf_bindA, written, leaked>>
    BY Zenon, <1>4 DEF pf_anon_add
  <2>3. TypeOK'
    BY Zenon, <2>1, <2>2 DEF DbInv, TypeOK, mgr
  <2> QED BY Zenon, <2>2, <2>3, Quiet DEF mgr
<1>5. ASSUME NEW c \in Content, Publish(c)
      PROVE  DbInv'
  <2>1. store' \in [Hashes -> Content \cup {None}]
    BY Zenon, <1>5, PutTypes DEF Publish, DbInv
  <2>2. UNCHANGED <<mgr, pte, pf_bindA, pf_anon, val, written, leaked>>
    BY Zenon, <1>5 DEF Publish
  <2>3. TypeOK'
    BY Zenon, <2>1, <2>2 DEF DbInv, TypeOK, mgr
  <2> QED BY Zenon, <2>2, <2>3, Quiet DEF mgr
<1>6. ASSUME NEW h \in Hashes, NEW c \in Content, Tamper(h, c)
      PROVE  DbInv'
  <2>1. store' \in [Hashes -> Content \cup {None}]
    BY Zenon, <1>6 DEF Tamper, DbInv, TypeOK
  <2>2. UNCHANGED <<mgr, pte, pf_bindA, pf_anon, val, written, leaked>>
    BY Zenon, <1>6 DEF Tamper
  <2>3. TypeOK'
    BY Zenon, <2>1, <2>2 DEF DbInv, TypeOK, mgr
  <2> QED BY Zenon, <2>2, <2>3, Quiet DEF mgr
<1> QED BY Zenon, <1>1, <1>2, <1>3, <1>4, <1>5, <1>6

(* An object enters an unused frame and the resident set. *)
LEMMA Enters ==
  ASSUME DbInv, Cardinality(Content) <= RSET_MAX, NEW h \in Hashes, ~Resident(h), CanReserve(pool),
         NEW f, f = Reserved(pool),
         NEW r \in FrameRec, r.state = "RESIDENT", r.has_hash,
         NEW s, s = [frame_reserve(pool) EXCEPT !.db[f] = r], SetPool(s),
         rset' = rset_add(h, f), written' = {} => written = {} /\ r.hash = h
  PROVE  /\ f \in Frame /\ framedb[f] = FreeRec
         /\ framedb' = [framedb EXCEPT ![f] = r]
         /\ framedb' \in [Frame -> FrameRec] /\ freestack' \in Seq(Frame)
         /\ rset' \in Seq(EntryRec) /\ Len(rset') <= RSET_MAX
         /\ Conserved(pool)' /\ Listed'
<1>1. /\ f \in Frame /\ framedb[f] = FreeRec
      /\ frame_reserve(pool).db = [framedb EXCEPT ![f] = FreshRec]
  BY Zenon, Fresh
<1>2. /\ pool \in Pool /\ framedb \in [Frame -> FrameRec] /\ pool.db = framedb
      /\ Conserved(pool) /\ pool.free # <<>>
  BY Zenon, Types DEF DbInv, CanReserve
<1> DEFINE t == [db |-> [pool.db EXCEPT ![f] = r], free |-> SubSeq(pool.free, 1, Len(pool.free) - 1)]
<1>3. s = t
  <2>1. [frame_reserve(pool).db EXCEPT ![f] = r] = [pool.db EXCEPT ![f] = r]
    BY Zenon, <1>1, <1>2
  <2>2. s = [db |-> [frame_reserve(pool).db EXCEPT ![f] = r], free |-> frame_reserve(pool).free]
    BY Zenon DEF frame_reserve
  <2> QED BY Zenon, <2>1, <2>2 DEF frame_reserve
<1>4. t \in Pool /\ Conserved(t)
  BY Zenon, <1>2, ReserveConserves
<1>5. pool' = t /\ framedb' = t.db /\ freestack' = t.free
  BY Zenon, <1>3, <1>4, PoolPrime
<1>6. framedb' = [framedb EXCEPT ![f] = r]
  BY Zenon, <1>2, <1>5
<1>7. framedb' \in [Frame -> FrameRec] /\ freestack' \in Seq(Frame) /\ Conserved(pool)'
  <2> HIDE DEF t
  <2> QED BY Zenon, <1>4, <1>5 DEF Pool, Conserved
<1>8. ~framedb[f].has_hash /\ framedb'[f] = r /\ \A g \in Frame : g # f => framedb'[g] = framedb[g]
  BY <1>1, <1>2, <1>6 DEF FreeRec
<1>9. PICK k \in Nat : Gains(rset', k, h, f)
  BY Zenon, <1>1, AddGains DEF DbInv
<1>10. Listed'
  BY Zenon, <1>1, <1>8, <1>9, ListedGains DEF DbInv
<1> QED BY Zenon, <1>1, <1>6, <1>7, <1>9, <1>10 DEF Gains

(* The reference that rm_materialize takes goes to the page, or is leaked. *)
Referenced(p, f) ==
  \/ pte' = [pte EXCEPT ![p] = Mapping(f, FALSE)] /\ UNCHANGED leaked
  \/ MapMayFail /\ leaked' = [leaked EXCEPT ![f] = @ + 1] /\ UNCHANGED pte

LEMMA MappingType ==
  ASSUME NEW f \in Frame, NEW w \in BOOLEAN
  PROVE  /\ Mapping(f, w) \in PteRec /\ Mapping(f, w).tag = "map"
         /\ Mapping(f, w).frame = f /\ Mapping(f, w).rw = w
<1>1. NotPresent \in PteRec
  BY Zenon DEF NotPresent, PteRec
<1> QED BY Zenon, <1>1 DEF Mapping, PteRec

LEMMA MaterializeDb ==
  ASSUME DbInv, Cardinality(Content) <= RSET_MAX, stage = "paging", NEW p \in Page, ~Mapped(p),
         NEW h, NEW f \in Frame, rm_materialize(h, f), Referenced(p, f),
         UNCHANGED <<stage, clock_hand, store, pf_bindA, pf_anon, val, written>>
  PROVE  DbInv'
<1>1. /\ framedb \in [Frame -> FrameRec] /\ pte \in [Page -> PteRec] /\ leaked \in [Frame -> Nat]
      /\ pool \in Pool /\ pool.db = framedb /\ pool.free = freestack
  BY Zenon, Types DEF DbInv
<1>2. written = {} /\ written' = {}
  BY Zenon DEF DbInv, StageOK
(* what both ways of materialising do to the frame *)
<1> DEFINE r == framedb'[f]
<1>3. /\ framedb' \in [Frame -> FrameRec] /\ freestack' \in Seq(Frame) /\ mem' \in [Frame -> Content]
      /\ rset' \in Seq(EntryRec) /\ Len(rset') <= RSET_MAX
      /\ Conserved(pool)' /\ Listed'
      /\ \A g \in Frame : g # f => framedb'[g] = framedb[g]
      /\ r.state = "RESIDENT" /\ r.has_hash /\ ~r.dirty
      /\ r.refcount = Cardinality(Owners(f)) + leaked[f] + 1
      /\ \A q \in Page : Mapped(q) /\ pte[q].frame = f => framedb[f].has_hash
  <2>1. CASE ShareByHash(h, f)
    <3> DEFINE d == [framedb EXCEPT ![f].refcount = @ + 1]
    <3>1. /\ Resident(h) /\ f = rset[rset_find(h)].frame /\ UNCHANGED <<freestack, rset, mem>>
          /\ framedb' = [d EXCEPT ![f].clock_ref = TRUE]
      BY Zenon, <2>1 DEF ShareByHash
    <3>2. framedb[f].has_hash
      BY Zenon, <3>1, FindResident DEF DbInv, Listed
    <3>3. framedb[f].state = "RESIDENT" /\ framedb[f] \in FrameRec
      BY Zenon, <1>1, <3>2, HashedInUse DEF DbInv
    <3> DEFINE a == [framedb[f] EXCEPT !.refcount = framedb[f].refcount + 1]
    <3>a. d \in [Frame -> FrameRec] /\ d[f] = a /\ \A g \in Frame : g # f => d[g] = framedb[g]
      BY <1>1, <3>3 DEF FrameRec
    <3>b. /\ a \in FrameRec /\ a.state = "RESIDENT" /\ a.has_hash /\ a.hash = framedb[f].hash
          /\ a.refcount = framedb[f].refcount + 1 /\ (a.dirty <=> framedb[f].dirty)
      BY <3>2, <3>3 DEF FrameRec
    <3> HIDE DEF d, a
    <3>4. /\ r = [a EXCEPT !.clock_ref = TRUE]
          /\ \A g \in Frame : g # f => framedb'[g] = framedb[g]
      BY Zenon, <3>1, <3>a
    <3>5. /\ r \in FrameRec /\ r.state = "RESIDENT" /\ r.has_hash /\ r.hash = framedb[f].hash
          /\ r.refcount = framedb[f].refcount + 1 /\ (r.dirty <=> framedb[f].dirty)
      <4> HIDE DEF r
      <4> QED BY Zenon, <3>4, <3>b DEF FrameRec
    <3>6. framedb' \in [Frame -> FrameRec]
      BY Zenon, <3>1, <3>a, <3>b, <3>4, <3>5
    <3>7. Conserved(pool)'
      <4>1. pool' = [db |-> framedb', free |-> pool.free]
        BY Zenon, <1>1, <3>1 DEF pool
      <4>2. Conserved([db |-> framedb', free |-> pool.free])
        BY Zenon, <1>1, <3>3, <3>4, <3>5, <3>6, RecordConserves DEF DbInv
      <4> QED BY Zenon, <4>1, <4>2 DEF Conserved
    <3>8. Listed'
      BY Zenon, <1>2, <3>1, <3>2, <3>4, <3>5, ListedSame DEF DbInv
    <3>9. r.refcount = Cardinality(Owners(f)) + leaked[f] + 1
      BY Zenon, <3>2, <3>5 DEF DbInv, CountsOK
    <3>10. ~r.dirty
      BY Zenon, <1>2, <3>5 DEF DbInv, StageOK
    <3> QED BY Zenon, <3>1, <3>2, <3>4, <3>5, <3>6, <3>7, <3>8, <3>9, <3>10, Types DEF DbInv, TypeOK
  <2>2. CASE FaultIn(h, f)
    <3> DEFINE n == [FreshRec EXCEPT !.has_hash = TRUE, !.hash = h]
    <3>1. /\ ~Resident(h) /\ h \in Hashes /\ store[h] # None /\ CanReserve(pool) /\ f = Reserved(pool)
          /\ mem' = [mem EXCEPT ![f] = store[h]] /\ rset' = rset_add(h, f)
          /\ SetPool([frame_reserve(pool) EXCEPT !.db[f].has_hash = TRUE, !.db[f].hash = h])
      BY Zenon, <2>2 DEF FaultIn, InStore
    <3>2. /\ frame_reserve(pool) \in Pool /\ frame_reserve(pool).db = [framedb EXCEPT ![f] = FreshRec]
          /\ framedb[f] = FreeRec
      BY Zenon, <3>1, Fresh
    <3>3. frame_reserve(pool).db[f] = FreshRec
      BY Zenon, <1>1, <3>2
    <3>4. [frame_reserve(pool) EXCEPT !.db[f].has_hash = TRUE, !.db[f].hash = h]
            = [frame_reserve(pool) EXCEPT !.db[f] = n]
      BY ZenonT(30), <1>1, <3>2, <3>3 DEF Pool
    <3>5. n \in FrameRec /\ n.state = "RESIDENT" /\ n.has_hash /\ n.hash = h /\ ~n.dirty /\ n.refcount = 1
      BY Zenon, <3>1 DEF FreshRec, FreeRec, FrameRec
    <3> HIDE DEF n
    <3>6. /\ framedb' = [framedb EXCEPT ![f] = n]
          /\ framedb' \in [Frame -> FrameRec] /\ freestack' \in Seq(Frame)
          /\ rset' \in Seq(EntryRec) /\ Len(rset') <= RSET_MAX
          /\ Conserved(pool)' /\ Listed'
      BY <1>2, <3>1, <3>4, <3>5, Enters
    <3>7. r = n /\ \A g \in Frame : g # f => framedb'[g] = framedb[g]
      BY Zenon, <1>1, <3>6
    <3>8. /\ Cardinality(Owners(f)) = 0 /\ leaked[f] = 0
          /\ \A q \in Page : Mapped(q) => pte[q].frame # f
      BY Zenon, <3>2, FreeUnowned
    <3>9. mem' \in [Frame -> Content]
      BY Zenon, <3>1 DEF DbInv, TypeOK
    <3>10. r.refcount = Cardinality(Owners(f)) + leaked[f] + 1
      BY Zenon, <3>5, <3>7, <3>8, CountMoves
    <3>11. r.state = "RESIDENT" /\ r.has_hash /\ ~r.dirty
      BY Zenon, <3>5, <3>7
    <3> QED BY Zenon, <3>6, <3>7, <3>8, <3>9, <3>10, <3>11
  <2> QED BY Zenon, <2>1, <2>2 DEF rm_materialize
<1> HIDE DEF r
<1>4. \A x \in Frame : x # f => framedb'[x] = framedb[x]
  BY Zenon, <1>3
<1>5. StageOK'
  <2>1. \A g \in Frame : ~framedb'[g].dirty
    BY Zenon, <1>2, <1>3 DEF r, DbInv, StageOK
  <2> QED BY Zenon, <1>2, <2>1 DEF StageOK
<1>6. Cardinality(Owners(f)) \in Nat
  BY Zenon, ResidencyAssumption, FS_Subset, FS_CardinalityType DEF Owners
<1>7. CASE pte' = [pte EXCEPT ![p] = Mapping(f, FALSE)] /\ UNCHANGED leaked
  <2> DEFINE e == Mapping(f, FALSE)
  <2>1. e \in PteRec /\ e.tag = "map" /\ e.frame = f /\ ~e.rw
    BY Zenon, MappingType
  <2> HIDE DEF e
  <2>2. pte' = [pte EXCEPT ![p] = e]
    BY Zenon, <1>7 DEF e
  <2>3. TypeOK'
    <3>1. pte' \in [Page -> PteRec]
      BY Zenon, <1>1, <2>1, <2>2
    <3> QED BY Zenon, <1>3, <1>7, <3>1 DEF DbInv, TypeOK, FrameRec, PteRec, EntryRec
  <2>4. MapsOK'
    <3>1. \A q \in Page : Mapped(q) /\ q # p =>
            /\ framedb'[pte[q].frame].state = "RESIDENT"
            /\ framedb'[pte[q].frame].has_hash <=> framedb[pte[q].frame].has_hash
      BY Zenon, <1>3 DEF DbInv, MapsOK, r
    <3>2. framedb'[f].state = "RESIDENT" /\ framedb'[f].has_hash
      BY Zenon, <1>3 DEF r
    <3> QED BY Zenon, <2>1, <2>2, <3>1, <3>2, MapsStep
  <2>5. CountsOK'
    <3> SUFFICES ASSUME NEW x \in Frame
                 PROVE  IF framedb'[x].has_hash THEN framedb'[x].refcount = Cardinality(Owners(x)') + leaked'[x]
                        ELSE leaked'[x] = 0
      BY Zenon DEF CountsOK
    <3>1. CASE x = f
      <4>1. Cardinality(Owners(f)') = Cardinality(Owners(f)) + 1
        BY Zenon, <2>1, <2>2, OwnersStep DEF DbInv
      <4>2. leaked[f] \in Nat
        BY Zenon, <1>1
      <4>3. framedb'[f].has_hash /\ framedb'[f].refcount = Cardinality(Owners(f)) + leaked[f] + 1
        BY Zenon, <1>3 DEF r
      <4>4. framedb'[f].refcount = Cardinality(Owners(f)') + leaked[f]
        <5>1. Cardinality(Owners(f)) + leaked[f] + 1 = (Cardinality(Owners(f)) + 1) + leaked[f]
          BY Zenon, <1>6, <4>2, CountMoves
        <5> QED BY Zenon, <4>1, <4>3, <5>1
      <4> QED BY Zenon, <1>7, <3>1, <4>3, <4>4
    <3>2. CASE x # f
      <4>1. Cardinality(Owners(x)') = Cardinality(Owners(x))
        BY Zenon, <2>1, <2>2, <3>2, OwnersStep DEF DbInv
      <4> QED BY Zenon, <1>4, <1>7, <3>2, <4>1 DEF CountsOK, DbInv
    <3> QED BY Zenon, <3>1, <3>2
  <2> QED BY Zenon, <1>3, <1>5, <2>3, <2>4, <2>5 DEF DbInv
<1>8. CASE leaked' = [leaked EXCEPT ![f] = @ + 1] /\ UNCHANGED pte
  <2>1. leaked' \in [Frame -> Nat]
    BY SMTT(30), <1>1, <1>8
  <2>2. TypeOK'
    BY Zenon, <1>3, <1>8, <2>1 DEF DbInv, TypeOK, FrameRec, EntryRec
  <2>3. MapsOK'
    BY ZenonT(30), <1>3, <1>8 DEF r, DbInv, MapsOK, Mapped
  <2>4. CountsOK'
    <3> SUFFICES ASSUME NEW x \in Frame
                 PROVE  IF framedb'[x].has_hash THEN framedb'[x].refcount = Cardinality(Owners(x)') + leaked'[x]
                        ELSE leaked'[x] = 0
      BY Zenon DEF CountsOK
    <3>1. Owners(x)' = Owners(x)
      BY Zenon, <1>8, OwnersSame
    <3>2. leaked'[f] = leaked[f] + 1 /\ leaked[f] \in Nat /\ (x # f => leaked'[x] = leaked[x])
      BY Zenon, <1>1, <1>8
    <3>3. CASE x = f
      <4>1. framedb'[f].has_hash /\ framedb'[f].refcount = Cardinality(Owners(f)) + leaked[f] + 1
        BY Zenon, <1>3 DEF r
      <4>2. framedb'[f].refcount = Cardinality(Owners(f)) + leaked'[f]
        <5>1. Cardinality(Owners(f)) + leaked[f] + 1 = Cardinality(Owners(f)) + (leaked[f] + 1)
          BY Zenon, <1>6, <3>2, CountMoves
        <5> QED BY Zenon, <3>2, <4>1, <5>1
      <4> QED BY Zenon, <3>1, <3>3, <4>1, <4>2
    <3>4. CASE x # f
      BY Zenon, <1>4, <3>1, <3>2, <3>4 DEF CountsOK, DbInv
    <3> QED BY Zenon, <3>3, <3>4
  <2> QED BY Zenon, <1>3, <1>5, <2>2, <2>3, <2>4 DEF DbInv
<1> QED BY Zenon, <1>7, <1>8 DEF Referenced

LEMMA FaultBoundDb ==
  ASSUME DbInv, Cardinality(Content) <= RSET_MAX, stage = "paging",
         NEW p \in Page, FaultBound(p), stage' = stage
  PROVE  DbInv'
<1>1. ~Mapped(p) /\ UNCHANGED <<clock_hand, store, pf_bindA, pf_anon, val, written>>
  BY Zenon DEF FaultBound
<1>2. ASSUME NEW f \in Frame, rm_materialize(Resolve(p), f), Referenced(p, f)
      PROVE  DbInv'
  BY Zenon, <1>1, <1>2, MaterializeDb
<1>3. ASSUME MaterializeRejects(Resolve(p)), UNCHANGED <<pte, leaked>>
      PROVE  DbInv'
  <2>1. /\ SetPool(pool) /\ UNCHANGED rset /\ InStore(Resolve(p)) /\ Reserved(pool) \in Frame
        /\ mem' = [mem EXCEPT ![Reserved(pool)] = store[Resolve(p)]]
    BY Zenon, <1>3, Fresh DEF MaterializeRejects
  <2>2. framedb' = framedb /\ freestack' = freestack
    BY Zenon, <2>1, Types DEF SetPool, DbInv
  <2>3. TypeOK'
    BY Zenon, <1>1, <1>3, <2>1, <2>2 DEF DbInv, TypeOK, InStore
  <2> QED BY Zenon, <1>1, <1>3, <2>1, <2>2, <2>3, Quiet
<1> QED BY Zenon, <1>2, <1>3 DEF FaultBound, Referenced

(* refdrop of the hash of a listed frame f: the last reference frees the frame and
   its entry, another one is taken off the count. *)
LEMMA DropRef ==
  ASSUME DbInv, written = {}, NEW f \in Frame, framedb[f].has_hash, framedb[f].refcount >= 1,
         NEW s \in Pool, Conserved(s), s.db[f] = framedb[f],
         NEW h, h = framedb[f].hash, NEW t, t = refdrop(s, h)
  PROVE  /\ t \in Pool /\ Conserved(t)
         /\ framedb[f].refcount = 1 =>
              /\ t.db = [s.db EXCEPT ![f] = FreeRec]
              /\ \E k \in DOMAIN rset : /\ rset[k].live /\ rset[k].frame = f
                                        /\ Loses(RsetAfterDrop(h), k)
         /\ framedb[f].refcount # 1 =>
              /\ t.db = [s.db EXCEPT ![f] = [framedb[f] EXCEPT !.refcount = framedb[f].refcount - 1]]
              /\ RsetAfterDrop(h) = rset
<1>1. PICK k \in DOMAIN rset : rset[k].live /\ rset[k].frame = f
  BY Zenon DEF DbInv, Listed
<1>2. rset[k].hash = h
  BY Zenon, <1>1 DEF DbInv, Listed
<1>3. Resident(h) /\ rset_find(h) = k
  BY Zenon, <1>1, <1>2, FindListed DEF DbInv
<1>4. s.db \in [Frame -> FrameRec] /\ s.free \in Seq(Frame) /\ s = [db |-> s.db, free |-> s.free]
      /\ framedb[f] \in FrameRec
  BY Zenon DEF Pool
<1>5. framedb[f].state = "RESIDENT" /\ framedb[f].refcount \in Nat
  BY Zenon, <1>4, HashedInUse DEF DbInv, FrameRec
<1>6. CASE framedb[f].refcount = 1
  <2> DEFINE a == [framedb[f] EXCEPT !.refcount = 0]
             u == [db |-> [s.db EXCEPT ![f] = a], free |-> s.free]
  <2>1. t = frame_release_physical(LastRef(s, f), f)
    BY <1>1, <1>3, <1>6 DEF refdrop, LastRef
  <2>2. LastRef(s, f) = u
    BY ZenonT(30), RefUpdates
  <2>3. a \in FrameRec /\ a.state = "RESIDENT"
    BY Zenon, <1>4, <1>5 DEF FrameRec
  <2> HIDE DEF a
  <2>4. u \in Pool /\ Conserved(u)
    <3>1. [s.db EXCEPT ![f] = a] \in [Frame -> FrameRec]
      BY Zenon, <1>4, <2>3
    <3>2. \A g \in Frame : \/ [s.db EXCEPT ![f] = a][g] = s.db[g]
                           \/ s.db[g].state = "RESIDENT" /\ [s.db EXCEPT ![f] = a][g].state = "RESIDENT"
      BY Zenon, <1>4, <1>5, <2>3
    <3> QED BY Zenon, <3>1, <3>2, RecordConserves
  <2>5. u.db = [s.db EXCEPT ![f] = a] /\ u.db[f].state = "RESIDENT"
    BY Zenon, <1>4, <2>3
  <2> HIDE DEF u
  <2>6. t = frame_release_physical(u, f)
    BY Zenon, <2>1, <2>2
  <2>7. t \in Pool /\ Conserved(t) /\ t.db = [u.db EXCEPT ![f] = FreeRec]
    BY Zenon, <2>4, <2>5, <2>6, ReleaseConserves
  <2>8. t.db = [s.db EXCEPT ![f] = FreeRec]
    BY Zenon, <1>4, <2>5, <2>7
  <2>9. RsetAfterDrop(h) = [rset EXCEPT ![k].live = FALSE]
    BY Zenon, <1>1, <1>3, <1>6 DEF RsetAfterDrop
  <2>10. Loses(RsetAfterDrop(h), k)
    BY <2>9, DropLoses DEF DbInv
  <2> QED BY Zenon, <1>1, <1>6, <2>7, <2>8, <2>10
<1>7. CASE framedb[f].refcount # 1
  <2> DEFINE a == [framedb[f] EXCEPT !.refcount = framedb[f].refcount - 1]
             u == [db |-> [s.db EXCEPT ![f] = a], free |-> s.free]
  <2>1. t = LessRef(s, f)
    BY <1>1, <1>3, <1>5, <1>7 DEF refdrop, LessRef
  <2>2. LessRef(s, f) = u
    BY Zenon, RefUpdates
  <2>3. a \in FrameRec /\ a.state = "RESIDENT"
    BY <1>4, <1>5 DEF FrameRec
  <2>4. RsetAfterDrop(h) = rset
    BY Zenon, <1>1, <1>3, <1>7 DEF RsetAfterDrop
  <2> HIDE DEF a
  <2>5. u \in Pool /\ Conserved(u)
    <3>1. [s.db EXCEPT ![f] = a] \in [Frame -> FrameRec]
      BY Zenon, <1>4, <2>3
    <3>2. \A g \in Frame : \/ [s.db EXCEPT ![f] = a][g] = s.db[g]
                           \/ s.db[g].state = "RESIDENT" /\ [s.db EXCEPT ![f] = a][g].state = "RESIDENT"
      BY Zenon, <1>4, <1>5, <2>3
    <3> QED BY Zenon, <3>1, <3>2, RecordConserves
  <2> QED BY <1>7, <2>1, <2>2, <2>4, <2>5 DEF a
<1> QED BY Zenon, <1>6, <1>7

(* d is the frame database but for an unused frame that the entry e maps privately. *)
FreshFor(d, e) ==
  /\ \A g \in Frame : d[g] = framedb[g] \/
       (framedb[g] = FreeRec /\ d[g] = FreshRec /\ e.tag = "map" /\ e.frame = g)
  /\ e.tag = "map" => e.frame \in Frame /\ d[e.frame] = FreshRec /\ framedb[e.frame] = FreeRec /\ e.rw

(* The step leaves d with one reference to f less. *)
DropsIn(d, f) ==
  \/ /\ framedb[f].refcount = 1 /\ framedb' = [d EXCEPT ![f] = FreeRec]
     /\ \E k \in DOMAIN rset : rset[k].live /\ rset[k].frame = f /\ Loses(rset', k)
  \/ /\ framedb' = [d EXCEPT ![f] = [framedb[f] EXCEPT !.refcount = framedb[f].refcount - 1]]
     /\ rset' = rset

(* A shared page p of frame f is given the entry e and its reference dropped. *)
LEMMA SharedGone ==
  ASSUME DbInv, stage = "paging", NEW p \in Page, Shared(p), NEW f, f = pte[p].frame, TypeOK',
         NEW e, pte' = [pte EXCEPT ![p] = e], UNCHANGED <<stage, written, leaked>>,
         Conserved(pool)',
         NEW d \in [Frame -> FrameRec],
         FreshFor(d, e), DropsIn(d, f)
  PROVE  DbInv'
<1>1. /\ f \in Frame /\ framedb[f].state = "RESIDENT" /\ framedb[f].has_hash /\ Mapped(p)
      /\ framedb \in [Frame -> FrameRec] /\ framedb[f] \in FrameRec /\ leaked[f] \in Nat
      /\ framedb[f].refcount \in Nat
  BY Zenon, Types DEF Shared, DbInv, MapsOK, FrameRec
<1>2. written = {} /\ written' = {}
  BY Zenon DEF DbInv, StageOK
<1>3. /\ FreeRec.state = "FREE" /\ ~FreeRec.has_hash /\ ~FreeRec.dirty /\ FreeRec.hash = NoHash
      /\ FreshRec.state = "RESIDENT" /\ ~FreshRec.has_hash /\ ~FreshRec.dirty /\ FreshRec.hash = NoHash
  BY Zenon DEF FreeRec, FreshRec
<1>4. d[f] = framedb[f] /\ (e.tag = "map" => e.frame # f)
  BY Zenon, <1>1, <1>3 DEF FreshFor
<1>5. \A g \in Frame : g # f => framedb'[g] = d[g]
  BY Zenon, <1>1 DEF DropsIn
<1>6. \A g \in Frame : /\ d[g].has_hash <=> framedb[g].has_hash
                       /\ d[g].hash = framedb[g].hash /\ ~d[g].dirty
  BY Zenon, <1>2, <1>3 DEF DbInv, StageOK, FreshFor
<1>7. /\ framedb[f].refcount = Cardinality(Owners(f)) + leaked[f]
      /\ Cardinality(Owners(f)) >= 1 /\ Cardinality(Owners(f)) \in Nat
      /\ Cardinality(Owners(f)') = Cardinality(Owners(f)) - 1
  <2>1. framedb[f].refcount = Cardinality(Owners(f)) + leaked[f]
    BY Zenon, <1>1 DEF DbInv, CountsOK
  <2> QED BY Zenon, <1>1, <1>4, <2>1, OwnersStep DEF DbInv
<1> DEFINE a == [framedb[f] EXCEPT !.refcount = framedb[f].refcount - 1]
<1>8. /\ a.state = "RESIDENT" /\ a.has_hash /\ a.hash = framedb[f].hash /\ ~a.dirty
      /\ a.refcount = framedb[f].refcount - 1
  BY Zenon, <1>1, <1>4, <1>6 DEF FrameRec
<1> HIDE DEF a
<1>9. \/ /\ framedb[f].refcount = 1 /\ framedb'[f] = FreeRec
         /\ \E k \in DOMAIN rset : rset[k].live /\ rset[k].frame = f /\ Loses(rset', k)
      \/ framedb'[f] = a /\ rset' = rset
  BY Zenon, <1>1 DEF a, DropsIn
<1>10. Listed'
  <2>1. CASE framedb'[f] = a /\ rset' = rset
    <3>1. \A g \in Frame : (framedb'[g].has_hash <=> framedb[g].has_hash) /\ framedb'[g].hash = framedb[g].hash
      BY Zenon, <1>1, <1>5, <1>6, <1>8, <2>1
    <3> QED BY Zenon, <1>2, <2>1, <3>1, ListedSame DEF DbInv
  <2>2. ASSUME NEW k \in DOMAIN rset, rset[k].live, rset[k].frame = f, Loses(rset', k), framedb'[f] = FreeRec
        PROVE  Listed'
    <3>1. ~framedb'[f].has_hash
      BY Zenon, <1>3, <2>2
    <3>2. \A g \in Frame : g # f => (framedb'[g].has_hash <=> framedb[g].has_hash) /\ framedb'[g].hash = framedb[g].hash
      BY Zenon, <1>5, <1>6
    <3> QED BY Zenon, <2>2, <3>1, <3>2, ListedLoses DEF DbInv
  <2> QED BY Zenon, <1>9, <2>1, <2>2
<1>11. \A q \in Page : Mapped(q) /\ q # p /\ pte[q].frame = f => framedb[f].refcount # 1
  <2> SUFFICES ASSUME NEW q \in Page, Mapped(q), q # p, pte[q].frame = f, framedb[f].refcount = 1
               PROVE  FALSE
    BY Zenon
  <2>1. IsFiniteSet(Owners(f)) /\ p \in Owners(f) /\ q \in Owners(f)
    BY Zenon, <1>1, ResidencyAssumption, FS_Subset DEF Owners
  <2>2. Cardinality(Owners(f)) = 1
    BY ZenonT(30), <1>1, <1>7, CountDrops
  <2>3. PICK z : Owners(f) = {z}
    BY Zenon, <2>1, <2>2, FS_Singleton
  <2> QED BY Zenon, <2>1, <2>3
<1>12. MapsOK'
  <2>1. \A q \in Page : Mapped(q) => pte[q].frame \in Frame /\ framedb[pte[q].frame].state = "RESIDENT"
    BY Zenon DEF DbInv, MapsOK
  <2>2. ASSUME NEW q \in Page, Mapped(q), q # p
        PROVE  /\ framedb'[pte[q].frame].state = "RESIDENT"
               /\ framedb'[pte[q].frame].has_hash <=> framedb[pte[q].frame].has_hash
               /\ e.tag = "map" /\ e.rw => pte[q].frame # e.frame
    <3>1. CASE pte[q].frame = f
      BY Zenon, <1>1, <1>3, <1>4, <1>8, <1>9, <1>11, <2>2, <3>1
    <3>2. CASE pte[q].frame # f
      <4>1. pte[q].frame \in Frame /\ framedb[pte[q].frame] # FreeRec
        BY Zenon, <1>3, <2>1, <2>2
      <4>2. d[pte[q].frame] = framedb[pte[q].frame] /\ (e.tag = "map" => pte[q].frame # e.frame)
        BY Zenon, <4>1 DEF FreshFor
      <4> QED BY Zenon, <1>5, <2>1, <2>2, <3>2, <4>1, <4>2
    <3> QED BY Zenon, <3>1, <3>2
  <2>3. e.tag = "map" => /\ e.frame \in Frame /\ framedb'[e.frame].state = "RESIDENT"
                         /\ e.rw <=> ~framedb'[e.frame].has_hash
    BY Zenon, <1>3, <1>4, <1>5 DEF FreshFor
  <2> QED BY Zenon, <2>2, <2>3, MapsStep
<1>13. CountsOK'
  <2> SUFFICES ASSUME NEW x \in Frame
               PROVE  IF framedb'[x].has_hash THEN framedb'[x].refcount = Cardinality(Owners(x)') + leaked'[x]
                      ELSE leaked'[x] = 0
    BY Zenon DEF CountsOK
  <2>1. CASE x = f
    <3>1. CASE framedb'[f] = a
      <4>1. framedb[f].refcount - 1 = (Cardinality(Owners(f)) - 1) + leaked[f]
        <5>1. (Cardinality(Owners(f)) + leaked[f]) - 1 = (Cardinality(Owners(f)) - 1) + leaked[f]
          BY Zenon, <1>1, <1>7, CountMoves
        <5> QED BY Zenon, <1>7, <5>1
      <4> QED BY Zenon, <1>7, <1>8, <2>1, <3>1, <4>1
    <3>2. CASE framedb'[f] = FreeRec /\ framedb[f].refcount = 1
      <4>1. leaked[f] = 0
        BY Zenon, <1>1, <1>7, <3>2, CountDrops
      <4> QED BY Zenon, <1>3, <2>1, <3>2, <4>1
    <3> QED BY Zenon, <1>9, <3>1, <3>2
  <2>2. CASE x # f /\ framedb'[x].has_hash
    <3>1. framedb'[x] = framedb[x] /\ ~(e.tag = "map" /\ e.frame = x)
      BY ZenonT(30), <1>3, <1>5, <2>2 DEF FreshFor
    <3>2. Cardinality(Owners(x)') = Cardinality(Owners(x))
      BY Zenon, <2>2, <3>1, OwnersStep DEF DbInv
    <3> QED BY Zenon, <2>2, <3>1, <3>2 DEF CountsOK, DbInv
  <2>3. CASE x # f /\ ~framedb'[x].has_hash
    <3>1. ~framedb[x].has_hash
      BY Zenon, <1>5, <1>6, <2>3
    <3> QED BY Zenon, <2>3, <3>1 DEF CountsOK, DbInv
  <2> QED BY Zenon, <2>1, <2>2, <2>3
<1>14. StageOK'
  <2>1. \A g \in Frame : ~framedb'[g].dirty
    BY ZenonT(30), <1>1, <1>3, <1>5, <1>6, <1>8, <1>9
  <2> QED BY Zenon, <1>2, <2>1 DEF StageOK
<1> QED BY Zenon, <1>10, <1>12, <1>13, <1>14 DEF DbInv

LEMMA SharedRef ==
  ASSUME DbInv, stage = "paging", NEW p \in Page, Shared(p)
  PROVE  /\ pte[p].frame \in Frame /\ framedb[pte[p].frame].has_hash
         /\ framedb[pte[p].frame].state = "RESIDENT"
         /\ framedb[pte[p].frame].refcount \in Nat /\ framedb[pte[p].frame].refcount >= 1
         /\ written = {}
<1> DEFINE f == pte[p].frame
<1>1. f \in Frame /\ framedb[f].has_hash /\ framedb[f].state = "RESIDENT" /\ Mapped(p)
  BY Zenon DEF Shared, DbInv, MapsOK
<1> HIDE DEF f
<1>2. IsFiniteSet(Owners(f)) /\ p \in Owners(f)
  BY Zenon, <1>1, ResidencyAssumption, FS_Subset DEF Owners, f
<1>3. Cardinality(Owners(f)) \in Nat /\ Cardinality(Owners(f)) # 0
  BY Zenon, <1>2, FS_CardinalityType, FS_EmptySet
<1>4. framedb[f].refcount = Cardinality(Owners(f)) + leaked[f] /\ leaked[f] \in Nat
  BY Zenon, <1>1, Types DEF DbInv, CountsOK
<1>5. framedb[f].refcount >= 1
  BY ZenonT(30), <1>3, <1>4, CountDrops
<1>6. framedb[f].refcount \in Nat /\ written = {}
  BY Zenon, <1>1, Types DEF DbInv, FrameRec, StageOK
<1> QED BY Zenon, <1>1, <1>5, <1>6 DEF f

(* What refdrop and RsetAfterDrop leave, as SharedGone takes it. *)
LEMMA RefDropped ==
  ASSUME DbInv, stage = "paging", NEW p \in Page, Shared(p), NEW f, f = pte[p].frame,
         NEW s \in Pool, Conserved(s), s.db[f] = framedb[f],
         SetPool(refdrop(s, framedb[f].hash)), rset' = RsetAfterDrop(framedb[f].hash)
  PROVE  /\ framedb' \in [Frame -> FrameRec] /\ freestack' \in Seq(Frame)
         /\ rset' \in Seq(EntryRec) /\ Len(rset') <= RSET_MAX
         /\ Conserved(pool)' /\ DropsIn(s.db, f)
<1> DEFINE t == refdrop(s, framedb[f].hash)
<1>1. /\ f \in Frame /\ framedb[f].has_hash /\ framedb[f].refcount >= 1 /\ written = {}
      /\ framedb[f].refcount \in Nat
  BY Zenon, SharedRef
<1>2. /\ t \in Pool /\ Conserved(t)
      /\ framedb[f].refcount = 1 =>
           /\ t.db = [s.db EXCEPT ![f] = FreeRec]
           /\ \E k \in DOMAIN rset : /\ rset[k].live /\ rset[k].frame = f
                                     /\ Loses(RsetAfterDrop(framedb[f].hash), k)
      /\ framedb[f].refcount # 1 =>
           /\ t.db = [s.db EXCEPT ![f] = [framedb[f] EXCEPT !.refcount = framedb[f].refcount - 1]]
           /\ RsetAfterDrop(framedb[f].hash) = rset
  BY SMTT(30), <1>1, DropRef
<1> HIDE DEF t
<1>3. pool' = t /\ framedb' = t.db /\ freestack' = t.free
  BY Zenon, <1>2, PoolPrime DEF t
<1>4. framedb' \in [Frame -> FrameRec] /\ freestack' \in Seq(Frame) /\ Conserved(pool)'
  <2>1. framedb' \in [Frame -> FrameRec] /\ freestack' \in Seq(Frame)
    BY Zenon, <1>2, <1>3 DEF Pool
  <2>2. Conserved(pool)'
    BY Zenon, <1>2, <1>3, ConservedPrime
  <2> QED BY Zenon, <2>1, <2>2
<1>5. CASE framedb[f].refcount = 1
  <2>1. PICK k \in DOMAIN rset : rset[k].live /\ rset[k].frame = f /\ Loses(rset', k)
    BY Zenon, <1>2, <1>5
  <2>2. rset' \in Seq(EntryRec) /\ Len(rset') <= RSET_MAX
    BY Zenon, <2>1, Types DEF Loses, DbInv
  <2> QED BY Zenon, <1>2, <1>3, <1>4, <1>5, <2>1, <2>2 DEF DropsIn
<1>6. CASE framedb[f].refcount # 1
  <2>1. rset' = rset
    BY Zenon, <1>2, <1>6
  <2> QED BY Zenon, <1>2, <1>3, <1>4, <1>6, <2>1, Types DEF DropsIn, DbInv
<1> QED BY Zenon, <1>5, <1>6

LEMMA UnmapSharedDb ==
  ASSUME DbInv, stage = "paging", NEW p \in Page, NEW drop \in BOOLEAN, UnmapShared(p, drop), stage' = stage
  PROVE  DbInv' /\ DropsIn(framedb, pte[p].frame)
<1> DEFINE f == pte[p].frame
<1>1. /\ Shared(p) /\ pte' = [pte EXCEPT ![p] = NotPresent]
      /\ val' = [val EXCEPT ![p] = IF InA(p) THEN @ ELSE None]
      /\ UNCHANGED <<clock_hand, mem, store, pf_bindA, pf_anon, written, leaked>>
  BY Zenon DEF UnmapShared
<1>2. /\ framedb \in [Frame -> FrameRec] /\ pool \in Pool /\ pool.db = framedb
      /\ pool.free = freestack /\ Conserved(pool) /\ pte \in [Page -> PteRec]
      /\ rset \in Seq(EntryRec) /\ Len(rset) <= RSET_MAX /\ freestack \in Seq(Frame)
  BY Zenon, Types DEF DbInv
<1>3. /\ f \in Frame /\ framedb[f].has_hash /\ framedb[f].refcount >= 1 /\ framedb[f].refcount \in Nat
      /\ framedb[f].state = "RESIDENT"
  BY Zenon, <1>1, SharedRef
<1> HIDE DEF f
<1>4. /\ framedb' \in [Frame -> FrameRec] /\ freestack' \in Seq(Frame)
      /\ rset' \in Seq(EntryRec) /\ Len(rset') <= RSET_MAX
      /\ Conserved(pool)' /\ DropsIn(framedb, f)
  <2>1. CASE drop
    <3>1. SetPool(refdrop(pool, framedb[f].hash)) /\ rset' = RsetAfterDrop(framedb[f].hash)
      BY Zenon, <2>1 DEF UnmapShared, f
    <3> QED BY Zenon, <1>1, <1>2, <1>3, <3>1, RefDropped DEF f
  <2>2. CASE ~drop
    <3> DEFINE a == [framedb[f] EXCEPT !.refcount = framedb[f].refcount - 1]
    <3>1. /\ framedb' = [framedb EXCEPT ![f].refcount = IF @ > 0 THEN @ - 1 ELSE 0]
          /\ freestack' = freestack /\ rset' = rset
      BY Zenon, <2>2 DEF UnmapShared, f
    <3>2. framedb' = [framedb EXCEPT ![f] = a]
      <4>1. (IF framedb[f].refcount > 0 THEN framedb[f].refcount - 1 ELSE 0) = framedb[f].refcount - 1
        BY <1>3
      <4>2. framedb' = [framedb EXCEPT ![f] = [framedb[f] EXCEPT !.refcount =
                          IF framedb[f].refcount > 0 THEN framedb[f].refcount - 1 ELSE 0]]
        BY Zenon, <3>1
      <4> QED BY Zenon, <4>1, <4>2
    <3>3. a \in FrameRec /\ a.state = "RESIDENT"
      <4>1. framedb[f] \in FrameRec /\ framedb[f].refcount - 1 \in Nat
        BY SMTT(30), <1>2, <1>3
      <4> QED BY Zenon, <1>3, <4>1 DEF FrameRec
    <3>4. DropsIn(framedb, f)
      BY Zenon, <3>1, <3>2 DEF DropsIn
    <3> HIDE DEF a
    <3>5. framedb' \in [Frame -> FrameRec]
      BY Zenon, <1>2, <1>3, <3>2, <3>3
    <3>6. Conserved(pool)'
      <4>1. pool' = [db |-> framedb', free |-> pool.free]
        BY Zenon, <1>2, <3>1 DEF pool
      <4>2. \A g \in Frame : framedb'[g] = pool.db[g] \/ (pool.db[g].state = "RESIDENT" /\ framedb'[g].state = "RESIDENT")
        BY Zenon, <1>2, <1>3, <3>2, <3>3
      <4>3. Conserved([db |-> framedb', free |-> pool.free])
        BY Zenon, <1>2, <3>5, <4>2, RecordConserves
      <4> QED BY Zenon, <4>1, <4>3 DEF Conserved
    <3> QED BY Zenon, <1>2, <3>1, <3>4, <3>5, <3>6
  <2> QED BY Zenon, <2>1, <2>2
<1>5. NotPresent \in PteRec /\ NotPresent.tag # "map"
  BY Zenon DEF NotPresent, PteRec
<1>6. TypeOK'
  <2>1. pte' \in [Page -> PteRec] /\ val' \in [Page -> Content \cup {None}]
    BY Zenon, <1>1, <1>2, <1>5 DEF DbInv, TypeOK
  <2> QED BY Zenon, <1>1, <1>4, <2>1 DEF DbInv, TypeOK, FrameRec, PteRec, EntryRec
<1>7. FreshFor(framedb, NotPresent)
  BY Zenon, <1>5 DEF FreshFor
<1>8. DbInv'
  BY Zenon, <1>1, <1>2, <1>4, <1>6, <1>7, SharedGone DEF f
<1> QED BY Zenon, <1>4, <1>8 DEF f

LEMMA CopyOnWriteDb ==
  ASSUME DbInv, stage = "paging", NEW p \in Page, NEW c \in Content, CopyOnWrite(p, c), stage' = stage
  PROVE  DbInv' /\ DropsIn(frame_reserve(pool).db, pte[p].frame)
<1> DEFINE f == pte[p].frame
           n == Reserved(pool)
           s == frame_reserve(pool)
           e == Mapping(n, TRUE)
<1>1. /\ Shared(p) /\ CanReserve(pool) /\ pte' = [pte EXCEPT ![p] = e]
      /\ SetPool(refdrop(s, framedb[f].hash)) /\ rset' = RsetAfterDrop(framedb[f].hash)
      /\ mem' = [mem EXCEPT ![n] = c] /\ val' = [val EXCEPT ![p] = c]
      /\ UNCHANGED <<clock_hand, store, pf_bindA, pf_anon, written, leaked>>
  BY Zenon DEF CopyOnWrite
<1>2. framedb \in [Frame -> FrameRec] /\ pte \in [Page -> PteRec]
  BY Zenon, Types DEF DbInv
<1>3. f \in Frame /\ framedb[f].state = "RESIDENT"
  BY Zenon, <1>1, SharedRef
<1>4. /\ n \in Frame /\ framedb[n] = FreeRec /\ s \in Pool /\ Conserved(s)
      /\ s.db = [framedb EXCEPT ![n] = FreshRec] /\ FreshRec \in FrameRec
  BY Zenon, <1>1, Fresh
<1>5. e \in PteRec /\ e.tag = "map" /\ e.frame = n /\ e.rw
  BY Zenon, <1>4, MappingType
<1> HIDE DEF f, n, s, e
<1>6. f # n /\ s.db[f] = framedb[f] /\ s.db[n] = FreshRec /\ s.db \in [Frame -> FrameRec]
      /\ \A g \in Frame : g # n => s.db[g] = framedb[g]
  <2>1. FreeRec.state = "FREE"
    BY Zenon DEF FreeRec
  <2>2. f # n
    BY Zenon, <1>3, <1>4, <2>1
  <2> QED BY Zenon, <1>2, <1>3, <1>4, <2>2
<1>7. /\ framedb' \in [Frame -> FrameRec] /\ freestack' \in Seq(Frame)
      /\ rset' \in Seq(EntryRec) /\ Len(rset') <= RSET_MAX
      /\ Conserved(pool)' /\ DropsIn(s.db, f)
  BY Zenon, <1>1, <1>4, <1>6, RefDropped DEF f
<1>8. TypeOK'
  <2>1. /\ pte' \in [Page -> PteRec] /\ val' \in [Page -> Content \cup {None}]
        /\ mem' \in [Frame -> Content]
    BY Zenon, <1>1, <1>2, <1>4, <1>5 DEF DbInv, TypeOK
  <2> QED BY Zenon, <1>1, <1>7, <2>1 DEF DbInv, TypeOK, FrameRec, PteRec, EntryRec
<1>9. FreshFor(s.db, e)
  BY Zenon, <1>4, <1>5, <1>6 DEF FreshFor
<1>10. DbInv'
  BY Zenon, <1>1, <1>6, <1>7, <1>8, <1>9, SharedGone DEF f
<1> QED BY Zenon, <1>7, <1>10 DEF f, s

-----------------------------------------------------------------------------
(* The in-place stage and eviction keep DbInv. *)
LEMMA CachedDb ==
  ASSUME DbInv, Cardinality(Content) <= RSET_MAX, stage = "m3", NEW h \in Hashes, NEW c \in Content,
         ColdTouch(h) \/ M3Write(h, c), stage' = stage
  PROVE  DbInv'
<1>1. /\ framedb \in [Frame -> FrameRec] /\ pool \in Pool /\ pool.db = framedb /\ pool.free = freestack
      /\ rset \in Seq(EntryRec) /\ Len(rset) <= RSET_MAX /\ freestack \in Seq(Frame)
      /\ store \in [Hashes -> Content \cup {None}] /\ mem \in [Frame -> Content]
  BY Zenon, Types DEF DbInv, TypeOK
<1>2. CASE ColdTouch(h) /\ Resident(h)
  <2> DEFINE f == rset[rset_find(h)].frame
  <2>1. /\ framedb' = [framedb EXCEPT ![f].clock_ref = TRUE]
        /\ UNCHANGED <<freestack, rset, mem, clock_hand, store, pte, pf_bindA, pf_anon, val, written, leaked>>
    BY Zenon, <1>2 DEF ColdTouch
  <2>2. f \in Frame /\ framedb[f].has_hash
    BY Zenon, <1>2, FindResident DEF DbInv, Listed
  <2>3. framedb[f].state = "RESIDENT" /\ framedb[f] \in FrameRec
    BY Zenon, <1>1, <2>2, HashedInUse DEF DbInv
  <2> HIDE DEF f
  <2> DEFINE a == [framedb[f] EXCEPT !.clock_ref = TRUE]
  <2>4. /\ a \in FrameRec /\ a.state = "RESIDENT" /\ a.has_hash /\ a.hash = framedb[f].hash
        /\ a.refcount = framedb[f].refcount /\ (a.dirty <=> framedb[f].dirty)
    BY Zenon, <2>2, <2>3 DEF FrameRec
  <2>5. framedb' = [framedb EXCEPT ![f] = a]
    BY <2>1
  <2> HIDE DEF a
  <2>6. framedb' \in [Frame -> FrameRec] /\ framedb'[f] = a /\ \A g \in Frame : g # f => framedb'[g] = framedb[g]
    BY Zenon, <1>1, <2>2, <2>4, <2>5
  <2>7. TypeOK'
    BY Zenon, <2>1, <2>6 DEF DbInv, TypeOK, FrameRec
  <2> QED BY Zenon, <2>1, <2>2, <2>3, <2>4, <2>6, <2>7, Touched
<1>3. ASSUME NEW r \in FrameRec, r.state = "RESIDENT", r.has_hash, r.refcount = 0,
             ~Resident(h), CanReserve(pool), NEW f, f = Reserved(pool),
             SetPool([frame_reserve(pool) EXCEPT !.db[f] = r]), rset' = rset_add(h, f),
             written' = {} => written = {} /\ r.hash = h /\ ~r.dirty,
             NEW b \in Content, mem' = [mem EXCEPT ![f] = b],
             store' \in [Hashes -> Content \cup {None}], written' \subseteq Content,
             UNCHANGED <<clock_hand, pte, pf_bindA, pf_anon, val, leaked>>
      PROVE  DbInv'
  <2>1. /\ f \in Frame /\ framedb[f] = FreeRec
        /\ framedb' = [framedb EXCEPT ![f] = r]
        /\ framedb' \in [Frame -> FrameRec] /\ freestack' \in Seq(Frame)
        /\ rset' \in Seq(EntryRec) /\ Len(rset') <= RSET_MAX
        /\ Conserved(pool)' /\ Listed'
    BY <1>3, Enters
  <2>2. TypeOK'
    <3>1. mem' \in [Frame -> Content]
      BY Zenon, <1>1, <1>3, <2>1
    <3> QED BY Zenon, <1>3, <2>1, <3>1 DEF DbInv, TypeOK, FrameRec, EntryRec
  <2>3. framedb'[f] = r /\ \A g \in Frame : g # f => framedb'[g] = framedb[g]
    BY Zenon, <1>1, <2>1
  <2>4. \A q \in Page : pte'[q] = NotPresent
    BY Zenon, <1>3 DEF DbInv, StageOK
  <2>5. MapsOK'
    <3>1. NotPresent.tag # "map"
      BY Zenon DEF NotPresent
    <3>2. \A q \in Page : ~Mapped(q)'
      BY Zenon, <2>4, <3>1 DEF Mapped
    <3> QED BY Zenon, <3>2 DEF MapsOK
  <2>6. CountsOK'
    <3> SUFFICES ASSUME NEW x \in Frame
                 PROVE  IF framedb'[x].has_hash THEN framedb'[x].refcount = Cardinality(Owners(x)') + leaked'[x]
                        ELSE leaked'[x] = 0
      BY Zenon DEF CountsOK
    <3>1. Owners(x)' = Owners(x) /\ leaked' = leaked
      BY Zenon, <1>3, OwnersSame
    <3>2. CASE x = f
      <4>1. Cardinality(Owners(f)) = 0 /\ leaked[f] = 0
        BY Zenon, <2>1, FreeUnowned
      <4>2. framedb'[x].has_hash /\ framedb'[x].refcount = 0
        BY Zenon, <1>3, <2>3, <3>2
      <4> QED BY SMTT(30), <3>1, <3>2, <4>1, <4>2
    <3>3. CASE x # f
      BY Zenon, <2>3, <3>1, <3>3 DEF CountsOK, DbInv
    <3> QED BY Zenon, <3>2, <3>3
  <2>7. StageOK'
    BY <1>3, <2>3, <2>4 DEF StageOK, DbInv
  <2> QED BY Zenon, <2>1, <2>2, <2>5, <2>6, <2>7 DEF DbInv
<1>4. CASE ColdTouch(h) /\ ~Resident(h)
  <2> DEFINE f == Reserved(pool)
             r == [FreshRec EXCEPT !.has_hash = TRUE, !.hash = h, !.refcount = 0]
  <2>1. /\ InStore(h) /\ CanReserve(pool) /\ SetPool([frame_reserve(pool) EXCEPT !.db[f] = r])
        /\ rset' = rset_add(h, f) /\ mem' = [mem EXCEPT ![f] = store[h]]
        /\ UNCHANGED <<clock_hand, store, pte, pf_bindA, pf_anon, val, written, leaked>>
    BY Zenon, <1>4 DEF ColdTouch
  <2>2. /\ r \in FrameRec /\ r.state = "RESIDENT" /\ r.has_hash /\ r.refcount = 0
        /\ r.hash = h /\ ~r.dirty
    BY Zenon DEF FreshRec, FreeRec, FrameRec
  <2>3. store[h] \in Content /\ written \subseteq Content
    BY <1>1, <2>1 DEF InStore, DbInv, TypeOK
  <2> HIDE DEF r, f
  <2> QED BY Zenon, <1>1, <1>3, <1>4, <2>1, <2>2, <2>3 DEF f
<1>5. CASE M3Write(h, c)
  <2> DEFINE f == Reserved(pool)
             R(g) == [FreshRec EXCEPT !.has_hash = TRUE, !.hash = g, !.dirty = TRUE,
                                      !.refcount = 0, !.clock_ref = FALSE]
  <2>1. /\ ~Resident(h) /\ CanReserve(pool) /\ rset' = rset_add(h, f) /\ mem' = [mem EXCEPT ![f] = c]
        /\ store' = Put(c) /\ written' = written \cup {c}
        /\ UNCHANGED <<clock_hand, pte, pf_bindA, pf_anon, val, leaked>>
    BY Zenon, <1>5 DEF M3Write
  <2>2. PICK g \in PutYields(c) : SetPool([frame_reserve(pool) EXCEPT !.db[f] = R(g)])
    BY Zenon, <1>5 DEF M3Write
  <2>3. g \in Hashes \cup {NoHash} /\ store' \in [Hashes -> Content \cup {None}]
    BY Zenon, <2>1, <2>2, PutTypes DEF DbInv
  <2>4. /\ R(g) \in FrameRec /\ R(g).state = "RESIDENT" /\ R(g).has_hash /\ R(g).refcount = 0
    BY Zenon, <2>3 DEF FreshRec, FreeRec, FrameRec
  <2>5. written' \subseteq Content /\ written' # {}
    BY Zenon, <2>1 DEF DbInv, TypeOK
  <2> HIDE DEF R, f
  <2> QED BY Zenon, <1>3, <2>1, <2>2, <2>3, <2>4, <2>5 DEF f
<1> QED BY Zenon, <1>2, <1>4, <1>5

LEMMA SlotIn ==
  ASSUME TypeOK, rset # <<>>, NEW k \in Nat
  PROVE  Slot(k) \in DOMAIN rset /\ (clock_hand + k) % Len(rset) \in Nat
<1>1. /\ clock_hand \in Nat /\ Len(rset) \in Nat /\ DOMAIN rset = 1..Len(rset) /\ Len(rset) > 0
  <2>1. clock_hand \in Nat /\ rset \in Seq(EntryRec)
    BY Zenon, Types DEF TypeOK
  <2> QED BY Zenon, <2>1, NonEmpty
<1> DEFINE a == clock_hand + k
           n == Len(rset)
<1>2. a \in Nat /\ n \in Nat /\ n > 0
  BY <1>1
<1> HIDE DEF a, n
<1>3. a % n \in 0..(n - 1)
  BY <1>2
<1>4. a % n \in Nat /\ (a % n) + 1 \in 1..n
  BY <1>2, <1>3
<1> QED BY Zenon, <1>1, <1>4 DEF a, n, Slot

(* The visits of the clock clear reference bits of frames in use. *)
LEMMA ClearedOnly ==
  ASSUME DbInv, rset # <<>>, NEW n \in Nat
  PROVE  /\ Cleared(n) \in [Frame -> FrameRec]
         /\ \A g \in Frame : Cleared(n)[g] = framedb[g] \/
              /\ framedb[g].state = "RESIDENT"
              /\ Cleared(n)[g] = [framedb[g] EXCEPT !.clock_ref = FALSE]
<1> DEFINE passed == {rset[Slot(k)].frame : k \in {j \in 0..(n-1) : rset[Slot(j)].live}}
<1>1. \A g \in Frame : Cleared(n)[g] = IF g \in passed THEN [framedb[g] EXCEPT !.clock_ref = FALSE]
                                      ELSE framedb[g]
  BY Zenon DEF Cleared
<1>2. \A g \in Frame : g \in passed => framedb[g].state = "RESIDENT"
  <2> SUFFICES ASSUME NEW g \in Frame, g \in passed
               PROVE  framedb[g].state = "RESIDENT"
    BY Zenon
  <2>1. PICK k \in 0..(n-1) : rset[Slot(k)].live /\ g = rset[Slot(k)].frame
    BY Zenon
  <2>2. Slot(k) \in DOMAIN rset
    BY SlotIn DEF DbInv
  <2>3. framedb[g].has_hash
    BY Zenon, <2>1, <2>2 DEF DbInv, Listed
  <2> QED BY Zenon, <2>3, HashedInUse DEF DbInv
<1> HIDE DEF passed
<1>3. \A g \in Frame : framedb[g] \in FrameRec /\ [framedb[g] EXCEPT !.clock_ref = FALSE] \in FrameRec
  BY ZenonT(30), Types DEF DbInv, FrameRec
<1>4. Cleared(n) = [g \in Frame |-> Cleared(n)[g]]
  BY Zenon DEF Cleared
<1>5. Cleared(n) \in [Frame -> FrameRec]
  BY Zenon, <1>1, <1>3, <1>4
<1> QED BY Zenon, <1>1, <1>2, <1>5

(* db is the frame database but for reference bits, the dirty bits it clears, and the
   hash of f. *)
Rewrites(db, f) ==
  \A g \in Frame : db[g] = framedb[g] \/
    /\ framedb[g].state = "RESIDENT" /\ db[g].state = "RESIDENT"
    /\ db[g].has_hash <=> framedb[g].has_hash
    /\ db[g].refcount = framedb[g].refcount
    /\ db[g].dirty => framedb[g].dirty
    /\ g # f \/ ~framedb[f].dirty => db[g].hash = framedb[g].hash

LEMMA ClearedRewrites ==
  ASSUME DbInv, rset # <<>>, NEW n \in Nat, NEW f
  PROVE  Rewrites(Cleared(n), f)
<1>1. /\ framedb \in [Frame -> FrameRec]
      /\ \A g \in Frame : Cleared(n)[g] = framedb[g] \/
              /\ framedb[g].state = "RESIDENT"
              /\ Cleared(n)[g] = [framedb[g] EXCEPT !.clock_ref = FALSE]
  BY Zenon, Types, ClearedOnly DEF DbInv
<1>2. ASSUME NEW g \in Frame, framedb[g].state = "RESIDENT",
             NEW a, a = [framedb[g] EXCEPT !.clock_ref = FALSE]
      PROVE  /\ a.state = "RESIDENT" /\ (a.has_hash <=> framedb[g].has_hash)
             /\ a.refcount = framedb[g].refcount /\ a.dirty = framedb[g].dirty
             /\ a.hash = framedb[g].hash
  <2>1. framedb[g] \in FrameRec
    BY Zenon, <1>1
  <2> QED BY Zenon, <1>2, <2>1 DEF FrameRec
<1> QED BY ZenonT(30), <1>1, <1>2 DEF Rewrites

(* A frame that has a hash after the step had it before. *)
HashesKept ==
  \A g \in Frame : framedb'[g].has_hash => framedb[g].has_hash /\ framedb'[g].hash = framedb[g].hash

LEMMA ReclaimDb ==
  ASSUME DbInv, rset # <<>>, NEW k \in Nat, Victim(k), NEW f, f = rset[Slot(k)].frame,
         NEW db \in [Frame -> FrameRec], Rewrites(db, f), Reclaim(k, db),
         UNCHANGED <<stage, mem, pte, pf_bindA, pf_anon, val, written, leaked>>,
         clock_hand' \in Nat, store' \in [Hashes -> Content \cup {None}]
  PROVE  DbInv' /\ HashesKept
<1>1. /\ Slot(k) \in DOMAIN rset /\ rset[Slot(k)].live /\ f \in Frame
      /\ framedb[f].has_hash /\ framedb[f].refcount = 0
  BY Zenon, SlotIn, Entries DEF DbInv, Listed, Victim, Rec
<1>2. framedb[f].state = "RESIDENT"
  BY Zenon, <1>1, HashedInUse DEF DbInv
<1>3. /\ pool \in Pool /\ pool.db = framedb /\ pool.free = freestack /\ Conserved(pool)
      /\ leaked[f] \in Nat
  BY Zenon, <1>1, Types DEF DbInv
<1> DEFINE s == [db |-> db, free |-> pool.free]
           t == frame_release_physical(s, f)
<1>4. s \in Pool /\ Conserved(s)
  <2>1. \A g \in Frame : db[g] = pool.db[g] \/ (pool.db[g].state = "RESIDENT" /\ db[g].state = "RESIDENT")
    BY Zenon, <1>3 DEF Rewrites
  <2> QED BY Zenon, <1>3, <2>1, RecordConserves
<1>5. s.db = db /\ db[f].state = "RESIDENT"
  BY Zenon, <1>1, <1>2 DEF Rewrites
<1>6. SetPool(t) /\ rset' = [rset EXCEPT ![Slot(k)].live = FALSE]
  BY <1>3 DEF Reclaim
<1> HIDE DEF s
<1>7. t \in Pool /\ Conserved(t) /\ t.db = [db EXCEPT ![f] = FreeRec]
  BY Zenon, <1>1, <1>4, <1>5, ReleaseConserves
<1> HIDE DEF t
<1>8. pool' = t /\ framedb' = [db EXCEPT ![f] = FreeRec] /\ freestack' = t.free
  BY Zenon, <1>6, <1>7, PoolPrime
<1>9. framedb' \in [Frame -> FrameRec] /\ freestack' \in Seq(Frame) /\ Conserved(pool)'
  BY Zenon, <1>7, <1>8, PoolPrime, <1>6 DEF Pool, Conserved
<1>10. Loses(rset', Slot(k))
  BY Zenon, <1>1, <1>6, DropLoses DEF DbInv
<1>11. TypeOK'
  <2>1. rset' \in Seq(EntryRec) /\ Len(rset') <= RSET_MAX
    BY Zenon, <1>10, Types DEF Loses, DbInv
  <2> QED BY Zenon, <1>9, <2>1 DEF DbInv, TypeOK, FrameRec, EntryRec
<1>12. /\ framedb'[f] = FreeRec /\ ~framedb'[f].has_hash /\ ~framedb'[f].dirty
       /\ \A g \in Frame : g # f => framedb'[g] = db[g]
  BY Zenon, <1>1, <1>8 DEF FreeRec
<1>13. \A g \in Frame : g # f =>
         /\ framedb'[g].has_hash <=> framedb[g].has_hash
         /\ framedb'[g].hash = framedb[g].hash /\ framedb'[g].refcount = framedb[g].refcount
         /\ framedb'[g].state = framedb[g].state /\ (framedb'[g].dirty => framedb[g].dirty)
  BY ZenonT(30), <1>12 DEF Rewrites
<1>14. Listed'
  BY ZenonT(30), <1>1, <1>10, <1>12, <1>13, ListedLoses DEF DbInv
<1>15. Cardinality(Owners(f)) = 0 /\ leaked[f] = 0 /\ \A q \in Page : Mapped(q) => pte[q].frame # f
  <2>1. IsFiniteSet(Owners(f))
    BY Zenon, ResidencyAssumption, FS_Subset DEF Owners
  <2>2. Cardinality(Owners(f)) \in Nat
    BY Zenon, <2>1, FS_CardinalityType
  <2>3. framedb[f].refcount = Cardinality(Owners(f)) + leaked[f]
    BY Zenon, <1>1 DEF DbInv, CountsOK
  <2>4. Cardinality(Owners(f)) = 0 /\ leaked[f] = 0
    BY Zenon, <1>1, <1>3, <2>2, <2>3, CountDrops
  <2>5. Owners(f) = {}
    BY Zenon, <2>1, <2>4, FS_EmptySet
  <2> QED BY Zenon, <2>4, <2>5 DEF Owners
<1>16. MapsOK'
  <2>1. \A q \in Page : (Mapped(q)' <=> Mapped(q)) /\ pte'[q] = pte[q]
    BY Zenon DEF Mapped
  <2> QED BY ZenonT(30), <1>13, <1>15, <2>1 DEF MapsOK, DbInv
<1>17. CountsOK'
  <2>1. \A x \in Frame : Owners(x)' = Owners(x)
    BY Zenon, OwnersSame
  <2> QED BY ZenonT(30), <1>12, <1>13, <1>15, <2>1 DEF CountsOK, DbInv
<1>18. StageOK'
  BY Zenon, <1>12, <1>13 DEF StageOK, DbInv
<1>19. HashesKept
  BY Zenon, <1>12, <1>13 DEF HashesKept
<1> QED BY Zenon, <1>9, <1>11, <1>14, <1>16, <1>17, <1>18, <1>19 DEF DbInv

LEMMA RewritesToo ==
  ASSUME NEW f \in Frame, NEW d, Rewrites(d, f), NEW db, \A g \in Frame : g # f => db[g] = d[g],
         framedb[f].state = "RESIDENT", framedb[f].dirty, db[f].state = "RESIDENT",
         db[f].has_hash <=> framedb[f].has_hash, db[f].refcount = framedb[f].refcount
  PROVE  Rewrites(db, f)
<1> SUFFICES ASSUME NEW g \in Frame
             PROVE  db[g] = framedb[g] \/
                      /\ framedb[g].state = "RESIDENT" /\ db[g].state = "RESIDENT"
                      /\ db[g].has_hash <=> framedb[g].has_hash
                      /\ db[g].refcount = framedb[g].refcount
                      /\ db[g].dirty => framedb[g].dirty
                      /\ g # f \/ ~framedb[f].dirty => db[g].hash = framedb[g].hash
  BY Zenon DEF Rewrites
<1>1. CASE g = f
  BY Zenon, <1>1
<1>2. CASE g # f
  <2>1. db[g] = d[g]
    BY Zenon, <1>2
  <2> QED BY Zenon, <1>2, <2>1 DEF Rewrites
<1> QED BY Zenon, <1>1, <1>2

(* The record of a victim after it was written back. *)
Marked(db, k, f, h) == db = [Cleared(k) EXCEPT ![f].hash = h, ![f].dirty = FALSE]

LEMMA WrittenBack ==
  ASSUME DbInv, rset # <<>>, NEW k \in Nat, Victim(k), Rec(k).dirty, NEW f, f = rset[Slot(k)].frame,
         NEW h \in Hashes \cup {NoHash},
         NEW db, Marked(db, k, f, h)
  PROVE  db \in [Frame -> FrameRec] /\ Rewrites(db, f) /\ framedb[f].dirty /\ f \in Frame
<1>1. /\ Slot(k) \in DOMAIN rset /\ rset[Slot(k)].live /\ f \in Frame
      /\ framedb[f].has_hash /\ framedb[f].dirty
  BY Zenon, SlotIn, Entries DEF DbInv, Listed, Victim, Rec
<1>2. framedb[f].state = "RESIDENT"
  BY Zenon, <1>1, HashedInUse DEF DbInv
<1>3. Cleared(k) \in [Frame -> FrameRec] /\ Rewrites(Cleared(k), f)
  BY Zenon, ClearedOnly, ClearedRewrites
<1> DEFINE d == Cleared(k)
           a == [d[f] EXCEPT !.hash = h]
           b == [a EXCEPT !.dirty = FALSE]
<1> HIDE DEF d
<1>4. d \in [Frame -> FrameRec] /\ Rewrites(d, f) /\ d[f] \in FrameRec
  BY Zenon, <1>1, <1>3 DEF d
<1>5. /\ d[f].state = "RESIDENT" /\ (d[f].has_hash <=> framedb[f].has_hash)
      /\ d[f].refcount = framedb[f].refcount
  BY Zenon, <1>1, <1>2, <1>4 DEF Rewrites
<1>6. /\ a \in FrameRec /\ a.state = d[f].state /\ (a.has_hash <=> d[f].has_hash) /\ a.refcount = d[f].refcount
  BY Zenon, <1>4 DEF FrameRec
<1>7. db = [[d EXCEPT ![f].hash = h] EXCEPT ![f].dirty = FALSE]
  BY Zenon DEF d, Marked
<1>8. db = [d EXCEPT ![f] = b]
  <2> DEFINE u == [d EXCEPT ![f].hash = h]
  <2>1. u[f] = a /\ u = [d EXCEPT ![f] = a]
    BY Zenon, <1>1, <1>4
  <2> HIDE DEF u, a
  <2>2. [u EXCEPT ![f].dirty = FALSE] = [u EXCEPT ![f] = b]
    BY Zenon, <2>1
  <2>3. [u EXCEPT ![f] = b] = [d EXCEPT ![f] = b]
    BY Zenon, <1>4, <2>1
  <2> QED BY Zenon, <1>7, <2>2, <2>3 DEF u
<1> HIDE DEF a
<1>9. /\ b \in FrameRec /\ b.state = a.state /\ (b.has_hash <=> a.has_hash) /\ b.refcount = a.refcount /\ ~b.dirty
  BY Zenon, <1>6 DEF FrameRec
<1> HIDE DEF b
<1>10. db \in [Frame -> FrameRec] /\ db[f] = b /\ \A g \in Frame : g # f => db[g] = d[g]
  <2> DEFINE v == [d EXCEPT ![f] = b]
  <2>1. v \in [Frame -> FrameRec] /\ v[f] = b /\ \A g \in Frame : g # f => v[g] = d[g]
    BY Zenon, <1>1, <1>4, <1>9
  <2> HIDE DEF v
  <2>2. db = v
    BY Zenon, <1>8 DEF v
  <2> QED BY Zenon, <2>1, <2>2
<1>11. Rewrites(db, f)
  <2>1. /\ b.state = "RESIDENT" /\ (b.has_hash <=> framedb[f].has_hash)
        /\ b.refcount = framedb[f].refcount
    BY Zenon, <1>5, <1>6, <1>9
  <2>2. /\ db[f].state = "RESIDENT" /\ (db[f].has_hash <=> framedb[f].has_hash)
        /\ db[f].refcount = framedb[f].refcount /\ \A g \in Frame : g # f => db[g] = d[g]
    BY Zenon, <1>10, <2>1
  <2> QED BY Zenon, <1>1, <1>2, <1>4, <2>2, RewritesToo
<1> QED BY Zenon, <1>1, <1>10, <1>11

LEMMA EvictDb ==
  ASSUME DbInv, evict_one, stage' = stage
  PROVE  DbInv' /\ (written = {} => HashesKept)
<1>1. rset # <<>> /\ framedb \in [Frame -> FrameRec] /\ Len(rset) \in Nat /\ clock_hand \in Nat
  <2>1. TypeOK
    BY Zenon DEF DbInv
  <2>2. framedb \in [Frame -> FrameRec] /\ Len(rset) \in Nat
    BY Zenon, <2>1, Types
  <2>3. clock_hand \in Nat
    BY Zenon, <2>1 DEF TypeOK
  <2> QED BY Zenon, <2>2, <2>3 DEF evict_one
<1>2. CASE EvictNothing
  <2> DEFINE n == 2 * Len(rset) + 2
  <2>1. /\ framedb' = Cleared(n) /\ clock_hand' = (clock_hand + 2 * Len(rset) + 2) % Len(rset)
        /\ UNCHANGED <<freestack, rset, mem, store, pte, pf_bindA, pf_anon, val, written, leaked>>
    BY Zenon, <1>2 DEF EvictNothing
  <2>2. n \in Nat /\ clock_hand + 2 * Len(rset) + 2 = clock_hand + n
    BY <1>1
  <2> HIDE DEF n
  <2>3. framedb' \in [Frame -> FrameRec] /\ Rewrites(framedb', None)
    BY Zenon, <1>1, <2>1, <2>2, ClearedOnly, ClearedRewrites
  <2>4. clock_hand' \in Nat
    BY Zenon, <1>1, <2>1, <2>2, SlotIn DEF DbInv
  <2>5. TypeOK'
    BY Zenon, <2>1, <2>3, <2>4 DEF DbInv, TypeOK, FrameRec
  <2>6. None \notin Frame
    BY ResidencyAssumption DEF Frame
  <2>7. HashesKept
    BY Zenon, <2>3, <2>6 DEF Rewrites, HashesKept
  <2>8. DbInv'
    BY Zenon, <2>1, <2>3, <2>5, <2>6, Touched DEF Rewrites
  <2> QED BY Zenon, <2>7, <2>8
<1>3. ASSUME NEW k \in Visits, EvictVictim(k)
      PROVE  DbInv' /\ (written = {} => HashesKept)
  <2> DEFINE f == rset[Slot(k)].frame
  <2>1. /\ Victim(k) /\ clock_hand' = (clock_hand + k + 1) % Len(rset)
        /\ UNCHANGED <<mem, pte, pf_bindA, pf_anon, val, written, leaked>>
    BY Zenon, <1>3 DEF EvictVictim
  <2>2. k \in Nat /\ k + 1 \in Nat /\ clock_hand + k + 1 = clock_hand + (k + 1)
    BY <1>1 DEF Visits
  <2>3. clock_hand' \in Nat
    BY Zenon, <1>1, <2>1, <2>2, SlotIn DEF DbInv
  <2>4. f \in Frame
    BY Zenon, <1>1, <2>2, SlotIn, Entries DEF DbInv
  <2>5. CASE ~Rec(k).dirty /\ Reclaim(k, Cleared(k)) /\ UNCHANGED store
    <3>1. Cleared(k) \in [Frame -> FrameRec] /\ Rewrites(Cleared(k), f)
      BY <1>1, <2>2, ClearedOnly, ClearedRewrites
    <3>2. store' \in [Hashes -> Content \cup {None}]
      BY Zenon, <2>5 DEF DbInv, TypeOK
    <3> QED BY Zenon, <1>1, <2>1, <2>2, <2>3, <2>5, <3>1, <3>2, ReclaimDb
  <2>6. ASSUME Rec(k).dirty, store' = Put(mem[f]), NEW h \in PutYields(mem[f]),
               NEW db, db = [Cleared(k) EXCEPT ![f].hash = h, ![f].dirty = FALSE],
               Reclaim(k, db) \/ (framedb' = db /\ UNCHANGED <<freestack, rset>>)
        PROVE  DbInv' /\ (written = {} => HashesKept)
    <3>1. mem[f] \in Content
      BY Zenon, <2>4 DEF DbInv, TypeOK
    <3>2. store' \in [Hashes -> Content \cup {None}] /\ h \in Hashes \cup {NoHash}
      BY Zenon, <2>6, <3>1, PutTypes DEF DbInv
    <3>3. db \in [Frame -> FrameRec] /\ Rewrites(db, f) /\ framedb[f].dirty
      BY Zenon, <1>1, <2>1, <2>2, <2>6, <3>2, WrittenBack DEF Marked
    <3>4. CASE Reclaim(k, db)
      BY Zenon, <1>1, <2>1, <2>2, <2>3, <3>2, <3>3, <3>4, ReclaimDb
    <3>5. CASE framedb' = db /\ UNCHANGED <<freestack, rset>>
      <4>1. TypeOK'
        BY Zenon, <2>1, <2>3, <3>2, <3>3, <3>5 DEF DbInv, TypeOK, FrameRec
      <4>2. written # {}
        BY Zenon, <2>4, <3>3 DEF DbInv, StageOK
      <4> QED BY Zenon, <2>1, <3>3, <3>5, <4>1, <4>2, Touched DEF Rewrites
    <3> QED BY Zenon, <2>6, <3>4, <3>5
  <2> QED BY Zenon, <1>3, <2>5, <2>6 DEF EvictVictim
<1> QED BY Zenon, <1>2, <1>3 DEF evict_one

-----------------------------------------------------------------------------
LEMMA InitDb ==
  ASSUME Init
  PROVE  DbInv
<1>1. FreeRec \in FrameRec /\ ~FreeRec.has_hash /\ FreeRec.state = "FREE" /\ ~FreeRec.dirty
      /\ FreeRec.hash = NoHash
  BY Zenon DEF FreeRec, FrameRec
<1>2. NotPresent \in PteRec /\ NotPresent.tag = "none"
  BY Zenon DEF NotPresent, PteRec
<1>3. /\ framedb = [f \in Frame |-> FreeRec] /\ freestack = [i \in 1..FRAMEDB_N |-> FRAMEDB_N - i]
      /\ rset = <<>> /\ clock_hand = 0 /\ pte = [p \in Page |-> NotPresent]
      /\ leaked = [f \in Frame |-> 0] /\ written = {}
  BY Zenon DEF Init, PoolInit
<1>4. FRAMEDB_N \in Nat
  BY ResidencyAssumption
<1>5. freestack \in Seq(Frame) /\ DOMAIN freestack = 1..FRAMEDB_N
  BY <1>3, <1>4 DEF Frame
<1>6. TypeOK
  <2>1. mem \in [Frame -> Content] /\ store \in [Hashes -> Content \cup {None}]
        /\ val \in [Page -> Content \cup {None}]
    BY Zenon, ResidencyAssumption DEF Init
  <2>2. pf_bindA = <<>> /\ pf_anon = {} /\ stage \in {"m3", "paging"}
    BY Zenon DEF Init
  <2>3. framedb \in [Frame -> FrameRec] /\ pte \in [Page -> PteRec] /\ leaked \in [Frame -> Nat]
    BY Zenon, <1>1, <1>2, <1>3
  <2>4. rset \in Seq([hash : Hashes, frame : Frame, live : BOOLEAN]) /\ Len(rset) <= RSET_MAX
    BY <1>3, ResidencyAssumption
  <2>5. /\ pf_bindA \in Seq([page : Page, hash : Hashes \cup {NoHash}])
        /\ Len(pf_bindA) <= PF_BIND_A_MAX
    BY <2>2, ResidencyAssumption
  <2> QED BY Zenon, <1>3, <1>5, <2>1, <2>2, <2>3, <2>4, <2>5 DEF TypeOK, FrameRec, PteRec
<1>7. Conserved(pool)
  <2>1. pool.db = framedb /\ pool.free = freestack
    BY Zenon DEF pool
  <2>2. \A i \in 1..FRAMEDB_N : freestack[i] = FRAMEDB_N - i
    BY Zenon, <1>3
  <2>3. \A i, j \in DOMAIN freestack : freestack[i] = freestack[j] => i = j
    BY <1>4, <1>5, <2>2
  <2>4. ASSUME NEW f \in Frame
        PROVE  \E i \in DOMAIN freestack : freestack[i] = f
    <3>1. FRAMEDB_N - f \in 1..FRAMEDB_N /\ FRAMEDB_N - (FRAMEDB_N - f) = f
      BY <1>4 DEF Frame
    <3> QED BY Zenon, <1>5, <2>2, <3>1
  <2> QED BY <1>1, <1>3, <2>1, <2>3, <2>4 DEF Conserved
<1>8. Listed
  BY <1>1, <1>3 DEF Listed
<1>9. MapsOK
  BY Zenon, <1>2, <1>3 DEF MapsOK, Mapped
<1>10. CountsOK
  BY Zenon, <1>1, <1>3 DEF CountsOK
<1>11. StageOK
  BY <1>1, <1>3 DEF StageOK
<1> QED BY Zenon, <1>6, <1>7, <1>8, <1>9, <1>10, <1>11 DEF DbInv

LEMMA NextDb ==
  ASSUME DbInv, Cardinality(Content) <= RSET_MAX, [Next]_vars
  PROVE  DbInv'
<1>1. CASE UNCHANGED vars
  <2>1. TypeOK'
    BY Zenon, <1>1 DEF vars, mgr, DbInv, TypeOK
  <2> QED BY Zenon, <1>1, <2>1, Quiet DEF vars, mgr
<1>2. CASE Next /\ evict_one
  BY <1>2, EvictDb DEF Next
<1>3. CASE Next /\ stage = "paging" /\ Paging
  <2>1. stage' = stage
    BY <1>3 DEF Next
  <2>2. CASE \E p \in Page, c \in Content : BindA(p, c) \/ ArmB(p, c) \/ Write(p, c) \/ CopyOnWrite(p, c)
    BY <1>3, <2>1, <2>2, QuietDb, CopyOnWriteDb
  <2>3. CASE \E p \in Page : pf_anon_add(p) \/ FaultAnon(p) \/ FaultBound(p) \/ PageOut(p) \/ Discard(p)
    BY Zenon, <1>3, <2>1, <2>3, QuietDb, FaultAnonDb, FaultBoundDb, DiscardDb
  <2>4. CASE \E p \in Page, drop \in BOOLEAN : UnmapShared(p, drop)
    BY <1>3, <2>1, <2>4, UnmapSharedDb
  <2>5. CASE \E h \in Hashes, c \in Content : Tamper(h, c)
    BY Zenon, <2>1, <2>5, QuietDb
  <2> QED BY Zenon, <1>3, <2>2, <2>3, <2>4, <2>5 DEF Paging
<1>4. CASE Next /\ stage = "m3" /\ InPlace
  <2>1. stage' = stage
    BY <1>4 DEF Next
  <2>2. CASE \E h \in Hashes, c \in Content : M3Write(h, c)
    BY <1>4, <2>1, <2>2, CachedDb
  <2>3. ASSUME NEW c \in Content, Publish(c) \/ ColdTouch(Hash(c))
        PROVE  DbInv'
    <3>1. Hash(c) \in Hashes
      BY DEF Hashes
    <3> QED BY Zenon, <1>4, <2>1, <2>3, <3>1, QuietDb, CachedDb
  <2> QED BY Zenon, <1>4, <2>2, <2>3 DEF InPlace
<1> QED BY Zenon, <1>1, <1>2, <1>3, <1>4 DEF Next

LEMMA DbInvExact ==
  ASSUME DbInv
  PROVE  FrameDbExact
<1>1. FramesConserved
  <2>1. pool.db = framedb /\ pool.free = freestack /\ freestack \in Seq(Frame)
    BY Zenon, Types DEF DbInv
  <2>2. \A f : f \in Range(freestack) <=> \E i \in DOMAIN freestack : freestack[i] = f
    BY Zenon DEF Range
  <2> QED BY Zenon, <2>1, <2>2 DEF DbInv, Conserved, FramesConserved
<1>2. Isolation
  <2> SUFFICES ASSUME NEW p \in Page, Mapped(p)
               PROVE  /\ framedb[pte[p].frame].state = "RESIDENT"
                      /\ Private(p) => /\ Owners(pte[p].frame) = {p}
                                       /\ \A i \in DOMAIN rset : Live(i) => rset[i].frame # pte[p].frame
    BY Zenon DEF Isolation, Private
  <2>1. /\ framedb[pte[p].frame].state = "RESIDENT"
        /\ pte[p].rw <=> ~framedb[pte[p].frame].has_hash
        /\ pte[p].rw => \A q \in Page : Mapped(q) /\ pte[q].frame = pte[p].frame => q = p
    BY Zenon DEF DbInv, MapsOK
  <2>2. Private(p) => Owners(pte[p].frame) = {p}
    BY Zenon, <2>1 DEF Private, Owners
  <2>3. Private(p) => \A i \in DOMAIN rset : Live(i) => rset[i].frame # pte[p].frame
    BY Zenon, <2>1 DEF Private, Live, DbInv, Listed
  <2> QED BY Zenon, <2>1, <2>2, <2>3
<1>3. SharedOnce
  <2> SUFFICES ASSUME written = {}, NEW f \in Frame, NEW g \in Frame, framedb[f].has_hash,
                      framedb[g].has_hash, framedb[f].hash = framedb[g].hash
               PROVE  f = g
    BY Zenon DEF SharedOnce
  <2>1. PICK i \in DOMAIN rset : rset[i].live /\ rset[i].frame = f
    BY Zenon DEF DbInv, Listed
  <2>2. PICK j \in DOMAIN rset : rset[j].live /\ rset[j].frame = g
    BY Zenon DEF DbInv, Listed
  <2>3. rset[i].hash = rset[j].hash
    BY Zenon, <2>1, <2>2 DEF DbInv, Listed
  <2> QED BY Zenon, <2>1, <2>2, <2>3 DEF DbInv, Listed
<1>4. RefcountIsMappings
  BY Zenon DEF DbInv, CountsOK, RefcountIsMappings
<1> QED BY <1>1, <1>2, <1>3, <1>4 DEF FrameDbExact

(* Whatever the order of faults, shares, copies on write, evictions and failed mappings,
   and whether or not the store has room, the frame database of the residency manager
   is exact (framedb_counts, frame_reserve, refdrop, evict_one): frames are conserved, no
   mapping outlives its frame, a content has one frame, and a refcount is the number of
   mappings.  The resident set must have an entry for every content in play, as the 64
   of RSET_MAX do in the stages of the code; a frame it drops is never found again. *)
THEOREM FrameDatabaseExact ==
  ASSUME Cardinality(Content) <= RSET_MAX
  PROVE  Spec => []FrameDbExact
<1>1. Init => DbInv
  BY Zenon, InitDb
<1>2. DbInv /\ [Next]_vars => DbInv'
  BY Zenon, NextDb
<1>3. DbInv => FrameDbExact
  BY Zenon, DbInvExact
<1> QED BY <1>1, <1>2, <1>3, PTL DEF Spec
=============================================================================
