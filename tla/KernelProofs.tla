---------------------------- MODULE KernelProofs ----------------------------
(* Proofs about two parts of the kernel, for every size of them.  ObjectStore: the index
   finds exactly the contents that were put.  Sched: a task finds its registers as it
   left them, for every number of tasks and rounds and wherever the timer strikes. *)
EXTENDS ObjectStore, Sched, WellFoundedInduction, TLAPS

(***************************************************************************)
(* ObjectStore: put and get keep to the abstract map.                      *)
(***************************************************************************)
(* Content addressing is inductive together with its typing: put relies on
   nothing else, because it only writes past arena_used. *)
IInv == TypeOK /\ Addressed /\ Deduplicated /\ ViewsStable

(* The append of put leaves every slice below arena_used as it was, and the
   slice it adds is the content. *)
LEMMA StoreSlices ==
  ASSUME TypeOK, NEW c \in Contents, Store(c), Len(c) <= ArenaCap - arena_used
  PROVE  /\ \A off, len \in Nat : off + len <= arena_used =>
              Slice(arena', off, len) = Slice(arena, off, len)
         /\ Slice(arena', arena_used, Len(c)) = c
         /\ arena' \in [1..ArenaCap -> Byte]
<1>1. c \in Seq(Byte) /\ Len(c) \in Nat /\ arena_used \in Nat /\ ArenaCap \in Nat
  BY StoreAssumption DEF TypeOK
<1>2. \A i \in 1..Len(c) : c[i] \in Byte
  BY <1>1
<1>3. arena' \in [1..ArenaCap -> Byte]
  BY <1>1, <1>2 DEF Store, TypeOK
<1>4. ASSUME NEW off \in Nat, NEW len \in Nat, off + len <= arena_used
      PROVE  Slice(arena', off, len) = Slice(arena, off, len)
  <2>1. \A i \in 1..len : arena'[off + i] = arena[off + i]
    BY <1>1, <1>4 DEF Store, TypeOK
  <2> QED BY Zenon, <2>1 DEF Slice
<1>5. Slice(arena', arena_used, Len(c)) = c
  <2>1. \A i \in 1..Len(c) : arena'[arena_used + i] = c[i]
    BY <1>1 DEF Store
  <2>2. c = [i \in 1..Len(c) |-> c[i]]
    BY <1>1
  <2> QED BY Zenon, <2>1, <2>2 DEF Slice
<1> QED BY Zenon, <1>3, <1>4, <1>5

(* The store starts empty, and well formed. *)
LEMMA InitIInv == Init => IInv
BY StoreAssumption DEF Init, IInv, TypeOK, Addressed, Deduplicated, ViewsStable, Entry

(* A put that appends keeps the invariant. *)
LEMMA PutNewIInv ==
  ASSUME IInv, NEW c \in Contents, cvsasx_store_put(c), PutNew(c)
  PROVE  IInv'
<1> DEFINE e == [hash |-> Hash(c), offset |-> arena_used, len |-> Len(c)]
<1>1. c \in Seq(Byte) /\ Len(c) \in Nat /\ ArenaCap \in Nat /\ arena_used \in Nat
  BY StoreAssumption DEF IInv, TypeOK
<1>2. /\ ~Found(Hash(c)) /\ Len(c) <= ArenaCap - arena_used
      /\ index' = Append(index, e) /\ arena_used' = arena_used + Len(c)
      /\ views' = views /\ put_calls' = put_calls + 1 /\ dedup_hits' = dedup_hits
  BY Zenon DEF PutNew, Room, Store, cvsasx_store_put
<1>3. /\ \A off, len \in Nat : off + len <= arena_used =>
              Slice(arena', off, len) = Slice(arena, off, len)
      /\ Slice(arena', arena_used, Len(c)) = c
      /\ arena' \in [1..ArenaCap -> Byte]
  <2>1. Store(c) BY DEF PutNew
  <2> QED BY Zenon, <1>2, <2>1, StoreSlices DEF IInv
<1>4. e \in Entry
  BY Zenon, <1>1 DEF Entry, Hashes
<1>5. index \in Seq(Entry) /\ index' \in Seq(Entry) /\ Len(index) \in Nat
  BY <1>2, <1>4 DEF IInv, TypeOK
<1>6. Len(index') = Len(index) + 1 /\ index'[Len(index) + 1] = e
      /\ \A i \in 1..Len(index) : index'[i] = index[i] /\ index[i] \in Entry
  BY <1>2, <1>4, <1>5
<1>7. TypeOK'
  BY <1>1, <1>2, <1>3, <1>5 DEF IInv, TypeOK
<1>8. Addressed'
  <2> SUFFICES ASSUME NEW i \in 1..Len(index')
               PROVE  /\ index'[i].offset + index'[i].len <= arena_used'
                      /\ \E d \in Contents :
                           /\ index'[i].hash = Hash(d) /\ index'[i].len = Len(d)
                           /\ Slice(arena', index'[i].offset, index'[i].len) = d
    BY Zenon DEF Addressed
  <2>1. CASE i = Len(index) + 1
    BY <1>1, <1>2, <1>3, <1>6, <2>1
  <2>2. CASE i \in 1..Len(index)
    <3>1. index'[i] = index[i] /\ index[i].offset \in Nat /\ index[i].len \in Nat
      BY Zenon, <1>6, <2>2 DEF Entry
    <3>2. /\ index[i].offset + index[i].len <= arena_used
          /\ \E d \in Contents :
               /\ index[i].hash = Hash(d) /\ index[i].len = Len(d)
               /\ Slice(arena, index[i].offset, index[i].len) = d
      BY Zenon, <2>2 DEF IInv, Addressed
    <3>3. index[i].offset + index[i].len <= arena_used'
      BY SMTT(30), <1>1, <1>2, <3>1, <3>2
    <3>4. Slice(arena', index[i].offset, index[i].len) = Slice(arena, index[i].offset, index[i].len)
      BY Zenon, <1>3, <3>1, <3>2
    <3> QED BY Zenon, <3>1, <3>2, <3>3, <3>4
  <2> QED BY <1>5, <1>6, <2>1, <2>2
<1>9. Deduplicated'
  <2> SUFFICES ASSUME NEW i \in 1..Len(index'), NEW j \in 1..Len(index'),
                      index'[i].hash = index'[j].hash
               PROVE  i = j
    BY Zenon DEF Deduplicated
  <2>1. \A k \in 1..Len(index) : index'[k].hash # Hash(c)
    BY Zenon, <1>2, <1>6 DEF Found
  <2>2. e.hash = Hash(c)
    BY Zenon
  <2>3. CASE i \in 1..Len(index) /\ j \in 1..Len(index)
    BY Zenon, <1>6, <2>3 DEF IInv, Deduplicated
  <2> QED BY <1>5, <1>6, <2>1, <2>2, <2>3
<1>10. ViewsStable'
  <2> SUFFICES ASSUME NEW v \in views
               PROVE  \E d \in Contents : /\ v.hash = Hash(d)
                                          /\ v.offset + v.len <= arena_used'
                                          /\ Slice(arena', v.offset, v.len) = d
    BY Zenon, <1>2 DEF ViewsStable
  <2>1. v.offset \in Nat /\ v.len \in Nat
    BY Zenon DEF IInv, TypeOK, Entry
  <2>2. PICK d \in Contents : /\ v.hash = Hash(d) /\ v.offset + v.len <= arena_used
                              /\ Slice(arena, v.offset, v.len) = d
    BY Zenon DEF IInv, ViewsStable
  <2>3. v.offset + v.len <= arena_used'
    BY <1>1, <1>2, <2>1, <2>2
  <2> QED BY Zenon, <1>3, <2>1, <2>2, <2>3
<1> QED BY Zenon, <1>7, <1>8, <1>9, <1>10 DEF IInv

(* find_entry returns an entry with the address, when there is one. *)
LEMMA FindEntry ==
  ASSUME IInv, NEW h, Found(h)
  PROVE  find_entry(h) \in 1..Len(index) /\ index[find_entry(h)].hash = h
<1>1. \E i \in 1..Len(index) : index[i].hash = h
  BY Zenon DEF Found
<1>2. \A i, j \in 1..Len(index) : index[i].hash = h /\ index[j].hash = h => i = j
  BY Zenon DEF IInv, Deduplicated
<1>3. \E i \in 1..Len(index) : index[i].hash = h /\ \A j \in 1..(i - 1) : index[j].hash # h
  BY <1>1, <1>2 DEF IInv, TypeOK
<1> QED BY Zenon, <1>3 DEF find_entry

(* Every step keeps the invariant. *)
LEMMA NextIInv == IInv /\ [Next]_vars => IInv'
<1> SUFFICES ASSUME IInv, [Next]_vars PROVE IInv'
  BY Zenon
<1> USE DEF IInv
<1>1. ASSUME NEW c \in Contents, cvsasx_store_put(c) PROVE IInv'
  <2>1. CASE PutNew(c)
    BY Zenon, <1>1, <2>1, PutNewIInv
  <2>2. CASE PutHit(c) \/ PutFull(c)
    <3>1. UNCHANGED <<arena, arena_used, index, views>> /\ put_calls' \in Nat /\ dedup_hits' \in Nat
      BY <1>1, <2>2 DEF PutHit, PutFull, cvsasx_store_put, TypeOK
    <3> QED BY Zenon, <3>1 DEF TypeOK, Addressed, Deduplicated, ViewsStable
  <2> QED BY Zenon, <1>1, <2>1, <2>2 DEF cvsasx_store_put
<1>2. ASSUME NEW h \in Hashes, cvsasx_store_get(h) PROVE IInv'
  <2>1. UNCHANGED <<arena, arena_used, index, put_calls, dedup_hits>>
    BY Zenon, <1>2 DEF cvsasx_store_get
  <2>2. CASE UNCHANGED views
    BY Zenon, <2>1, <2>2 DEF TypeOK, Addressed, Deduplicated, ViewsStable
  <2>3. CASE Found(h) /\ views' # views
    <3> DEFINE k == find_entry(h)
    <3>1. k \in 1..Len(index) /\ index[k].hash = h
      BY Zenon, <2>3, FindEntry
    <3>2. views' = views \cup {[hash |-> h, offset |-> index[k].offset, len |-> index[k].len]}
      BY Zenon, <1>2, <2>3 DEF cvsasx_store_get
    <3>3. index[k] \in Entry
      BY <3>1 DEF TypeOK
    <3>4. views' \subseteq Entry
      BY <1>2, <3>2, <3>3 DEF TypeOK, Entry
    <3>5. PICK d \in Contents : /\ index[k].hash = Hash(d)
                                /\ Slice(arena, index[k].offset, index[k].len) = d
      BY Zenon, <3>1 DEF Addressed
    <3>6. index[k].offset + index[k].len <= arena_used
      BY Zenon, <3>1 DEF Addressed
    <3>7. ViewsStable'
      BY <2>1, <3>1, <3>2, <3>5, <3>6 DEF ViewsStable
    <3> QED BY Zenon, <2>1, <3>4, <3>7 DEF TypeOK, Addressed, Deduplicated
  <2> QED BY Zenon, <1>2, <2>2, <2>3 DEF cvsasx_store_get
<1>3. ASSUME NEW h \in Hashes, cvsasx_store_exists(h) PROVE IInv'
  BY Zenon, <1>3 DEF cvsasx_store_exists, TypeOK, Addressed, Deduplicated, ViewsStable
<1>4. CASE cvsasx_store_init
  BY <1>4, StoreAssumption
     DEF cvsasx_store_init, Fresh, TypeOK, Addressed, Deduplicated, ViewsStable, Entry
<1>5. CASE UNCHANGED vars
  BY Zenon, <1>5 DEF vars, TypeOK, Addressed, Deduplicated, ViewsStable
<1> QED BY Zenon, <1>1, <1>2, <1>3, <1>4, <1>5 DEF Next

(* Content addressing, for every store: in every reachable state each entry
   denotes, inside the used arena, a content with the entry's address; there is
   one entry per address; and the aliases that get handed out (arena + offset)
   still denote what they were asked for. *)
THEOREM StoreCorrect == Spec => [](TypeOK /\ Addressed /\ Deduplicated /\ ViewsStable)
<1>1. Init => IInv
  BY Zenon, InitIInv
<1>2. IInv /\ [Next]_vars => IInv'
  BY Zenon, NextIInv
<1> QED BY <1>1, <1>2, PTL DEF Spec, IInv

(* What the entries denote are contents, and a content is denoted exactly when
   find_entry finds its address: this is where collision freedom is needed. *)
LEMMA Denotes ==
  ASSUME IInv
  PROVE  /\ Denoted \subseteq Contents
         /\ \A c \in Contents : Found(Hash(c)) <=> c \in Denoted
<1>1. ASSUME NEW i \in 1..Len(index)
      PROVE  /\ Slice(arena, index[i].offset, index[i].len) \in Contents
             /\ index[i].hash = Hash(Slice(arena, index[i].offset, index[i].len))
  BY Zenon DEF IInv, Addressed
<1>2. Denoted \subseteq Contents
  BY Zenon, <1>1 DEF Denoted
<1>3. ASSUME NEW c \in Contents, Found(Hash(c)) PROVE c \in Denoted
  <2>1. PICK i \in 1..Len(index) : index[i].hash = Hash(c)
    BY Zenon, <1>3 DEF Found
  <2>2. Slice(arena, index[i].offset, index[i].len) = c
    BY Zenon, <1>1, <2>1, StoreAssumption
  <2> QED BY Zenon, <2>2 DEF Denoted
<1>4. ASSUME NEW c \in Contents, c \in Denoted PROVE Found(Hash(c))
  BY Zenon, <1>1, <1>4 DEF Denoted, Found
<1> QED BY Zenon, <1>2, <1>3, <1>4

(* Every step of the store is a step of the content map, or none. *)
LEMMA StoreStep == IInv /\ IInv' /\ [Next]_vars => [CM!Next]_<<Denoted, ret>>
<1> SUFFICES ASSUME IInv, IInv', [Next]_vars PROVE CM!Next \/ UNCHANGED <<Denoted, ret>>
  BY Zenon
<1>a. /\ Denoted \subseteq Contents
      /\ \A c \in Contents : Found(Hash(c)) <=> c \in Denoted
  BY Zenon, Denotes
<1>b. ASSUME UNCHANGED <<arena, index>> PROVE UNCHANGED Denoted
  BY Zenon, <1>b DEF Denoted
<1>1. ASSUME NEW c \in Contents, cvsasx_store_put(c) PROVE CM!Put(c)
  <2>1. CASE PutHit(c)
    <3>1. c \in Denoted /\ UNCHANGED Denoted
      BY Zenon, <1>a, <1>b, <2>1 DEF PutHit
    <3> QED BY Zenon, <2>1, <3>1 DEF PutHit, CM!Put, Reply, CM!Reply, NoBytes, CM!NoBytes
  <2>2. CASE PutNew(c)
    <3>0. c \in Seq(Byte) /\ Len(c) \in Nat
      BY StoreAssumption
    <3>1. /\ \A off, len \in Nat : off + len <= arena_used =>
                Slice(arena', off, len) = Slice(arena, off, len)
          /\ Slice(arena', arena_used, Len(c)) = c
      BY Zenon, <2>2, StoreSlices DEF IInv, PutNew, Room
    <3>2. /\ index \in Seq(Entry) /\ Len(index) \in Nat
          /\ index' = Append(index, [hash |-> Hash(c), offset |-> arena_used, len |-> Len(c)])
      BY <2>2 DEF IInv, TypeOK, PutNew, Store
    <3>3. /\ Len(index') = Len(index) + 1
          /\ index'[Len(index) + 1] = [hash |-> Hash(c), offset |-> arena_used, len |-> Len(c)]
          /\ \A i \in 1..Len(index) : index'[i] = index[i] /\ index[i] \in Entry
      BY <3>2
    <3>4. \A i \in 1..Len(index) :
            Slice(arena', index'[i].offset, index'[i].len) = Slice(arena, index[i].offset, index[i].len)
      <4> SUFFICES ASSUME NEW i \in 1..Len(index)
                   PROVE  Slice(arena', index'[i].offset, index'[i].len)
                            = Slice(arena, index[i].offset, index[i].len)
        BY Zenon
      <4>1. index[i].offset \in Nat /\ index[i].len \in Nat
            /\ index[i].offset + index[i].len <= arena_used
        BY Zenon, <3>3 DEF IInv, Addressed, Entry
      <4> QED BY Zenon, <3>1, <3>3, <4>1
    <3>5. 1..Len(index') = (1..Len(index)) \cup {Len(index) + 1}
      BY <3>2, <3>3
    <3>6. Slice(arena', index'[Len(index) + 1].offset, index'[Len(index) + 1].len) = c
      BY <3>1, <3>3
    <3>7. Denoted' = Denoted \cup {c}
      BY <3>4, <3>5, <3>6 DEF Denoted
    <3> QED BY Zenon, <2>2, <3>7 DEF PutNew, CM!Put, Reply, CM!Reply, NoBytes, CM!NoBytes
  <2>3. CASE PutFull(c)
    <3>1. c \notin Denoted /\ UNCHANGED Denoted
      BY Zenon, <1>a, <1>b, <2>3 DEF PutFull
    <3> QED BY Zenon, <2>3, <3>1 DEF PutFull, CM!Put, Reply, CM!Reply, NoBytes, CM!NoBytes, NoHash, CM!NoHash
  <2> QED BY Zenon, <1>1, <2>1, <2>2, <2>3 DEF cvsasx_store_put
<1>2. ASSUME NEW c \in Contents, cvsasx_store_get(Hash(c)) PROVE CM!Get(Hash(c))
  <2>1. UNCHANGED Denoted
    BY Zenon, <1>2, <1>b DEF cvsasx_store_get
  <2>2. CASE Found(Hash(c))
    <3> DEFINE k == find_entry(Hash(c))
    <3>1. k \in 1..Len(index) /\ index[k].hash = Hash(c)
      BY Zenon, <2>2, FindEntry
    <3>2. Slice(arena, index[k].offset, index[k].len) = c
      BY Zenon, <3>1, StoreAssumption DEF IInv, Addressed
    <3>3. ret' = Reply("OK", Hash(c), c)
      BY Zenon, <1>2, <2>2, <3>2 DEF cvsasx_store_get
    <3> QED BY Zenon, <1>a, <2>1, <2>2, <3>3 DEF CM!Get, Reply, CM!Reply
  <2>3. CASE ~Found(Hash(c))
    <3>1. \A d \in Denoted : Hash(d) # Hash(c)
      BY Zenon, <1>a, <2>3, StoreAssumption
    <3> QED BY Zenon, <1>2, <2>1, <2>3, <3>1 DEF cvsasx_store_get, CM!Get, Reply, CM!Reply, NoBytes, CM!NoBytes
  <2> QED BY Zenon, <2>2, <2>3
<1>3. ASSUME NEW c \in Contents, cvsasx_store_exists(Hash(c)) PROVE CM!Exists(Hash(c))
  <2>1. UNCHANGED Denoted
    BY Zenon, <1>3, <1>b DEF cvsasx_store_exists
  <2>2. Found(Hash(c)) <=> \E d \in Denoted : Hash(d) = Hash(c)
    BY Zenon, <1>a, StoreAssumption
  <2> QED BY Zenon, <1>3, <2>1, <2>2 DEF cvsasx_store_exists, CM!Exists, Reply, CM!Reply, NoBytes, CM!NoBytes
<1>4. CASE cvsasx_store_init
  <2>1. Denoted' = {}
    BY <1>4 DEF cvsasx_store_init, Fresh, Denoted
  <2> QED BY Zenon, <1>4, <2>1 DEF cvsasx_store_init, CM!Next, CM!Reset, Reply, CM!Reply,
                            NoBytes, CM!NoBytes, NoHash, CM!NoHash
<1>5. CASE UNCHANGED vars
  BY Zenon, <1>5, <1>b DEF vars
<1>6. ASSUME NEW h \in Hashes, cvsasx_store_get(h) \/ cvsasx_store_exists(h) PROVE CM!Next
  <2>1. PICK c \in Contents : h = Hash(c)
    BY Zenon DEF Hashes
  <2> QED BY Zenon, <1>2, <1>3, <1>6, <2>1 DEF CM!Next
<1> QED BY Zenon, <1>1, <1>4, <1>5, <1>6 DEF Next, CM!Next

(* put, get and exists over the arena implement the abstract content map: what
   get returns is the content with that address, a content once stored stays,
   and FULL is answered only for a content that is not there. *)
THEOREM StoreImplementsContentMap == Spec => RefinesContentMap
<1>1. Init => CM!Init
  BY DEF Init, CM!Init, Denoted, Reply, CM!Reply, NoBytes, CM!NoBytes, NoHash, CM!NoHash
<1>2. Spec => []IInv
  BY InitIInv, NextIInv, PTL DEF Spec
<1>3. IInv /\ IInv' /\ [Next]_vars => [CM!Next]_<<Denoted, ret>>
  BY Zenon, StoreStep
<1> QED BY <1>1, <1>2, <1>3, PTL DEF Spec, RefinesContentMap, CM!Spec

(***************************************************************************)
(* Sched: contexts are kept across switches and ticks.                     *)
(***************************************************************************)
(* The demonstrations of STEP 11: any number of tasks that yield, or two that the
   timer preempts and that do not. *)
Demonstrations ==
  \A d \in Demos : d.n \in Nat \ {0} /\ (d.timer => d.n = 2 /\ ~d.yields)

SchedTypes ==
  /\ demo \in Demos
  /\ state \in [Tasks -> {"ready", "running", "done"}]
  /\ rsp = [i \in Tasks |-> rsp[i]]
  /\ cpu = [who |-> cpu.who, at |-> cpu.at, r |-> cpu.r, iff |-> cpu.iff,
            nxt |-> cpu.nxt, to |-> cpu.to]
  /\ g_sched_on => demo.timer

(* kmain has the CPU: before the first switch, or behind the last one. *)
MainRuns ==
  cpu.who = Main =>
    /\ cpu.at \in {"start", "first", "load", "jump", "home", "back"}
    /\ cpu.at \in {"start", "first", "load", "jump"} =>
         \A i \in Tasks : state[i] # "done" /\ rsp[i] = Boot(i)
    /\ cpu.at \in {"home", "back"} => \A i \in Tasks : state[i] = "done"
    /\ cpu.at \in {"start", "home", "back"} => g_cur = -1
    /\ cpu.at \in {"first", "load", "jump"} => g_cur = 0
    /\ cpu.at = "jump" => cpu.to = Boot(0)

(* A task has the CPU.  g_cur names it, but for the end of a yield or an exit: there
   g_cur is the task it hands over to already. *)
TaskRuns ==
  cpu.who # Main =>
    /\ cpu.who \in Tasks /\ main_rsp = Saved(Main, "home", 0, FALSE)
    /\ cpu.at \in {"boot", "body", "yield", "yielding", "exit", "leave", "leaving"}
    /\ cpu.at \notin {"yielding", "leaving"} => g_cur = cpu.who
    /\ cpu.at \in {"boot", "body", "yield", "yielding"} <=> state[cpu.who] # "done"
    /\ cpu.at \in {"yield", "yielding"} => demo.yields
    /\ cpu.at \in {"yielding", "leaving"} =>
         /\ g_cur = cpu.nxt /\ cpu.nxt # cpu.who
         /\ cpu.nxt \in Tasks /\ state[cpu.nxt] # "done"
    /\ cpu.at = "leave" =>
         \/ cpu.nxt = -1 /\ \A i \in Tasks : state[i] = "done"
         \/ cpu.nxt \in Tasks /\ state[cpu.nxt] # "done"

(* The stack pointer of a task that waits points into its own stack, at its entry or
   inside its function. *)
Waiting ==
  cpu.who # Main =>
    \A i \in Tasks : (i # cpu.who /\ state[i] # "done") =>
                       rsp[i].who = i /\ rsp[i].at \in {"boot", "body"}

SchedInv == SchedTypes /\ MainRuns /\ TaskRuns /\ Waiting

(* A non-empty set of natural numbers has a least element. *)
LEMMA LeastNumber ==
  ASSUME NEW S \in SUBSET Nat, S # {}
  PROVE  \E k \in S : \A j \in S : k <= j
<1> DEFINE R == OpToRel(<, Nat)
<1>1. IsWellFoundedOn(R, Nat)
  BY Zenon, NatLessThanWellFounded
<1>2. \A x, y \in Nat : x < y => <<x, y>> \in R
  BY Zenon DEF OpToRel
<1> HIDE DEF R
<1>3. PICK k \in S : \A j \in S : ~(<<j, k>> \in R)
  BY Zenon, <1>1, WFMin
<1>4. \A j \in S : ~(j < k)
  BY Zenon, <1>2, <1>3
<1>5. \A j \in S : k <= j
  BY <1>4
<1> QED BY Zenon, <1>5

LEMMA OnceRound == ASSUME NEW n \in Nat \ {0}, NEW i \in 0..(n - 1) PROVE (i + n) % n = i
OBVIOUS

(* pick_next goes once round the tasks: it finds one that is not done, or all are. *)
LEMMA Picks ==
  ASSUME demo.n \in Nat \ {0}, state \in [Tasks -> {"ready", "running", "done"}],
         NEW cur \in Tasks
  PROVE  \/ pick_next(cur) = -1 /\ \A i \in Tasks : state[i] = "done"
         \/ pick_next(cur) \in Tasks /\ state[pick_next(cur)] # "done"
<1> DEFINE n == demo.n
           ok(k) == state[(cur + k) % n] \in {"ready", "running"}
           ks == {k \in 1..n : ok(k)}
           least == CHOOSE k \in ks : \A j \in ks : k <= j
<1>1. n \in Nat \ {0} /\ Tasks = 0..(n - 1)
  BY Zenon DEF Tasks
<1>2. pick_next(cur) = IF ks = {} THEN -1 ELSE (cur + least) % n
  BY Zenon DEF pick_next
<1>3. CASE ks = {}
  <2> SUFFICES ASSUME NEW i \in Tasks PROVE state[i] = "done"
    BY Zenon, <1>2, <1>3
  <2>1. PICK k \in 1..n : (cur + k) % n = i
    <3>1. CASE i > cur
      <4>1. i - cur \in 1..n /\ cur + (i - cur) = i /\ i % n = i
        BY <1>1, <3>1
      <4> QED BY Zenon, <4>1
    <3>2. CASE i <= cur
      <4>1. i - cur + n \in 1..n /\ cur + (i - cur + n) = i + n
        BY <1>1, <3>2
      <4>2. (i + n) % n = i
        BY Zenon, <1>1, OnceRound
      <4> QED BY Zenon, <4>1, <4>2
    <3>3. i \in Int /\ cur \in Int
      BY <1>1
    <3> QED BY <3>1, <3>2, <3>3
  <2>2. ~ok(k)
    BY Zenon, <1>3
  <2> QED BY Zenon, <2>1, <2>2
<1>4. CASE ks # {}
  <2>1. ks \in SUBSET Nat
    BY <1>1
  <2>2. \E k \in ks : \A j \in ks : k <= j
    <3> HIDE DEF ks
    <3> QED BY Zenon, <1>4, <2>1, LeastNumber
  <2>3. least \in ks
    <3> HIDE DEF ks
    <3> QED BY Zenon, <2>2
  <2>4. least \in 1..n /\ ok(least)
    BY Zenon, <2>3
  <2>5. (cur + least) % n \in 0..(n - 1)
    <3> HIDE DEF least
    <3> QED BY <1>1, <2>4
  <2> QED BY Zenon, <1>1, <1>2, <1>4, <2>4, <2>5
<1> QED BY Zenon, <1>3, <1>4

(* Of two tasks of which one is done, pick_next gives the other back to itself. *)
LEMMA PicksItself ==
  ASSUME demo.n = 2, state \in [Tasks -> {"ready", "running", "done"}],
         NEW cur \in Tasks, NEW other \in Tasks, other # cur, state[other] = "done"
  PROVE  pick_next(cur) \in {-1, cur}
<1>1. Tasks = {0, 1}
  BY DEF Tasks
<1>2. \/ pick_next(cur) = -1
      \/ pick_next(cur) \in Tasks /\ state[pick_next(cur)] # "done"
  BY Picks
<1> QED BY Zenon, <1>1, <1>2

(* Before the first switch all tasks wait at their entry. *)
LEMMA InitSched == Demonstrations /\ SchedInit => SchedInv
<1> SUFFICES ASSUME Demonstrations, SchedInit PROVE SchedInv
  BY Zenon
<1>1. cpu = [who |-> Main, at |-> "start", r |-> 0, iff |-> TRUE, nxt |-> Main, to |-> NoFrame]
  BY Zenon DEF SchedInit, Running, Saved
<1>2. SchedTypes
  <2>1. rsp = [i \in Tasks |-> rsp[i]] /\ state \in [Tasks -> {"ready", "running", "done"}]
    BY Zenon DEF SchedInit
  <2>2. demo \in Demos /\ (g_sched_on => demo.timer)
    BY Zenon DEF SchedInit
  <2> QED BY Zenon, <1>1, <2>1, <2>2 DEF SchedTypes
<1>3. MainRuns
  <2>1. \A i \in Tasks : state[i] = "ready" /\ rsp[i] = Boot(i)
    BY Zenon DEF SchedInit
  <2>2. g_cur = -1
    BY Zenon DEF SchedInit
  <2>3. cpu.at = "start"
    BY Zenon, <1>1
  <2> QED BY Zenon, <2>1, <2>2, <2>3 DEF MainRuns
<1> QED BY Zenon, <1>1, <1>2, <1>3 DEF SchedInv, TaskRuns, Waiting

(* The steps of kmain: a new demonstration, and start_tasks. *)
LEMMA MainStep ==
  ASSUME Demonstrations, SchedInv,
         NextDemo \/ StartCur \/ StartFirst \/ StartLoad \/ StartJump \/ StartReturns
  PROVE  SchedInv'
<1> USE DEF SchedInv
<1>0. /\ demo.n \in Nat \ {0} /\ 0 \in Tasks
      /\ cpu = [who |-> cpu.who, at |-> cpu.at, r |-> cpu.r, iff |-> cpu.iff,
                nxt |-> cpu.nxt, to |-> cpu.to]
  BY DEF Demonstrations, SchedTypes, Tasks
<1>1. CASE NextDemo
  <2>1. PICK d \in Demos : Created(d)
    BY Zenon, <1>1 DEF NextDemo
  <2>2. cpu' = [who |-> Main, at |-> "start", r |-> 0, iff |-> TRUE, nxt |-> Main, to |-> NoFrame]
    BY Zenon, <2>1 DEF Created, Running, Saved
  <2>3. Tasks' = 0..(d.n - 1)
    BY Zenon, <2>1 DEF Created, Tasks
  <2>4. /\ rsp' = [i \in Tasks' |-> rsp'[i]] /\ state' \in [Tasks' -> {"ready", "running", "done"}]
        /\ \A i \in Tasks' : state'[i] = "ready" /\ rsp'[i] = Boot(i)
    BY Zenon, <2>1, <2>3 DEF Created
  <2>5. demo' \in Demos /\ (g_sched_on' => demo'.timer)
    BY Zenon, <2>1 DEF Created
  <2>6. SchedTypes'
    BY Zenon, <2>2, <2>4, <2>5 DEF SchedTypes
  <2>7. g_cur' = -1 /\ cpu'.who = Main /\ cpu'.at = "start"
    BY Zenon, <1>1, <2>2 DEF NextDemo, OnCpu, MainRuns
  <2>8. MainRuns'
    BY Zenon, <2>4, <2>7 DEF MainRuns, Boot, Saved, NoFrame, Main
  <2> QED BY Zenon, <2>6, <2>7, <2>8 DEF TaskRuns, Waiting, Main
<1>2. CASE StartCur
  <2>1. cpu' = [cpu EXCEPT !.at = "first"] /\ cpu.who = Main /\ cpu.at = "start"
    BY Zenon, <1>2 DEF StartCur, Goto, OnCpu
  <2>2. cpu'.who = Main /\ cpu'.at = "first" /\ UNCHANGED Tasks
    BY Zenon, <1>0, <1>2, <2>1 DEF StartCur, Tasks
  <2>3. SchedTypes'
    BY Zenon, <1>0, <1>2, <2>1, <2>2 DEF StartCur, SchedTypes
  <2>4. MainRuns'
    BY Zenon, <1>2, <2>1, <2>2 DEF StartCur, MainRuns, Boot, Saved, NoFrame, Main
  <2> QED BY Zenon, <2>2, <2>3, <2>4 DEF TaskRuns, Waiting, Main
<1>3. CASE StartFirst
  <2>1. cpu' = [cpu EXCEPT !.at = "load"] /\ cpu.who = Main /\ cpu.at = "first"
    BY Zenon, <1>3 DEF StartFirst, Goto, OnCpu
  <2>2. cpu'.who = Main /\ cpu'.at = "load" /\ UNCHANGED Tasks
    BY Zenon, <1>0, <1>3, <2>1 DEF StartFirst, Tasks
  <2>3. /\ state' \in [Tasks -> {"ready", "running", "done"}]
        /\ \A i \in Tasks : state[i] # "done" => state'[i] # "done"
    BY Zenon, <1>0, <1>3 DEF StartFirst, SchedTypes
  <2>4. SchedTypes'
    BY Zenon, <1>0, <1>3, <2>1, <2>2, <2>3 DEF StartFirst, SchedTypes
  <2>5. MainRuns'
    BY Zenon, <1>3, <2>1, <2>2, <2>3 DEF StartFirst, MainRuns, Boot, Saved, NoFrame, Main
  <2> QED BY Zenon, <2>2, <2>4, <2>5 DEF TaskRuns, Waiting, Main
<1>4. CASE StartLoad
  <2>1. cpu' = [[cpu EXCEPT !.at = "jump"] EXCEPT !.to = rsp[0]] /\ cpu.who = Main /\ cpu.at = "load"
    BY Zenon, <1>4 DEF StartLoad, Goto, OnCpu
  <2>2. cpu'.who = Main /\ cpu'.at = "jump" /\ cpu'.to = rsp[0] /\ UNCHANGED Tasks
    BY Zenon, <1>0, <1>4, <2>1 DEF StartLoad, Tasks
  <2>3. SchedTypes'
    BY Zenon, <1>0, <1>4, <2>1, <2>2 DEF StartLoad, SchedTypes
  <2>4. MainRuns'
    BY Zenon, <1>0, <1>4, <2>1, <2>2 DEF StartLoad, MainRuns, Boot, Saved, NoFrame, Main
  <2> QED BY Zenon, <2>2, <2>3, <2>4 DEF TaskRuns, Waiting, Main
<1>5. CASE StartJump
  <2>1. /\ cpu.who = Main /\ cpu.at = "jump" /\ cpu.to = Boot(0) /\ g_cur = 0
        /\ \A i \in Tasks : state[i] # "done" /\ rsp[i] = Boot(i)
    BY Zenon, <1>5 DEF StartJump, OnCpu, MainRuns
  <2>2. \A i : Boot(i).who = i /\ Boot(i).at = "boot"
    BY Zenon DEF Boot, Saved
  <2>3. Boot(0).who # cpu.who
    BY <2>1, <2>2 DEF Main
  <2>4. cpu' = Running(Boot(0), Boot(0).isr \/ cpu.iff)
    BY Zenon, <1>5, <2>1, <2>3 DEF StartJump, Resume
  <2>5. cpu' = [who |-> 0, at |-> "boot", r |-> Boot(0).r, iff |-> (Boot(0).isr \/ cpu.iff),
                nxt |-> Boot(0).nxt, to |-> Boot(0).to]
    BY Zenon, <2>2, <2>4 DEF Running
  <2>6. UNCHANGED <<demo, state, rsp, g_cur, g_sched_on, Tasks>>
    BY Zenon, <1>5 DEF StartJump, Tasks
  <2>7. SchedTypes'
    BY Zenon, <2>5, <2>6 DEF SchedTypes
  <2>8. TaskRuns'
    BY <1>0, <1>5, <2>1, <2>5, <2>6 DEF StartJump, TaskRuns, Main, Saved, NoFrame
  <2>9. Waiting'
    BY <2>1, <2>2, <2>5, <2>6 DEF Waiting
  <2> QED BY <2>5, <2>7, <2>8, <2>9 DEF MainRuns, Main
<1>6. CASE StartReturns
  <2>1. cpu' = [cpu EXCEPT !.at = "back"] /\ cpu.who = Main /\ cpu.at = "home"
    BY Zenon, <1>6 DEF StartReturns, Goto, OnCpu
  <2>2. cpu'.who = Main /\ cpu'.at = "back" /\ UNCHANGED Tasks
    BY Zenon, <1>0, <1>6, <2>1 DEF StartReturns, Tasks
  <2>3. SchedTypes'
    BY Zenon, <1>0, <1>6, <2>1, <2>2 DEF StartReturns, SchedTypes
  <2>4. MainRuns'
    BY Zenon, <1>6, <2>1, <2>2 DEF StartReturns, MainRuns, Boot, Saved, NoFrame, Main
  <2> QED BY Zenon, <2>2, <2>3, <2>4 DEF TaskRuns, Waiting, Main
<1> QED BY Zenon, <1>1, <1>2, <1>3, <1>4, <1>5, <1>6

(* A switch to a task that waits continues that task, at its entry or in its function. *)
LEMMA Resumes ==
  ASSUME SchedInv, NEW t \in Tasks, t # cpu.who, cpu.who # Main, state[t] # "done", NEW iff
  PROVE  Resume(rsp[t], iff) =
           [who |-> t, at |-> rsp[t].at, r |-> rsp[t].r, iff |-> (rsp[t].isr \/ iff),
            nxt |-> rsp[t].nxt, to |-> rsp[t].to]
<1>1. rsp[t].who = t
  BY Zenon DEF SchedInv, Waiting
<1> QED BY Zenon, <1>1 DEF Resume, Running

(* The steps of a task inside its function: entry, work and the two halves of yield. *)
LEMMA TaskStep ==
  ASSUME Demonstrations, SchedInv, Enter \/ TaskRound \/ Yield \/ YieldSwitch
  PROVE  SchedInv'
<1> USE DEF SchedInv
<1>0. /\ demo.n \in Nat \ {0} /\ cpu.who # Main /\ cpu.who \in Tasks
      /\ cpu = [who |-> cpu.who, at |-> cpu.at, r |-> cpu.r, iff |-> cpu.iff,
                nxt |-> cpu.nxt, to |-> cpu.to]
      /\ state \in [Tasks -> {"ready", "running", "done"}]
      /\ UNCHANGED <<demo, main_rsp, g_sched_on, Tasks>>
  BY Zenon DEF Demonstrations, SchedTypes, TaskRuns, Tasks, Enter, TaskRound, Yield, YieldSwitch, InTask
<1>1. CASE Enter \/ TaskRound
  <2>1. /\ cpu.at \in {"boot", "body"} /\ cpu'.at \in {"body", "yield"}
        /\ cpu'.at = "yield" => demo.yields
        /\ cpu'.who = cpu.who
        /\ cpu' = [who |-> cpu'.who, at |-> cpu'.at, r |-> cpu'.r, iff |-> cpu'.iff,
                   nxt |-> cpu'.nxt, to |-> cpu'.to]
    BY Zenon, <1>0, <1>1 DEF Enter, TaskRound, Goto, InTask
  <2>2. UNCHANGED <<state, rsp, g_cur>>
    BY Zenon, <1>1 DEF Enter, TaskRound
  <2>3. SchedTypes'
    BY Zenon, <1>0, <2>1, <2>2 DEF SchedTypes
  <2>4. TaskRuns'
    BY Zenon, <1>0, <2>1, <2>2 DEF TaskRuns, Main, Saved, NoFrame
  <2>5. Waiting'
    BY Zenon, <1>0, <2>1, <2>2 DEF Waiting, Main
  <2> QED BY Zenon, <1>0, <2>1, <2>3, <2>4, <2>5 DEF MainRuns, Main
<1>2. CASE Yield
  <2>1. /\ cpu.at = "yield" /\ g_cur = cpu.who /\ demo.yields /\ state[cpu.who] # "done"
        /\ rsp' = rsp
    BY Zenon, <1>0, <1>2 DEF Yield, InTask, TaskRuns
  <2>2. CASE pick_next(g_cur) < 0 \/ pick_next(g_cur) = g_cur
    <3>1. cpu' = [cpu EXCEPT !.at = "body"] /\ UNCHANGED <<state, g_cur>>
      BY Zenon, <1>2, <2>2 DEF Yield, Goto
    <3>2. cpu'.at = "body" /\ cpu'.who = cpu.who
      BY Zenon, <1>0, <3>1
    <3>3. SchedTypes'
      BY Zenon, <1>0, <2>1, <3>1 DEF SchedTypes
    <3>4. TaskRuns'
      BY Zenon, <1>0, <2>1, <3>1, <3>2 DEF TaskRuns, Main, Saved, NoFrame
    <3>5. Waiting'
      BY Zenon, <1>0, <2>1, <3>1, <3>2 DEF Waiting, Main
    <3> QED BY Zenon, <1>0, <3>2, <3>3, <3>4, <3>5 DEF MainRuns, Main
  <2>3. CASE ~(pick_next(g_cur) < 0 \/ pick_next(g_cur) = g_cur)
    <3> DEFINE nxt == pick_next(g_cur)
    <3>1. nxt \in Tasks /\ state[nxt] # "done" /\ nxt # cpu.who
      BY Zenon, <1>0, <2>1, <2>3, Picks
    <3>2. /\ state' = [state EXCEPT ![cpu.who] = IF @ = "running" THEN "ready" ELSE @, ![nxt] = "running"]
          /\ g_cur' = nxt
          /\ cpu' = [[cpu EXCEPT !.at = "yielding"] EXCEPT !.nxt = nxt]
      BY Zenon, <1>2, <2>1, <2>3 DEF Yield, Goto
    <3> HIDE DEF nxt
    <3>3. /\ state' \in [Tasks -> {"ready", "running", "done"}]
          /\ \A i \in Tasks : state'[i] # "done" <=> state[i] # "done"
      BY Zenon, <1>0, <3>1, <3>2
    <3>4. cpu'.who = cpu.who /\ cpu'.at = "yielding" /\ cpu'.nxt = nxt
      BY Zenon, <1>0, <3>2
    <3>5. SchedTypes'
      BY Zenon, <1>0, <2>1, <3>2, <3>3 DEF SchedTypes
    <3>6. TaskRuns'
      BY Zenon, <1>0, <2>1, <3>1, <3>2, <3>3, <3>4 DEF TaskRuns, Main, Saved, NoFrame
    <3>7. Waiting'
      BY <1>0, <2>1, <3>3, <3>4 DEF Waiting, Main
    <3> QED BY Zenon, <1>0, <3>4, <3>5, <3>6, <3>7 DEF MainRuns, Main
  <2> QED BY Zenon, <2>2, <2>3
<1>3. CASE YieldSwitch
  <2>1. /\ cpu.at = "yielding" /\ g_cur = cpu.nxt /\ cpu.nxt # cpu.who /\ cpu.nxt \in Tasks
        /\ state[cpu.nxt] # "done" /\ state[cpu.who] # "done"
        /\ UNCHANGED <<state, g_cur>>
    BY Zenon, <1>0, <1>3 DEF YieldSwitch, InTask, TaskRuns
  <2>2. /\ rsp' = [rsp EXCEPT ![cpu.who] = Saved(cpu.who, "body", cpu.r, FALSE)]
        /\ cpu' = [who |-> cpu.nxt, at |-> rsp[cpu.nxt].at, r |-> rsp[cpu.nxt].r,
                   iff |-> (rsp[cpu.nxt].isr \/ cpu.iff), nxt |-> rsp[cpu.nxt].nxt, to |-> rsp[cpu.nxt].to]
        /\ rsp[cpu.nxt].at \in {"boot", "body"}
    BY Zenon, <1>0, <1>3, <2>1, Resumes DEF YieldSwitch, Waiting
  <2>3. /\ rsp' = [i \in Tasks |-> rsp'[i]]
        /\ rsp'[cpu.who].who = cpu.who /\ rsp'[cpu.who].at = "body"
        /\ \A i \in Tasks : i # cpu.who => rsp'[i] = rsp[i]
    BY Zenon, <1>0, <2>2 DEF SchedTypes, Saved
  <2>4. cpu'.who = cpu.nxt /\ cpu'.at \in {"boot", "body"} /\ cpu.nxt # Main
    BY <1>0, <2>1, <2>2 DEF Tasks, Main
  <2>5. SchedTypes'
    BY Zenon, <1>0, <2>1, <2>2, <2>3 DEF SchedTypes
  <2>6. TaskRuns'
    BY Zenon, <1>0, <2>1, <2>4 DEF TaskRuns, Main, Saved, NoFrame
  <2>7. Waiting'
    BY <1>0, <2>1, <2>3, <2>4 DEF Waiting, Main
  <2> QED BY Zenon, <2>4, <2>5, <2>6, <2>7 DEF MainRuns, Main
<1> QED BY Zenon, <1>1, <1>2, <1>3

(* The steps of task_exit. *)
LEMMA ExitStep ==
  ASSUME Demonstrations, SchedInv, ExitDone \/ ExitPick \/ ExitLast \/ ExitHandOver \/ ExitSwitch
  PROVE  SchedInv'
<1> USE DEF SchedInv
<1>0. /\ demo.n \in Nat \ {0} /\ cpu.who # Main /\ cpu.who \in Tasks
      /\ cpu = [who |-> cpu.who, at |-> cpu.at, r |-> cpu.r, iff |-> cpu.iff,
                nxt |-> cpu.nxt, to |-> cpu.to]
      /\ state \in [Tasks -> {"ready", "running", "done"}]
      /\ UNCHANGED <<demo, rsp, main_rsp, Tasks>>
  BY Zenon DEF Demonstrations, SchedTypes, TaskRuns, Tasks, ExitDone, ExitPick, ExitLast, ExitHandOver,
         ExitSwitch, InTask
<1>1. CASE ExitDone
  <2>1. /\ cpu.at = "body" /\ g_cur = cpu.who /\ cpu' = [cpu EXCEPT !.at = "exit"]
        /\ state' = [state EXCEPT ![cpu.who] = "done"] /\ UNCHANGED <<g_cur, g_sched_on>>
    BY Zenon, <1>0, <1>1 DEF ExitDone, InTask, TaskRuns, Goto
  <2>2. cpu'.who = cpu.who /\ cpu'.at = "exit"
    BY Zenon, <1>0, <2>1
  <2>3. /\ state' \in [Tasks -> {"ready", "running", "done"}] /\ state'[cpu.who] = "done"
        /\ \A i \in Tasks : i # cpu.who => state'[i] = state[i]
    BY Zenon, <1>0, <2>1
  <2>4. SchedTypes'
    BY Zenon, <1>0, <2>1, <2>3 DEF SchedTypes
  <2>5. TaskRuns'
    BY Zenon, <1>0, <2>1, <2>2, <2>3 DEF TaskRuns, Main, Saved, NoFrame
  <2>6. Waiting'
    BY <1>0, <2>1, <2>2, <2>3 DEF Waiting, Main
  <2> QED BY Zenon, <1>0, <2>2, <2>4, <2>5, <2>6 DEF MainRuns, Main
<1>2. CASE ExitPick
  <2>1. /\ cpu.at = "exit" /\ g_cur = cpu.who /\ state[cpu.who] = "done"
        /\ cpu' = [[cpu EXCEPT !.at = "leave"] EXCEPT !.nxt = pick_next(g_cur)]
        /\ UNCHANGED <<g_cur, g_sched_on, state>>
    BY Zenon, <1>0, <1>2 DEF ExitPick, InTask, TaskRuns, Goto
  <2>2. cpu'.who = cpu.who /\ cpu'.at = "leave" /\ cpu'.nxt = pick_next(g_cur)
    BY Zenon, <1>0, <2>1
  <2>3. \/ cpu'.nxt = -1 /\ \A i \in Tasks : state[i] = "done"
        \/ cpu'.nxt \in Tasks /\ state[cpu'.nxt] # "done"
    BY Zenon, <1>0, <2>1, <2>2, Picks
  <2>4. SchedTypes'
    BY Zenon, <1>0, <2>1 DEF SchedTypes
  <2>5. TaskRuns'
    BY Zenon, <1>0, <2>1, <2>2, <2>3 DEF TaskRuns, Main, Saved, NoFrame
  <2>6. Waiting'
    BY Zenon, <1>0, <2>1, <2>2 DEF Waiting, Main
  <2> QED BY Zenon, <1>0, <2>2, <2>4, <2>5, <2>6 DEF MainRuns, Main
<1>3. CASE ExitLast
  <2>1. /\ cpu.at = "leave" /\ cpu.nxt < 0 /\ main_rsp = Saved(Main, "home", 0, FALSE)
        /\ g_cur' = -1 /\ g_sched_on' = FALSE /\ state' = state
        /\ cpu' = Resume(main_rsp, cpu.iff)
    BY Zenon, <1>0, <1>3 DEF ExitLast, InTask, TaskRuns
  <2>2. \A i \in Tasks : state[i] = "done"
    BY <1>0, <2>1 DEF TaskRuns, Tasks
  <2>3. cpu' = [who |-> Main, at |-> "home", r |-> 0, iff |-> (FALSE \/ cpu.iff), nxt |-> Main, to |-> NoFrame]
    BY Zenon, <1>0, <2>1 DEF Resume, Running, Saved
  <2>4. SchedTypes'
    BY Zenon, <1>0, <2>1, <2>3 DEF SchedTypes
  <2>5. MainRuns'
    BY <1>0, <2>1, <2>2, <2>3 DEF MainRuns, Boot, Saved, NoFrame, Main
  <2> QED BY Zenon, <2>3, <2>4, <2>5 DEF TaskRuns, Waiting, Main
<1>4. CASE ExitHandOver
  <2>1. /\ cpu.at = "leave" /\ cpu.nxt >= 0 /\ cpu' = [cpu EXCEPT !.at = "leaving"]
        /\ state' = [state EXCEPT ![cpu.nxt] = "running"] /\ g_cur' = cpu.nxt
        /\ state[cpu.who] = "done" /\ g_sched_on' = g_sched_on
    BY Zenon, <1>0, <1>4 DEF ExitHandOver, InTask, TaskRuns, Goto
  <2>2. cpu.nxt \in Tasks /\ state[cpu.nxt] # "done" /\ cpu.nxt # cpu.who
    BY <1>0, <2>1 DEF TaskRuns
  <2>3. cpu'.who = cpu.who /\ cpu'.at = "leaving" /\ cpu'.nxt = cpu.nxt
    BY Zenon, <1>0, <2>1
  <2>4. /\ state' \in [Tasks -> {"ready", "running", "done"}]
        /\ \A i \in Tasks : state'[i] # "done" <=> state[i] # "done"
    BY Zenon, <1>0, <2>1, <2>2
  <2>5. SchedTypes'
    BY Zenon, <1>0, <2>1, <2>4 DEF SchedTypes
  <2>6. TaskRuns'
    BY Zenon, <1>0, <2>1, <2>2, <2>3, <2>4 DEF TaskRuns, Main, Saved, NoFrame
  <2>7. Waiting'
    BY Zenon, <1>0, <2>3, <2>4 DEF Waiting, Main
  <2> QED BY Zenon, <1>0, <2>3, <2>5, <2>6, <2>7 DEF MainRuns, Main
<1>5. CASE ExitSwitch
  <2>1. /\ cpu.at = "leaving" /\ g_cur = cpu.nxt /\ cpu.nxt # cpu.who /\ cpu.nxt \in Tasks
        /\ state[cpu.nxt] # "done" /\ state[cpu.who] = "done"
        /\ UNCHANGED <<state, g_cur, g_sched_on>>
    BY Zenon, <1>0, <1>5 DEF ExitSwitch, InTask, TaskRuns
  <2>2. /\ cpu' = [who |-> cpu.nxt, at |-> rsp[cpu.nxt].at, r |-> rsp[cpu.nxt].r,
                   iff |-> (rsp[cpu.nxt].isr \/ cpu.iff), nxt |-> rsp[cpu.nxt].nxt, to |-> rsp[cpu.nxt].to]
        /\ rsp[cpu.nxt].at \in {"boot", "body"}
    BY Zenon, <1>0, <1>5, <2>1, Resumes DEF ExitSwitch, Waiting
  <2>3. cpu'.who = cpu.nxt /\ cpu'.at \in {"boot", "body"} /\ cpu.nxt # Main
    BY <1>0, <2>1, <2>2 DEF Tasks, Main
  <2>4. SchedTypes'
    BY Zenon, <1>0, <2>1, <2>2 DEF SchedTypes
  <2>5. TaskRuns'
    BY Zenon, <1>0, <2>1, <2>3 DEF TaskRuns, Main, Saved, NoFrame
  <2>6. Waiting'
    BY Zenon, <1>0, <2>1, <2>3 DEF Waiting, Main
  <2> QED BY Zenon, <2>3, <2>4, <2>5, <2>6 DEF MainRuns, Main
<1> QED BY Zenon, <1>1, <1>2, <1>3, <1>4, <1>5

(* The timer's tick.  It finds g_cur on the CPU: kmain's window is closed by
   assumption, a task that yields has no timer, and at the end of an exit the one
   other task is picked again, which is no switch. *)
LEMMA TickStep ==
  ASSUME Demonstrations, EarlyTick = FALSE, SchedInv, sched_tick
  PROVE  SchedInv'
<1> USE DEF SchedInv
<1> DEFINE nxt == pick_next(g_cur)
<1>1. /\ g_sched_on /\ demo.timer /\ g_cur >= 0 /\ nxt >= 0 /\ nxt # g_cur
      /\ ~(cpu.who = Main /\ cpu.at \in {"first", "load", "jump"})
      /\ state' = [state EXCEPT ![g_cur] = IF @ = "running" THEN "ready" ELSE @, ![nxt] = "running"]
      /\ g_cur' = nxt /\ rsp' = [rsp EXCEPT ![g_cur] = Interrupted]
      /\ cpu' = Resume(rsp[nxt], FALSE)
      /\ UNCHANGED <<demo, main_rsp, g_sched_on, Tasks>>
  BY Zenon DEF sched_tick, SwitchesOnTick, SchedTypes, Tasks
<1>2. cpu.who # Main /\ cpu.who \in Tasks
  <2>1. g_cur >= 0 /\ ~(cpu.who = Main /\ cpu.at \in {"first", "load", "jump"})
    BY Zenon, <1>1
  <2>2. g_cur # -1
    BY <2>1
  <2>3. cpu.who # Main
    BY Zenon, <2>1, <2>2 DEF MainRuns
  <2> QED BY Zenon, <2>3 DEF TaskRuns
<1>3. /\ demo.n \in Nat \ {0} /\ state \in [Tasks -> {"ready", "running", "done"}]
      /\ demo.n = 2 /\ ~demo.yields
  BY Zenon, <1>1 DEF Demonstrations, SchedTypes
<1>4. g_cur = cpu.who
  <2> SUFFICES ASSUME cpu.at \in {"yielding", "leaving"} PROVE FALSE
    BY Zenon, <1>2 DEF TaskRuns
  <2>1. cpu.at = "leaving"
    BY Zenon, <1>2, <1>3 DEF TaskRuns
  <2>2. g_cur \in Tasks /\ g_cur # cpu.who /\ state[cpu.who] = "done"
    BY Zenon, <1>2, <2>1 DEF TaskRuns
  <2>3. pick_next(g_cur) \in {-1, g_cur}
    BY Zenon, <1>2, <1>3, <2>2, PicksItself
  <2> QED BY <1>1, <2>3
<1>5. nxt \in Tasks /\ state[nxt] # "done" /\ nxt # cpu.who
  <2>1. \/ pick_next(g_cur) = -1
        \/ pick_next(g_cur) \in Tasks /\ state[pick_next(g_cur)] # "done"
    BY Zenon, <1>2, <1>3, <1>4, Picks
  <2> QED BY <1>1, <1>4, <2>1
<1> HIDE DEF nxt
<1>6. /\ cpu' = [who |-> nxt, at |-> rsp[nxt].at, r |-> rsp[nxt].r, iff |-> (rsp[nxt].isr \/ FALSE),
                 nxt |-> rsp[nxt].nxt, to |-> rsp[nxt].to]
      /\ rsp[nxt].at \in {"boot", "body"}
  BY Zenon, <1>1, <1>2, <1>5, Resumes DEF Waiting
<1>7. cpu'.who = nxt /\ cpu'.at \in {"boot", "body"} /\ nxt # Main
  <2>1. nxt # Main
    BY <1>3, <1>5 DEF Main, Tasks
  <2> QED BY Zenon, <1>6, <2>1
<1>8. /\ state' \in [Tasks -> {"ready", "running", "done"}]
      /\ \A i \in Tasks : state'[i] # "done" <=> state[i] # "done"
  BY Zenon, <1>1, <1>2, <1>3, <1>4, <1>5
<1>9. Interrupted.who = cpu.who /\ Interrupted.at = cpu.at
  BY Zenon DEF Interrupted, Saved
<1>10. /\ rsp' = [i \in Tasks |-> rsp'[i]]
       /\ rsp'[cpu.who].who = cpu.who /\ rsp'[cpu.who].at = cpu.at
       /\ \A i \in Tasks : i # cpu.who => rsp'[i] = rsp[i]
  BY Zenon, <1>1, <1>2, <1>4, <1>9 DEF SchedTypes
<1>11. state[cpu.who] # "done" => cpu.at \in {"boot", "body"}
  BY Zenon, <1>2, <1>3 DEF TaskRuns
<1>12. SchedTypes'
  BY Zenon, <1>1, <1>6, <1>8, <1>10 DEF SchedTypes
<1>13. TaskRuns'
  BY Zenon, <1>1, <1>2, <1>5, <1>7, <1>8 DEF TaskRuns, Main, Saved, NoFrame
<1>14. Waiting'
  BY <1>1, <1>2, <1>7, <1>8, <1>10, <1>11 DEF Waiting, Main
<1> QED BY Zenon, <1>7, <1>12, <1>13, <1>14 DEF MainRuns, Main

(* For every number of tasks that yield and every number of their rounds, and for two
   tasks preempted by the timer between any two of their steps: as long as no tick
   falls into start_tasks before its jump, no yield, exit or tick saves one task's
   context over another's, and every task continues where it was switched out. *)
THEOREM ContextsAreKept ==
  ASSUME Demonstrations, EarlyTick = FALSE
  PROVE  SchedSpec => []ContextsKept
<1>1. SchedInit => SchedInv
  BY Zenon, InitSched
<1>2. SchedInv /\ [SchedNext]_hvars => SchedInv'
  <2> SUFFICES ASSUME SchedInv, [SchedNext]_hvars PROVE SchedInv'
    BY Zenon
  <2>1. CASE UNCHANGED hvars
    BY Zenon, <2>1 DEF hvars, SchedInv, SchedTypes, MainRuns, TaskRuns, Waiting, Tasks
  <2> QED BY Zenon, <2>1, MainStep, TaskStep, ExitStep, TickStep DEF SchedNext, CpuStep
<1>3. SchedInv => ContextsKept
  <2> SUFFICES ASSUME SchedInv PROVE ContextsKept
    BY Zenon
  <2>1. cpu.at # "wild"
    BY Zenon DEF SchedInv, MainRuns, TaskRuns
  <2>2. ASSUME NEW i \in Tasks, state[i] # "done", cpu.who # i PROVE rsp[i].who = i
    <3>1. Boot(i).who = i
      BY Zenon DEF Boot, Saved
    <3> QED BY Zenon, <2>2, <3>1 DEF SchedInv, MainRuns, TaskRuns, Waiting
  <2> QED BY Zenon, <2>1, <2>2 DEF ContextsKept
<1> QED BY <1>1, <1>2, <1>3, PTL DEF SchedSpec
=============================================================================
