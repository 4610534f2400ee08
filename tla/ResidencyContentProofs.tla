----------------------- MODULE ResidencyContentProofs -----------------------
(* What a page shows and what can be brought back for it, for every number of
   pages, frames and contents (Residency, with the frame database exact by
   ResidencyProofs). *)
EXTENDS ResidencyProofs

(* The store and the binding table have room for all that is in play, and a page is
   paged out through binding A once. *)
Room == /\ Cardinality(Content) <= RSET_MAX /\ Cardinality(Content) <= StoreCap
        /\ Cardinality(Page) <= PF_BIND_A_MAX /\ ~PageOutAgain

(* A page has one entry in the binding table, an anonymous page none. *)
BindsOK ==
  /\ \A i, j \in DOMAIN pf_bindA : pf_bindA[i].page = pf_bindA[j].page => i = j
  /\ \A p \in Page : InA(p) => p \notin pf_anon
  /\ stage = "m3" => pf_anon = {} /\ pf_bindA = <<>> /\ (\A p \in Page : val[p] = None)

(* A cached frame holds the content of its hash, and the store has it too. *)
FrameOK(f) == framedb[f].has_hash => framedb[f].hash = Hash(mem[f]) /\ InStore(framedb[f].hash)

(* What p's owner last put there is in its frame, under the hash of its binding, or
   is the zeros an anonymous page will show. *)
PageOK(p) ==
  /\ Private(p) => mem[pte[p].frame] = val[p]
  /\ Shared(p) => /\ p \notin pf_anon /\ mem[pte[p].frame] = val[p]
                  /\ InA(p) => pf_bindA_lookup(p) = Hash(val[p])
  /\ ~Mapped(p) /\ p \in pf_anon => pte[p] = NotPresent /\ val[p] = Zero
  /\ ~Mapped(p) /\ p \notin pf_anon =>
       /\ pte[p].tag # "desc" => pte[p] = NotPresent
       /\ ~(pte[p].tag = "desc" /\ InA(p))
       /\ Bound(p) => val[p] \in Content /\ Resolve(p) = Hash(val[p]) /\ InStore(Hash(val[p]))
       /\ ~Bound(p) => val[p] = None

ContentOK ==
  /\ stage = "paging" => \A f \in Frame : FrameOK(f)
  /\ \A p \in Page : PageOK(p)
  /\ \A c \in written : InStore(Hash(c))

PgInv == DbInv /\ BindsOK /\ ContentOK

-----------------------------------------------------------------------------
LEMMA HashInjective ==
  ASSUME NEW c, NEW d, Hash(c) = Hash(d)
  PROVE  c = d
  BY DEF Hash

(* A store with room for every content never refuses a put. *)
LEMMA PutSucceeds ==
  ASSUME TypeOK, Room, NEW c \in Content
  PROVE  /\ PutYields(c) = {Hash(c)} /\ Published(c) = c
         /\ Put(c)[Hash(c)] # None
         /\ \A h \in Hashes : store[h] # None => Put(c)[h] # None
<1>1. /\ Hash(c) \in Hashes /\ store \in [Hashes -> Content \cup {None}]
      /\ c # None /\ StoreCap \in Nat /\ IsFiniteSet(Content)
  BY Zenon, ResidencyAssumption DEF Hashes, TypeOK
<1>2. ~InStore(Hash(c)) => StoreRoom
  <2> SUFFICES ASSUME ~InStore(Hash(c))
               PROVE  StoreRoom
    OBVIOUS
  <2> DEFINE S == {h \in Hashes : InStore(h)}
  <2>1. IsFiniteSet(Hashes) /\ Cardinality(Hashes) <= Cardinality(Content)
    <3> DEFINE g == [x \in Content |-> Hash(x)]
    <3>1. g \in Surjection(Content, Hashes)
      BY DEF Hashes, Surjection
    <3> HIDE DEF g
    <3> QED BY Zenon, <1>1, <3>1, FS_Surjection
  <2>2. S \subseteq Hashes /\ Hash(c) \notin S
    BY Zenon
  <2> HIDE DEF S
  <2>3. IsFiniteSet(S) /\ Cardinality(S) <= Cardinality(Hashes) /\ (Cardinality(S) = Cardinality(Hashes) => S = Hashes)
    BY Zenon, <2>1, <2>2, FS_Subset
  <2>4. Cardinality(S) # Cardinality(Hashes)
    BY <1>1, <2>2, <2>3
  <2>5. Cardinality(S) \in Nat /\ Cardinality(Hashes) \in Nat /\ Cardinality(Content) \in Nat
    BY Zenon, <1>1, <2>1, <2>3, FS_CardinalityType
  <2>6. Cardinality(Content) <= StoreCap
    BY Zenon DEF Room
  <2>7. Cardinality(S) < StoreCap
    BY <1>1, <2>1, <2>3, <2>4, <2>5, <2>6
  <2> QED BY <2>7 DEF S, StoreRoom
<1>3. PutYields(c) = {Hash(c)} /\ Published(c) = c
  BY Zenon, <1>2 DEF PutYields, Published
<1>4. CASE InStore(Hash(c))
  BY <1>3, <1>4 DEF Put, InStore
<1>5. CASE ~InStore(Hash(c))
  <2>1. Put(c) = [store EXCEPT ![Hash(c)] = c]
    BY Zenon, <1>2, <1>5 DEF Put
  <2> QED BY Zenon, <1>1, <1>3, <2>1
<1> QED BY <1>4, <1>5

(* The lookup of a page with one entry. *)
LEMMA LookupIs ==
  ASSUME pf_bindA \in Seq([page : Page, hash : Hashes \cup {NoHash}]),
         \A i, j \in DOMAIN pf_bindA : pf_bindA[i].page = pf_bindA[j].page => i = j,
         NEW q, NEW i \in DOMAIN pf_bindA, pf_bindA[i].page = q
  PROVE  pf_bindA_lookup(q) = pf_bindA[i].hash
<1> DEFINE S == {j \in DOMAIN pf_bindA : pf_bindA[j].page = q}
<1>1. S \in SUBSET Nat /\ S # {}
  OBVIOUS
<1>2. Min(S) \in S
  <2> HIDE DEF S
  <2> QED BY Zenon, <1>1, MinIn
<1>3. Min(S) = i
  BY Zenon, <1>2
<1> QED BY Zenon, <1>3 DEF pf_bindA_lookup

OneEntry ==
  /\ pf_bindA \in Seq([page : Page, hash : Hashes \cup {NoHash}])
  /\ \A i, j \in DOMAIN pf_bindA : pf_bindA[i].page = pf_bindA[j].page => i = j

LEMMA LookupPrimed ==
  OneEntry' => (\A q \in Page, i \in DOMAIN pf_bindA : pf_bindA[i].page = q => pf_bindA_lookup(q) = pf_bindA[i].hash)'
<1>1. OneEntry => (\A q \in Page, i \in DOMAIN pf_bindA : pf_bindA[i].page = q => pf_bindA_lookup(q) = pf_bindA[i].hash)
  BY Zenon, LookupIs DEF OneEntry
<1> QED BY <1>1, PTL

(* What an entry added for a page without one does to the table. *)
LEMMA BindAdds ==
  ASSUME TypeOK, BindsOK, Room, NEW p \in Page, ~InA(p), NEW h \in Hashes \cup {NoHash},
         pf_bindA' = pf_bindA_add(p, h)
  PROVE  /\ \A i, j \in DOMAIN pf_bindA' : pf_bindA'[i].page = pf_bindA'[j].page => i = j
         /\ InA(p)' /\ pf_bindA_lookup(p)' = h
         /\ \A q \in Page : q # p => /\ InA(q)' <=> InA(q)
                                     /\ InA(q) => pf_bindA_lookup(q)' = pf_bindA_lookup(q)
<1> DEFINE B == [page : Page, hash : Hashes \cup {NoHash}]
           n == Len(pf_bindA)
           e == [page |-> p, hash |-> h]
<1>1. /\ pf_bindA \in Seq(B) /\ n \in Nat /\ DOMAIN pf_bindA = 1..n /\ n <= PF_BIND_A_MAX
      /\ PF_BIND_A_MAX \in Nat /\ IsFiniteSet(Page)
  BY ResidencyAssumption DEF TypeOK
<1>2. \A i \in 1..n : pf_bindA[i] \in B /\ pf_bindA[i].page \in Page /\ pf_bindA[i].page # p
  <2>1. \A i \in 1..n : pf_bindA[i] \in B
    <3> HIDE DEF B
    <3> QED BY <1>1
  <2>2. \A i \in 1..n : pf_bindA[i].page # p
    BY Zenon, <1>1 DEF InA
  <2> QED BY Zenon, <2>1, <2>2
<1>3. \A i, j \in 1..n : pf_bindA[i].page = pf_bindA[j].page => i = j
  BY Zenon, <1>1 DEF BindsOK
<1>4. n < PF_BIND_A_MAX
  <2> DEFINE g == [i \in 1..(n + 1) |-> IF i = n + 1 THEN p ELSE pf_bindA[i].page]
  <2>1. g \in [1..(n + 1) -> Page]
    BY <1>1, <1>2
  <2>2. \A i, j \in 1..(n + 1) : g[i] = g[j] => i = j
    BY SMTT(30), <1>1, <1>2, <1>3
  <2> HIDE DEF g
  <2>3. n + 1 <= Cardinality(Page)
    BY SMTT(30), <1>1, <2>1, <2>2, Injects
  <2>4. Cardinality(Page) \in Nat /\ Cardinality(Page) <= PF_BIND_A_MAX
    BY Zenon, <1>1, FS_CardinalityType DEF Room
  <2> QED BY <1>1, <2>3, <2>4
<1>5. e \in B /\ e.page = p /\ e.hash = h
  BY Zenon
<1> HIDE DEF B, e
<1>6. pf_bindA' = Append(pf_bindA, e)
  BY Zenon, <1>4 DEF pf_bindA_add, e
<1>7. /\ pf_bindA' \in Seq(B) /\ DOMAIN pf_bindA' = 1..(n + 1) /\ pf_bindA'[n + 1] = e
      /\ \A i \in 1..n : pf_bindA'[i] = pf_bindA[i]
  BY <1>1, <1>5, <1>6
<1>8. \A i, j \in DOMAIN pf_bindA' : pf_bindA'[i].page = pf_bindA'[j].page => i = j
  BY <1>1, <1>2, <1>3, <1>5, <1>7
<1>9. n + 1 \in DOMAIN pf_bindA' /\ \A i \in 1..n : i \in DOMAIN pf_bindA'
  BY <1>1, <1>7
<1>10. /\ pf_bindA' \in Seq([page : Page, hash : Hashes \cup {NoHash}])
       /\ pf_bindA \in Seq([page : Page, hash : Hashes \cup {NoHash}])
  BY Zenon, <1>1, <1>7 DEF B
<1>12. \A q \in Page, i \in DOMAIN pf_bindA' : pf_bindA'[i].page = q => pf_bindA_lookup(q)' = pf_bindA'[i].hash
  BY <1>8, <1>10, LookupPrimed DEF OneEntry
<1>13. InA(p)' /\ pf_bindA_lookup(p)' = h
  BY <1>5, <1>7, <1>9, <1>12 DEF InA
<1>14. ASSUME NEW q \in Page, q # p
       PROVE  /\ InA(q)' <=> InA(q)
              /\ InA(q) => pf_bindA_lookup(q)' = pf_bindA_lookup(q)
  <2>1. InA(q)' <=> InA(q)
    BY <1>1, <1>5, <1>7, <1>9, <1>14 DEF InA
  <2>2. ASSUME InA(q)
        PROVE  pf_bindA_lookup(q)' = pf_bindA_lookup(q)
    <3>1. PICK i \in DOMAIN pf_bindA : pf_bindA[i].page = q
      BY Zenon, <2>2 DEF InA
    <3>2. pf_bindA_lookup(q) = pf_bindA[i].hash
      BY Zenon, <1>10, <3>1, LookupIs DEF BindsOK
    <3>3. pf_bindA_lookup(q)' = pf_bindA'[i].hash
      BY <1>1, <1>7, <1>9, <1>12, <3>1
    <3> QED BY Zenon, <1>1, <1>7, <3>1, <3>2, <3>3
  <2> QED BY Zenon, <2>1, <2>2
<1> QED BY <1>8, <1>13, <1>14

-----------------------------------------------------------------------------
(* A page that a step leaves alone. *)
PageLeft(q) ==
  /\ pte'[q] = pte[q] /\ val'[q] = val[q]
  /\ q \in pf_anon' <=> q \in pf_anon
  /\ InA(q)' <=> InA(q)
  /\ InA(q) => pf_bindA_lookup(q)' = pf_bindA_lookup(q)
  /\ Mapped(q) => mem'[pte[q].frame] = mem[pte[q].frame]

StoreKept == \A h : InStore(h) => InStore(h)'

LEMMA PageKept ==
  ASSUME NEW q \in Page, PageOK(q), PageLeft(q), StoreKept
  PROVE  PageOK(q)'
<1>1. /\ pte'[q] = pte[q] /\ val'[q] = val[q] /\ (q \in pf_anon' <=> q \in pf_anon)
      /\ InA(q)' <=> InA(q)
      /\ InA(q) => pf_bindA_lookup(q)' = pf_bindA_lookup(q)
      /\ Mapped(q) => mem'[pte[q].frame] = mem[pte[q].frame]
  BY DEF PageLeft
<1>2. /\ Mapped(q)' <=> Mapped(q)
      /\ Private(q)' <=> Private(q)
      /\ Shared(q)' <=> Shared(q)
      /\ Bound(q)' <=> Bound(q)
      /\ Private(q) => Mapped(q)
      /\ Shared(q) => Mapped(q)
  BY Zenon, <1>1 DEF Mapped, Private, Shared, Bound
<1>3. Bound(q) => Resolve(q)' = Resolve(q)
  BY Zenon, <1>1 DEF Bound, Resolve
<1>4. \A c : InStore(Hash(c)) => InStore(Hash(c))'
  BY Zenon DEF StoreKept, InStore, Hash
<1> QED BY Zenon, <1>1, <1>2, <1>3, <1>4 DEF PageOK

(* A frame that a step leaves alone. *)
LEMMA FrameKept ==
  ASSUME NEW f \in Frame, FrameOK(f), StoreKept, mem'[f] = mem[f],
         framedb'[f].has_hash => framedb[f].has_hash /\ framedb'[f].hash = framedb[f].hash
  PROVE  FrameOK(f)'
  BY Zenon DEF FrameOK, StoreKept, InStore, Hash

(* Bindings that a step leaves alone. *)
LEMMA BindsSame ==
  ASSUME BindsOK, UNCHANGED <<stage, pf_bindA, pf_anon>>, stage = "m3" => val' = val
  PROVE  BindsOK' /\ \A q \in Page : (InA(q)' <=> InA(q)) /\ pf_bindA_lookup(q)' = pf_bindA_lookup(q)
  BY Zenon DEF BindsOK, InA, pf_bindA_lookup

LEMMA StoreSame ==
  ASSUME store' = store
  PROVE  StoreKept
  BY DEF StoreKept, InStore

LEMMA StorePut ==
  ASSUME TypeOK, Room, NEW c \in Content, store' = Put(c)
  PROVE  StoreKept /\ InStore(Hash(c))'
<1>1. Hash(c) \in Hashes
  BY Zenon DEF Hashes
<1> QED BY Zenon, <1>1, PutSucceeds DEF StoreKept, InStore

(* The actions, each with DbInv' from ResidencyProofs. *)
LEMMA BindAContent ==
  ASSUME PgInv, Room, stage = "paging", NEW p \in Page, NEW c \in Content, BindA(p, c), stage' = stage
  PROVE  BindsOK' /\ ContentOK'
<1>1. /\ pte[p] = NotPresent /\ ~InA(p) /\ p \notin pf_anon
      /\ store' = Put(c) /\ val' = [val EXCEPT ![p] = Published(c)]
      /\ UNCHANGED <<framedb, mem, pte, pf_anon, written>>
  BY Zenon DEF BindA, mgr
<1>2. TypeOK /\ BindsOK /\ ContentOK /\ val \in [Page -> Content \cup {None}]
  BY DEF PgInv, DbInv, TypeOK
<1>3. pf_bindA' = pf_bindA_add(p, Hash(c)) /\ val' = [val EXCEPT ![p] = c]
  <2>1. PutYields(c) = {Hash(c)} /\ Published(c) = c
    BY Zenon, <1>2, PutSucceeds
  <2>2. PICK h \in PutYields(c) : pf_bindA' = pf_bindA_add(p, h)
    BY DEF BindA
  <2>3. h = Hash(c)
    BY Zenon, <2>1, <2>2
  <2> QED BY Zenon, <1>1, <2>1, <2>2, <2>3
<1>4. Hash(c) \in Hashes \cup {NoHash}
  BY Zenon DEF Hashes
<1>5. /\ \A i, j \in DOMAIN pf_bindA' : pf_bindA'[i].page = pf_bindA'[j].page => i = j
      /\ InA(p)' /\ pf_bindA_lookup(p)' = Hash(c)
      /\ \A q \in Page : q # p => /\ InA(q)' <=> InA(q)
                                  /\ InA(q) => pf_bindA_lookup(q)' = pf_bindA_lookup(q)
  BY <1>1, <1>2, <1>3, <1>4, BindAdds
<1>6. BindsOK'
  BY Zenon, <1>1, <1>2, <1>5 DEF BindsOK
<1>7. StoreKept /\ InStore(Hash(c))'
  BY Zenon, <1>1, <1>2, StorePut
<1>8. \A q \in Page : q # p => PageOK(q)'
  BY Zenon, <1>1, <1>2, <1>3, <1>5, <1>7, PageKept DEF ContentOK, PageLeft
<1>9. PageOK(p)'
  <2>1. pte'[p].tag = "none" /\ pte'[p] = NotPresent /\ p \notin pf_anon' /\ val'[p] = c
    BY <1>1, <1>2, <1>3 DEF NotPresent
  <2>2. ~Mapped(p)' /\ ~Private(p)' /\ ~Shared(p)' /\ Bound(p)' /\ Resolve(p)' = Hash(c)
    BY Zenon, <1>5, <2>1 DEF Mapped, Private, Shared, Bound, Resolve
  <2>3. InStore(Hash(val[p]))'
    BY Zenon, <1>7, <2>1 DEF InStore, Hash
  <2> QED BY Zenon, <2>1, <2>2, <2>3 DEF PageOK
<1>10. \A f \in Frame : FrameOK(f)'
  BY <1>1, <1>2, <1>7, FrameKept DEF ContentOK
<1>11. \A d \in written' : InStore(Hash(d))'
  BY Zenon, <1>1, <1>2, <1>7 DEF ContentOK, StoreKept, InStore, Hash
<1> QED BY <1>6, <1>8, <1>9, <1>10, <1>11 DEF ContentOK

(* A paging step, from what it does to one page and to the frames. *)
LEMMA PageStep ==
  ASSUME PgInv, BindsOK', StoreKept, written' = written, NEW p \in Page, PageOK(p)',
         \A q \in Page : q # p => PageLeft(q),
         \A f \in Frame : FrameOK(f)'
  PROVE  BindsOK' /\ ContentOK'
<1>1. \A q \in Page : q # p => PageOK(q)'
  BY Zenon, PageKept DEF PgInv, ContentOK
<1>2. \A d \in written' : InStore(Hash(d))'
  BY Zenon DEF PgInv, ContentOK, StoreKept, InStore, Hash
<1> QED BY Zenon, <1>1, <1>2 DEF ContentOK

LEMMA ArmBContent ==
  ASSUME PgInv, Room, stage = "paging", NEW p \in Page, NEW c \in Content, ArmB(p, c), stage' = stage
  PROVE  BindsOK' /\ ContentOK'
<1>1. /\ pte[p] = NotPresent /\ ~InA(p) /\ p \notin pf_anon
      /\ store' = Put(c) /\ val' = [val EXCEPT ![p] = Published(c)]
      /\ UNCHANGED <<framedb, mem, pf_bindA, pf_anon, written>>
  BY DEF ArmB, mgr
<1>2. /\ TypeOK /\ BindsOK /\ ContentOK /\ val \in [Page -> Content \cup {None}]
      /\ pte \in [Page -> PteRec]
  BY Zenon, Types DEF PgInv, DbInv, TypeOK
<1>3. pte' = [pte EXCEPT ![p] = Desc(Hash(c))] /\ val' = [val EXCEPT ![p] = c]
  <2>1. PutYields(c) = {Hash(c)} /\ Published(c) = c
    BY Zenon, <1>2, PutSucceeds
  <2>2. PICK h \in PutYields(c) : pte' = [pte EXCEPT ![p] = Desc(h)]
    BY Zenon DEF ArmB
  <2>3. h = Hash(c)
    BY Zenon, <2>1, <2>2
  <2> QED BY Zenon, <1>1, <2>1, <2>2, <2>3
<1>4. BindsOK' /\ \A q \in Page : (InA(q)' <=> InA(q)) /\ pf_bindA_lookup(q)' = pf_bindA_lookup(q)
  BY <1>1, <1>2, BindsSame
<1>5. StoreKept /\ InStore(Hash(c))'
  BY Zenon, <1>1, <1>2, StorePut
<1>6. \A q \in Page : q # p => PageLeft(q)
  BY Zenon, <1>1, <1>2, <1>3, <1>4 DEF PageLeft
<1>7. PageOK(p)'
  <2>1. pte'[p].tag = "desc" /\ pte'[p].hash = Hash(c) /\ p \notin pf_anon' /\ val'[p] = c /\ ~InA(p)'
    BY Zenon, <1>1, <1>2, <1>3, <1>4 DEF Desc, NotPresent
  <2>2. ~Mapped(p)' /\ ~Private(p)' /\ ~Shared(p)' /\ Bound(p)' /\ Resolve(p)' = Hash(c)
    BY Zenon, <2>1 DEF Mapped, Private, Shared, Bound, Resolve
  <2>3. InStore(Hash(val[p]))'
    BY <1>5, <2>1 DEF InStore, Hash
  <2> QED BY Zenon, <2>1, <2>2, <2>3 DEF PageOK
<1>8. \A f \in Frame : FrameOK(f)'
  BY Zenon, <1>1, <1>2, <1>5, FrameKept DEF ContentOK
<1> QED BY Zenon, <1>1, <1>4, <1>5, <1>6, <1>7, <1>8, PageStep

LEMMA AnonAddContent ==
  ASSUME PgInv, stage = "paging", NEW p \in Page, pf_anon_add(p), stage' = stage
  PROVE  BindsOK' /\ ContentOK'
<1>1. /\ pte[p] = NotPresent /\ ~InA(p) /\ p \notin pf_anon
      /\ pf_anon' = pf_anon \cup {p} /\ val' = [val EXCEPT ![p] = Zero]
      /\ UNCHANGED <<framedb, mem, store, pte, pf_bindA, written>>
  BY DEF pf_anon_add, mgr
<1>2. BindsOK /\ ContentOK /\ val \in [Page -> Content \cup {None}]
  BY DEF PgInv, DbInv, TypeOK
<1>3. \A q \in Page : (InA(q)' <=> InA(q)) /\ pf_bindA_lookup(q)' = pf_bindA_lookup(q)
  BY Zenon, <1>1 DEF InA, pf_bindA_lookup
<1>4. BindsOK'
  BY <1>1, <1>2, <1>3 DEF BindsOK
<1>5. StoreKept
  BY Zenon, <1>1, StoreSame
<1>6. \A q \in Page : q # p => PageLeft(q)
  BY Zenon, <1>1, <1>2, <1>3 DEF PageLeft
<1>7. PageOK(p)'
  <2>1. pte'[p].tag = "none" /\ pte'[p] = NotPresent /\ p \in pf_anon' /\ val'[p] = Zero
    BY <1>1, <1>2 DEF NotPresent
  <2> QED BY Zenon, <2>1 DEF PageOK, Mapped, Private, Shared
<1>8. \A f \in Frame : FrameOK(f)'
  BY Zenon, <1>1, <1>2, <1>5, FrameKept DEF ContentOK
<1> QED BY Zenon, <1>1, <1>4, <1>5, <1>6, <1>7, <1>8, PageStep

LEMMA WriteContent ==
  ASSUME PgInv, stage = "paging", NEW p \in Page, NEW c \in Content, Write(p, c), stage' = stage
  PROVE  BindsOK' /\ ContentOK'
<1> DEFINE f == pte[p].frame
<1>1. /\ Private(p) /\ mem' = [mem EXCEPT ![f] = c] /\ val' = [val EXCEPT ![p] = c]
      /\ UNCHANGED <<framedb, store, pte, pf_bindA, pf_anon, written>>
  BY DEF Write
<1>2. /\ BindsOK /\ ContentOK /\ val \in [Page -> Content \cup {None}] /\ mem \in [Frame -> Content]
  BY Zenon DEF PgInv, DbInv, TypeOK
<1>3. /\ f \in Frame /\ ~framedb[f].has_hash
      /\ \A q \in Page : Mapped(q) /\ pte[q].frame = f => q = p
  BY Zenon, <1>1 DEF Private, PgInv, DbInv, MapsOK
<1> HIDE DEF f
<1>4. BindsOK' /\ \A q \in Page : (InA(q)' <=> InA(q)) /\ pf_bindA_lookup(q)' = pf_bindA_lookup(q)
  BY Zenon, <1>1, <1>2, BindsSame
<1>5. StoreKept
  BY <1>1, StoreSame
<1>6. \A q \in Page : q # p => PageLeft(q)
  <2>1. \A q \in Page : Mapped(q) /\ q # p => mem'[pte[q].frame] = mem[pte[q].frame]
    BY <1>1, <1>2, <1>3
  <2> QED BY Zenon, <1>1, <1>2, <1>4, <2>1 DEF PageLeft
<1>7. PageOK(p)'
  <2>1. pte'[p] = pte[p] /\ mem'[f] = c /\ val'[p] = c
    BY <1>1, <1>2, <1>3
  <2>2. Private(p)' /\ ~Shared(p)' /\ Mapped(p)' /\ pte'[p].frame = f
    BY Zenon, <1>1, <2>1 DEF Private, Shared, Mapped, f
  <2> QED BY Zenon, <2>1, <2>2 DEF PageOK
<1>8. \A g \in Frame : FrameOK(g)'
  <2>1. \A g \in Frame : g # f => FrameOK(g)'
    BY Zenon, <1>1, <1>2, <1>5, FrameKept DEF ContentOK
  <2>2. \A g \in Frame : g = f => FrameOK(g)'
    BY Zenon, <1>1, <1>3 DEF FrameOK
  <2> QED BY Zenon, <2>1, <2>2
<1> QED BY Zenon, <1>1, <1>4, <1>5, <1>6, <1>7, <1>8, PageStep

LEMMA FaultAnonContent ==
  ASSUME PgInv, stage = "paging", NEW p \in Page, FaultAnon(p), stage' = stage
  PROVE  BindsOK' /\ ContentOK'
<1> DEFINE f == Reserved(pool)
<1>1. /\ ~Mapped(p) /\ p \in pf_anon /\ CanReserve(pool) /\ mem' = [mem EXCEPT ![f] = Zero]
      /\ UNCHANGED <<rset, clock_hand, store, pf_bindA, pf_anon, val, written, leaked>>
  BY Zenon DEF FaultAnon
<1>2. /\ f \in Frame /\ framedb[f] = FreeRec
      /\ frame_reserve(pool) \in Pool
      /\ frame_reserve(pool).db = [framedb EXCEPT ![f] = FreshRec]
      /\ ~FreshRec.has_hash
      /\ frame_release_physical(frame_reserve(pool), f) = pool
  BY Zenon, <1>1, Fresh DEF PgInv
<1>3. /\ BindsOK /\ ContentOK /\ mem \in [Frame -> Content] /\ pte \in [Page -> PteRec]
      /\ framedb \in [Frame -> FrameRec] /\ pool \in Pool /\ pool.db = framedb
      /\ \A q \in Page : Mapped(q) => pte[q].frame # f /\ pte[q].frame \in Frame
  BY Zenon, <1>2, Types, FreeUnowned DEF PgInv, DbInv, TypeOK, MapsOK
<1> HIDE DEF f
<1>4. BindsOK' /\ \A q \in Page : (InA(q)' <=> InA(q)) /\ pf_bindA_lookup(q)' = pf_bindA_lookup(q)
  BY Zenon, <1>1, <1>3, BindsSame
<1>5. StoreKept
  BY <1>1, StoreSame
<1>6. \A q \in Page : Mapped(q) => mem'[pte[q].frame] = mem[pte[q].frame]
  BY <1>1, <1>3
<1>7. \/ framedb' = framedb /\ pte' = pte
      \/ framedb' = [framedb EXCEPT ![f] = FreshRec] /\ pte' = [pte EXCEPT ![p] = Mapping(f, TRUE)]
  BY Zenon, <1>2, <1>3 DEF FaultAnon, SetPool, f
<1>8. \A g \in Frame : FrameOK(g)'
  <2>1. ~framedb'[f].has_hash /\ \A g \in Frame : g # f => framedb'[g] = framedb[g] /\ mem'[g] = mem[g]
    <3>1. ~FreeRec.has_hash
      BY DEF FreeRec
    <3>2. CASE framedb' = framedb
      BY Zenon, <1>1, <1>2, <1>3, <3>1, <3>2
    <3>3. CASE framedb' = [framedb EXCEPT ![f] = FreshRec]
      BY Zenon, <1>1, <1>2, <1>3, <3>3
    <3> QED BY Zenon, <1>7, <3>2, <3>3
  <2>2. \A g \in Frame : g # f => FrameOK(g)'
    BY Zenon, <1>3, <1>5, <2>1, FrameKept DEF ContentOK
  <2>3. \A g \in Frame : g = f => FrameOK(g)'
    BY <2>1 DEF FrameOK
  <2> QED BY Zenon, <2>2, <2>3
<1>9. \A q \in Page : q # p => PageLeft(q)
  BY Zenon, <1>1, <1>3, <1>4, <1>6, <1>7 DEF PageLeft
<1>10. PageOK(p)'
  <2>1. CASE pte' = pte
    <3>1. PageLeft(p)
      BY Zenon, <1>1, <1>4, <1>6, <2>1 DEF PageLeft
    <3> QED BY Zenon, <1>3, <1>5, <3>1, PageKept DEF ContentOK
  <2>2. CASE pte' = [pte EXCEPT ![p] = Mapping(f, TRUE)]
    <3>1. pte'[p] = Mapping(f, TRUE) /\ Mapping(f, TRUE).tag = "map" /\ Mapping(f, TRUE).frame = f /\ Mapping(f, TRUE).rw
      BY Zenon, <1>2, <1>3, <2>2, MappingType
    <3>2. Mapped(p)' /\ ~Shared(p)' /\ pte'[p].frame = f
      BY Zenon, <3>1 DEF Mapped, Shared
    <3>3. val'[p] = Zero /\ mem'[f] = Zero
      BY Zenon, <1>1, <1>2, <1>3 DEF ContentOK, PageOK
    <3> QED BY Zenon, <3>2, <3>3 DEF PageOK
  <2> QED BY Zenon, <1>7, <2>1, <2>2
<1> QED BY <1>1, <1>4, <1>5, <1>8, <1>9, <1>10, PageStep

LEMMA TamperContent ==
  ASSUME PgInv, NEW h \in Hashes, NEW c \in Content, Tamper(h, c), stage' = stage, stage = "paging"
  PROVE  BindsOK' /\ ContentOK'
<1>1. /\ store' = [store EXCEPT ![h] = c]
      /\ UNCHANGED <<framedb, mem, pte, pf_bindA, pf_anon, val, written>>
  BY Zenon DEF Tamper, mgr
<1>2. BindsOK /\ ContentOK /\ store \in [Hashes -> Content \cup {None}] /\ c # None
  BY Zenon, ResidencyAssumption DEF PgInv, DbInv, TypeOK
<1>3. StoreKept
  BY <1>1, <1>2 DEF StoreKept, InStore
<1>4. BindsOK' /\ \A q \in Page : (InA(q)' <=> InA(q)) /\ pf_bindA_lookup(q)' = pf_bindA_lookup(q)
  BY <1>1, <1>2, BindsSame
<1>5. \A q \in Page : PageOK(q)'
  <2>1. \A q \in Page : PageLeft(q)
    BY Zenon, <1>1, <1>4 DEF PageLeft
  <2> QED BY Zenon, <1>2, <1>3, <2>1, PageKept DEF ContentOK
<1>6. \A f \in Frame : FrameOK(f)'
  BY Zenon, <1>1, <1>2, <1>3, FrameKept DEF ContentOK
<1>7. \A d \in written' : InStore(Hash(d))'
  BY Zenon, <1>1, <1>2, <1>3 DEF ContentOK, StoreKept, InStore, Hash
<1> QED BY <1>4, <1>5, <1>6, <1>7 DEF ContentOK


(* A fault on a bound page: the frame that rm_materialize returns holds the content
   the binding names, whether it was resident or came from the store. *)
LEMMA MaterializedContent ==
  ASSUME PgInv, stage = "paging", NEW h, NEW f \in Frame, rm_materialize(h, f)
  PROVE  /\ mem' \in [Frame -> Content] /\ Hash(mem'[f]) = h
         /\ framedb'[f].has_hash => framedb'[f].hash = h /\ InStore(h)
         /\ \A g \in Frame : g # f => mem'[g] = mem[g] /\ framedb'[g] = framedb[g]
         /\ \A q \in Page : Mapped(q) => mem'[pte[q].frame] = mem[pte[q].frame]
<1>1. /\ mem \in [Frame -> Content] /\ framedb \in [Frame -> FrameRec] /\ written = {}
      /\ store \in [Hashes -> Content \cup {None}] /\ ContentOK
      /\ \A q \in Page : Mapped(q) => pte[q].frame \in Frame
  BY Zenon, Types DEF PgInv, DbInv, TypeOK, StageOK, MapsOK
<1>2. CASE ShareByHash(h, f)
  <2> DEFINE d == [framedb EXCEPT ![f].refcount = @ + 1]
  <2>1. /\ Resident(h) /\ f = rset[rset_find(h)].frame /\ mem' = mem
        /\ framedb' = [d EXCEPT ![f].clock_ref = TRUE]
    BY <1>2 DEF ShareByHash
  <2>2. framedb[f].has_hash /\ framedb[f].hash = h
    BY Zenon, <1>1, <2>1, FindResident DEF PgInv, DbInv, Listed
  <2>3. framedb[f].hash = Hash(mem[f]) /\ InStore(framedb[f].hash)
    BY Zenon, <1>1, <2>2 DEF ContentOK, FrameOK
  <2>4. d[f].hash = framedb[f].hash /\ DOMAIN d = Frame /\ (\A g \in Frame : g # f => d[g] = framedb[g])
        /\ d[f] = [framedb[f] EXCEPT !.refcount = @ + 1]
    BY <1>1 DEF FrameRec
  <2>5. d[f].hash = framedb[f].hash /\ "hash" \in DOMAIN d[f]
    BY <1>1, <2>4 DEF FrameRec
  <2> HIDE DEF d
  <2>6. framedb'[f].hash = d[f].hash /\ \A g \in Frame : g # f => framedb'[g] = d[g]
    BY Zenon, <2>1, <2>4, <2>5
  <2> QED BY Zenon, <1>1, <2>1, <2>2, <2>3, <2>4, <2>5, <2>6
<1>3. CASE FaultIn(h, f)
  <2> DEFINE s == [frame_reserve(pool) EXCEPT !.db[f].has_hash = TRUE, !.db[f].hash = h]
  <2>1. /\ InStore(h) /\ CanReserve(pool) /\ f = Reserved(pool) /\ Hash(store[h]) = h
        /\ mem' = [mem EXCEPT ![f] = store[h]] /\ SetPool(s)
    BY Zenon, <1>3 DEF FaultIn
  <2>2. /\ framedb[f] = FreeRec /\ frame_reserve(pool) \in Pool
        /\ frame_reserve(pool).db = [framedb EXCEPT ![f] = FreshRec]
    BY Zenon, <2>1, Fresh DEF PgInv
  <2>3. \A q \in Page : Mapped(q) => pte[q].frame # f
    BY Zenon, <2>2, FreeUnowned DEF PgInv
  <2> DEFINE t == frame_reserve(pool)
             n == [[FreshRec EXCEPT !.has_hash = TRUE] EXCEPT !.hash = h]
  <2>4. t.db \in [Frame -> FrameRec] /\ t.db[f] = FreshRec /\ \A g \in Frame : g # f => t.db[g] = framedb[g]
    BY Zenon, <1>1, <2>2 DEF Pool
  <2>5. s.db = [t.db EXCEPT ![f] = n]
    BY Zenon, <2>2, <2>4 DEF Pool
  <2>6. n.hash = h
    BY Zenon DEF FreshRec, FreeRec
  <2> HIDE DEF t, n, s
  <2>7. framedb'[f].hash = h /\ \A g \in Frame : g # f => framedb'[g] = framedb[g]
    BY Zenon, <2>1, <2>4, <2>5, <2>6 DEF SetPool
  <2>8. store[h] \in Content
    BY <1>1, <2>1 DEF InStore
  <2> QED BY Zenon, <1>1, <2>1, <2>3, <2>7, <2>8
<1> QED BY Zenon, <1>2, <1>3 DEF rm_materialize

LEMMA FaultBoundContent ==
  ASSUME PgInv, stage = "paging", NEW p \in Page, FaultBound(p), stage' = stage
  PROVE  BindsOK' /\ ContentOK'
<1>1. /\ ~Mapped(p) /\ p \notin pf_anon /\ Bound(p)
      /\ UNCHANGED <<clock_hand, store, pf_bindA, pf_anon, val, written>>
  BY Zenon DEF FaultBound
<1>2. /\ BindsOK /\ ContentOK /\ mem \in [Frame -> Content] /\ pte \in [Page -> PteRec]
      /\ framedb \in [Frame -> FrameRec]
      /\ \A q \in Page : Mapped(q) => pte[q].frame \in Frame
  BY Zenon, Types DEF PgInv, DbInv, TypeOK, MapsOK
<1>3. BindsOK' /\ \A q \in Page : (InA(q)' <=> InA(q)) /\ pf_bindA_lookup(q)' = pf_bindA_lookup(q)
  BY <1>1, <1>2, BindsSame
<1>4. StoreKept
  BY Zenon, <1>1, StoreSame
<1>5. /\ val[p] \in Content /\ Resolve(p) = Hash(val[p])
      /\ InA(p) => pf_bindA_lookup(p) = Hash(val[p])
  BY Zenon, <1>1, <1>2 DEF ContentOK, PageOK, Resolve
<1>6. ASSUME NEW f \in Frame, rm_materialize(Resolve(p), f), Referenced(p, f)
      PROVE  BindsOK' /\ ContentOK'
  <2>1. /\ mem' \in [Frame -> Content] /\ Hash(mem'[f]) = Resolve(p)
        /\ framedb'[f].has_hash => framedb'[f].hash = Resolve(p) /\ InStore(Resolve(p))
        /\ \A g \in Frame : g # f => mem'[g] = mem[g] /\ framedb'[g] = framedb[g]
        /\ \A q \in Page : Mapped(q) => mem'[pte[q].frame] = mem[pte[q].frame]
    BY Zenon, <1>6, MaterializedContent
  <2>2. mem'[f] = val[p]
    BY Zenon, <1>5, <2>1, HashInjective
  <2>3. \A g \in Frame : FrameOK(g)'
    <3>1. \A g \in Frame : g # f => FrameOK(g)'
      BY Zenon, <1>2, <1>4, <2>1, FrameKept DEF ContentOK
    <3>2. InStore(Resolve(p)) => (Resolve(p) \in Hashes /\ store'[Resolve(p)] # None)
      BY <1>1 DEF InStore
    <3>3. FrameOK(f)'
      BY Zenon, <2>1, <3>2 DEF FrameOK, InStore, Hash
    <3> QED BY Zenon, <3>1, <3>3
  <2>4. CASE pte' = [pte EXCEPT ![p] = Mapping(f, FALSE)]
    <3>1. \A q \in Page : q # p => PageLeft(q)
      BY Zenon, <1>1, <1>2, <1>3, <2>1, <2>4 DEF PageLeft
    <3>2. pte'[p] = Mapping(f, FALSE) /\ Mapping(f, FALSE).frame = f /\ ~Mapping(f, FALSE).rw
          /\ Mapping(f, FALSE).tag = "map"
      BY Zenon, <1>2, <2>4, MappingType
    <3>3. Mapped(p)' /\ ~Private(p)' /\ pte'[p].frame = f
      BY Zenon, <3>2 DEF Mapped, Private
    <3>4. PageOK(p)'
      BY Zenon, <1>1, <1>3, <1>5, <2>2, <3>3 DEF PageOK, Hash
    <3> QED BY Zenon, <1>1, <1>3, <1>4, <2>3, <3>1, <3>4, PageStep
  <2>5. CASE pte' = pte
    <3>1. \A q \in Page : PageLeft(q)
      BY Zenon, <1>1, <1>3, <2>1, <2>5 DEF PageLeft
    <3>2. PageOK(p)'
      BY Zenon, <1>2, <1>4, <3>1, PageKept DEF ContentOK
    <3> QED BY Zenon, <1>1, <1>3, <1>4, <2>3, <3>1, <3>2, PageStep
  <2> QED BY Zenon, <1>6, <2>4, <2>5 DEF Referenced
<1>7. ASSUME MaterializeRejects(Resolve(p)), UNCHANGED <<pte, leaked>>
      PROVE  BindsOK' /\ ContentOK'
  <2> DEFINE f == Reserved(pool)
  <2>1. /\ CanReserve(pool) /\ mem' = [mem EXCEPT ![f] = store[Resolve(p)]]
        /\ SetPool(frame_release_physical(frame_reserve(pool), f))
    BY Zenon, <1>7 DEF MaterializeRejects
  <2>2. framedb[f] = FreeRec /\ f \in Frame /\ framedb' = framedb
    BY Zenon, <2>1, Fresh, Types DEF SetPool, PgInv, DbInv
  <2>3. ~framedb[f].has_hash /\ \A q \in Page : Mapped(q) => pte[q].frame # f
    <3>1. ~FreeRec.has_hash
      BY Zenon DEF FreeRec
    <3> QED BY Zenon, <2>2, <3>1, FreeUnowned DEF PgInv
  <2> HIDE DEF f
  <2>4. \A g \in Frame : g # f => mem'[g] = mem[g]
    BY Zenon, <1>2, <2>1
  <2>5. \A q \in Page : PageLeft(q)
    BY Zenon, <1>1, <1>2, <1>3, <1>7, <2>3, <2>4 DEF PageLeft
  <2>6. PageOK(p)'
    BY <1>2, <1>4, <2>5, PageKept DEF ContentOK
  <2>7. \A g \in Frame : FrameOK(g)'
    <3>1. \A g \in Frame : g # f => FrameOK(g)'
      BY Zenon, <1>2, <1>4, <2>2, <2>4, FrameKept DEF ContentOK
    <3>2. \A g \in Frame : g = f => FrameOK(g)'
      BY <2>2, <2>3 DEF FrameOK
    <3> QED BY Zenon, <3>1, <3>2
  <2> QED BY <1>1, <1>3, <1>4, <2>5, <2>6, <2>7, PageStep
<1> QED BY Zenon, <1>6, <1>7 DEF FaultBound, Referenced

(* The step keeps what cached frames hold, or frees them. *)
LEMMA DropFrames ==
  ASSUME PgInv, NEW d, NEW f \in Frame, DropsIn(d, f), d \in [Frame -> FrameRec], d[f] = framedb[f]
  PROVE  /\ \A g \in Frame : g # f => framedb'[g] = d[g]
         /\ framedb'[f].has_hash => framedb[f].has_hash /\ framedb'[f].hash = framedb[f].hash
<1>1. framedb[f] \in FrameRec /\ ~FreeRec.has_hash
  BY Zenon, Types DEF PgInv, DbInv, FreeRec
<1>2. CASE framedb' = [d EXCEPT ![f] = FreeRec]
  BY <1>1, <1>2
<1>3. CASE framedb' = [d EXCEPT ![f] = [framedb[f] EXCEPT !.refcount = framedb[f].refcount - 1]]
  <2> DEFINE a == [framedb[f] EXCEPT !.refcount = framedb[f].refcount - 1]
  <2>1. a.hash = framedb[f].hash /\ (a.has_hash <=> framedb[f].has_hash)
    BY Zenon, <1>1 DEF FrameRec
  <2> HIDE DEF a
  <2>2. framedb' = [d EXCEPT ![f] = a]
    BY <1>3 DEF a
  <2> QED BY Zenon, <2>1, <2>2
<1> QED BY Zenon, <1>2, <1>3 DEF DropsIn

LEMMA UnmapSharedContent ==
  ASSUME PgInv, stage = "paging", NEW p \in Page, NEW drop \in BOOLEAN, UnmapShared(p, drop), stage' = stage
  PROVE  BindsOK' /\ ContentOK'
<1> DEFINE f == pte[p].frame
<1>1. /\ Shared(p) /\ pte' = [pte EXCEPT ![p] = NotPresent]
      /\ val' = [val EXCEPT ![p] = IF InA(p) THEN val[p] ELSE None]
      /\ UNCHANGED <<clock_hand, mem, store, pf_bindA, pf_anon, written, leaked>>
  BY DEF UnmapShared
<1>2. /\ BindsOK /\ ContentOK /\ pte \in [Page -> PteRec] /\ val \in [Page -> Content \cup {None}]
      /\ framedb \in [Frame -> FrameRec] /\ mem \in [Frame -> Content]
  BY Zenon, Types DEF PgInv, DbInv, TypeOK
<1>3. f \in Frame /\ framedb[f].has_hash
  BY Zenon, <1>1, SharedRef DEF PgInv
<1>4. BindsOK' /\ \A q \in Page : (InA(q)' <=> InA(q)) /\ pf_bindA_lookup(q)' = pf_bindA_lookup(q)
  BY <1>1, <1>2, BindsSame
<1>5. StoreKept
  BY Zenon, <1>1, StoreSame
<1>6. DropsIn(framedb, f)
  BY Zenon, UnmapSharedDb DEF PgInv
<1>7. /\ p \notin pf_anon /\ mem[f] = val[p] /\ InStore(Hash(val[p])) /\ val[p] \in Content
      /\ InA(p) => pf_bindA_lookup(p) = Hash(val[p])
  <2>1. p \notin pf_anon /\ mem[f] = val[p] /\ (InA(p) => pf_bindA_lookup(p) = Hash(val[p]))
    BY Zenon, <1>1, <1>2 DEF ContentOK, PageOK
  <2>2. framedb[f].hash = Hash(mem[f]) /\ InStore(framedb[f].hash)
    BY Zenon, <1>2, <1>3 DEF ContentOK, FrameOK
  <2> QED BY Zenon, <1>2, <1>3, <2>1, <2>2
<1> HIDE DEF f
<1>8. \A q \in Page : q # p => PageLeft(q)
  BY <1>1, <1>2, <1>4 DEF PageLeft
<1>9. PageOK(p)'
  <2>1. /\ pte'[p] = NotPresent /\ NotPresent.tag = "none" /\ p \notin pf_anon'
        /\ val'[p] = IF InA(p) THEN val[p] ELSE None
    BY Zenon, <1>1, <1>2, <1>7 DEF NotPresent
  <2>2. ~Mapped(p)' /\ ~Private(p)' /\ ~Shared(p)' /\ (Bound(p)' <=> InA(p))
        /\ Resolve(p)' = pf_bindA_lookup(p)
    BY Zenon, <1>4, <2>1 DEF Mapped, Private, Shared, Bound, Resolve
  <2>3. CASE InA(p)
    <3>1. val'[p] = val[p]
      BY Zenon, <2>1, <2>3
    <3>2. InStore(Hash(val[p]))'
      BY <1>1, <1>7, <3>1 DEF InStore, Hash
    <3>3. Resolve(p)' = Hash(val[p])'
      BY Zenon, <1>7, <2>2, <2>3, <3>1 DEF Hash
    <3> QED BY Zenon, <1>7, <2>1, <2>2, <2>3, <3>1, <3>2, <3>3 DEF PageOK
  <2>4. CASE ~InA(p)
    BY Zenon, <1>4, <2>1, <2>2, <2>4 DEF PageOK
  <2> QED BY Zenon, <2>3, <2>4
<1>10. \A g \in Frame : FrameOK(g)'
  <2>1. /\ \A g \in Frame : g # f => framedb'[g] = framedb[g]
        /\ framedb'[f].has_hash => framedb[f].has_hash /\ framedb'[f].hash = framedb[f].hash
    BY Zenon, <1>2, <1>3, <1>6, DropFrames
  <2>2. \A g \in Frame : mem'[g] = mem[g] /\
          (framedb'[g].has_hash => framedb[g].has_hash /\ framedb'[g].hash = framedb[g].hash)
    BY Zenon, <1>1, <2>1
  <2> QED BY Zenon, <1>2, <1>5, <2>2, FrameKept DEF ContentOK
<1> QED BY <1>1, <1>4, <1>5, <1>8, <1>9, <1>10, PageStep

LEMMA CopyOnWriteContent ==
  ASSUME PgInv, stage = "paging", NEW p \in Page, NEW c \in Content, CopyOnWrite(p, c), stage' = stage
  PROVE  BindsOK' /\ ContentOK'
<1> DEFINE f == pte[p].frame
           n == Reserved(pool)
           s == frame_reserve(pool)
<1>1. /\ Shared(p) /\ CanReserve(pool) /\ pte' = [pte EXCEPT ![p] = Mapping(n, TRUE)]
      /\ mem' = [mem EXCEPT ![n] = c] /\ val' = [val EXCEPT ![p] = c]
      /\ UNCHANGED <<clock_hand, store, pf_bindA, pf_anon, written, leaked>>
  BY Zenon DEF CopyOnWrite
<1>2. /\ BindsOK /\ ContentOK /\ pte \in [Page -> PteRec] /\ val \in [Page -> Content \cup {None}]
      /\ framedb \in [Frame -> FrameRec] /\ mem \in [Frame -> Content]
  BY Zenon, Types DEF PgInv, DbInv, TypeOK
<1>3. f \in Frame /\ framedb[f].has_hash
  BY Zenon, <1>1, SharedRef DEF PgInv
<1>4. /\ n \in Frame /\ framedb[n] = FreeRec /\ s \in Pool
      /\ s.db = [framedb EXCEPT ![n] = FreshRec] /\ ~FreshRec.has_hash /\ ~FreeRec.has_hash
  BY Zenon, <1>1, Fresh DEF PgInv, FreeRec
<1>5. \A q \in Page : Mapped(q) => pte[q].frame # n /\ pte[q].frame \in Frame
  BY Zenon, <1>4, FreeUnowned DEF PgInv, DbInv, MapsOK
<1>6. DropsIn(s.db, f)
  BY Zenon, CopyOnWriteDb DEF PgInv
<1> HIDE DEF f, n, s
<1>7. BindsOK' /\ \A q \in Page : (InA(q)' <=> InA(q)) /\ pf_bindA_lookup(q)' = pf_bindA_lookup(q)
  BY <1>1, <1>2, BindsSame
<1>8. StoreKept
  BY Zenon, <1>1, StoreSame
<1>9. \A q \in Page : q # p => PageLeft(q)
  BY Zenon, <1>1, <1>2, <1>5, <1>7 DEF PageLeft
<1>10. PageOK(p)'
  <2>1. pte'[p] = Mapping(n, TRUE) /\ Mapping(n, TRUE).tag = "map" /\ Mapping(n, TRUE).frame = n /\ Mapping(n, TRUE).rw
    BY Zenon, <1>1, <1>2, <1>4, MappingType
  <2>2. Mapped(p)' /\ ~Shared(p)' /\ pte'[p].frame = n
    BY Zenon, <2>1 DEF Mapped, Shared
  <2>3. val'[p] = c /\ mem'[n] = c
    BY Zenon, <1>1, <1>2, <1>4
  <2> QED BY Zenon, <2>2, <2>3 DEF PageOK
<1>11. \A g \in Frame : FrameOK(g)'
  <2>1. s.db \in [Frame -> FrameRec] /\ s.db[n] = FreshRec /\ f # n /\ \A g \in Frame : g # n => s.db[g] = framedb[g]
    BY Zenon, <1>2, <1>3, <1>4 DEF Pool
  <2>2. /\ \A g \in Frame : g # f => framedb'[g] = s.db[g]
        /\ framedb'[f].has_hash => framedb[f].has_hash /\ framedb'[f].hash = framedb[f].hash
    BY Zenon, <1>3, <1>6, <2>1, DropFrames
  <2>3. \A g \in Frame : g # n => mem'[g] = mem[g] /\
          (framedb'[g].has_hash => framedb[g].has_hash /\ framedb'[g].hash = framedb[g].hash)
    BY Zenon, <1>1, <1>2, <2>1, <2>2
  <2>4. \A g \in Frame : g # n => FrameOK(g)'
    BY Zenon, <1>2, <1>8, <2>3, FrameKept DEF ContentOK
  <2>5. \A g \in Frame : g = n => FrameOK(g)'
    BY Zenon, <1>4, <2>1, <2>2 DEF FrameOK
  <2> QED BY Zenon, <2>4, <2>5
<1> QED BY Zenon, <1>1, <1>7, <1>8, <1>9, <1>10, <1>11, PageStep

(* The frame of a private page that is unmapped. *)
LEMMA ReleasedFrames ==
  ASSUME PgInv, NEW p \in Page, Private(p), SetPool(frame_release_physical(pool, pte[p].frame)), mem' = mem,
         StoreKept, stage = "paging"
  PROVE  \A g \in Frame : FrameOK(g)'
<1> DEFINE f == pte[p].frame
<1>1. f \in Frame /\ framedb[f].state = "RESIDENT"
  BY Zenon DEF Private, PgInv, DbInv, MapsOK
<1>2. pool \in Pool /\ pool.db = framedb /\ framedb \in [Frame -> FrameRec] /\ ContentOK
  BY Zenon, Types DEF PgInv, DbInv
<1>3. framedb' = [framedb EXCEPT ![f] = FreeRec]
  BY Zenon, <1>1, <1>2, ReleaseConserves DEF SetPool, PgInv, DbInv
<1> HIDE DEF f
<1>4. \A g \in Frame : framedb'[g].has_hash => framedb[g].has_hash /\ framedb'[g].hash = framedb[g].hash
  BY Zenon, <1>1, <1>2, <1>3 DEF FreeRec
<1> QED BY Zenon, <1>2, <1>4, FrameKept DEF ContentOK

LEMMA DiscardContent ==
  ASSUME PgInv, stage = "paging", NEW p \in Page, Discard(p), stage' = stage
  PROVE  BindsOK' /\ ContentOK'
<1>1. /\ Private(p) /\ ~InA(p) /\ pte' = [pte EXCEPT ![p] = NotPresent]
      /\ SetPool(frame_release_physical(pool, pte[p].frame))
      /\ val' = [val EXCEPT ![p] = IF p \in pf_anon THEN Zero ELSE None]
      /\ UNCHANGED <<rset, clock_hand, mem, store, pf_bindA, pf_anon, written, leaked>>
  BY Zenon DEF Discard
<1>2. /\ BindsOK /\ ContentOK /\ pte \in [Page -> PteRec] /\ val \in [Page -> Content \cup {None}]
  BY Zenon, Types DEF PgInv, DbInv, TypeOK
<1>3. BindsOK' /\ \A q \in Page : (InA(q)' <=> InA(q)) /\ pf_bindA_lookup(q)' = pf_bindA_lookup(q)
  BY Zenon, <1>1, <1>2, BindsSame
<1>4. StoreKept
  BY Zenon, <1>1, StoreSame
<1>5. \A q \in Page : q # p => PageLeft(q)
  BY Zenon, <1>1, <1>2, <1>3 DEF PageLeft
<1>6. PageOK(p)'
  <2>1. /\ pte'[p] = NotPresent /\ NotPresent.tag = "none" /\ (p \in pf_anon' <=> p \in pf_anon)
        /\ val'[p] = IF p \in pf_anon THEN Zero ELSE None
    BY Zenon, <1>1, <1>2 DEF NotPresent
  <2>2. ~Mapped(p)' /\ ~Private(p)' /\ ~Shared(p)' /\ ~Bound(p)'
    BY Zenon, <1>1, <1>3, <2>1 DEF Mapped, Private, Shared, Bound
  <2> QED BY Zenon, <2>1, <2>2 DEF PageOK
<1>7. \A g \in Frame : FrameOK(g)'
  BY Zenon, <1>1, <1>4, ReleasedFrames
<1> QED BY Zenon, <1>1, <1>3, <1>4, <1>5, <1>6, <1>7, PageStep

(* Paging out p also ends the anonymous ranges: their unmapped pages have no content
   to lose, and their mapped ones keep it in their frames. *)
LEMMA PageOutContent ==
  ASSUME PgInv, Room, stage = "paging", NEW p \in Page, PageOut(p), stage' = stage
  PROVE  BindsOK' /\ ContentOK'
<1>0. PICK c : c = mem[pte[p].frame]
  OBVIOUS
<1>1. /\ Private(p) /\ ~InA(p) /\ pte' = [pte EXCEPT ![p] = NotPresent]
      /\ SetPool(frame_release_physical(pool, pte[p].frame))
      /\ store' = Put(c) /\ pf_anon' = {}
      /\ val' = [q \in Page |-> IF q \in pf_anon /\ ~Mapped(q) THEN None ELSE val[q]]
      /\ UNCHANGED <<rset, clock_hand, mem, written, leaked>>
  BY Zenon, <1>0 DEF PageOut, Room
<1>2. /\ TypeOK /\ BindsOK /\ ContentOK /\ pte \in [Page -> PteRec]
      /\ val \in [Page -> Content \cup {None}] /\ mem \in [Frame -> Content]
  BY Zenon, Types DEF PgInv, DbInv, TypeOK
<1>3. pte[p].frame \in Frame /\ Mapped(p)
  BY Zenon, <1>1 DEF Private, PgInv, DbInv, MapsOK
<1>4. c \in Content /\ c = val[p]
  BY Zenon, <1>0, <1>1, <1>2, <1>3 DEF ContentOK, PageOK
<1>5. pf_bindA' = pf_bindA_add(p, Hash(c))
  <2>1. PICK h \in PutYields(c) : pf_bindA' = pf_bindA_add(p, h)
    BY Zenon, <1>0 DEF PageOut
  <2>2. h = Hash(c)
    BY <1>2, <1>4, PutSucceeds
  <2> QED BY Zenon, <2>1, <2>2
<1>6. Hash(c) \in Hashes \cup {NoHash}
  BY Zenon, <1>4 DEF Hashes
<1>7. /\ \A i, j \in DOMAIN pf_bindA' : pf_bindA'[i].page = pf_bindA'[j].page => i = j
      /\ InA(p)' /\ pf_bindA_lookup(p)' = Hash(c)
      /\ \A q \in Page : q # p => /\ InA(q)' <=> InA(q)
                                  /\ InA(q) => pf_bindA_lookup(q)' = pf_bindA_lookup(q)
  BY Zenon, <1>1, <1>2, <1>5, <1>6, BindAdds
<1>8. BindsOK'
  BY Zenon, <1>1, <1>7 DEF BindsOK
<1>9. StoreKept /\ InStore(Hash(c))'
  BY Zenon, <1>1, <1>2, <1>4, StorePut
<1>10. PageOK(p)'
  <2>1. pte'[p] = NotPresent /\ NotPresent.tag = "none" /\ p \notin pf_anon' /\ val'[p] = c
    BY Zenon, <1>1, <1>2, <1>3, <1>4 DEF NotPresent
  <2>2. ~Mapped(p)' /\ ~Private(p)' /\ ~Shared(p)' /\ Bound(p)' /\ Resolve(p)' = Hash(c)
    BY Zenon, <1>7, <2>1 DEF Mapped, Private, Shared, Bound, Resolve
  <2>3. InStore(Hash(val[p]))'
    BY Zenon, <1>9, <2>1 DEF InStore, Hash
  <2> QED BY Zenon, <1>4, <2>1, <2>2, <2>3 DEF PageOK
<1>11. ASSUME NEW q \in Page, q # p
       PROVE  PageOK(q)'
  <2>1. pte'[q] = pte[q] /\ q \notin pf_anon' /\ (InA(q)' <=> InA(q))
        /\ val'[q] = IF q \in pf_anon /\ ~Mapped(q) THEN None ELSE val[q]
    BY Zenon, <1>1, <1>2, <1>7, <1>11
  <2>2. PageOK(q)
    BY Zenon, <1>2 DEF ContentOK
  <2>3. CASE q \notin pf_anon
    <3>1. PageLeft(q)
      BY Zenon, <1>1, <1>7, <1>11, <2>1, <2>3 DEF PageLeft
    <3> QED BY Zenon, <1>9, <2>2, <3>1, PageKept
  <2>4. CASE q \in pf_anon /\ Mapped(q)
    <3>1. ~Shared(q) /\ Private(q) /\ mem[pte[q].frame] = val[q]
      BY Zenon, <2>2, <2>4 DEF PageOK, Shared, Private
    <3>2. Mapped(q)' /\ ~Shared(q)' /\ Private(q)'
      BY Zenon, <2>1, <2>4, <3>1 DEF Mapped, Shared, Private
    <3> QED BY Zenon, <1>1, <2>1, <2>4, <3>1, <3>2 DEF PageOK
  <2>5. CASE q \in pf_anon /\ ~Mapped(q)
    <3>1. pte'[q] = NotPresent /\ NotPresent.tag = "none" /\ val'[q] = None
      BY Zenon, <2>1, <2>2, <2>5 DEF PageOK, NotPresent
    <3>2. ~InA(q)'
      BY Zenon, <1>2, <2>1, <2>5 DEF BindsOK
    <3>3. ~Mapped(q)' /\ ~Private(q)' /\ ~Shared(q)' /\ ~Bound(q)'
      BY Zenon, <3>1, <3>2 DEF Mapped, Private, Shared, Bound
    <3> QED BY Zenon, <2>1, <3>1, <3>2, <3>3 DEF PageOK
  <2> QED BY Zenon, <2>3, <2>4, <2>5
<1>12. \A g \in Frame : FrameOK(g)'
  BY Zenon, <1>1, <1>9, ReleasedFrames
<1>13. \A d \in written' : InStore(Hash(d))'
  BY Zenon, <1>1, <1>2, <1>9 DEF ContentOK, StoreKept, InStore, Hash
<1> QED BY Zenon, <1>8, <1>10, <1>11, <1>12, <1>13 DEF ContentOK


(* An eviction: pages keep what they show, and a clean frame is only given up. *)
LEMMA EvictContent ==
  ASSUME PgInv, Room, evict_one, stage' = stage
  PROVE  BindsOK' /\ ContentOK'
<1>1. /\ TypeOK /\ BindsOK /\ ContentOK /\ rset # <<>> /\ Len(rset) \in Nat /\ mem \in [Frame -> Content]
      /\ stage \in {"m3", "paging"}
  BY Zenon, Types DEF PgInv, DbInv, TypeOK, evict_one
<1>2. UNCHANGED <<mem, pte, pf_bindA, pf_anon, val, written>>
  BY Zenon DEF evict_one, EvictNothing, EvictVictim
<1>3. StoreKept
  <2>1. CASE store' = store
    BY <2>1, StoreSame
  <2>2. ASSUME NEW k \in Visits, EvictVictim(k), store' # store
        PROVE  StoreKept
    <3>1. rset[Slot(k)].frame \in Frame
      BY <1>1, SlotIn, Entries DEF PgInv, DbInv, Visits
    <3>2. mem[rset[Slot(k)].frame] \in Content /\ store' = Put(mem[rset[Slot(k)].frame])
      BY Zenon, <1>1, <2>2, <3>1 DEF EvictVictim
    <3> QED BY <1>1, <3>2, StorePut
  <2> QED BY Zenon, <2>1, <2>2 DEF evict_one, EvictNothing
<1>4. BindsOK' /\ \A q \in Page : (InA(q)' <=> InA(q)) /\ pf_bindA_lookup(q)' = pf_bindA_lookup(q)
  BY Zenon, <1>1, <1>2, BindsSame
<1>5. \A q \in Page : PageOK(q)'
  <2>1. \A q \in Page : PageLeft(q)
    BY Zenon, <1>2, <1>4 DEF PageLeft
  <2> QED BY <1>1, <1>3, <2>1, PageKept DEF ContentOK
<1>6. stage = "paging" => \A g \in Frame : FrameOK(g)'
  <2> SUFFICES ASSUME stage = "paging"
               PROVE  \A g \in Frame : FrameOK(g)'
    BY Zenon
  <2>1. written = {}
    BY Zenon DEF PgInv, DbInv, StageOK
  <2>2. HashesKept
    BY <2>1, EvictDb DEF PgInv
  <2> QED BY Zenon, <1>1, <1>2, <1>3, <2>2, FrameKept DEF ContentOK, HashesKept
<1>7. \A d \in written' : InStore(Hash(d))'
  BY Zenon, <1>1, <1>2, <1>3 DEF ContentOK, StoreKept, InStore, Hash
<1> QED BY Zenon, <1>4, <1>5, <1>6, <1>7 DEF ContentOK

(* In the stage that writes frames in place no page has content, and what is written is
   published first. *)
LEMMA InPlaceContent ==
  ASSUME PgInv, Room, stage = "m3", InPlace, stage' = stage
  PROVE  BindsOK' /\ ContentOK'
<1>1. TypeOK /\ BindsOK /\ ContentOK /\ (\A q \in Page : pte[q] = NotPresent)
  BY DEF PgInv, DbInv, StageOK
<1>2. UNCHANGED <<pte, pf_bindA, pf_anon, val>>
  BY Zenon DEF InPlace, M3Write, Publish, ColdTouch
<1>3. StoreKept /\ \A d \in written' : d \in written \/ InStore(Hash(d))'
  <2>1. ASSUME NEW h \in Hashes, NEW c \in Content, M3Write(h, c)
        PROVE  StoreKept /\ \A d \in written' : d \in written \/ InStore(Hash(d))'
    <3>1. store' = Put(c) /\ written' = written \cup {c}
      BY <2>1 DEF M3Write
    <3>2. StoreKept /\ InStore(Hash(c))'
      BY Zenon, <1>1, <3>1, StorePut
    <3> QED BY <3>1, <3>2
  <2>2. ASSUME NEW c \in Content, Publish(c)
        PROVE  StoreKept /\ written' = written
    BY <1>1, <2>2, StorePut DEF Publish
  <2>3. ASSUME NEW c \in Content, ColdTouch(Hash(c))
        PROVE  StoreKept /\ written' = written
    BY Zenon, <2>3, StoreSame DEF ColdTouch
  <2> QED BY Zenon, <2>1, <2>2, <2>3 DEF InPlace
<1>4. BindsOK' /\ \A q \in Page : (InA(q)' <=> InA(q)) /\ pf_bindA_lookup(q)' = pf_bindA_lookup(q)
  BY Zenon, <1>1, <1>2, BindsSame
<1>5. \A q \in Page : PageOK(q)'
  <2>1. \A q \in Page : ~Mapped(q)
    BY <1>1 DEF Mapped, NotPresent
  <2>2. \A q \in Page : PageLeft(q)
    BY Zenon, <1>2, <1>4, <2>1 DEF PageLeft
  <2> QED BY <1>1, <1>3, <2>2, PageKept DEF ContentOK
<1>6. \A d \in written' : InStore(Hash(d))'
  BY Zenon, <1>1, <1>3 DEF ContentOK, StoreKept, InStore, Hash
<1> QED BY Zenon, <1>4, <1>5, <1>6 DEF ContentOK

-----------------------------------------------------------------------------
LEMMA InitPg ==
  ASSUME Init
  PROVE  PgInv
<1>1. /\ pte = [p \in Page |-> NotPresent] /\ pf_bindA = <<>> /\ pf_anon = {} /\ written = {}
      /\ val = [p \in Page |-> None] /\ framedb = [f \in Frame |-> FreeRec]
  BY Zenon DEF Init, PoolInit
<1>2. NotPresent.tag = "none" /\ ~FreeRec.has_hash
  BY Zenon DEF NotPresent, FreeRec
<1>3. \A p \in Page : ~InA(p) /\ ~Mapped(p) /\ ~Private(p) /\ ~Shared(p) /\ ~Bound(p)
  BY SMTT(30), <1>1, <1>2 DEF InA, Mapped, Private, Shared, Bound
<1>4. BindsOK
  BY SMTT(30), <1>1, <1>3 DEF BindsOK
<1>5. \A p \in Page : PageOK(p)
  BY Zenon, <1>1, <1>3 DEF PageOK
<1>6. \A f \in Frame : FrameOK(f)
  BY Zenon, <1>1, <1>2 DEF FrameOK
<1> QED BY <1>1, <1>4, <1>5, <1>6, InitDb DEF PgInv, ContentOK

LEMMA NextPg ==
  ASSUME PgInv, Room, [Next]_vars
  PROVE  PgInv'
<1>1. DbInv'
  BY Zenon, NextDb DEF PgInv, Room
<1>2. CASE UNCHANGED vars
  <2>1. UNCHANGED <<stage, framedb, mem, store, pte, pf_bindA, pf_anon, val, written>>
    BY Zenon, <1>2 DEF vars, mgr
  <2>2. BindsOK /\ ContentOK
    BY DEF PgInv
  <2>3. BindsOK' /\ \A q \in Page : (InA(q)' <=> InA(q)) /\ pf_bindA_lookup(q)' = pf_bindA_lookup(q)
    BY <2>1, <2>2, BindsSame
  <2>4. StoreKept
    BY Zenon, <2>1, StoreSame
  <2>5. \A q \in Page : PageLeft(q)
    BY Zenon, <2>1, <2>3 DEF PageLeft
  <2>6. \A q \in Page : PageOK(q)'
    BY <2>2, <2>4, <2>5, PageKept DEF ContentOK
  <2>7. stage' = "paging" => \A f \in Frame : FrameOK(f)'
    BY Zenon, <2>1, <2>2, <2>4, FrameKept DEF ContentOK
  <2>8. \A d \in written' : InStore(Hash(d))'
    BY Zenon, <2>1, <2>2, <2>4 DEF ContentOK, StoreKept, InStore, Hash
  <2> QED BY <1>1, <2>3, <2>6, <2>7, <2>8 DEF PgInv, ContentOK
<1>3. CASE Next /\ evict_one
  BY Zenon, <1>1, <1>3, EvictContent DEF Next, PgInv
<1>4. CASE Next /\ stage = "m3" /\ InPlace
  BY <1>1, <1>4, InPlaceContent DEF Next, PgInv
<1>5. CASE Next /\ stage = "paging" /\ Paging
  <2>1. stage' = stage
    BY <1>5 DEF Next
  <2>2. CASE \E p \in Page, c \in Content : BindA(p, c) \/ ArmB(p, c) \/ Write(p, c) \/ CopyOnWrite(p, c)
    BY Zenon, <1>1, <1>5, <2>1, <2>2, BindAContent, ArmBContent, WriteContent, CopyOnWriteContent DEF PgInv
  <2>3. CASE \E p \in Page : pf_anon_add(p) \/ FaultAnon(p) \/ FaultBound(p) \/ PageOut(p) \/ Discard(p)
    BY Zenon, <1>1, <1>5, <2>1, <2>3, AnonAddContent, FaultAnonContent, FaultBoundContent, PageOutContent,
       DiscardContent DEF PgInv
  <2>4. CASE \E p \in Page, drop \in BOOLEAN : UnmapShared(p, drop)
    BY Zenon, <1>1, <1>5, <2>1, <2>4, UnmapSharedContent DEF PgInv
  <2>5. CASE \E h \in Hashes, c \in Content : Tamper(h, c)
    BY <1>1, <1>5, <2>1, <2>5, TamperContent DEF PgInv
  <2> QED BY Zenon, <1>5, <2>2, <2>3, <2>4, <2>5 DEF Paging
<1> QED BY <1>2, <1>3, <1>4, <1>5 DEF Next

LEMMA PgInvKeeps ==
  ASSUME PgInv
  PROVE  ContentKept /\ WritebackBeforeReuse
<1>1. \A p \in Page : PageOK(p)
  BY Zenon DEF PgInv, ContentOK
<1>2. VerifiedContent
  BY Zenon, <1>1 DEF VerifiedContent, PageOK, Private, Shared
<1>3. SwapKeepsContent
  BY Zenon, <1>1 DEF SwapKeepsContent, PageOK
<1>4. WritebackBeforeReuse
  BY Zenon DEF WritebackBeforeReuse, PgInv, ContentOK
<1> QED BY Zenon, <1>2, <1>3, <1>4 DEF ContentKept

(* A mapped page shows what its owner last put there, and a page that was paged out,
   unmapped or evicted is bound to that content and the store has it (pf_service, PM2,
   PM3, evict_one), though bytes of the store's arena are flipped, mappings fail and
   frames are shared and reclaimed on the way. *)
THEOREM PagesKeepContent ==
  ASSUME Room
  PROVE  Spec => []ContentKept
<1>1. Init => PgInv
  BY Zenon, InitPg
<1>2. PgInv /\ [Next]_vars => PgInv'
  BY Zenon, NextPg
<1>3. PgInv => ContentKept
  BY PgInvKeeps
<1> QED BY <1>1, <1>2, <1>3, PTL DEF Spec

(* What run_m3 wrote into a cached frame is in the store whenever evict_one has given
   the frame away. *)
THEOREM NothingWrittenIsLost ==
  ASSUME Room
  PROVE  Spec => []WritebackBeforeReuse
<1>1. Init => PgInv
  BY Zenon, InitPg
<1>2. PgInv /\ [Next]_vars => PgInv'
  BY Zenon, NextPg
<1>3. PgInv => WritebackBeforeReuse
  BY Zenon, PgInvKeeps
<1> QED BY <1>1, <1>2, <1>3, PTL DEF Spec
=============================================================================
