-------------------------- MODULE MigrationProofs --------------------------
(* What the two machines of Migration rely on, proved for every set of objects,
   every set of trees and any number of rounds, with corruption and timeouts. *)
EXTENDS Migration, FiniteSetTheorems, TLAPS

Walking == bpc \in {"walk", "announce", "block"}
Wanting == bpc = "block" \/ (bpc = "announce" /\ REQ.op = "WANT")
Serving == apc \in {"serve", "expired"}

(* RSP holds the answer to the WANT that B has made, its bytes intact unless A
   has corrupted a block. *)
Answered ==
  /\ RSP.op = "BLOCK" /\ RSP.pay.of = want /\ RSP.kids = Kids[want]
  /\ RSP.pay.intact \/ tampered
Advertised == RSP.op = "ADV" /\ RSP.hash = Roots[b_round]

Shape ==
  /\ tree \in Trees
  /\ seqA \in Nat /\ seqB \in Nat /\ a_last \in Nat /\ b_last \in Nat
  /\ apc \in {"build", "advertise", "bump", "serve", "finished", "expired"}
  /\ bpc \in {"enter", "adv", "walk", "announce", "block", "halted", "expired"}
  /\ a_round \in 0..Len(Roots) /\ b_round \in 1..(Len(Roots) + 1)
  /\ ws \in Seq(Object) /\ Len(ws) <= WS_MAX /\ storeB \subseteq Object
  /\ tampered \in BOOLEAN

(* Where the machines are in their rounds: B is a round ahead from its DONE until
   A builds the next tree. *)
Rounds ==
  /\ apc # "build" => a_round >= 1
  /\ apc \in {"build", "finished"} => b_round = a_round + 1
  /\ apc \in {"advertise", "bump"} => b_round = a_round
  /\ Serving => b_round \in {a_round, a_round + 1}
  /\ ~Serving => seqB = b_last
  /\ Serving /\ b_round # a_round => seqB = b_last + 1 /\ REQ.op = "DONE"
  /\ Serving /\ b_round = a_round /\ seqB # b_last => REQ.op = "WANT" /\ (bpc = "block" \/ BStopped)

(* What B waits for, and what the channel holds by then. *)
Turn ==
  /\ bpc \in {"enter", "adv"} => ws = <<>>
  /\ bpc = "enter" => apc # "bump" /\ (Serving => b_round # a_round)
  /\ bpc = "adv" =>
       IF Serving /\ b_round = a_round THEN seqA = a_last + 1 /\ Advertised
       ELSE seqA = a_last /\ (apc = "bump" => Advertised)
  /\ Walking => b_round = a_round /\ (Serving \/ (apc = "bump" /\ bpc = "block"))
  /\ bpc \in {"walk", "announce"} => seqA = a_last /\ seqB = b_last
  /\ bpc = "announce" => REQ.op = "WANT" \/ (REQ.op = "DONE" /\ ws = <<>>)
  /\ Wanting => REQ.op = "WANT" /\ REQ.hash = want
  /\ bpc = "block" =>
       \/ Serving /\ seqA = a_last /\ seqB = b_last + 1
       \/ apc = "bump" /\ seqA = a_last /\ Answered
       \/ Serving /\ seqA = a_last + 1 /\ seqB = b_last /\ Answered

(* What B walks over is of the tree advertised. *)
Members ==
  /\ Walking => \A i \in DOMAIN ws : ws[i] \in Closure(Roots[b_round])
  /\ Wanting => want \in Closure(Roots[b_round])
  /\ OnlyAdvertised

LockInv == Shape /\ Rounds /\ Turn /\ Members
-----------------------------------------------------------------------------
LEMMA SameTree ==
  ASSUME tree' = tree
  PROVE  Kids' = Kids /\ Roots' = Roots /\ \A o : Closure(o)' = Closure(o)
BY Zenon DEF Kids, Roots, Closure, Closed

LEMMA TreeShape ==
  ASSUME Shape
  PROVE  Kids \in [Object -> Seq(Object)] /\ Roots \in Seq(Object) /\ Len(Roots) \in Nat
BY MigrationAssumption DEF Shape, Kids, Roots

LEMMA ClosureSelf ==
  ASSUME NEW o \in Object
  PROVE  o \in Closure(o) /\ Closure(o) \subseteq Object
BY Zenon DEF Closure

LEMMA ClosureStep ==
  ASSUME Kids \in [Object -> Seq(Object)], NEW o \in Object, NEW x \in Closure(o), NEW i \in DOMAIN Kids[x]
  PROVE  Kids[x][i] \in Closure(o)
<1>1. x \in Object
  BY Zenon DEF Closure
<1>2. Kids[x][i] \in Object
  BY <1>1
<1>3. ASSUME NEW S \in SUBSET Object, o \in S, Closed(S)
      PROVE  Kids[x][i] \in S
  <2>1. x \in S
    BY Zenon, <1>3 DEF Closure
  <2> QED BY Zenon, <2>1, <1>3 DEF Closed, Range
<1> QED BY Zenon, <1>2, <1>3 DEF Closure

LEMMA ClosureLeast ==
  ASSUME NEW o, NEW S \in SUBSET Object, o \in S, Closed(S)
  PROVE  Closure(o) \subseteq S
BY Zenon DEF Closure

(* A set of naturals that is not empty has a least member. *)
LEMMA Least ==
  ASSUME NEW S \in SUBSET Nat, S # {}
  PROVE  \E m \in S : \A n \in S : m <= n
<1> DEFINE T == {1..n : n \in S}
<1>1. T \subseteq FiniteSubsetsOf(Nat) /\ T # {}
  <2>1. \A n \in S : IsFiniteSet(1..n) /\ 1..n \in SUBSET Nat
    BY FS_Interval
  <2> QED BY Zenon, <2>1 DEF FiniteSubsetsOf
<1>2. PICK X \in T : \A Y \in T : ~(<<Y, X>> \in StrictSubsetOrdering(Nat))
  BY Zenon, <1>1, FS_StrictSubsetOrderingWellFounded, WFMin
<1>3. PICK m \in S : X = 1..m
  BY Zenon
<1>4. ASSUME NEW n \in S, n < m
      PROVE  FALSE
  <2>1. 1..n \subseteq 1..m /\ m \in 1..m /\ m \notin 1..n
    BY <1>4
  <2>2. 1..n \in T /\ 1..n \in SUBSET Nat /\ 1..m \in SUBSET Nat
    OBVIOUS
  <2>3. <<1..n, 1..m>> \in StrictSubsetOrdering(Nat)
    BY Zenon, <2>1, <2>2 DEF StrictSubsetOrdering
  <2> QED BY Zenon, <1>2, <1>3, <2>2, <2>3
<1> QED BY <1>4

(* Lacking lists exactly the children that are not held. *)
LEMMA LackingIs ==
  ASSUME NEW kids \in Seq(Object), NEW held
  PROVE  LET l == Lacking(kids, held) IN
         /\ l \in Seq(Object) /\ Len(l) <= Len(kids)
         /\ \A j \in DOMAIN l : \E i \in DOMAIN kids : l[j] = kids[i]
         /\ \A i \in DOMAIN kids : kids[i] \notin held => \E j \in DOMAIN l : l[j] = kids[i]
<1> DEFINE n == Len(kids)
           S == {i \in DOMAIN kids : kids[i] \notin held}
           Upto(i) == {k \in S : k <= i}
           Rank(i) == Cardinality(Upto(i))
           l == Lacking(kids, held)
<1>1. n \in Nat /\ DOMAIN kids = 1..n /\ S \in SUBSET (1..n)
  OBVIOUS
<1>2. IsFiniteSet(S) /\ Cardinality(S) \in Nat /\ Cardinality(S) <= n
  <2>1. IsFiniteSet(1..n) /\ Cardinality(1..n) = n
    <3> HIDE DEF n
    <3>1. 1 \in Int /\ n \in Int
      BY <1>1
    <3>2. IsFiniteSet(1..n) /\ Cardinality(1..n) = IF 1 > n THEN 0 ELSE n - 1 + 1
      BY Zenon, <3>1, FS_Interval
    <3> QED BY <3>2, <1>1
  <2> HIDE DEF S, n
  <2>2. IsFiniteSet(S) /\ Cardinality(S) <= Cardinality(1..n)
    BY Zenon, <1>1, <2>1, FS_Subset
  <2>3. Cardinality(S) \in Nat
    BY Zenon, <2>2, FS_CardinalityType
  <2> QED BY Zenon, <2>1, <2>2, <2>3
<1>3. \A i : Upto(i) \in SUBSET S
  BY Zenon
<1>4. \A i : IsFiniteSet(Upto(i)) /\ Rank(i) \in Nat /\ Rank(i) <= Cardinality(S)
  <2> HIDE DEF S, Upto
  <2> QED BY Zenon, <1>2, <1>3, FS_Subset, FS_CardinalityType
<1>5. Rank(0) = 0 /\ Rank(n) = Cardinality(S)
  <2>1. Upto(0) = {} /\ Upto(n) = S
    BY <1>1
  <2> QED BY Zenon, <2>1, FS_EmptySet
<1>6. ASSUME NEW i \in 1..n
      PROVE  Rank(i) = IF i \in S THEN Rank(i - 1) + 1 ELSE Rank(i - 1)
  <2>1. i \notin Upto(i - 1)
    BY <1>1
  <2>2. Upto(i) = IF i \in S THEN Upto(i - 1) \cup {i} ELSE Upto(i - 1)
    BY <1>1
  <2>3. Cardinality(Upto(i - 1) \cup {i}) = Cardinality(Upto(i - 1)) + 1
    <3> HIDE DEF Upto
    <3> QED BY Zenon, <1>4, <2>1, FS_AddElement
  <2> QED BY Zenon, <2>2, <2>3
<1>7. ASSUME NEW i \in S, NEW k \in S, i < k
      PROVE  Rank(i) < Rank(k)
  <2>1. Upto(i) \in SUBSET Upto(k - 1)
    BY <1>1, <1>7
  <2>2. Cardinality(Upto(i)) <= Cardinality(Upto(k - 1))
    <3> HIDE DEF Upto
    <3> QED BY Zenon, <2>1, <1>4, FS_Subset
  <2>3. Rank(k) = Rank(k - 1) + 1
    BY Zenon, <1>6, <1>1
  <2>4. Rank(i) \in Nat /\ Rank(k - 1) \in Nat
    BY Zenon, <1>4
  <2> HIDE DEF Rank
  <2> QED BY <2>2, <2>3, <2>4 DEF Rank
<1>8. ASSUME NEW j \in 1..Cardinality(S)
      PROVE  \E i \in S : Rank(i) = j
  <2> DEFINE R == {i \in 0..n : Rank(i) >= j}
  <2>1. R \in SUBSET Nat /\ n \in R
    BY <1>1, <1>5, <1>2
  <2>2. PICK i \in R : \A k \in R : i <= k
    <3> HIDE DEF R
    <3> QED BY Zenon, <2>1, Least
  <2>3. i \in 1..n
    <3> HIDE DEF Rank
    <3>1. i \in 0..n /\ Rank(i) >= j /\ j >= 1
      BY <2>2
    <3>2. i # 0
      BY <3>1, <1>5
    <3> QED BY <3>1, <3>2, <1>1
  <2>4. i - 1 \in 0..n /\ i - 1 \notin R
    <3> HIDE DEF R, n
    <3> QED BY <2>2, <2>3, <1>1
  <2>5. Rank(i - 1) < j /\ Rank(i) >= j /\ Rank(i) \in Nat /\ Rank(i - 1) \in Nat
    <3>1. Rank(i) \in Nat /\ Rank(i - 1) \in Nat
      BY Zenon, <1>4
    <3> HIDE DEF Rank
    <3> QED BY <3>1, <2>4, <2>2, <1>2
  <2>6. Rank(i) = IF i \in S THEN Rank(i - 1) + 1 ELSE Rank(i - 1)
    BY Zenon, <2>3, <1>6
  <2> HIDE DEF Rank, S
  <2> QED BY <2>5, <2>6, <1>2
<1> DEFINE At(j) == CHOOSE i \in S : Rank(i) = j
<1>9. l = [j \in 1..Cardinality(S) |-> kids[At(j)]]
  BY Zenon DEF Lacking
<1>10. \A j \in 1..Cardinality(S) : At(j) \in S /\ Rank(At(j)) = j
  <2> HIDE DEF Rank, S
  <2> QED BY Zenon, <1>8
<1>11. l \in Seq(Object) /\ Len(l) = Cardinality(S) /\ DOMAIN l = 1..Cardinality(S)
  <2>1. \A j \in 1..Cardinality(S) : kids[At(j)] \in Object
    <3> HIDE DEF At, S, n, Rank
    <3>1. \A j \in 1..Cardinality(S) : At(j) \in 1..n
      BY Zenon, <1>10, <1>1
    <3>2. \A i \in 1..n : kids[i] \in Object
      BY DEF n
    <3> QED BY Zenon, <3>1, <3>2
  <2> HIDE DEF At, S, l
  <2> QED BY <2>1, <1>9, <1>2
<1>12. \A i \in S : At(Rank(i)) = i /\ Rank(i) \in 1..Cardinality(S)
  <2> TAKE i \in S
  <2>1. Rank(i) = Rank(i - 1) + 1 /\ Rank(i - 1) \in Nat /\ Rank(i) \in Nat /\ Rank(i) <= Cardinality(S)
    BY Zenon, <1>6, <1>4, <1>1
  <2>2. Rank(i) \in 1..Cardinality(S)
    <3> HIDE DEF Rank, S
    <3> QED BY <2>1, <1>2
  <2>3. At(Rank(i)) \in S /\ Rank(At(Rank(i))) = Rank(i)
    <3> HIDE DEF Rank, S, At
    <3> QED BY Zenon, <2>2, <1>10
  <2>4. \A k \in S : Rank(k) = Rank(i) => k = i
    <3> TAKE k \in S
    <3>1. i \in Nat /\ k \in Nat /\ Rank(i) \in Nat /\ Rank(k) \in Nat
      <4>1. i \in Nat /\ k \in Nat
        BY <1>1
      <4> HIDE DEF Rank
      <4> QED BY Zenon, <4>1, <1>4
    <3>2. (i < k => Rank(i) < Rank(k)) /\ (k < i => Rank(k) < Rank(i))
      BY Zenon, <1>7
    <3> HIDE DEF Rank, S
    <3> QED BY <3>1, <3>2
  <2> HIDE DEF Rank, S, At
  <2> QED BY Zenon, <2>2, <2>3, <2>4
<1>13. \A j \in DOMAIN l : \E i \in DOMAIN kids : l[j] = kids[i]
  <2> HIDE DEF At, l, Rank
  <2> QED BY Zenon, <1>9, <1>10, <1>11
<1>14. \A i \in DOMAIN kids : kids[i] \notin held => \E j \in DOMAIN l : l[j] = kids[i]
  <2> TAKE i \in DOMAIN kids
  <2> HAVE kids[i] \notin held
  <2>1. i \in S
    BY Zenon
  <2> HIDE DEF At, l, Rank, S
  <2>2. l[Rank(i)] = kids[i] /\ Rank(i) \in DOMAIN l
    BY Zenon, <2>1, <1>9, <1>12, <1>11
  <2> QED BY Zenon, <2>2
<1>15. Len(l) <= Len(kids)
  <2> HIDE DEF l, S
  <2> QED BY Zenon, <1>2, <1>11
<1> QED BY Zenon, <1>11, <1>13, <1>14, <1>15
-----------------------------------------------------------------------------
(* How the members of B's walk follow from what it walked over before.  S is the
   tree of the round. *)
LEMMA OnlyAdvertisedKept ==
  ASSUME Shape, tree' = tree, OnlyAdvertised, b_round' \in {b_round, b_round + 1}, storeB' = storeB
  PROVE  OnlyAdvertised'
<1>1. Roots' = Roots /\ \A o : Closure(o)' = Closure(o)
  BY Zenon, SameTree
<1>2. \A k \in 1..b_round \cap 1..Len(Roots) : k \in 1..b_round' \cap 1..Len(Roots)
  BY TreeShape DEF Shape
<1> QED BY Zenon, <1>1, <1>2 DEF OnlyAdvertised

LEMMA RootClosure ==
  ASSUME Shape, NEW k \in 1..Len(Roots)
  PROVE  /\ Roots[k] \in Object /\ Roots[k] \in Closure(Roots[k])
         /\ Closure(Roots[k]) \subseteq Object
<1>1. Roots[k] \in Object
  BY TreeShape
<1> QED BY Zenon, <1>1, ClosureSelf

LEMMA LockInit == Init => LockInv
<1> SUFFICES ASSUME Init PROVE LockInv
  BY Zenon
<1>1. Shape
  <2>1. Roots \in Seq(Object) /\ WS_MAX \in Nat \ {0}
    BY Zenon, MigrationAssumption DEF Init, Roots
  <2>2. Len(Roots) \in Nat /\ <<>> \in Seq(Object) /\ Len(<<>>) = 0
    BY <2>1
  <2>3. ws \in Seq(Object) /\ Len(ws) <= WS_MAX
    BY <2>1, <2>2 DEF Init
  <2>4. a_round \in 0..Len(Roots) /\ b_round \in 1..(Len(Roots) + 1)
    BY <2>2 DEF Init
  <2> QED BY Zenon, <2>3, <2>4 DEF Init, Shape
<1>2. Rounds /\ Turn /\ Members
  BY <1>1 DEF Init, Rounds, Turn, Members, OnlyAdvertised, Walking, Wanting, Serving, BStopped
<1> QED BY Zenon, <1>1, <1>2 DEF LockInv

LEMMA BuildLock ==
  ASSUME LockInv, Build
  PROVE  LockInv'
<1>1. tree' = tree /\ Kids' = Kids /\ Roots' = Roots /\ \A o : Closure(o)' = Closure(o)
  BY Zenon, SameTree DEF Build, chan
<1>2. Shape /\ Rounds /\ Turn /\ Members /\ Kids \in [Object -> Seq(Object)] /\ Roots \in Seq(Object) /\ Len(Roots) \in Nat
  BY Zenon, TreeShape DEF LockInv
<1>3. Shape'
  BY <1>1, <1>2 DEF Shape, Rounds, Build, chan, bvars
<1>4. Rounds'
  BY <1>1, <1>2 DEF Shape, Rounds, Turn, Walking, Serving, BStopped, Build, chan, bvars
<1>5. Turn'
  BY Zenon, <1>1, <1>2 DEF Shape, Rounds, Turn, Walking, Wanting, Serving, Answered, Advertised, BStopped, Build, chan, bvars
<1>6. OnlyAdvertised'
  BY Zenon, <1>1, <1>2, OnlyAdvertisedKept DEF Members, Shape, Build, chan, bvars
<1>7. Members'
  BY Zenon, <1>1, <1>2, <1>6 DEF Members, Walking, Wanting, Build, chan, bvars
<1> QED BY Zenon, <1>3, <1>4, <1>5, <1>7 DEF LockInv

LEMMA AdvertiseLock ==
  ASSUME LockInv, BWaits, Advertise
  PROVE  LockInv'
<1>1. tree' = tree /\ Kids' = Kids /\ Roots' = Roots /\ \A o : Closure(o)' = Closure(o)
  BY Zenon, SameTree DEF Advertise, chan
<1>2. Shape /\ Rounds /\ Turn /\ Members /\ Kids \in [Object -> Seq(Object)] /\ Roots \in Seq(Object) /\ Len(Roots) \in Nat
  BY Zenon, TreeShape DEF LockInv
<1>3. Shape'
  BY Zenon, <1>1, <1>2 DEF Shape, Rounds, Advertise, bvars
<1>4. Rounds'
  BY Zenon, <1>1, <1>2 DEF Shape, Rounds, Turn, Walking, Serving, BStopped, Advertise, bvars
<1>5. Turn'
  BY Zenon, <1>1, <1>2 DEF Shape, Rounds, Turn, Walking, Wanting, Serving, Answered, Advertised, BStopped, Advertise, bvars, Message
<1>6. OnlyAdvertised'
  BY Zenon, <1>1, <1>2, OnlyAdvertisedKept DEF Members, Shape, Advertise, bvars
<1>7. Members'
  BY Zenon, <1>1, <1>2, <1>6 DEF Members, Walking, Wanting, Advertise, bvars
<1> QED BY Zenon, <1>3, <1>4, <1>5, <1>7 DEF LockInv

LEMMA BumpALock ==
  ASSUME LockInv, BumpA
  PROVE  LockInv'
<1>1. tree' = tree /\ Kids' = Kids /\ Roots' = Roots /\ \A o : Closure(o)' = Closure(o)
  BY Zenon, SameTree DEF BumpA, chan
<1>2. Shape /\ Rounds /\ Turn /\ Members /\ Kids \in [Object -> Seq(Object)] /\ Roots \in Seq(Object) /\ Len(Roots) \in Nat
  BY Zenon, TreeShape DEF LockInv
<1>3. Shape'
  BY <1>1, <1>2 DEF Shape, Rounds, BumpA, bvars
<1>4. Rounds'
  BY Zenon, <1>1, <1>2 DEF Shape, Rounds, Turn, Walking, Serving, BStopped, BumpA, bvars
<1>5. Turn'
  BY Zenon, <1>1, <1>2 DEF Shape, Rounds, Turn, Walking, Wanting, Serving, Answered, Advertised, BStopped, BumpA, bvars
<1>6. OnlyAdvertised'
  BY Zenon, <1>1, <1>2, OnlyAdvertisedKept DEF Members, Shape, BumpA, bvars
<1>7. Members'
  BY Zenon, <1>1, <1>2, <1>6 DEF Members, Walking, Wanting, BumpA, bvars
<1> QED BY Zenon, <1>3, <1>4, <1>5, <1>7 DEF LockInv

LEMMA ServeDoneLock ==
  ASSUME LockInv, ServeDone
  PROVE  LockInv'
<1>1. tree' = tree /\ Kids' = Kids /\ Roots' = Roots /\ \A o : Closure(o)' = Closure(o)
  BY Zenon, SameTree DEF ServeDone, chan
<1>2. Shape /\ Rounds /\ Turn /\ Members /\ Kids \in [Object -> Seq(Object)] /\ Roots \in Seq(Object) /\ Len(Roots) \in Nat
  BY Zenon, TreeShape DEF LockInv
<1>3. Shape'
  BY Zenon, <1>1, <1>2 DEF Shape, Rounds, ServeDone, chan, bvars
<1>4. Rounds'
  BY Zenon, <1>1, <1>2 DEF Shape, Rounds, Turn, Walking, Serving, BStopped, ServeDone, chan, bvars
<1>5. Turn'
  BY Zenon, <1>1, <1>2 DEF Shape, Rounds, Turn, Walking, Wanting, Serving, Answered, Advertised, BStopped, ServeDone, chan, bvars
<1>6. OnlyAdvertised'
  BY Zenon, <1>1, <1>2, OnlyAdvertisedKept DEF Members, Shape, ServeDone, chan, bvars
<1>7. Members'
  BY Zenon, <1>1, <1>2, <1>6 DEF Members, Walking, Wanting, ServeDone, chan, bvars
<1> QED BY Zenon, <1>3, <1>4, <1>5, <1>7 DEF LockInv

LEMMA TimeoutALock ==
  ASSUME LockInv, TimeoutA
  PROVE  LockInv'
<1>1. tree' = tree /\ Kids' = Kids /\ Roots' = Roots /\ \A o : Closure(o)' = Closure(o)
  BY Zenon, SameTree DEF TimeoutA, chan
<1>2. Shape /\ Rounds /\ Turn /\ Members /\ Kids \in [Object -> Seq(Object)] /\ Roots \in Seq(Object) /\ Len(Roots) \in Nat
  BY Zenon, TreeShape DEF LockInv
<1>3. Shape'
  BY Zenon, <1>1, <1>2 DEF Shape, Rounds, TimeoutA, chan, bvars
<1>4. Rounds'
  BY Zenon, <1>1, <1>2 DEF Shape, Rounds, Turn, Walking, Serving, BStopped, TimeoutA, chan, bvars
<1>5. Turn'
  BY Zenon, <1>1, <1>2 DEF Shape, Rounds, Turn, Walking, Wanting, Serving, Answered, Advertised, BStopped, TimeoutA, chan, bvars
<1>6. OnlyAdvertised'
  BY Zenon, <1>1, <1>2, OnlyAdvertisedKept DEF Members, Shape, TimeoutA, chan, bvars
<1>7. Members'
  BY Zenon, <1>1, <1>2, <1>6 DEF Members, Walking, Wanting, TimeoutA, chan, bvars
<1> QED BY Zenon, <1>3, <1>4, <1>5, <1>7 DEF LockInv

LEMMA EnterLock ==
  ASSUME LockInv, Enter
  PROVE  LockInv'
<1>1. tree' = tree /\ Kids' = Kids /\ Roots' = Roots /\ \A o : Closure(o)' = Closure(o)
  BY Zenon, SameTree DEF Enter, chan
<1>2. Shape /\ Rounds /\ Turn /\ Members /\ Kids \in [Object -> Seq(Object)] /\ Roots \in Seq(Object) /\ Len(Roots) \in Nat
  BY Zenon, TreeShape DEF LockInv
<1>3. Shape'
  BY Zenon, <1>1, <1>2 DEF Shape, Rounds, Enter, chan, avars
<1>4. Rounds'
  BY Zenon, <1>1, <1>2 DEF Shape, Rounds, Turn, Walking, Serving, BStopped, Enter, chan, avars
<1>5. Turn'
  BY Zenon, <1>1, <1>2 DEF Shape, Rounds, Turn, Walking, Wanting, Serving, Answered, Advertised, BStopped, Enter, chan, avars
<1>6. OnlyAdvertised'
  BY Zenon, <1>1, <1>2, OnlyAdvertisedKept DEF Members, Shape, Enter, chan, avars
<1>7. Members'
  BY Zenon, <1>1, <1>2, <1>6 DEF Members, Walking, Wanting, Enter, chan, avars
<1> QED BY Zenon, <1>3, <1>4, <1>5, <1>7 DEF LockInv

LEMMA TimeoutBLock ==
  ASSUME LockInv, TimeoutB
  PROVE  LockInv'
<1>1. tree' = tree /\ Kids' = Kids /\ Roots' = Roots /\ \A o : Closure(o)' = Closure(o)
  BY Zenon, SameTree DEF TimeoutB, chan
<1>2. Shape /\ Rounds /\ Turn /\ Members /\ Kids \in [Object -> Seq(Object)] /\ Roots \in Seq(Object) /\ Len(Roots) \in Nat
  BY Zenon, TreeShape DEF LockInv
<1>3. Shape'
  BY Zenon, <1>1, <1>2 DEF Shape, Rounds, TimeoutB, chan, avars
<1>4. Rounds'
  BY Zenon, <1>1, <1>2 DEF Shape, Rounds, Turn, Walking, Serving, BStopped, TimeoutB, chan, avars
<1>5. Turn'
  BY Zenon, <1>1, <1>2 DEF Shape, Rounds, Turn, Walking, Wanting, Serving, Answered, Advertised, BStopped, TimeoutB, chan, avars
<1>6. OnlyAdvertised'
  BY Zenon, <1>1, <1>2, OnlyAdvertisedKept DEF Members, Shape, TimeoutB, chan, avars
<1>7. Members'
  BY Zenon, <1>1, <1>2, <1>6 DEF Members, Walking, Wanting, TimeoutB, chan, avars
<1> QED BY Zenon, <1>3, <1>4, <1>5, <1>7 DEF LockInv

LEMMA ServeWantLock ==
  ASSUME LockInv, ServeWant
  PROVE  LockInv'
<1>1. tree' = tree /\ Kids' = Kids /\ Roots' = Roots /\ \A o : Closure(o)' = Closure(o)
  BY Zenon, SameTree DEF ServeWant, chan
<1>2. Shape /\ Rounds /\ Turn /\ Members /\ Kids \in [Object -> Seq(Object)] /\ Roots \in Seq(Object) /\ Len(Roots) \in Nat
  BY Zenon, TreeShape DEF LockInv
<1>3. b_round = a_round /\ (bpc = "block" \/ BStopped)
  BY Zenon, <1>2 DEF Shape, Rounds, Serving, ServeWant
<1>4. Shape'
  BY Zenon, <1>1, <1>2 DEF Shape, ServeWant, bvars
<1>5. bpc = "block" => REQ.hash = want /\ want \in storeA
  <2>1. a_round \in 1..a_round
    BY <1>2 DEF Shape, Rounds, ServeWant
  <2> QED BY Zenon, <2>1, <1>2, <1>3 DEF Turn, Members, Wanting, storeA
<1>6. bpc = "block" => Answered'
  <2> SUFFICES ASSUME bpc = "block" PROVE Answered'
    BY Zenon
  <2>1. /\ RSP' = Message("BLOCK", None, Bytes(want, ~Tampers(want)), Kids[want])
        /\ tampered' = (tampered \/ Tampers(want)) /\ want' = want
    BY Zenon, <1>5 DEF ServeWant, bvars
  <2>2. /\ RSP'.op = "BLOCK" /\ RSP'.kids = Kids[want]
        /\ RSP'.pay.of = want /\ RSP'.pay.intact = ~Tampers(want)
    BY Zenon, <2>1 DEF Message, Bytes
  <2>3. RSP'.pay.intact \/ tampered'
    BY Zenon, <2>1, <2>2
  <2> QED BY Zenon, <1>1, <2>1, <2>2, <2>3 DEF Answered
<1>7. Rounds'
  BY Zenon, <1>1, <1>2, <1>3 DEF Shape, Rounds, Serving, BStopped, ServeWant, bvars
<1>8. Turn'
  BY Zenon, <1>1, <1>2, <1>3, <1>6 DEF Shape, Rounds, Turn, Walking, Wanting, Serving, BStopped, ServeWant, bvars
<1>9. OnlyAdvertised'
  BY Zenon, <1>1, <1>2, OnlyAdvertisedKept DEF Members, Shape, ServeWant, bvars
<1>10. Members'
  BY Zenon, <1>1, <1>2, <1>9 DEF Members, Walking, Wanting, ServeWant, bvars
<1> QED BY Zenon, <1>4, <1>7, <1>8, <1>10 DEF LockInv

LEMMA ReadAdvLock ==
  ASSUME LockInv, ReadAdv
  PROVE  LockInv'
<1>1. tree' = tree /\ Kids' = Kids /\ Roots' = Roots /\ \A o : Closure(o)' = Closure(o)
  BY Zenon, SameTree DEF ReadAdv, chan
<1>2. Shape /\ Rounds /\ Turn /\ Members /\ Kids \in [Object -> Seq(Object)] /\ Roots \in Seq(Object) /\ Len(Roots) \in Nat
  BY Zenon, TreeShape DEF LockInv
<1>3. /\ b_round = a_round /\ Serving /\ seqB = b_last /\ b_round \in 1..Len(Roots)
      /\ bpc' = "walk" /\ ws' = <<Roots[b_round]>>
  BY <1>2 DEF Shape, Rounds, Turn, Serving, Advertised, BStopped, ReadAdv
<1>4. Roots[b_round] \in Object /\ Roots[b_round] \in Closure(Roots[b_round])
  BY Zenon, <1>2, <1>3, RootClosure
<1>5. Shape'
  BY <1>1, <1>2, <1>3, <1>4, MigrationAssumption DEF Shape, ReadAdv, chan, avars
<1>6. Rounds'
  BY Zenon, <1>1, <1>2, <1>3 DEF Shape, Rounds, Serving, BStopped, ReadAdv, chan, avars
<1>7. Turn'
  BY Zenon, <1>1, <1>2, <1>3 DEF Shape, Rounds, Turn, Walking, Wanting, Serving, ReadAdv, chan, avars
<1>8. OnlyAdvertised'
  BY Zenon, <1>1, <1>2, OnlyAdvertisedKept DEF Members, Shape, ReadAdv, chan, avars
<1>9. Members'
  BY <1>1, <1>2, <1>3, <1>4, <1>8 DEF Members, Walking, Wanting, ReadAdv, chan, avars
<1> QED BY Zenon, <1>5, <1>6, <1>7, <1>9 DEF LockInv

LEMMA Popped ==
  ASSUME NEW s \in Seq(Object), s # <<>>
  PROVE  LET t == SubSeq(s, 1, Len(s) - 1) IN
         /\ Len(s) \in Nat \ {0} /\ Len(s) \in DOMAIN s /\ s[Len(s)] \in Object
         /\ t \in Seq(Object) /\ Len(t) = Len(s) - 1
         /\ \A i \in DOMAIN t : i \in DOMAIN s /\ t[i] = s[i]
         /\ \A i \in DOMAIN s : i = Len(s) \/ (i \in DOMAIN t /\ t[i] = s[i])
<1> DEFINE n == Len(s) - 1
           t == SubSeq(s, 1, n)
<1>1. Len(s) \in Nat \ {0} /\ DOMAIN s = 1..Len(s) /\ n \in Nat
  OBVIOUS
<1>2. Len(s) \in DOMAIN s /\ s[Len(s)] \in Object
  BY <1>1
<1>3. t \in Seq(Object) /\ Len(t) = n /\ DOMAIN t = 1..n /\ \A i \in 1..n : t[i] = s[i]
  BY <1>1
<1>4. \A i \in DOMAIN s : i = Len(s) \/ i \in 1..n
  BY <1>1
<1>5. \A i \in 1..n : i \in DOMAIN s
  BY <1>1
<1> HIDE DEF t
<1>6. Len(t) = Len(s) - 1
  BY Zenon, <1>3
<1>7. \A i \in DOMAIN t : i \in DOMAIN s /\ t[i] = s[i]
  BY Zenon, <1>3, <1>5
<1>8. \A i \in DOMAIN s : i = Len(s) \/ (i \in DOMAIN t /\ t[i] = s[i])
  BY Zenon, <1>3, <1>4
<1> QED BY Zenon, <1>1, <1>2, <1>3, <1>6, <1>7, <1>8 DEF t

LEMMA PruneLock ==
  ASSUME LockInv, Prune
  PROVE  LockInv'
<1>1. tree' = tree /\ Kids' = Kids /\ Roots' = Roots /\ \A o : Closure(o)' = Closure(o)
  BY Zenon, SameTree DEF Prune, chan
<1>2. Shape /\ Rounds /\ Turn /\ Members /\ Kids \in [Object -> Seq(Object)] /\ Roots \in Seq(Object) /\ Len(Roots) \in Nat
  BY Zenon, TreeShape DEF LockInv
<1>3. /\ ws' \in Seq(Object) /\ Len(ws') = Len(ws) - 1 /\ Len(ws) \in Nat
      /\ \A i \in DOMAIN ws' : i \in DOMAIN ws /\ ws'[i] = ws[i]
      /\ Len(ws) \in DOMAIN ws
  BY Zenon, <1>2, Popped DEF Shape, Prune
<1>4. Shape'
  BY <1>1, <1>2, <1>3, MigrationAssumption DEF Shape, Prune, chan, avars
<1>5. Rounds'
  BY Zenon, <1>1, <1>2 DEF Shape, Rounds, Turn, Walking, Serving, BStopped, Prune, chan, avars
<1>6. Turn'
  BY Zenon, <1>1, <1>2 DEF Shape, Rounds, Turn, Walking, Wanting, Serving, Prune, chan, avars, Message
<1>7. OnlyAdvertised'
  BY Zenon, <1>1, <1>2, OnlyAdvertisedKept DEF Members, Shape, Prune, chan, avars
<1>8. Members'
  BY Zenon, <1>1, <1>2, <1>3, <1>7 DEF Members, Walking, Wanting, Prune, chan, avars, Top
<1> QED BY Zenon, <1>4, <1>5, <1>6, <1>8 DEF LockInv

LEMMA PostWantLock ==
  ASSUME LockInv, PostWant
  PROVE  LockInv'
<1>1. tree' = tree /\ Kids' = Kids /\ Roots' = Roots /\ \A o : Closure(o)' = Closure(o)
  BY Zenon, SameTree DEF PostWant, chan
<1>2. Shape /\ Rounds /\ Turn /\ Members /\ Kids \in [Object -> Seq(Object)] /\ Roots \in Seq(Object) /\ Len(Roots) \in Nat
  BY Zenon, TreeShape DEF LockInv
<1>3. /\ ws' \in Seq(Object) /\ Len(ws') = Len(ws) - 1 /\ Len(ws) \in Nat
      /\ \A i \in DOMAIN ws' : i \in DOMAIN ws /\ ws'[i] = ws[i]
      /\ Len(ws) \in DOMAIN ws
  BY Zenon, <1>2, Popped DEF Shape, PostWant
<1>4. Shape'
  BY <1>1, <1>2, <1>3, MigrationAssumption DEF Shape, PostWant, chan, avars
<1>5. Rounds'
  BY Zenon, <1>1, <1>2 DEF Shape, Rounds, Turn, Walking, Serving, BStopped, PostWant, chan, avars
<1>6. Turn'
  BY Zenon, <1>1, <1>2 DEF Shape, Rounds, Turn, Walking, Wanting, Serving, PostWant, chan, avars, Message
<1>7. OnlyAdvertised'
  BY Zenon, <1>1, <1>2, OnlyAdvertisedKept DEF Members, Shape, PostWant, chan, avars
<1>8. Members'
  BY Zenon, <1>1, <1>2, <1>3, <1>7 DEF Members, Walking, Wanting, PostWant, chan, avars, Top
<1> QED BY Zenon, <1>4, <1>5, <1>6, <1>8 DEF LockInv

LEMMA PostDoneLock ==
  ASSUME LockInv, PostDone
  PROVE  LockInv'
<1>1. tree' = tree /\ Kids' = Kids /\ Roots' = Roots /\ \A o : Closure(o)' = Closure(o)
  BY Zenon, SameTree DEF PostDone, chan
<1>2. Shape /\ Rounds /\ Turn /\ Members /\ Kids \in [Object -> Seq(Object)] /\ Roots \in Seq(Object) /\ Len(Roots) \in Nat
  BY Zenon, TreeShape DEF LockInv
<1>3. Shape'
  BY Zenon, <1>1, <1>2 DEF Shape, Turn, Walking, PostDone, avars
<1>4. Rounds'
  BY Zenon, <1>1, <1>2 DEF Shape, Rounds, Turn, Walking, Wanting, Serving, BStopped, PostDone, avars
<1>5. Turn'
  BY Zenon, <1>1, <1>2 DEF Shape, Rounds, Turn, Walking, Wanting, Serving, PostDone, avars, Message
<1>6. OnlyAdvertised'
  BY Zenon, <1>1, <1>2, OnlyAdvertisedKept DEF Members, Shape, PostDone, avars
<1>7. Members'
  BY Zenon, <1>1, <1>2, <1>6 DEF Members, Turn, Walking, Wanting, PostDone, avars, Message
<1> QED BY Zenon, <1>3, <1>4, <1>5, <1>7 DEF LockInv

LEMMA BumpBLock ==
  ASSUME LockInv, BumpB
  PROVE  LockInv'
<1>1. tree' = tree /\ Kids' = Kids /\ Roots' = Roots /\ \A o : Closure(o)' = Closure(o)
  BY Zenon, SameTree DEF BumpB, chan
<1>2. Shape /\ Rounds /\ Turn /\ Members /\ Kids \in [Object -> Seq(Object)] /\ Roots \in Seq(Object) /\ Len(Roots) \in Nat
  BY Zenon, TreeShape DEF LockInv
<1>3. Shape'
  BY <1>1, <1>2 DEF Shape, Turn, Walking, BumpB, avars
<1>4. Rounds'
  BY <1>1, <1>2 DEF Shape, Rounds, Turn, Walking, Wanting, Serving, BStopped, BumpB, avars
<1>5. Turn'
  BY <1>1, <1>2 DEF Shape, Rounds, Turn, Walking, Wanting, Serving, BumpB, avars, Message
<1>6. OnlyAdvertised'
  BY Zenon, <1>1, <1>2, OnlyAdvertisedKept DEF Members, Shape, BumpB, avars
<1>7. Members'
  BY Zenon, <1>1, <1>2, <1>6 DEF Members, Turn, Walking, Wanting, BumpB, avars, Message
<1> QED BY Zenon, <1>3, <1>4, <1>5, <1>7 DEF LockInv

LEMMA Concatenated ==
  ASSUME NEW a \in Seq(Object), NEW b \in Seq(Object)
  PROVE  /\ a \o b \in Seq(Object) /\ Len(a \o b) = Len(a) + Len(b)
         /\ \A i \in 1..Len(a) : i \in DOMAIN (a \o b) /\ (a \o b)[i] = a[i]
         /\ \A i \in 1..Len(b) : Len(a) + i \in DOMAIN (a \o b) /\ (a \o b)[Len(a) + i] = b[i]
<1>1. Len(a) \in Nat /\ Len(b) \in Nat /\ a \o b \in Seq(Object) /\ Len(a \o b) = Len(a) + Len(b)
  OBVIOUS
<1>2. DOMAIN (a \o b) = 1..(Len(a) + Len(b))
  BY <1>1
<1>3. \A i \in 1..Len(a) : (a \o b)[i] = a[i]
  BY <1>1
<1>4. \A i \in 1..Len(b) : (a \o b)[Len(a) + i] = b[i]
  BY <1>1
<1>5. \A i \in 1..Len(a) : i \in 1..(Len(a) + Len(b))
  BY <1>1
<1>6. \A i \in 1..Len(b) : Len(a) + i \in 1..(Len(a) + Len(b))
  BY <1>1
<1> QED BY Zenon, <1>1, <1>2, <1>3, <1>4, <1>5, <1>6

(* What an accepted block does to the stack: it grows by children, and by all
   that are lacking if there is room. *)
LEMMA PushIs ==
  ASSUME ws \in Seq(Object), Len(ws) <= WS_MAX, NEW kids \in Seq(Object), ws' = Push(kids)
  PROVE  /\ ws' \in Seq(Object) /\ Len(ws') <= WS_MAX
         /\ Len(ws') <= Len(ws) + Len(kids)
         /\ \A i \in DOMAIN ws : i \in DOMAIN ws' /\ ws'[i] = ws[i]
         /\ \A i \in DOMAIN ws' : \/ i \in DOMAIN ws /\ ws'[i] = ws[i]
                                 \/ \E j \in DOMAIN kids : ws'[i] = kids[j]
         /\ Len(ws) + Len(kids) <= WS_MAX =>
              \A j \in DOMAIN kids : kids[j] \notin storeB' => \E i \in DOMAIN ws' : ws'[i] = kids[j]
<1> DEFINE l == Lacking(kids, storeB')
           n == IF Len(l) < WS_MAX - Len(ws) THEN Len(l) ELSE WS_MAX - Len(ws)
           t == SubSeq(l, 1, n)
<1>1. /\ l \in Seq(Object) /\ Len(l) <= Len(kids)
      /\ \A j \in DOMAIN l : \E i \in DOMAIN kids : l[j] = kids[i]
      /\ \A i \in DOMAIN kids : kids[i] \notin storeB' => \E j \in DOMAIN l : l[j] = kids[i]
  BY LackingIs
<1>2. ws' = ws \o t
  BY Zenon DEF Push
<1> HIDE DEF l
<1>3. n \in Nat /\ n <= Len(l) /\ Len(ws) + n <= WS_MAX /\ WS_MAX \in Nat /\ Len(ws) \in Nat /\ Len(l) \in Nat /\ Len(kids) \in Nat
  BY <1>1, MigrationAssumption
<1>4. t \in Seq(Object) /\ Len(t) = n /\ DOMAIN t = 1..n /\ \A i \in 1..n : i \in DOMAIN l /\ t[i] = l[i]
  <2> HIDE DEF n
  <2> QED BY <1>1, <1>3
<1>5. Len(ws) + Len(kids) <= WS_MAX => n = Len(l)
  <2>1. Len(l) <= Len(kids)
    BY Zenon, <1>1
  <2> QED BY <2>1, <1>3
<1> HIDE DEF n, t
<1>6. /\ ws' \in Seq(Object) /\ Len(ws') = Len(ws) + n
      /\ \A i \in 1..Len(ws) : i \in DOMAIN ws' /\ ws'[i] = ws[i]
      /\ \A i \in 1..n : Len(ws) + i \in DOMAIN ws' /\ ws'[Len(ws) + i] = t[i]
  <2>1. t \in Seq(Object) /\ Len(t) = n
    BY Zenon, <1>4
  <2>2. /\ ws \o t \in Seq(Object) /\ Len(ws \o t) = Len(ws) + Len(t)
        /\ \A i \in 1..Len(ws) : i \in DOMAIN (ws \o t) /\ (ws \o t)[i] = ws[i]
        /\ \A i \in 1..Len(t) : Len(ws) + i \in DOMAIN (ws \o t) /\ (ws \o t)[Len(ws) + i] = t[i]
    BY Zenon, <2>1, Concatenated
  <2> QED BY Zenon, <2>1, <2>2, <1>2
<1>7. ASSUME NEW i \in DOMAIN ws'
      PROVE  \/ i \in DOMAIN ws /\ ws'[i] = ws[i]
             \/ \E j \in DOMAIN kids : ws'[i] = kids[j]
  <2>1. i \in 1..(Len(ws) + n)
    BY <1>6
  <2>2. CASE i <= Len(ws)
    BY <2>1, <2>2, <1>6, <1>3
  <2>3. CASE i > Len(ws)
    <3>1. i - Len(ws) \in 1..n /\ i = Len(ws) + (i - Len(ws))
      BY <2>1, <2>3, <1>3
    <3>2. ws'[i] = l[i - Len(ws)] /\ i - Len(ws) \in DOMAIN l
      BY Zenon, <3>1, <1>6, <1>4
    <3> QED BY Zenon, <3>2, <1>1
  <2> QED BY <2>1, <2>2, <2>3, <1>3
<1>8. ASSUME Len(ws) + Len(kids) <= WS_MAX, NEW j \in DOMAIN kids, kids[j] \notin storeB'
      PROVE  \E i \in DOMAIN ws' : ws'[i] = kids[j]
  <2>1. PICK k \in DOMAIN l : l[k] = kids[j]
    BY Zenon, <1>8, <1>1
  <2>2. k \in 1..n
    BY <1>5, <1>8, <1>1
  <2> QED BY Zenon, <2>1, <2>2, <1>6, <1>4
<1>9. Len(ws') <= WS_MAX /\ Len(ws') <= Len(ws) + Len(kids)
  BY <1>6, <1>3, <1>1
<1>10. \A i \in DOMAIN ws : i \in DOMAIN ws' /\ ws'[i] = ws[i]
  <2>1. DOMAIN ws = 1..Len(ws)
    OBVIOUS
  <2> QED BY Zenon, <2>1, <1>6
<1> QED BY Zenon, <1>6, <1>7, <1>8, <1>9, <1>10

(* What B makes of an answer to its WANT. *)
LEMMA ReadBlockIs ==
  ASSUME LockInv, ReadBlock
  PROVE  /\ Serving /\ b_round = a_round /\ b_round \in 1..Len(Roots) /\ seqB = b_last /\ Answered
         /\ want \in Object /\ want \in Closure(Roots[b_round]) /\ Kids[want] \in Seq(Object)
         /\ bpc' = "walk" /\ a_last' = seqA /\ UNCHANGED <<chan, avars, b_round>>
         /\ \/ storeB' = storeB \cup {want} /\ ws' = Push(Kids[want])
            \/ tampered /\ UNCHANGED <<storeB, ws>>
<1>1. Shape /\ Rounds /\ Turn /\ Members /\ Kids \in [Object -> Seq(Object)] /\ Roots \in Seq(Object) /\ Len(Roots) \in Nat
  BY Zenon, TreeShape DEF LockInv
<1>2. Serving /\ b_round = a_round /\ b_round \in 1..Len(Roots) /\ seqB = b_last /\ Answered
  BY <1>1 DEF Shape, Rounds, Turn, Walking, Serving, ReadBlock
<1>3. want \in Closure(Roots[b_round])
  BY Zenon, <1>1 DEF Members, Wanting, ReadBlock
<1>4. want \in Object /\ Kids[want] \in Seq(Object)
  BY Zenon, <1>1, <1>2, <1>3, RootClosure
<1>5. RSP.op = "BLOCK" /\ RSP.pay # NoBytes
  <2>1. RSP.pay.of # None
    BY Zenon, <1>2, <1>4, MigrationAssumption DEF Answered
  <2> QED BY <2>1, <1>2 DEF Answered, NoBytes, Bytes
<1>6. Accept(RSP.pay, Kids[want]) /\ bpc' = "walk" /\ a_last' = seqA /\ UNCHANGED <<chan, avars, b_round>>
  BY Zenon, <1>2, <1>5 DEF ReadBlock, Answered
<1>7. \/ storeB' = storeB \cup {want} /\ ws' = Push(Kids[want])
      \/ tampered /\ UNCHANGED <<storeB, ws>>
  <2>1. cvsasx_blake3(RSP.pay) = want \/ tampered
    BY Zenon, <1>2 DEF Answered, cvsasx_blake3
  <2> QED BY Zenon, <2>1, <1>6 DEF Accept
<1> QED BY Zenon, <1>2, <1>3, <1>4, <1>6, <1>7

LEMMA ReadBlockLock ==
  ASSUME LockInv, ReadBlock
  PROVE  LockInv'
<1>1. tree' = tree /\ Kids' = Kids /\ Roots' = Roots /\ \A o : Closure(o)' = Closure(o)
  BY Zenon, SameTree DEF ReadBlock, chan
<1>2. Shape /\ Rounds /\ Turn /\ Members /\ Kids \in [Object -> Seq(Object)] /\ Roots \in Seq(Object) /\ Len(Roots) \in Nat
  BY Zenon, TreeShape DEF LockInv
<1>3. /\ Serving /\ b_round = a_round /\ b_round \in 1..Len(Roots) /\ seqB = b_last
      /\ want \in Object /\ want \in Closure(Roots[b_round]) /\ Kids[want] \in Seq(Object)
      /\ bpc' = "walk" /\ a_last' = seqA /\ UNCHANGED <<chan, avars, b_round>>
      /\ \/ storeB' = storeB \cup {want} /\ ws' = Push(Kids[want])
         \/ UNCHANGED <<storeB, ws>>
  BY Zenon, ReadBlockIs
<1>4. /\ ws' \in Seq(Object) /\ Len(ws') <= WS_MAX
      /\ \A i \in DOMAIN ws' : \/ i \in DOMAIN ws /\ ws'[i] = ws[i]
                              \/ \E j \in DOMAIN Kids[want] : ws'[i] = Kids[want][j]
  <2>1. ws \in Seq(Object) /\ Len(ws) <= WS_MAX
    BY Zenon, <1>2 DEF Shape
  <2>2. CASE ws' = Push(Kids[want])
    BY Zenon, <2>1, <2>2, <1>3, PushIs
  <2> QED BY Zenon, <2>1, <2>2, <1>3
<1>5. Shape'
  BY Zenon, <1>1, <1>2, <1>3, <1>4 DEF Shape, chan, avars
<1>6. Rounds'
  BY Zenon, <1>1, <1>2, <1>3 DEF Shape, Rounds, Serving, BStopped, chan, avars
<1>7. Turn'
  BY Zenon, <1>1, <1>2, <1>3 DEF Shape, Rounds, Turn, Walking, Wanting, Serving, chan, avars
<1>8. OnlyAdvertised'
  <2>1. b_round \in 1..b_round \cap 1..Len(Roots)
    BY <1>3
  <2>2. storeB' \subseteq storeB \cup {want}
    BY Zenon, <1>3
  <2>3. storeB \subseteq UNION {Closure(Roots[k]) : k \in 1..b_round \cap 1..Len(Roots)}
    BY Zenon, <1>2 DEF Members, OnlyAdvertised
  <2>4. want \in UNION {Closure(Roots[k]) : k \in 1..b_round \cap 1..Len(Roots)}
    BY Zenon, <2>1, <1>3
  <2>5. storeB' \subseteq UNION {Closure(Roots[k]) : k \in 1..b_round \cap 1..Len(Roots)}
    BY Zenon, <2>2, <2>3, <2>4
  <2> QED BY <2>5, <1>1, <1>3 DEF OnlyAdvertised
<1>9. \A j \in DOMAIN Kids[want] : Kids[want][j] \in Closure(Roots[b_round])
  BY Zenon, <1>2, <1>3, ClosureStep, RootClosure
<1>10. Members'
  <2>1. \A i \in DOMAIN ws : ws[i] \in Closure(Roots[b_round])
    BY Zenon, <1>2 DEF Members, Walking, ReadBlock
  <2>2. \A i \in DOMAIN ws' : ws'[i] \in Closure(Roots[b_round])
    BY Zenon, <2>1, <1>4, <1>9
  <2> QED BY Zenon, <2>2, <1>1, <1>3, <1>8 DEF Members, Wanting
<1> QED BY Zenon, <1>5, <1>6, <1>7, <1>10 DEF LockInv

LEMMA LockNext ==
  ASSUME LockInv, BWaits, [Next]_vars
  PROVE  LockInv'
<1>1. CASE A
  BY Zenon, <1>1, BuildLock, AdvertiseLock, BumpALock, ServeDoneLock, ServeWantLock DEF A
<1>2. CASE B
  BY Zenon, <1>2, EnterLock, ReadAdvLock, PruneLock, PostWantLock, PostDoneLock, BumpBLock, ReadBlockLock DEF B
<1>3. CASE TimeoutA \/ TimeoutB
  BY Zenon, <1>3, TimeoutALock, TimeoutBLock
<1>4. CASE UNCHANGED vars
  <2>1. tree' = tree /\ Kids' = Kids /\ Roots' = Roots /\ \A o : Closure(o)' = Closure(o)
    BY Zenon, <1>4, SameTree DEF vars, chan
  <2>2. Shape' /\ Rounds' /\ Turn'
    BY ZenonT(30), <1>4, <2>1 DEF LockInv, Shape, Rounds, Turn, Walking, Wanting, Serving, Answered, Advertised, BStopped, vars, chan, avars, bvars
  <2>3. Members'
    BY Zenon, <1>4, <2>1 DEF LockInv, Members, OnlyAdvertised, Walking, Wanting, vars, chan, avars, bvars
  <2> QED BY Zenon, <2>2, <2>3 DEF LockInv
<1> QED BY Zenon, <1>1, <1>2, <1>3, <1>4 DEF Next, Finished

(* When B reads an answer it is the one to the WANT it made, and A leaves a round
   only behind B, given that B waits before A advertises (a_serve, b_sync). *)
THEOREM MachinesInLockstep == ASSUME BWaits PROVE Spec => []InLockstep
<1>1. Init => LockInv
  BY Zenon, LockInit
<1>2. LockInv /\ [Next]_vars => LockInv'
  BY Zenon, LockNext
<1>3. LockInv => InLockstep
  <2> SUFFICES ASSUME LockInv PROVE InLockstep
    BY Zenon
  <2>1. InStep
    BY Zenon DEF LockInv, InStep, Turn, Answered
  <2>2. ServedToTheEnd
    BY DEF LockInv, ServedToTheEnd, Rounds, Shape
  <2> QED BY Zenon, <2>1, <2>2 DEF InLockstep
<1> QED BY <1>1, <1>2, <1>3, PTL DEF Spec
-----------------------------------------------------------------------------
(* Nothing is forgotten: a child of an object that B holds, and the root of the
   round, is held, on the stack or asked for, unless a block was corrupted; and
   the stack has room for whatever is to come. *)
Inner == {o \in Object : Kids[o] # <<>>}
Held  == Cardinality(storeB \cap Inner)
Needed(y)  == (Walking /\ y = Roots[b_round]) \/ \E x \in storeB : y \in Range(Kids[x])
Pending(y) == y \in storeB \/ (\E i \in DOMAIN ws : ws[i] = y) \/ (Wanting /\ y = want)

Depth(D) ==
  /\ Wanting => want \notin storeB /\ Len(ws) <= (D - 1) * Held
  /\ bpc = "walk" => Len(ws) <= 1 + (D - 1) * Held
Complete ==
  ~tampered /\ ~BStopped =>
    /\ \A y \in Object : Needed(y) => Pending(y)
    /\ ~Walking /\ b_round > 1 => Roots[b_round - 1] \in storeB

TreeInv(D) == LockInv /\ Depth(D) /\ Complete

LEMMA Products ==
  ASSUME NEW d \in Nat, NEW h \in Nat, NEW n \in Nat, h <= n
  PROVE  d * h \in Nat /\ d * (h + 1) = d * h + d /\ d * h <= d * n
<1>1. d * h \in Nat /\ d * (h + 1) = d * h + d
  OBVIOUS
<1>2. d * (n - h) \in Nat /\ n - h \in Nat
  OBVIOUS
<1>3. d * n = d * h + d * (n - h)
  OBVIOUS
<1> QED BY <1>1, <1>2, <1>3

LEMMA HeldType ==
  ASSUME IsFiniteSet(Object), Shape
  PROVE  /\ Held \in Nat /\ Cardinality(Inner) \in Nat /\ Held <= Cardinality(Inner)
         /\ IsFiniteSet(storeB \cap Inner) /\ IsFiniteSet(Inner)
<1>1. Inner \in SUBSET Object /\ storeB \cap Inner \in SUBSET Inner
  BY Zenon DEF Inner
<1>2. IsFiniteSet(Inner) /\ Cardinality(Inner) \in Nat
  BY Zenon, <1>1, FS_Subset, FS_CardinalityType
<1> QED BY Zenon, <1>1, <1>2, FS_Subset, FS_CardinalityType DEF Held

LEMMA QuietTree ==
  ASSUME NEW D \in Nat \ {0}, Depth(D), Complete, UNCHANGED <<tree, bvars, REQ>>, tampered => tampered'
  PROVE  Depth(D)' /\ Complete'
<1>1. Kids' = Kids /\ Roots' = Roots
  BY Zenon, SameTree
<1>2. Held' = Held
  BY Zenon, <1>1 DEF Held, Inner, bvars
<1>3. (Wanting' <=> Wanting) /\ (Walking' <=> Walking) /\ (BStopped' <=> BStopped)
  BY Zenon DEF Wanting, Walking, BStopped, bvars
<1>4. \A y \in Object : (Pending(y)' <=> Pending(y)) /\ (Needed(y)' <=> Needed(y))
  BY Zenon, <1>1, <1>3 DEF Pending, Needed, bvars
<1>5. Depth(D)'
  BY Zenon, <1>2, <1>3 DEF Depth, bvars
<1>6. Complete'
  BY Zenon, <1>1, <1>3, <1>4 DEF Complete, bvars
<1> QED BY Zenon, <1>5, <1>6

LEMMA ATree ==
  ASSUME NEW D \in Nat \ {0}, TreeInv(D), A \/ TimeoutA \/ UNCHANGED vars
  PROVE  Depth(D)' /\ Complete'
<1>1. UNCHANGED <<tree, bvars, REQ>> /\ (tampered => tampered')
  <2>1. CASE Build
    BY Zenon, <2>1 DEF Build, chan
  <2>2. CASE Advertise
    BY Zenon, <2>2 DEF Advertise
  <2>3. CASE BumpA
    BY Zenon, <2>3 DEF BumpA
  <2>4. CASE ServeDone
    BY Zenon, <2>4 DEF ServeDone, chan
  <2>5. CASE ServeWant
    BY Zenon, <2>5 DEF ServeWant
  <2>6. CASE TimeoutA
    BY Zenon, <2>6 DEF TimeoutA, chan
  <2>7. CASE UNCHANGED vars
    BY Zenon, <2>7 DEF vars, chan, avars
  <2> QED BY Zenon, <2>1, <2>2, <2>3, <2>4, <2>5, <2>6, <2>7 DEF A
<1> QED BY Zenon, <1>1, QuietTree DEF TreeInv

LEMMA EnterTree ==
  ASSUME NEW D \in Nat \ {0}, TreeInv(D), Enter
  PROVE  Depth(D)' /\ Complete'
<1>1. Kids' = Kids /\ Roots' = Roots /\ Inner' = Inner
  BY Zenon, SameTree DEF Enter, chan, Inner
<1>2. LockInv /\ Shape /\ Turn /\ Depth(D) /\ Complete
  BY Zenon DEF TreeInv, LockInv
<1>3. ~Wanting /\ ~Wanting' /\ ~Walking /\ ~Walking' /\ ~BStopped /\ bpc' # "walk"
  BY Zenon DEF Wanting, Walking, BStopped, Enter
<1>4. \A y \in Object : (Pending(y)' <=> Pending(y)) /\ (Needed(y)' <=> Needed(y))
  BY Zenon, <1>1, <1>3 DEF Pending, Needed, Enter
<1> QED BY Zenon, <1>1, <1>2, <1>3, <1>4 DEF Depth, Complete, Enter, chan, avars

LEMMA TimeoutBTree ==
  ASSUME NEW D \in Nat \ {0}, TimeoutB
  PROVE  Depth(D)' /\ Complete'
BY Zenon DEF TimeoutB, Depth, Complete, Wanting, BStopped

LEMMA ReadAdvTree ==
  ASSUME NEW D \in Nat \ {0}, IsFiniteSet(Object), TreeInv(D), ReadAdv
  PROVE  Depth(D)' /\ Complete'
<1>1. Kids' = Kids /\ Roots' = Roots /\ Inner' = Inner
  BY Zenon, SameTree DEF ReadAdv, chan, Inner
<1>2. LockInv /\ Shape /\ Turn /\ Depth(D) /\ Complete
  BY Zenon DEF TreeInv, LockInv
<1>3. ~Wanting /\ ~Wanting' /\ ~Walking /\ Walking' /\ ~BStopped
  <2>1. bpc' = "walk"
    BY Zenon, <1>2 DEF LockInv, Shape, Rounds, Turn, Serving, Advertised, ReadAdv
  <2> QED BY Zenon, <2>1 DEF Wanting, Walking, BStopped, ReadAdv
<1>4. ws = <<>> /\ ws' = <<Roots[b_round]>>
  BY Zenon, <1>2 DEF LockInv, Shape, Rounds, Turn, Serving, Advertised, ReadAdv
<1>5. 1 \in DOMAIN ws' /\ ws'[1] = Roots[b_round] /\ Len(ws') = 1 /\ DOMAIN ws = {}
  BY <1>4
<1>6. \A y \in Object : (Pending(y) => Pending(y)') /\ (Needed(y)' => Needed(y) \/ Pending(y)')
  BY Zenon, <1>1, <1>3, <1>5 DEF Pending, Needed, ReadAdv
<1>7. Complete'
  BY Zenon, <1>1, <1>2, <1>3, <1>6 DEF Complete, ReadAdv, chan, avars
<1>8. Depth(D)'
  <2>1. Held' = Held
    BY Zenon, <1>1 DEF Held, ReadAdv
  <2>2. (D - 1) * Held \in Nat
    BY <1>2, HeldType, Products
  <2> QED BY <1>3, <1>5, <2>1, <2>2 DEF Depth
<1> QED BY Zenon, <1>7, <1>8

LEMMA PruneTree ==
  ASSUME NEW D \in Nat \ {0}, IsFiniteSet(Object), TreeInv(D), Prune
  PROVE  Depth(D)' /\ Complete'
<1>1. Kids' = Kids /\ Roots' = Roots /\ Inner' = Inner
  BY Zenon, SameTree DEF Prune, chan, Inner
<1>2. LockInv /\ Shape /\ Turn /\ Depth(D) /\ Complete
  BY Zenon DEF TreeInv, LockInv
<1>3. /\ Len(ws) \in Nat /\ Len(ws') = Len(ws) - 1
      /\ \A i \in DOMAIN ws : ws[i] \in storeB \/ (i \in DOMAIN ws' /\ ws'[i] = ws[i])
  BY Zenon, <1>2, Popped DEF Shape, Prune, Top
<1>4. ~Wanting /\ ~Wanting' /\ Walking /\ Walking' /\ ~BStopped
  BY Zenon DEF Wanting, Walking, BStopped, Prune, Message
<1>5. \A y \in Object : (Pending(y) => Pending(y)') /\ (Needed(y)' => Needed(y))
  BY Zenon, <1>1, <1>3, <1>4 DEF Pending, Needed, Prune
<1>6. Complete'
  BY Zenon, <1>1, <1>2, <1>4, <1>5 DEF Complete, Prune, chan, avars
<1>7. Depth(D)'
  <2>1. Held' = Held
    BY Zenon, <1>1 DEF Held, Prune
  <2>2. (D - 1) * Held \in Nat
    BY <1>2, HeldType, Products
  <2> QED BY <1>2, <1>3, <1>4, <2>1, <2>2 DEF Depth, Prune
<1> QED BY Zenon, <1>6, <1>7

LEMMA PostWantTree ==
  ASSUME NEW D \in Nat \ {0}, IsFiniteSet(Object), TreeInv(D), PostWant
  PROVE  Depth(D)' /\ Complete'
<1>1. Kids' = Kids /\ Roots' = Roots /\ Inner' = Inner
  BY Zenon, SameTree DEF PostWant, chan, Inner
<1>2. LockInv /\ Shape /\ Turn /\ Depth(D) /\ Complete
  BY Zenon DEF TreeInv, LockInv
<1>3. /\ Len(ws) \in Nat /\ Len(ws') = Len(ws) - 1
      /\ \A i \in DOMAIN ws : ws[i] = want' \/ (i \in DOMAIN ws' /\ ws'[i] = ws[i])
  BY Zenon, <1>2, Popped DEF Shape, PostWant, Top
<1>4. ~Wanting /\ Wanting' /\ Walking /\ Walking' /\ ~BStopped
  BY Zenon DEF Wanting, Walking, BStopped, PostWant, Message
<1>5. \A y \in Object : (Pending(y) => Pending(y)') /\ (Needed(y)' => Needed(y))
  BY Zenon, <1>1, <1>3, <1>4 DEF Pending, Needed, PostWant
<1>6. Complete'
  BY Zenon, <1>1, <1>2, <1>4, <1>5 DEF Complete, PostWant, chan, avars
<1>7. Depth(D)'
  <2>1. Held' = Held
    BY Zenon, <1>1 DEF Held, PostWant
  <2>2. (D - 1) * Held \in Nat
    BY <1>2, HeldType, Products
  <2> QED BY <1>2, <1>3, <1>4, <2>1, <2>2 DEF Depth, PostWant
<1> QED BY Zenon, <1>6, <1>7

LEMMA PostDoneTree ==
  ASSUME NEW D \in Nat \ {0}, TreeInv(D), PostDone
  PROVE  Depth(D)' /\ Complete'
<1>1. Kids' = Kids /\ Roots' = Roots /\ Inner' = Inner
  BY Zenon, SameTree DEF PostDone, chan, Inner
<1>2. LockInv /\ Shape /\ Turn /\ Depth(D) /\ Complete
  BY Zenon DEF TreeInv, LockInv
<1>3. ~Wanting /\ ~Wanting' /\ Walking /\ Walking' /\ ~BStopped /\ bpc' # "walk"
  BY Zenon DEF Wanting, Walking, BStopped, PostDone, Message
<1>4. \A y \in Object : (Pending(y)' <=> Pending(y)) /\ (Needed(y)' <=> Needed(y))
  BY Zenon, <1>1, <1>3 DEF Pending, Needed, PostDone
<1> QED BY Zenon, <1>1, <1>2, <1>3, <1>4 DEF Depth, Complete, PostDone, avars

LEMMA BumpBTree ==
  ASSUME NEW D \in Nat \ {0}, TreeInv(D), BumpB
  PROVE  Depth(D)' /\ Complete'
<1>1. Kids' = Kids /\ Roots' = Roots /\ Inner' = Inner
  BY Zenon, SameTree DEF BumpB, chan, Inner
<1>2. LockInv /\ Shape /\ Turn /\ Depth(D) /\ Complete
  BY Zenon DEF TreeInv, LockInv
<1>3. CASE REQ.op = "WANT"
  <2>1. Wanting /\ Wanting' /\ Walking /\ Walking' /\ ~BStopped /\ bpc' # "walk"
    BY Zenon, <1>3 DEF Wanting, Walking, BStopped, BumpB
  <2>2. \A y \in Object : (Pending(y)' <=> Pending(y)) /\ (Needed(y)' <=> Needed(y))
    BY Zenon, <1>1, <1>3, <2>1 DEF Pending, Needed, BumpB
  <2>3. Held' = Held
    BY Zenon, <1>1 DEF Held, BumpB
  <2> QED BY Zenon, <1>1, <1>2, <1>3, <2>1, <2>2, <2>3 DEF Depth, Complete, BumpB, avars
<1>4. CASE REQ.op # "WANT"
  <2>1. ~Wanting /\ ~Wanting' /\ Walking /\ ~Walking' /\ ~BStopped /\ bpc' # "walk"
    BY Zenon, <1>4 DEF Wanting, Walking, BStopped, BumpB
  <2>2. DOMAIN ws = {} /\ b_round' = b_round + 1 /\ b_round' - 1 = b_round
    <3>1. ws = <<>> /\ b_round \in Nat
      BY <1>2, <1>4 DEF Shape, Turn, BumpB
    <3> QED BY <3>1, <1>4 DEF BumpB
  <2>3. \A y \in Object : (Pending(y) => y \in storeB /\ Pending(y)') /\ (Needed(y)' => Needed(y))
    BY Zenon, <1>1, <2>1, <2>2 DEF Pending, Needed, BumpB
  <2>4. Needed(Roots[b_round]) /\ Roots[b_round] \in Object
    <3>1. b_round \in 1..Len(Roots)
      BY <1>2, <2>1 DEF Shape, Turn
    <3> QED BY Zenon, <2>1, <3>1, <1>2, RootClosure DEF Needed
  <2> QED BY Zenon, <1>1, <1>2, <2>1, <2>2, <2>3, <2>4 DEF Depth, Complete, BumpB, avars
<1> QED BY Zenon, <1>3, <1>4

LEMMA ReadBlockTree ==
  ASSUME NEW D \in Nat \ {0}, IsFiniteSet(Object), Fits(D), TreeInv(D), ReadBlock
  PROVE  Depth(D)' /\ Complete'
<1>1. Kids' = Kids /\ Roots' = Roots /\ Inner' = Inner
  BY Zenon, SameTree DEF ReadBlock, chan, Inner
<1>2. LockInv /\ Shape /\ Depth(D) /\ Complete
  BY Zenon DEF TreeInv, LockInv
<1>3. /\ b_round \in 1..Len(Roots) /\ want \in Object /\ Kids[want] \in Seq(Object)
      /\ bpc' = "walk" /\ UNCHANGED <<chan, avars, b_round>>
      /\ \/ storeB' = storeB \cup {want} /\ ws' = Push(Kids[want])
         \/ tampered /\ UNCHANGED <<storeB, ws>>
  BY Zenon, <1>2, ReadBlockIs
<1>4. Wanting /\ ~Wanting' /\ Walking /\ Walking' /\ ~BStopped
  BY Zenon, <1>3 DEF Wanting, Walking, BStopped, ReadBlock
<1>5. want \notin storeB /\ Len(ws) <= (D - 1) * Held
  BY Zenon, <1>2, <1>4 DEF Depth
<1>6. /\ Held \in Nat /\ Cardinality(Inner) \in Nat /\ Held <= Cardinality(Inner)
      /\ IsFiniteSet(storeB \cap Inner) /\ IsFiniteSet(Inner)
      /\ Len(ws) \in Nat /\ ws \in Seq(Object) /\ Len(ws) <= WS_MAX /\ WS_MAX \in Nat
  BY <1>2, HeldType, MigrationAssumption DEF Shape
<1>7. /\ (D - 1) * Held \in Nat /\ (D - 1) * (Held + 1) = (D - 1) * Held + (D - 1)
  BY <1>6, Products
<1>8. CASE tampered /\ UNCHANGED <<storeB, ws>>
  <2>1. Held' = Held
    BY Zenon, <1>1, <1>8 DEF Held
  <2>2. Depth(D)'
    BY <2>1, <1>4, <1>5, <1>6, <1>7, <1>8 DEF Depth
  <2>3. Complete'
    BY Zenon, <1>3, <1>8 DEF Complete, avars
  <2> QED BY Zenon, <2>2, <2>3
<1>9. CASE storeB' = storeB \cup {want} /\ ws' = Push(Kids[want])
  <2>1. /\ ws' \in Seq(Object) /\ Len(ws') <= Len(ws) + Len(Kids[want])
        /\ \A i \in DOMAIN ws : i \in DOMAIN ws' /\ ws'[i] = ws[i]
        /\ Len(ws) + Len(Kids[want]) <= WS_MAX =>
              \A j \in DOMAIN Kids[want] : Kids[want][j] \notin storeB' => \E i \in DOMAIN ws' : ws'[i] = Kids[want][j]
    BY Zenon, <1>3, <1>6, <1>9, PushIs
  <2>2. /\ Len(Kids[want]) \in Nat /\ Len(Kids[want]) <= D /\ Len(ws') \in Nat
        /\ 1 + (D - 1) * Cardinality(Inner) <= WS_MAX
    <3>1. tree \in Trees
      BY Zenon, <1>2 DEF Shape
    <3>2. Len(Kids[want]) <= D /\ 1 + (D - 1) * Cardinality(Inner) <= WS_MAX
      BY Zenon, <3>1, <1>3 DEF Fits, Kids, Inner
    <3> QED BY <3>2, <2>1, <1>3
  <2>3. Len(ws) + Len(Kids[want]) <= WS_MAX /\ Len(ws) + Len(Kids[want]) <= 1 + (D - 1) * Held'
    <3>1. CASE Kids[want] = <<>>
      <4>1. want \notin Inner /\ Len(Kids[want]) = 0
        BY Zenon, <3>1 DEF Inner
      <4>2. storeB' \cap Inner' = storeB \cap Inner
        BY Zenon, <4>1, <1>1, <1>9
      <4>3. Held' = Held
        BY Zenon, <4>2 DEF Held
      <4> QED BY <4>1, <4>3, <1>5, <1>6, <1>7
    <3>2. CASE Kids[want] # <<>>
      <4>1. want \in Inner /\ want \notin storeB \cap Inner
        BY Zenon, <3>2, <1>3, <1>5 DEF Inner
      <4>2. storeB' \cap Inner' = (storeB \cap Inner) \cup {want}
        BY Zenon, <4>1, <1>1, <1>9
      <4>3. Held' = Held + 1
        BY Zenon, <4>1, <4>2, <1>6, FS_AddElement DEF Held
      <4>4. Held + 1 <= Cardinality(Inner)
        <5>1. (storeB \cap Inner) \cup {want} \in SUBSET Inner
          BY Zenon, <4>1
        <5> QED BY <5>1, <4>2, <4>3, <1>6, FS_Subset DEF Held
      <4>5. (D - 1) * (Held + 1) <= (D - 1) * Cardinality(Inner)
        BY <4>4, <1>6, Products
      <4>6. (D - 1) * Cardinality(Inner) \in Nat
        BY <1>6, Products
      <4>7. (D - 1) * Held' = (D - 1) * Held + (D - 1)
        BY Zenon, <4>3, <1>7
      <4>8. (D - 1) * Held + (D - 1) <= (D - 1) * Cardinality(Inner)
        BY Zenon, <4>5, <1>7
      <4>9. \A l, k, p, q \in Nat :
              (l <= p /\ k <= D /\ p + (D - 1) <= q /\ 1 + q <= WS_MAX) =>
                l + k <= WS_MAX /\ l + k <= 1 + (p + (D - 1))
        BY MigrationAssumption
      <4> QED BY Zenon, <4>6, <4>7, <4>8, <4>9, <2>2, <1>5, <1>6, <1>7
    <3> QED BY Zenon, <3>1, <3>2
  <2>4. Depth(D)'
    <3>1. (D - 1) * Held' \in Nat
      <4>1. Shape'
        BY Zenon, <1>2, ReadBlockLock DEF LockInv
      <4>2. Held' \in Nat
        <5>1. IsFiniteSet(storeB' \cap Inner')
          <6>1. storeB' \cap Inner' \in SUBSET Object
            BY Zenon DEF Inner
          <6> QED BY Zenon, <6>1, FS_Subset
        <5> QED BY Zenon, <5>1, FS_CardinalityType DEF Held
      <4>3. \A h \in Nat : (D - 1) * h \in Nat
        BY Products
      <4> QED BY Zenon, <4>2, <4>3
    <3>2. \A l, m, p \in Nat : (l <= m /\ m <= 1 + p) => l <= 1 + p
      OBVIOUS
    <3>3. Len(ws) + Len(Kids[want]) \in Nat
      BY <2>2, <1>6
    <3>4. Len(ws') <= 1 + (D - 1) * Held'
      BY Zenon, <3>1, <3>2, <3>3, <2>1, <2>2, <2>3
    <3> QED BY Zenon, <3>4, <1>4 DEF Depth
  <2>5. \A y \in Object : (Pending(y) => Pending(y)') /\ (y \in Range(Kids[want]) => Pending(y)')
    <3>1. \A y \in Object : Pending(y) => Pending(y)'
      BY Zenon, <2>1, <1>9 DEF Pending
    <3>2. \A y \in Range(Kids[want]) : Pending(y)'
      BY Zenon, <2>1, <2>3 DEF Pending, Range
    <3> QED BY Zenon, <3>1, <3>2
  <2>6. \A y \in Object : Needed(y)' => Needed(y) \/ y \in Range(Kids[want])
    BY Zenon, <1>1, <1>3, <1>4, <1>9 DEF Needed
  <2>7. Complete'
    BY Zenon, <2>5, <2>6, <1>2, <1>3, <1>4 DEF Complete, avars
  <2> QED BY Zenon, <2>4, <2>7
<1> QED BY Zenon, <1>3, <1>8, <1>9

LEMMA TreeInit ==
  ASSUME NEW D \in Nat \ {0}, Init
  PROVE  TreeInv(D)
<1>1. LockInv
  BY Zenon, LockInit
<1>2. Depth(D) /\ Complete
  BY DEF Init, Depth, Complete, Wanting, Walking, Needed
<1> QED BY Zenon, <1>1, <1>2 DEF TreeInv

LEMMA TreeNext ==
  ASSUME NEW D \in Nat \ {0}, IsFiniteSet(Object), Fits(D), BWaits, TreeInv(D), [Next]_vars
  PROVE  TreeInv(D)'
<1>1. LockInv'
  BY Zenon, LockNext DEF TreeInv
<1>2. Depth(D)' /\ Complete'
  <2>1. CASE A \/ TimeoutA \/ UNCHANGED vars
    BY Zenon, <2>1, ATree
  <2>2. CASE B
    BY Zenon, <2>2, EnterTree, ReadAdvTree, PruneTree, PostWantTree, PostDoneTree, BumpBTree, ReadBlockTree DEF B
  <2>3. CASE TimeoutB
    BY Zenon, <2>3, TimeoutBTree
  <2> QED BY Zenon, <2>1, <2>2, <2>3 DEF Next, Finished
<1> QED BY Zenon, <1>1, <1>2 DEF TreeInv

(* Whatever A corrupts, B's store holds nothing but objects of the trees that were
   advertised; and when nothing was corrupted it holds the whole tree at the end of
   a round, provided that the work stack has room for it (b_sync). *)
THEOREM SyncedTreeExact ==
  ASSUME BWaits, IsFiniteSet(Object), NEW D \in Nat \ {0}, Fits(D)
  PROVE  Spec => []TreeExact
<1>1. Init => TreeInv(D)
  BY Zenon, TreeInit
<1>2. TreeInv(D) /\ [Next]_vars => TreeInv(D)'
  BY Zenon, TreeNext
<1>3. TreeInv(D) => TreeExact
  <2> SUFFICES ASSUME TreeInv(D) PROVE TreeExact
    BY Zenon
  <2>1. OnlyAdvertised /\ Shape /\ Turn /\ Complete
    BY Zenon DEF TreeInv, LockInv, Members
  <2>2. ASSUME NEW k \in 1..Len(Roots), bpc = "enter", b_round = k + 1, ~tampered
        PROVE  Closure(Roots[k]) \subseteq storeB
    <3>1. ~Walking /\ ~Wanting /\ ~BStopped /\ DOMAIN ws = {}
      BY <2>1, <2>2 DEF Walking, Wanting, BStopped, Turn
    <3>2. b_round > 1 /\ b_round - 1 = k
      BY <2>2
    <3>3. Roots[k] \in storeB /\ \A y \in Object : Needed(y) => y \in storeB
      BY Zenon, <3>1, <3>2, <2>1, <2>2 DEF Complete, Pending
    <3>4. storeB \in SUBSET Object /\ Closed(storeB)
      <4>1. storeB \in SUBSET Object /\ Kids \in [Object -> Seq(Object)]
        BY Zenon, <2>1, TreeShape DEF Shape
      <4>2. \A x \in storeB : \A y \in Range(Kids[x]) : y \in Object
        BY <4>1 DEF Range
      <4> QED BY Zenon, <4>1, <4>2, <3>3 DEF Closed, Needed
    <3> QED BY Zenon, <3>3, <3>4, ClosureLeast
  <2> QED BY Zenon, <2>1, <2>2 DEF TreeExact, CleanRoundComplete
<1> QED BY <1>1, <1>2, <1>3, PTL DEF Spec
=============================================================================
