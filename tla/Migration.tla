----------------------------- MODULE Migration -----------------------------
(* kernel/nettest.c, B2-B4: destination-pull Merkle sync between two machines
   over shared memory.  A advertises a root and serves WANTs; B walks the tree
   with a work stack, asks for what it lacks, re-hashes what it gets and stores
   it.  Rounds follow each other: the cold sync, then one per warm hop, B
   keeping its store.

   The channel is two records and two counters, each counter written by one
   side: a message is written, fenced, and announced by a bump.  The two are
   separate steps here, since the peer polls the counter at any time.  A reader
   takes the counter's value when it enters its routine as the baseline. *)
EXTENDS Integers, Sequences, FiniteSets, Functions

CONSTANTS Object, None,
          Trees,         \* the workloads: children of each object, root of each round
          WS_MAX,        \* slots of B's work stack (4096)
          Tamper,        \* the kinds of object ("leaf", "node") of which A corrupts one
          Timeouts,      \* whether a wait may run out of its budget
          BWaits         \* whether B always gets to its wait before A advertises

ASSUME MigrationAssumption ==
  /\ \A t \in Trees : t.kids \in [Object -> Seq(Object)] /\ t.roots \in Seq(Object)
  /\ None \notin Object
  /\ WS_MAX \in Nat \ {0} /\ Tamper \subseteq {"leaf", "node"}
  /\ Timeouts \in BOOLEAN /\ BWaits \in BOOLEAN

VARIABLES tree,                                   \* the workload A builds
          seqA, seqB, REQ, RSP,                   \* shared memory
          apc, a_round, b_last, nodes, tampered,  \* A
          bpc, b_round, a_last, ws, want, storeB, b_rejected

chan  == <<tree, seqA, seqB, REQ, RSP>>
avars == <<apc, a_round, b_last, nodes, tampered>>
bvars == <<bpc, b_round, a_last, ws, want, storeB, b_rejected>>
vars  == <<chan, avars, bvars>>

Kids == tree.kids
Roots == tree.roots
Leaf(o) == Kids[o] = <<>>

(* The objects of the tree under o: the least set with o and the children of its
   members.  A's store holds the trees of the rounds it has built so far. *)
Closed(S)  == \A x \in S : Range(Kids[x]) \subseteq S
Closure(o) == {x \in Object : \A S \in SUBSET Object : o \in S /\ Closed(S) => x \in S}
storeA == UNION {Closure(Roots[k]) : k \in 1..a_round}

Message(op, h, pay, kids) == [op |-> op, hash |-> h, pay |-> pay, kids |-> kids]

(* the bytes of an object on the wire, intact or with a byte flipped; BLAKE3 of
   flipped bytes is the address of no object *)
Bytes(o, ok) == [of |-> o, intact |-> ok]
NoBytes      == Bytes(None, FALSE)
cvsasx_blake3(p) == IF p.intact THEN p.of ELSE None

Silence == Message("NONE", None, NoBytes, <<>>)

Init ==
  /\ tree \in Trees
  /\ seqA = 0 /\ seqB = 0 /\ REQ = Silence /\ RSP = Silence
  /\ apc = "build" /\ a_round = 0 /\ b_last = 0 /\ nodes = 0 /\ tampered = FALSE
  /\ bpc = "enter" /\ b_round = 1 /\ a_last = 0 /\ ws = <<>> /\ want = None
  /\ storeB = {} /\ b_rejected = 0
-----------------------------------------------------------------------------
(* run_source: build the next tree and enter a_serve *)
Build ==
  /\ apc = "build" /\ a_round < Len(Roots)
  /\ a_round' = a_round + 1 /\ b_last' = seqB /\ apc' = "advertise"
  /\ UNCHANGED <<chan, nodes, tampered, bvars>>
BStopped  == bpc \in {"halted", "expired"}
Advertise ==
  /\ apc = "advertise"
  /\ BWaits => (bpc = "adv" /\ b_round = a_round) \/ BStopped
  /\ RSP' = Message("ADV", Roots[a_round], NoBytes, <<>>) /\ apc' = "bump"
  /\ UNCHANGED <<tree, seqA, seqB, REQ, a_round, b_last, nodes, tampered, bvars>>
BumpA ==
  /\ apc = "bump" /\ seqA' = seqA + 1 /\ apc' = "serve"
  /\ UNCHANGED <<tree, seqB, REQ, RSP, a_round, b_last, nodes, tampered, bvars>>

Tampers(o) ==
  /\ ~tampered
  /\ \/ "leaf" \in Tamper /\ Leaf(o)
     \/ "node" \in Tamper /\ ~Leaf(o) /\ nodes = 1    \* not the first node served

(* one turn of a_serve's loop, when a request has been announced *)
ServeDone ==
  /\ apc = "serve" /\ seqB # b_last /\ REQ.op = "DONE"
  /\ b_last' = seqB /\ apc' = IF a_round = Len(Roots) THEN "finished" ELSE "build"
  /\ UNCHANGED <<chan, a_round, nodes, tampered, bvars>>
ServeOldHints ==                       \* mutant: the hints of the last block stay
  /\ apc = "serve" /\ seqB # b_last /\ REQ.op = "WANT"
  /\ b_last' = seqB /\ apc' = "bump"
  /\ RSP' = Message("BLOCK", None, Bytes(REQ.hash, TRUE), RSP.kids)
  /\ UNCHANGED <<tree, seqA, seqB, REQ, a_round, nodes, tampered, bvars>>
ServeWant ==
  /\ apc = "serve" /\ seqB # b_last /\ REQ.op = "WANT"
  /\ b_last' = seqB /\ apc' = "bump"
  /\ LET o == REQ.hash IN
       IF o \in storeA
       THEN /\ RSP' = Message("BLOCK", None, Bytes(o, ~Tampers(o)), Kids[o])
            /\ tampered' = (tampered \/ Tampers(o))
            /\ nodes' = IF Leaf(o) \/ nodes = 2 THEN nodes ELSE nodes + 1
       ELSE RSP' = Message("BLOCK", None, NoBytes, <<>>) /\ UNCHANGED <<tampered, nodes>>
  /\ UNCHANGED <<tree, seqA, seqB, REQ, a_round, bvars>>
TimeoutA ==                                         \* return 0; the caller halts
  /\ Timeouts /\ apc = "serve" /\ seqB = b_last /\ apc' = "expired"
  /\ UNCHANGED <<chan, a_round, b_last, nodes, tampered, bvars>>
-----------------------------------------------------------------------------
(* b_sync *)
Enter ==
  /\ bpc = "enter" /\ b_round <= Len(Roots)
  /\ a_last' = seqA /\ bpc' = "adv"
  /\ UNCHANGED <<chan, avars, b_round, ws, want, storeB, b_rejected>>
ReadAdv ==
  /\ bpc = "adv" /\ seqA # a_last /\ a_last' = seqA
  /\ IF RSP.op = "ADV" THEN bpc' = "walk" /\ ws' = <<RSP.hash>> /\ b_rejected' = 0
     ELSE bpc' = "halted" /\ UNCHANGED <<ws, b_rejected>>
  /\ UNCHANGED <<chan, avars, b_round, want, storeB>>

Top == ws[Len(ws)]

PruneStuck ==                          \* mutant: continue without the pop
  /\ bpc = "walk" /\ ws # <<>> /\ Top \in storeB
  /\ UNCHANGED vars
Prune ==
  /\ bpc = "walk" /\ ws # <<>> /\ Top \in storeB
  /\ ws' = SubSeq(ws, 1, Len(ws) - 1)
  /\ UNCHANGED <<chan, avars, bpc, b_round, a_last, want, storeB, b_rejected>>
PostWant ==
  /\ bpc = "walk" /\ ws # <<>> /\ Top \notin storeB
  /\ ws' = SubSeq(ws, 1, Len(ws) - 1) /\ want' = Top
  /\ REQ' = Message("WANT", Top, NoBytes, <<>>) /\ bpc' = "announce"
  /\ UNCHANGED <<tree, seqA, seqB, RSP, avars, b_round, a_last, storeB, b_rejected>>
PostDone ==
  /\ bpc = "walk" /\ ws = <<>>
  /\ REQ' = Message("DONE", None, NoBytes, <<>>) /\ bpc' = "announce"
  /\ UNCHANGED <<tree, seqA, seqB, RSP, avars, b_round, a_last, ws, want, storeB, b_rejected>>
BumpB ==
  /\ bpc = "announce" /\ seqB' = seqB + 1
  /\ IF REQ.op = "WANT" THEN bpc' = "block" /\ UNCHANGED b_round
     ELSE bpc' = "enter" /\ b_round' = b_round + 1
  /\ UNCHANGED <<tree, seqA, REQ, RSP, avars, a_last, ws, want, storeB, b_rejected>>

(* The children that are not held, in their order. *)
Lacking(kids, held) ==
  LET S == {i \in DOMAIN kids : kids[i] \notin held}
  IN  [j \in 1..Cardinality(S) |-> kids[CHOOSE i \in S : Cardinality({k \in S : k <= i}) = j]]

(* Mutant: the block is stored without the comparison with the address. *)
AcceptUnverified(p, kids) ==
  /\ storeB' = storeB \cup {cvsasx_blake3(p)}
  /\ ws' = ws \o Lacking(kids, storeB')
  /\ UNCHANGED b_rejected

(* Children B lacks are pushed while there is room; the others are dropped. *)
Push(kids) == LET lacking == Lacking(kids, storeB') IN
              ws \o SubSeq(lacking, 1, IF Len(lacking) < WS_MAX - Len(ws) THEN Len(lacking)
                                       ELSE WS_MAX - Len(ws))
Accept(p, kids) ==
  IF cvsasx_blake3(p) = want
  THEN storeB' = storeB \cup {want} /\ ws' = Push(kids) /\ UNCHANGED b_rejected
  ELSE b_rejected' = b_rejected + 1 /\ UNCHANGED <<storeB, ws>>

ReadBlock ==
  /\ bpc = "block" /\ seqA # a_last /\ a_last' = seqA
  /\ IF RSP.op = "BLOCK" /\ RSP.pay # NoBytes
     THEN Accept(RSP.pay, RSP.kids) /\ want' = None /\ bpc' = "walk"
     ELSE bpc' = "halted" /\ UNCHANGED <<ws, want, storeB, b_rejected>>
  /\ UNCHANGED <<chan, avars, b_round>>
TimeoutB ==
  /\ Timeouts /\ bpc \in {"adv", "block"} /\ seqA = a_last /\ bpc' = "expired"
  /\ UNCHANGED <<chan, avars, b_round, a_last, ws, want, storeB, b_rejected>>
-----------------------------------------------------------------------------
A == Build \/ Advertise \/ BumpA \/ ServeDone \/ ServeWant
B == Enter \/ ReadAdv \/ Prune \/ PostWant \/ PostDone \/ BumpB \/ ReadBlock

BThrough == bpc = "enter" /\ b_round > Len(Roots)
Done     == apc = "finished" /\ BThrough
Finished ==             \* both machines go on to the next stage, or have stopped
  /\ apc \in {"finished", "expired"} /\ (BThrough \/ BStopped)
  /\ UNCHANGED vars

Next == A \/ B \/ TimeoutA \/ TimeoutB \/ Finished

(* Two machines that both run: neither stops while it has a step to take. *)
Spec == Init /\ [][Next]_vars /\ WF_vars(A) /\ WF_vars(B)

(* Trees that B's stack has room for: no list of children is longer than D, and
   every object with children adds at most D - 1 entries to the stack. *)
Fits(D) ==
  \A t \in Trees :
    /\ \A o \in Object : Len(t.kids[o]) <= D
    /\ 1 + (D - 1) * Cardinality({o \in Object : t.kids[o] # <<>>}) <= WS_MAX
-----------------------------------------------------------------------------
(* Counters, records, program counters, stack and store have their types. *)
TypeOK ==
  /\ seqA \in Nat /\ seqB \in Nat /\ a_last \in 0..seqA /\ b_last \in 0..seqB
  /\ apc \in {"build", "advertise", "bump", "serve", "finished", "expired"}
  /\ bpc \in {"enter", "adv", "walk", "announce", "block", "halted", "expired"}
  /\ a_round \in 0..Len(Roots) /\ b_round \in 1..(Len(Roots) + 1)
  /\ ws \in Seq(Object) /\ Len(ws) <= WS_MAX /\ want \in Object \cup {None}
  /\ b_rejected \in Nat /\ nodes \in 0..2

(* "a forged block FAILS BY CONSTRUCTION": B's store holds only objects that
   belong to the trees A advertised, whatever was corrupted on the way. *)
OnlyAdvertised == storeB \subseteq UNION {Closure(Roots[k]) : k \in 1..b_round \cap 1..Len(Roots)}

(* "the bytes are stable once the counter advances": when B sees an answer to
   its WANT, the record holds the answer to this WANT and no other message. *)
InStep ==
  (bpc = "block" /\ seqA # a_last) =>
    RSP.op = "BLOCK" /\ RSP.pay.of = want /\ RSP.kids = Kids[want]

(* "B requests WANT(hash) for every object it lacks": when B has announced
   DONE and nothing was corrupted on the way, the whole tree is there. *)
CleanRoundComplete ==
  \A k \in 1..Len(Roots) :
    (bpc = "enter" /\ b_round = k + 1 /\ ~tampered) => Closure(Roots[k]) \subseteq storeB

(* A reports a round served only when B is through with its walk. *)
ServedToTheEnd ==
  (apc \in {"build", "finished"} /\ a_round > 0) => b_round > a_round

(* Every round ends: unless a wait runs out of its budget, both machines get to
   the stage after the syncs. *)
SyncEnds == <>(Done \/ "expired" \in {apc, bpc})

(* The two machines are never out of step: B reads the answer to the WANT it
   made, and A leaves a round only behind B. *)
InLockstep == InStep /\ ServedToTheEnd

(* Whatever was corrupted on the way B holds nothing but what A advertised, and
   when nothing was it holds all of it at the end of a round. *)
TreeExact == OnlyAdvertised /\ CleanRoundComplete
=============================================================================
