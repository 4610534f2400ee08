-------------------------------- MODULE Sls --------------------------------
(* sls/sls.c: the object graph over the content-addressed store, and the
   structural diff of two of its roots.  An object id is the content it is the
   hash of, so an object is a leaf with its data or a node with the ids of its
   children, and the store is the set of objects it holds. *)
EXTENDS Integers, Sequences, FiniteSets, SequencesExt

CONSTANTS Data,             \* what a leaf may hold
          StoreSlots,       \* objects the store has room for
          MAX_CHILDREN, MAX_DEPTH,
          DIFF_MAX,         \* pairs the memo has room for
          OutCap            \* room for changes the caller of the diff gives it

VARIABLES objects, diff     \* the store, and what the last diff answered

svars == <<objects, diff>>

Leaf(d)    == [data |-> d]
NodeOf(kids) == [kids |-> kids]
IsNode(o)  == DOMAIN o = {"kids"}
NoDiff     == [status |-> "none"]

SlsInit == objects = {} /\ diff = NoDiff

(* cvsasx_store_put as put_leaf and put_node use it: an object it has already
   costs no slot *)
Put(o) ==
  /\ o \in objects \/ Cardinality(objects) < StoreSlots
  /\ objects' = objects \cup {o} /\ UNCHANGED diff
cvsasx_sls_put_leaf(d) == Put(Leaf(d))
cvsasx_sls_put_node(kids) == Len(kids) <= MAX_CHILDREN /\ Put(NodeOf(kids))

(* diff_ctx: the changes so far, the memo of pairs and the status *)
rec_change(c, oid) ==
  IF oid \in Range(c.out) THEN c
  ELSE IF Len(c.out) >= OutCap THEN [c EXCEPT !.err = "TOO_MANY"]
  ELSE [c EXCEPT !.out = Append(@, oid)]

(* Mutant: a memo that looks at the old object only. *)
SeenByOld(c, A, B) == \E p \in c.seen : p[1] = A
Seen(c, A, B) == <<A, B>> \in c.seen

RECURSIVE diff_rec(_, _, _, _)
diff_rec(c, A, B, depth) ==
  IF c.err # "OK" \/ A = B THEN c
  ELSE IF depth >= MAX_DEPTH THEN [c EXCEPT !.err = "TOO_DEEP"]
  ELSE IF Seen(c, A, B) THEN c
  ELSE IF Cardinality(c.seen) >= DIFF_MAX THEN [c EXCEPT !.err = "TOO_MANY"]
  ELSE LET d == [c EXCEPT !.seen = @ \cup {<<A, B>>}] IN
       IF ~({A, B} \subseteq objects) THEN [d EXCEPT !.err = "MISS"]
       ELSE IF IsNode(A) /\ IsNode(B) /\ Len(A.kids) = Len(B.kids)
            THEN FoldLeft(LAMBDA e, i : diff_rec(e, A.kids[i], B.kids[i], depth + 1),
                          d, [i \in 1..Len(A.kids) |-> i])
            ELSE rec_change(d, B)

(* cvsasx_sls_diff *)
cvsasx_sls_diff(A, B) ==
  /\ LET c == diff_rec([out |-> <<>>, seen |-> {}, err |-> "OK"], A, B, 0)
     IN  diff' = [status |-> c.err, from |-> A, to |-> B, changed |-> Range(c.out)]
  /\ UNCHANGED objects

(* A node may name a child the store does not have: put_node takes any hashes.
   A diff leaves the store alone, so a behaviour ends with its first. *)
Strangers == {Leaf(d) : d \in Data}
SlsNext == diff = NoDiff /\
  (\/ \E d \in Data : cvsasx_sls_put_leaf(d)
   \/ \E n \in 0..MAX_CHILDREN : \E kids \in [1..n -> objects \cup Strangers] : cvsasx_sls_put_node(kids)
   \/ \E A, B \in objects : cvsasx_sls_diff(A, B))

SlsSpec == SlsInit /\ [][SlsNext]_svars
-----------------------------------------------------------------------------
RECURSIVE Below(_)
Below(o) == {o} \cup (IF IsNode(o) THEN UNION {Below(k) : k \in Range(o.kids)} ELSE {})
Leaves(os) == {o \in UNION {Below(r) : r \in os} : ~IsNode(o)}

(* "the changed-OBJECT oids between epoch rootA and rootB ... Sound for
   migration: transfer each changed object": when the diff answers OK, a machine
   that has the old epoch and is sent what lies below the changes has every leaf
   of the new one; everything it is sent belongs to the new epoch; and nothing is
   sent exactly when the epochs are the same.  Pruning, the memo of a shared
   subtree and the bounds on depth, memo and output lose no change. *)
DiffCoversChange ==
  diff.status = "OK" =>
    /\ Leaves({diff.to}) \subseteq Leaves({diff.from} \cup diff.changed)
    /\ diff.changed \subseteq Below(diff.to)
    /\ (diff.changed = {}) = (diff.from = diff.to)
=============================================================================
