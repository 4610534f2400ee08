-------------------------------- MODULE Cfs --------------------------------
(***************************************************************************)
(* The content-addressed filesystem (kernel.c FS1-FS8, CFS1-CFS6): files   *)
(* and directories are immutable objects, a directory lists name/hash      *)
(* entries, a write makes a new root, and old trees are reclaimed by       *)
(* reference counts in the garbage collector's table.  The objects the     *)
(* callers make are Named, a function from hashes to contents; that the    *)
(* store gives the bytes back is ObjectStore, and which block backs a      *)
(* present object is Gc.                                                   *)
(*                                                                         *)
(* The callers may name a directory they built before: CFS-5 builds again  *)
(* the root whose tree CFS-3 reclaimed, without its files.  `whole' are    *)
(* the directories all of whose children were present when they were made. *)
(***************************************************************************)
EXTENDS Integers, Sequences, FiniteSets, SequencesExt

CONSTANTS Named,  \* hash -> [is_dir, data, ents], ents a sequence of <<name, hash>>
          RcMax,  \* entries of gc_rc[]
          MaxPin  \* bound: references a caller takes on one root

VARIABLES present, \* objects with a block of their own (cfs_tab[].present)
          tab,     \* objects ever entered in cfs_tab
          rc,      \* object -> reference count and tombstone (gc_rc, CFS_DOM)
          pins,    \* root -> references callers hold
          whole

fvars == <<present, tab, rc, pins, whole>>

Hashes == DOMAIN Named
Ents(h) == Named[h].ents
Kids(h) == [k \in DOMAIN Ents(h) |-> Ents(h)[k][2]]
IsDir(h) == Named[h].is_dir
Roots == {r \in Hashes : IsDir(r) /\ \A d \in Hashes : r \notin {e[2] : e \in ToSet(Ents(d))}}

gc_rc_apply(t, o, delta) ==
  IF o \in DOMAIN t THEN [t EXCEPT ![o].count = @ + delta]
  ELSE IF Cardinality(DOMAIN t) >= RcMax THEN t
  ELSE [x \in DOMAIN t \cup {o} |->
          IF x = o THEN [count |-> delta, tomb |-> FALSE] ELSE t[x]]
gc_rc_get(t, o) == IF o \in DOMAIN t THEN t[o].count ELSE 0

CfsInit == present = {} /\ tab = {} /\ rc = <<>> /\ pins = [r \in Roots |-> 0] /\ whole = {}

(* cfs_mat: a newly live object gets a block and a fresh generation; a     *)
(* newly live directory counts one reference on each child.                *)
cfs_mat(o) ==
  LET t == IF o \in DOMAIN rc THEN [rc EXCEPT ![o].tomb = FALSE] ELSE rc IN
  /\ tab' = tab \cup {o}
  /\ present' = present \cup {o}
  /\ rc' = IF o \in present THEN rc
           ELSE FoldLeft(LAMBDA x, c : gc_rc_apply(x, c, 1), t, Kids(o))
  /\ whole' = IF o \in present THEN whole
              ELSE IF ToSet(Kids(o)) \subseteq present
              THEN whole \cup {o} ELSE whole \ {o}
  /\ UNCHANGED pins

cfs_file(f) == ~IsDir(f) /\ cfs_mat(f)

(* cfs_dir: the entries' hashes are known to the caller, present or not. *)
cfs_dir(d) ==
  /\ IsDir(d) /\ ToSet(Kids(d)) \subseteq tab
  /\ cfs_mat(d)

cfs_pin(r) ==
  /\ r \in present /\ pins[r] < MaxPin
  /\ pins' = [pins EXCEPT ![r] = @ + 1]
  /\ rc' = gc_rc_apply(rc, r, 1)
  /\ UNCHANGED <<present, tab, whole>>

(* cfs_unref on s = [rc, present]: at zero a present object drops its      *)
(* children first, then is tombstoned and freed.                           *)
RECURSIVE UnrefAlways(_, _)
UnrefAlways(s, o) ==
  LET t == gc_rc_apply(s.rc, o, -1) IN
  IF o \notin s.present THEN [s EXCEPT !.rc = t]
  ELSE LET below == FoldLeft(UnrefAlways, [s EXCEPT !.rc = t], Kids(o))
       IN [rc      |-> IF o \in DOMAIN below.rc
                       THEN [below.rc EXCEPT ![o].tomb = TRUE] ELSE below.rc,
           present |-> below.present \ {o}]

RECURSIVE cfs_unref(_, _)
cfs_unref(s, o) ==
  LET t == gc_rc_apply(s.rc, o, -1) IN
  IF gc_rc_get(t, o) # 0 \/ o \notin s.present THEN [s EXCEPT !.rc = t]
  ELSE LET below == FoldLeft(cfs_unref, [s EXCEPT !.rc = t], Kids(o))
       IN [rc      |-> IF o \in DOMAIN below.rc
                       THEN [below.rc EXCEPT ![o].tomb = TRUE] ELSE below.rc,
           present |-> below.present \ {o}]

Unpin(r) ==
  LET s == cfs_unref([rc |-> rc, present |-> present], r) IN
  /\ pins[r] > 0
  /\ pins' = [pins EXCEPT ![r] = @ - 1]
  /\ rc' = s.rc /\ present' = s.present
  /\ UNCHANGED <<tab, whole>>

CfsNext ==
  \/ \E h \in Hashes : cfs_file(h) \/ cfs_dir(h)
  \/ \E r \in Roots : cfs_pin(r) \/ Unpin(r)

CfsSpec == CfsInit /\ [][CfsNext]_fvars

-----------------------------------------------------------------------------
(* fs_resolve compares as many characters as the name asked for has, so it *)
(* finds the first entry whose name begins with it.                        *)
Matches(d, n) == {k \in DOMAIN Ents(d) : IsPrefix(n, Ents(d)[k][1])}
fs_resolve(d, n) == Kids(d)[CHOOSE k \in Matches(d, n) : \A j \in Matches(d, n) : k <= j]

(* cfs_diff: the number of changed leaves; equal hashes are not descended. *)
RECURSIVE DiffStopsEarly(_, _)
DiffStopsEarly(a, b) ==
  IF a = b THEN 0
  ELSE IF ~IsDir(a) \/ ~IsDir(b) THEN 1
  ELSE DiffStopsEarly(Head(Kids(a)), fs_resolve(b, Head(Ents(a))[1]))

RECURSIVE cfs_diff(_, _)
cfs_diff(a, b) ==
  IF a = b THEN 0
  ELSE IF ~IsDir(a) \/ ~IsDir(b) THEN 1
  ELSE FoldLeft(LAMBDA n, e : n + IF Matches(b, e[1]) = {} THEN 1
                                  ELSE cfs_diff(e[2], fs_resolve(b, e[1])), 0, Ents(a))

(* The reference: the files of a tree, each with its path of names. *)
RECURSIVE PathsOf(_)
PathsOf(h) ==
  IF ~IsDir(h) THEN {<< <<>>, Named[h].data >>}
  ELSE UNION {{<< <<e[1]>> \o p[1], p[2] >> : p \in PathsOf(e[2])} : e \in ToSet(Ents(h))}

(* Trees are kept while a root is: the count of an object is the number of *)
(* references from present directories and from callers, so a shared       *)
(* subtree outlives every root but the last, and a directory whose         *)
(* children were present when it was made has all of them for as long as   *)
(* it is present itself.  Reclaimed roots that are built again, with or    *)
(* without their files, do not change this for the other trees.            *)
TreesKept ==
  /\ \A o \in tab :
       gc_rc_get(rc, o) = Cardinality({<<d, k>> \in present \X (1..Cardinality(Hashes)) :
                                          k \in DOMAIN Ents(d) /\ Kids(d)[k] = o})
                          + IF o \in Roots THEN pins[o] ELSE 0
  /\ \A d \in present \cap whole : ToSet(Kids(d)) \subseteq present

(* The diff of two roots counts exactly the paths whose files differ,      *)
(* although it prunes equal subtrees and looks names up by prefix (here no *)
(* name is a prefix of another one).                                       *)
DiffExact ==
  \A a, b \in present \cap Roots : cfs_diff(a, b) = Cardinality(PathsOf(a) \ PathsOf(b))
=============================================================================
