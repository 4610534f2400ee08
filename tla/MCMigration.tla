---------------------------- MODULE MCMigration ----------------------------
(* Every pair of roots over every graph of four objects in which an object has
   at most two children and is built after them (a higher number is deeper), so
   subtrees may be shared within a round and between rounds. *)
EXTENDS Migration
MCObject == 1..4
Below(o) == {k \in MCObject : k > o}
Branches(o) == {<<>>} \cup {<<k>> : k \in Below(o)} \cup
               {<<p[1], p[2]>> : p \in {q \in Below(o) \X Below(o) : q[1] # q[2]}}
MCTrees  ==
  {[kids |-> k, roots |-> <<p[1], p[2]>>] :
     k \in {f \in [MCObject -> UNION {Branches(o) : o \in MCObject}] :
             \A o \in MCObject : f[o] \in Branches(o)},
     p \in {1, 2} \X {1, 2}}

ASSUME MCMigrationFits == Fits(2)
=============================================================================
