----------------------------- MODULE DurableMap -----------------------------
(* What the durable log promises (kernel.c, S2-S7 and GC1): a set of objects
   that only grows, and counts that move by the deltas asked for, one durable
   record at a time.  A crash and a recovery change neither. *)
EXTENDS Integers

CONSTANTS Content, Delta

VARIABLES objects, counts

Init == objects = {} /\ counts = [c \in Content |-> 0]

Add(c)      == objects' = objects \cup {c} /\ UNCHANGED counts
Count(c, d) == counts' = [counts EXCEPT ![c] = @ + d] /\ UNCHANGED objects

Next == \E c \in Content : Add(c) \/ \E d \in Delta : Count(c, d)
Spec == Init /\ [][Next]_<<objects, counts>>
=============================================================================
