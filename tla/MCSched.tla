------------------------------ MODULE MCSched ------------------------------
(* The preempted pair of tasks of P2, with ticks from the moment the timer is armed. *)
EXTENDS Sched
MCDemos == {[n |-> 2, rounds |-> [i \in 0..2 |-> 2], yields |-> FALSE, timer |-> TRUE]}
=============================================================================
