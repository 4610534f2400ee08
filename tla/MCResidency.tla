---------------------------- MODULE MCResidency ----------------------------
(* Two pages, three frames and two contents, one of them the zero page.  The
   bytes left in a free frame are never read, so states that differ only there
   are the same state. *)
EXTENDS Residency, TLC

Symmetry == Permutations(Page) 
FreeBytesHidden ==
  <<stage, framedb, freestack, rset, clock_hand,
    [f \in Frame |-> IF framedb[f].state = "FREE" THEN Zero ELSE mem[f]],
    store, pte, pf_bindA, pf_anon, val, written, leaked>>
=============================================================================
