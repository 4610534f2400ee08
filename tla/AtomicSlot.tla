----------------------------- MODULE AtomicSlot -----------------------------
(* What the versioned capability gate promises (kernel.c, VG0-VG5): a slot
   that holds one whole capability, replaced in one step by one the gate
   minted.  Whoever reads it, at any instant, reads a capability. *)
CONSTANT Mintable       \* the capabilities the gate can mint

VARIABLE cap

Init == cap \in Mintable
Replace == cap' # cap /\ cap' \in Mintable
Spec == Init /\ [][Replace]_cap
=============================================================================
