----------------------------- MODULE Delegation -----------------------------
(* Capabilities on the move (carmix/swcap.c as its callers use it): a node
   mints a capability for an object it has placed, strips it to a PIR for
   another node, and that node re-mints it against its own custodian and its
   own placement of the object, which may lie anywhere in its memory.

   Every presented PIR goes through the gate, whoever made it: Presented is the
   set of PIRs a task may carry that were not made by strip. *)
EXTENDS SwCap, FiniteSets

CONSTANTS Node, Roots, Regions, Presented,
          MaxHeld, MaxWire    \* bounds on the capabilities and PIRs in play

ASSUME DelegationAssumption ==
  /\ Roots \subseteq Cap /\ Regions \subseteq Region /\ Presented \subseteq PIR
  /\ \A root \in Roots : root.base + root.length <= WordMod   \* real memory
  /\ MaxHeld \in Nat /\ MaxWire \in Nat

VARIABLES cust,     \* each node's custodian
          held,     \* capabilities in use
          wire      \* PIRs in transit

vars == <<cust, held, wire>>

(* A held capability, and three things the code does not record: the root and
   the region it was minted from, and the object authority `seed` of the first
   capability of its chain of strips and re-mints. *)
Holding(n, c, root, r, seed) ==
  [node |-> n, cap |-> c, root |-> root, region |-> r, seed |-> seed]

Init == /\ cust = [n \in Node |-> NoCustodian]
        /\ held = {} /\ wire = {}

Boot(n, root) ==
  /\ cust' = [cust EXCEPT ![n] = cvsasx_sw_custodian_init(root)]
  /\ UNCHANGED <<held, wire>>

(* us_remint_at_crossing / conc_remint: a caller uses the result only when the
   status is OK and the capability is valid. *)
Accept(n, pir, r, seed) ==
  LET c == cvsasx_sw_cap_remint(cust[n], pir, r) IN
  /\ c.valid
  /\ held' = held \cup {Holding(n, c, cust[n].root, r, seed)}
  /\ Cardinality(held') <= MaxHeld
  /\ UNCHANGED <<cust, wire>>

(* the first capability of a chain is its own seed *)
Mint(n, pir, r) ==
  Accept(n, pir, r, ObjectAuthority(cvsasx_sw_cap_remint(cust[n], pir, r), r.object_base_addr))

Receive(n, m, r) == Accept(n, m.pir, r, m.seed)

(* Mutant: the capability for the whole object is sent, not the task's. *)
StripObject(h) ==
  /\ wire' = wire \cup {[pir |-> cvsasx_sw_cap_strip(h.region.object_cap, h.region),
                         seed |-> h.seed]}
  /\ Cardinality(wire') <= MaxWire
  /\ UNCHANGED <<cust, held>>

(* The referent handed to strip is the source's placement of the object. *)
Strip(h) ==
  /\ wire' = wire \cup {[pir |-> cvsasx_sw_cap_strip(h.cap, h.region), seed |-> h.seed]}
  /\ Cardinality(wire') <= MaxWire
  /\ UNCHANGED <<cust, held>>

(* a capability goes out of scope; a PIR is lost, or was read for the last time *)
Drop(h) == held' = held \ {h} /\ UNCHANGED <<cust, wire>>
Lose(m) == wire' = wire \ {m} /\ UNCHANGED <<cust, held>>

Next ==
  \/ \E n \in Node, root \in Roots : Boot(n, root)
  \/ \E n \in Node, r \in Regions : \E pir \in Presented : Mint(n, pir, r)
  \/ \E n \in Node, r \in Regions : \E m \in wire : Receive(n, m, r)
  \/ \E h \in held : Strip(h) \/ Drop(h)
  \/ \E m \in wire : Lose(m)

Spec == Init /\ [][Next]_vars
-----------------------------------------------------------------------------
(* The state is made of custodians, capabilities and PIRs of the right shape. *)
TypeOK ==
  /\ cust \in [Node -> Custodian]
  /\ \A h \in held : h.node \in Node /\ h.cap \in Cap /\ h.root \in Cap
                     /\ h.region \in Regions /\ h.seed \subseteq Word \X Perm
  /\ \A m \in wire : m.pir \in PIR /\ m.seed \subseteq Word \X Perm

(* Anti-amplification at one gate: a minted capability is authority for
   nothing its region's capability, or the root, was not authority for. *)
NoAmplification ==
  \A h \in held : /\ Authority(h.cap) \subseteq Authority(h.region.object_cap)
                  /\ Authority(h.region.object_cap) \subseteq Authority(h.root)

(* Anti-amplification over a whole chain: after any number of strips and
   re-mints, on whatever nodes and at whatever placements, a capability still
   names no byte of the object, and no permission on it, that the first
   capability of its chain did not ("dest authority <= source"). *)
ChainNarrows ==
  \A h \in held : ObjectAuthority(h.cap, h.region.object_base_addr) \subseteq h.seed

(* W^X and the privileged permissions: no minted capability is both writable
   and executable, or carries a permission no hosted task may hold, also when
   the root and the region have them. *)
Hosted ==
  \A h \in held : /\ "SEAL" \notin h.cap.perms
                  /\ "EXECUTE" \in h.cap.perms =>
                       "STORE" \notin h.cap.perms /\ "STORE_CAP" \notin h.cap.perms

(* Confinement: whatever access the check grants through a minted capability
   (SYS_READOBJ calls it on every read), each byte of it lies in the object as
   this node placed it, and the root was authority for it. *)
Confined ==
  \A h \in held, offset, size \in Word, p \in Perm :
    cvsasx_swcap_check(h.cap, offset, size, {p}) =>
      \A k \in offset..(offset + size - 1) :
        /\ <<Plus(h.cap.base, k), p>> \in Authority(h.root)
        /\ Plus(h.cap.base, k) - h.region.object_base_addr \in 0..(h.region.object_length - 1)

(* Along every chain of delegation authority narrows, and what the access check
   grants stays inside what is left of it (cvsasx_sw_cap_strip,
   cvsasx_sw_cap_remint and cvsasx_swcap_check together). *)
AuthorityNarrows == ChainNarrows /\ Confined
=============================================================================
