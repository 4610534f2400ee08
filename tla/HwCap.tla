------------------------------- MODULE HwCap -------------------------------
(* cap/cap_strip.c, cap/cap_custodian.c, cap/cap_remint.S: strip and re-mint of
   CHERI capabilities.  A capability is [tag, base, length, perms, sealed]; its
   perms are the target's own, of which the map translates some to canonical
   ones and lumps the others together as UNMODELLED (SEAL stands for every
   forbidden canonical permission, as in SwCap).  A capability may span the
   whole address space, WordMod bytes, a length CGetLen cannot express.

   A capability travels: it is stripped on the machine it is on and re-minted on
   the next, beside a software capability that makes the same journey through
   the gate of SwCap. *)
EXTENDS SwCap

CONSTANTS ObjLen,           \* length of the object the capability points into
          Places,           \* where machines have the object
          LocalPerms,       \* the permission sets a region may have
          Exact(_, _)       \* whether bounds [base, base + length) are representable

VARIABLES hw, sw,           \* the travelling capability, on either backend
          at,               \* where the object is on the current machine
          window            \* offset and length of the authority it began with

hvars == <<hw, sw, at, window>>

Object == "obj"
NullHw == [tag |-> FALSE, base |-> 0, length |-> 0, perms |-> {}, sealed |-> FALSE]
CGetLen(c) == IF c.length = WordMod THEN WordMod - 1 ELSE c.length

Mapped == {"LOAD", "STORE", "STORE_CAP", "EXECUTE"}          \* CVSASX_PERM_MAP
cvsasx_perms_local_to_canonical(local) ==
  (local \cap Mapped) \cup (IF local \subseteq Mapped THEN {} ELSE {"SEAL"})
PermsAllowed(canon) ==
  /\ canon \cap FORBIDDEN_MASK = {}
  /\ ~("EXECUTE" \in canon /\ canon \cap WRITE_ANY # {})
cvsasx_perms_canonical_to_local(canon) == canon \cap Mapped

(* cvsasx_cap_strip: a sealed capability is described as sealed *)
cvsasx_cap_strip(c, ref) ==
  IF c.tag /\ Within(c.base, CGetLen(c), ref.object_base_addr, ref.object_length)
  THEN [referent_hash |-> ref.hash, offset |-> c.base - ref.object_base_addr,
        length |-> CGetLen(c), perms |-> cvsasx_perms_local_to_canonical(c.perms),
        version_ok |-> TRUE, unsealed |-> ~c.sealed, referent_valid |-> TRUE]
  ELSE OpaquePir

(* cvsasx_check_region *)
cvsasx_check_region(root, r) ==
  /\ r.object_cap.tag
  /\ r.object_cap.perms \subseteq root.perms
  /\ Within(r.object_cap.base, CGetLen(r.object_cap), root.base, CGetLen(root))
  /\ r.object_cap.base = r.object_base_addr
  /\ CGetLen(r.object_cap) = r.object_length

(* what CSetAddr, CSetBoundsExact and CAndPerm make of the region's capability:
   bounds that are not representable clear the tag, or, on a target that rounds,
   widen the window by a byte *)
Derivations(c, base, length, mask) ==
  LET got(t, b, l) == [tag |-> t /\ c.tag /\ ~c.sealed, base |-> b, length |-> l,
                       perms |-> c.perms \cap mask, sealed |-> c.sealed]
  IN  IF Exact(base, length) THEN {got(TRUE, base, length)}
      ELSE {got(FALSE, base, length), got(TRUE, base, length + 1)}
           \cup (IF base = 0 THEN {} ELSE {got(TRUE, base - 1, length + 1)})

(* Mutant: no look at the length that was minted. *)
VerifyTagAndBase(c, base, length, mask) == c.tag /\ c.base = base /\ c.perms = mask /\ ~c.sealed
(* the post-mint verification *)
Verified(c, base, length, mask) ==
  c.tag /\ c.base = base /\ CGetLen(c) = length /\ c.perms = mask /\ ~c.sealed

(* the capabilities cvsasx_cap_remint may give back; NullHw when it refuses *)
cvsasx_cap_remint(root, pir, r) ==
  IF /\ root.tag /\ pir.version_ok /\ pir.unsealed /\ pir.referent_valid
     /\ pir.referent_hash = r.hash
     /\ cvsasx_check_region(root, r)
     /\ BoundsOK(pir, r)
     /\ PermsAllowed(pir.perms)
     /\ cvsasx_perms_canonical_to_local(pir.perms) \subseteq r.object_cap.perms
  THEN LET base == Plus(r.object_cap.base, pir.offset)
           mask == cvsasx_perms_canonical_to_local(pir.perms) IN
       {IF Verified(c, base, pir.length, mask) THEN c ELSE NullHw :
          c \in Derivations(r.object_cap, base, pir.length, mask)}
  ELSE {NullHw}
-----------------------------------------------------------------------------
RegionCap(p, perms) == [tag |-> TRUE, base |-> p, length |-> ObjLen, perms |-> perms, sealed |-> FALSE]
Software(c) == [base |-> c.base, length |-> CGetLen(c), perms |-> cvsasx_perms_local_to_canonical(c.perms),
                valid |-> c.tag]
Referent(p) == [hash |-> Object, object_base_addr |-> p, object_length |-> ObjLen]

HwInit == hw = NullHw /\ sw = NullCap /\ at = 0 /\ window = <<0, 0>>

(* a task gets a capability for a window of the object *)
Grant(p, off, len, perms, sealed) ==
  /\ ~hw.tag /\ off + len <= ObjLen
  /\ hw' = [tag |-> TRUE, base |-> p + off, length |-> len, perms |-> perms, sealed |-> sealed]
  /\ sw' = IF sealed THEN NullCap ELSE Software(hw')
  /\ at' = p /\ window' = <<off, len>>

(* it migrates to a machine that has the object at p, under its root *)
Migrate(p, perms, root) ==
  /\ hw.tag
  /\ LET reg(c) == [object_cap |-> c, object_base_addr |-> p, object_length |-> ObjLen, hash |-> Object]
         rc == RegionCap(p, perms) IN
     /\ hw' \in cvsasx_cap_remint(root, cvsasx_cap_strip(hw, Referent(at)), reg(rc))
     /\ sw' = cvsasx_sw_cap_remint(cvsasx_sw_custodian_init(Software(root)),
                                   cvsasx_sw_cap_strip(sw, Referent(at)), reg(Software(rc)))
  /\ at' = p /\ UNCHANGED window

HwRoots == {[tag |-> t, base |-> 0, length |-> l, perms |-> p, sealed |-> FALSE] :
              t \in BOOLEAN, l \in {ObjLen, WordMod}, p \in LocalPerms}
HwNext ==
  \/ \E p \in Places, off, len \in 0..ObjLen, perms \in LocalPerms, sealed \in BOOLEAN :
       Grant(p, off, len, perms, sealed)
  \/ \E p \in Places, perms \in LocalPerms, root \in HwRoots : Migrate(p, perms, root)

HwSpec == HwInit /\ [][HwNext]_hvars
-----------------------------------------------------------------------------
(* The CHERI gate grants nothing the software gate would not: on every journey a
   capability that arrives is the one the software backend has, over exactly the
   window it began with, whatever the target does with bounds it cannot
   represent ("REJECT, never clamp"), and never sealed. *)
BackendsAgree ==
  hw.tag /\ ~hw.sealed =>
    /\ sw = Software(hw)
    /\ hw.base = at + window[1] /\ hw.length = window[2]
=============================================================================
