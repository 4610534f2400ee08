------------------------------- MODULE SwCap -------------------------------
(* carmix/swcap.c: the software capability gate, as pure operators.
   A capability is [base, length, perms, valid]; perms is the SET of canonical
   permissions (cvsasx_pir.h) whose bits are on, so `a & ~b` is a \ b and
   `a & b` is a \cap b.  Addresses are machine words, 0..WordMod-1; the one
   addition the gate makes wraps (Plus), its subtractions are all guarded. *)
EXTENDS Integers

CONSTANTS WordMod,       \* 2^64 in the code
          Hash           \* the content addresses objects may have

ASSUME WordAssumption == WordMod \in Nat /\ WordMod > 0

Word == 0..(WordMod - 1)

(* unsigned addition of two words: (a + b) % WordMod *)
Plus(a, b) == IF a + b < WordMod THEN a + b ELSE a + b - WordMod

(* One representative privileged permission stands for SEAL, UNSEAL, INVOKE,
   ACCESS_SYS_REGS, SET_CID and UNMODELLED, which the gate treats alike; GLOBAL
   and the *_CAP loads and local stores are plain data permissions like LOAD. *)
Perm           == {"LOAD", "STORE", "STORE_CAP", "EXECUTE", "SEAL"}
FORBIDDEN_MASK == {"SEAL"}
WRITE_ANY      == {"STORE", "STORE_CAP"}

Cap     == [base : Word, length : Word, perms : SUBSET Perm, valid : BOOLEAN]
NullCap == [base |-> 0, length |-> 0, perms |-> {}, valid |-> FALSE]

(* cvsasx_pir_t.  version_ok: struct_version == CVSASX_PIR_VERSION; unsealed:
   none of sealed, WAS_SEALED, otype_class # UNSEALED; referent_valid: the
   REFERENT_VALID flag. *)
ZeroHash == "zero"
PIR == [referent_hash : Hash \cup {ZeroHash}, offset : Word, length : Word,
        perms : SUBSET Perm, version_ok : BOOLEAN, unsealed : BOOLEAN, referent_valid : BOOLEAN]

Region == [object_cap : Cap, object_base_addr : Word, object_length : Word, hash : Hash]

(* cvsasx_sw_custodian_init: an invalid root leaves the custodian unusable *)
Custodian == [root : Cap, initialized : BOOLEAN]
NoCustodian == [root |-> NullCap, initialized |-> FALSE]
cvsasx_sw_custodian_init(root) ==
  IF root.valid THEN [root |-> root, initialized |-> TRUE] ELSE NoCustodian

(* [base, base+length) lies in an object of length olen placed at obase *)
Within(base, length, obase, olen) ==
  /\ obase <= base
  /\ base - obase <= olen
  /\ length <= olen - (base - obase)

(* cvsasx_sw_cap_strip(cap, ref), ref being the object's placement at the
   source and its hash.  When it fails, out_pir is left zeroed and of the
   OPAQUE otype class, for a caller that does not look at the status. *)
OpaquePir == [referent_hash |-> ZeroHash, offset |-> 0, length |-> 0, perms |-> {},
              version_ok |-> TRUE, unsealed |-> FALSE, referent_valid |-> FALSE]
cvsasx_sw_cap_strip(cap, ref) ==
  IF cap.valid /\ Within(cap.base, cap.length, ref.object_base_addr, ref.object_length)
  THEN [referent_hash |-> ref.hash, offset |-> cap.base - ref.object_base_addr,
        length |-> cap.length, perms |-> cap.perms,
        version_ok |-> TRUE, unsealed |-> TRUE, referent_valid |-> TRUE]
  ELSE OpaquePir

sw_check_region(cust, r) ==
  /\ r.object_cap.valid
  /\ r.object_cap.perms \subseteq cust.root.perms
  /\ Within(r.object_cap.base, r.object_cap.length, cust.root.base, cust.root.length)
  /\ r.object_cap.base = r.object_base_addr
  /\ r.object_cap.length = r.object_length

BoundsOK(pir, r) ==
  /\ pir.length # 0
  /\ pir.offset <= r.object_length
  /\ pir.length <= r.object_length - pir.offset

(* W^X *)
WxViolation(perms) == "EXECUTE" \in perms /\ perms \cap WRITE_ANY # {}

(* the status of cvsasx_sw_cap_remint: the first check that fails, in order *)
RemintStatus(cust, pir, r) ==
  IF ~(cust.initialized /\ cust.root.valid)          THEN "BAD_ROOT"
  ELSE IF ~pir.version_ok                            THEN "VERSION"
  ELSE IF ~pir.unsealed                              THEN "SEALED_UNSUPPORTED"
  ELSE IF ~pir.referent_valid                        THEN "REFERENT_MISMATCH"
  ELSE IF pir.referent_hash # r.hash                 THEN "REFERENT_MISMATCH"
  ELSE IF ~sw_check_region(cust, r)                  THEN "BAD_REGION"
  ELSE IF ~BoundsOK(pir, r)                          THEN "BAD_BOUNDS"
  ELSE IF pir.perms \cap FORBIDDEN_MASK # {}         THEN "PERM_FORBIDDEN"
  ELSE IF WxViolation(pir.perms)                     THEN "WX_VIOLATION"
  ELSE IF ~(pir.perms \subseteq r.object_cap.perms)  THEN "AMPLIFY_PERMS"
  ELSE "OK"

(* the capability it constructs; *out_cap is the null capability on a reject *)
Derived(pir, r) ==
  [base |-> Plus(r.object_cap.base, pir.offset), length |-> pir.length,
   perms |-> pir.perms, valid |-> TRUE]
cvsasx_sw_cap_remint(cust, pir, r) ==
  IF RemintStatus(cust, pir, r) = "OK" THEN Derived(pir, r) ELSE NullCap

(* the enforcement check before every access *)
cvsasx_swcap_check(c, offset, size, need) ==
  /\ c.valid
  /\ need \subseteq c.perms
  /\ offset <= c.length
  /\ size <= c.length - offset

(* What a capability is authority for: the pairs of a byte address and a
   permission.  This is the specification the gate is measured against. *)
Authority(c) ==
  {x \in Word \X Perm :
     /\ c.valid /\ x[2] \in c.perms
     /\ \E k \in 0..(c.length - 1) : x[1] = Plus(c.base, k)}

(* The same relative to the object, which is what survives a migration: the
   object lies at another address on every machine. *)
ObjectAuthority(c, obase) ==
  {x \in Word \X Perm :
     /\ c.valid /\ x[2] \in c.perms
     /\ c.base - obase <= x[1] /\ x[1] < c.base - obase + c.length}
=============================================================================
