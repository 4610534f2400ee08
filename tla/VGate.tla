------------------------------- MODULE VGate -------------------------------
(* kernel/kernel.c, the single-CPU versioned capability gate (VG0-VG5): a
   version word and two capability buffers, the parity of the version choosing
   the active one.  vgate_commit mints the replacement with the gate of SwCap,
   writes it field by field into the inactive buffer and commits by a single
   store to the version.  Each store is a step of its own, because a capture
   may fire at any instant (vg_capture reads buf[version & 1]). *)
EXTENDS SwCap

CONSTANTS Ceiling,      \* the root capability vg_cust was made from
          RegionCap,    \* vg_region
          Requests,     \* the PIRs gate operations are asked for
          HalfVersions  \* 2^63 in the code: half the values of the version word

ASSUME VGateAssumption ==
  /\ Ceiling \in Cap /\ RegionCap \in Region /\ Requests \subseteq PIR
  /\ Ceiling.base + Ceiling.length <= WordMod
  /\ HalfVersions \in Nat /\ HalfVersions > 0

VARIABLES version, buf,     \* vgate_slot_t
          pc, rep,          \* where vgate_commit is, and its replacement
          committed         \* history: the capability of the last commit

vgvars == <<version, buf, pc, rep, committed>>

Active   == version % 2
Inactive == 1 - Active

(* version + 1 on a 64-bit word *)
VersionMod == 2 * HalfVersions
Bump(v) == IF v + 1 < VersionMod THEN v + 1 ELSE 0

vg_cust == cvsasx_sw_custodian_init(Ceiling)

Minted(pir) == cvsasx_sw_cap_remint(vg_cust, pir, RegionCap)
Mintable    == {c \in {Minted(pir) : pir \in Requests} : c.valid}

(* run_vgate: buf[0] is minted, buf[1] is whatever the stack held *)
VGateInit ==
  /\ version = 0
  /\ \E minted \in Mintable, stale \in Cap : buf = [i \in {0, 1} |-> IF i = 0 THEN minted ELSE stale]
  /\ committed = buf[0]
  /\ pc = "ready" /\ rep = NullCap

(* vgate_commit: refused, nothing is written *)
Refuse(pir) ==
  /\ pc = "ready" /\ ~Minted(pir).valid
  /\ UNCHANGED vgvars
BeginUnhosted(pir) ==       \* mutant: bounds and subset checked, policy not
  /\ pc = "ready" /\ BoundsOK(pir, RegionCap) /\ pir.perms \subseteq RegionCap.object_cap.perms
  /\ rep' = Derived(pir, RegionCap) /\ pc' = "base"
  /\ UNCHANGED <<version, buf, committed>>
Begin(pir) ==
  /\ pc = "ready" /\ Minted(pir).valid
  /\ rep' = Minted(pir) /\ pc' = "base"
  /\ UNCHANGED <<version, buf, committed>>

(* Mutant: the fields go to the active buffer. *)
WriteActive(field, after) ==
  /\ pc = field /\ pc' = after
  /\ buf' = [buf EXCEPT ![Active][field] = rep[field]]
  /\ UNCHANGED <<version, rep, committed>>

Write(field, after) ==
  /\ pc = field /\ pc' = after
  /\ buf' = [buf EXCEPT ![Inactive][field] = rep[field]]
  /\ UNCHANGED <<version, rep, committed>>

Commit ==
  /\ pc = "commit" /\ pc' = "ready" /\ committed' = rep
  /\ version' = Bump(version)
  /\ UNCHANGED <<buf, rep>>

VGateNext ==
  \/ \E pir \in Requests : Refuse(pir) \/ Begin(pir)
  \/ Write("base", "length") \/ Write("length", "perms")
  \/ Write("perms", "valid") \/ Write("valid", "commit")
  \/ Commit

VGateSpec == VGateInit /\ [][VGateNext]_vgvars
-----------------------------------------------------------------------------
(* The slot, the replacement and the program counter have the right types. *)
VGateTypeOK ==
  /\ version \in 0..(VersionMod - 1) /\ buf \in [{0, 1} -> Cap]
  /\ pc \in {"ready", "base", "length", "perms", "valid", "commit"}
  /\ rep \in Cap /\ committed \in Cap

(* "NEVER a torn/half-written capability": a capture at any instant of any
   number of gate operations reads exactly the last committed capability, whole
   and valid. *)
CaptureWhole == buf[Active] = committed /\ committed.valid

(* "post never exceeds the ceiling": what a capture reads is authority for
   nothing the ceiling was not authority for, in the middle of an operation and
   across the wrap of the version word too. *)
UnderCeiling == Authority(buf[Active]) \subseteq Authority(Ceiling)

(* The slot implements the atomic one: only the store to the version is a step
   of it, and a refused operation is none. *)
Slot == INSTANCE AtomicSlot WITH cap <- buf[Active]
RefinesAtomicSlot == Slot!Spec
=============================================================================
