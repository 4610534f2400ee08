-------------------------------- MODULE UCaps --------------------------------
(***************************************************************************)
(* The capability userland (kernel.c U-0, U-1, and its uses in U3-2 and    *)
(* CU-4): a process's CSpace of capability slots, the gated store          *)
(* syscalls, spawn with a subset of the parent's capabilities, derivation  *)
(* records and revocation, and the one-message endpoint that carries data  *)
(* and a capability.  A refused call leaves everything as it was and is    *)
(* not a step.  Console writes and reads change nothing; memory is UMem.   *)
(***************************************************************************)
EXTENDS Naturals, FiniteSets, FiniteSetsExt

CONSTANTS Slot,     \* CSpace slots 0..U0_NSLOT-1 (at least 0..3, as booted)
          Object,   \* contents the program may write
          Known,    \* the object the boot descriptor's read capability names
          Size,     \* lengths of a write
          Quota,    \* the write capability's quota (256 bytes in the code)
          MaxReq,   \* bound: slots a spawn asks for (2 in every call)
          StoreCap  \* objects the store holds

VARIABLES store,   \* objects in u0_store
          cspace,  \* u0_cspace: the running process
          parent, child, \* u1_parent and u1_child
          deriv,   \* parent slots the child's capabilities were derived from
          ep       \* the endpoint: the message's capability, or nothing

ucvars == <<store, cspace, parent, child, deriv, ep>>

CAP_NONE == [type |-> "none"]
Console  == [type |-> "console"]
Pool     == [type |-> "pool"]
SRead(o) == [type |-> "sread", obj |-> o]
SWrite   == [type |-> "swrite"]
Empty    == [s \in Slot |-> CAP_NONE]

(* The boot descriptor of run_u0 and the parent of run_u1u2. *)
Booted == [Empty EXCEPT ![0] = Console, ![1] = Pool, ![2] = SRead(Known), ![3] = SWrite]

UCapsInit ==
  /\ store = {Known}
  /\ cspace = Booted /\ parent = Booted
  /\ child = Empty /\ deriv = {}
  /\ ep = [has |-> FALSE, cap |-> CAP_NONE]

Put(o) == o \in store \/ Cardinality(store) < StoreCap

(* u0_install_read_cap: the first free slot, none when the CSpace is full. *)
Install(cs, c) ==
  LET free == {s \in Slot : cs[s] = CAP_NONE}
  IN  IF free = {} THEN cs ELSE [cs EXCEPT ![Min(free)] = c]

(* Mutant: the read capability is installed before the store has answered. *)
WriteInstallsFirst(s, o, len) ==
  /\ cspace[s].type = "swrite" /\ len <= Quota
  /\ store' = IF Put(o) THEN store \cup {o} ELSE store
  /\ cspace' = Install(cspace, SRead(o))
  /\ UNCHANGED <<parent, child, deriv, ep>>

u0_store_write(s, o, len) ==
  /\ cspace[s].type = "swrite" /\ len <= Quota
  /\ Put(o)
  /\ store' = store \cup {o}
  /\ cspace' = Install(cspace, SRead(o))
  /\ UNCHANGED <<parent, child, deriv, ep>>

(* All requested slots are checked before any is granted. *)
u1_spawn(req) ==
  /\ \A s \in req : parent[s] # CAP_NONE
  /\ child' = [s \in Slot |-> IF s \in req THEN parent[s] ELSE CAP_NONE]
  /\ deriv' = req
  /\ UNCHANGED <<store, cspace, parent, ep>>

u1_revoke(s) ==
  /\ s \in deriv
  /\ child' = [child EXCEPT ![s] = CAP_NONE]
  /\ UNCHANGED <<store, cspace, parent, deriv, ep>>

(* A send overwrites whatever message is waiting. *)
u1_cap_send(c) ==
  /\ c = CAP_NONE \/ \E s \in Slot : parent[s] = c
  /\ ep' = [has |-> TRUE, cap |-> c]
  /\ UNCHANGED <<store, cspace, parent, child, deriv>>

(* The receiver takes data and capability; the endpoint is empty again. *)
u1_cap_recv ==
  /\ ep.has
  /\ ep' = [ep EXCEPT !.has = FALSE]
  /\ UNCHANGED <<store, cspace, parent, child, deriv>>

(* U1-4 and CU-4: the child runs: its CSpace becomes the process's. *)
RunChild ==
  /\ cspace' = child
  /\ UNCHANGED <<store, parent, child, deriv, ep>>

(* U3-2 and CU-4 start over with a parent that holds console and store-read. *)
Reparent ==
  /\ parent' = [Empty EXCEPT ![0] = Console, ![2] = SRead(Known)]
  /\ UNCHANGED <<store, cspace, child, deriv, ep>>

UCapsNext ==
  \/ \E s \in Slot, o \in Object, len \in Size : u0_store_write(s, o, len)
  \/ \E n \in 0..MaxReq : \E req \in kSubset(n, Slot) : u1_spawn(req)
  \/ \E s \in Slot : u1_revoke(s)
  \/ \E c \in {CAP_NONE} \cup {parent[s] : s \in Slot} : u1_cap_send(c)
  \/ u1_cap_recv \/ RunChild \/ Reparent

UCapsSpec == UCapsInit /\ [][UCapsNext]_ucvars

-----------------------------------------------------------------------------
Held == {cspace[s] : s \in Slot} \cup {parent[s] : s \in Slot}
        \cup {child[s] : s \in Slot} \cup {ep.cap}

(* Every read capability in circulation, in a CSpace or a message (and so    *)
(* in a receiver's hands), names an object the store holds, so a read through a   *)
(* capability never finds its object absent; and every capability of the   *)
(* child has a derivation record, so revoking the parent's slot reaches it. *)
CapsBacked ==
  /\ \A c \in Held : c.type = "sread" => c.obj \in store
  /\ \A s \in Slot : child[s] # CAP_NONE => s \in deriv
=============================================================================
