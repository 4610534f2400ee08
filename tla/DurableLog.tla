----------------------------- MODULE DurableLog -----------------------------
(* kernel/kernel.c, durable persistence (S2-S7) and the durable reference
   counts (GC1): an append-only log on the virtio block device.  An object is
   two blocks, the claim (header) and then the payload; a count change is one.
   Block 0 is the ROOT block.  An in-RAM index, the counts and the log head
   are rebuilt after a crash by scanning the log.

   The failure model is the code's own: writes reach the medium in the order
   they were issued (pending is what has not yet), a flush waits for all of
   them, a crash loses a suffix.  A crash may come between any two steps,
   recovery included.  Faults names the requests that may also return an error. *)
EXTENDS Integers, Sequences, FiniteSetsExt

CONSTANTS Content, None,
          NBlocks,      \* log blocks on the device
          IdxCap,       \* entries of dur_idx (256)
          Delta,        \* the count changes the kernel makes
          Graph,        \* the objects of the process S6 persists, in order
          Faults,
          MaxPending    \* bound: writes in the device's cache

VARIABLES disk, pending,                 \* the device
          dur_idx, dur_log_head, gc_rc,  \* RAM
          pc, cur, job, boot,            \* the operation in progress; run_persist's outcome
          acked, replayed                \* history, see below

ram  == <<dur_idx, dur_log_head, gc_rc>>
vars == <<disk, pending, ram, pc, cur, job, boot, acked, replayed>>

Hash(c) == <<"blake3", c>>              \* BLAKE3, assumed collision free

ASSUME LogAssumption ==
  /\ NBlocks \in Nat /\ IdxCap \in Nat /\ MaxPending \in Nat /\ Delta \subseteq Int /\ Faults \subseteq {"read", "write", "flush"}
  /\ Graph \in Seq(Content) /\ None \notin Content \cup {Hash(c) : c \in Content}

Block(k, c, d) == [kind |-> k, c |-> c, delta |-> d]
Empty    == Block("empty", None, 0)
Claim(c) == Block("DUR_MAGIC", Hash(c), 0)
Payload(c) == Block("bytes", c, 0)
RcRecTwice(c, d) == Block("RC_MAGIC", Hash(c), d + d)  \* mutant
RcRec(c, d) == Block("RC_MAGIC", Hash(c), d)
Root     == Block("ROOT_MAGIC", None, 0)

NoCounts == [h \in {Hash(c) : c \in Content} |-> 0]

(* acked: contents for which dur_put reported success.  replayed: the sum of
   the deltas whose record has reached the medium. *)
Init ==
  /\ disk = [b \in 0..NBlocks |-> Empty] /\ pending = <<>>
  /\ dur_idx = <<>> /\ dur_log_head = 1 /\ gc_rc = NoCounts
  /\ pc = "recover" /\ cur = None /\ job = 0 /\ boot = "none"
  /\ acked = {} /\ replayed = NoCounts

dur_idx_find(c) == \E i \in DOMAIN dur_idx : dur_idx[i].hash = Hash(c)

(* vblk_write: the block joins the queue of the device.  When it returns an error
   (a bad status) it may have got there or not. *)
vblk_write(b, x) == /\ Len(pending) < MaxPending
                    /\ pending' = Append(pending, [block |-> b, val |-> x])
vblk_write_fails(b, x) == "write" \in Faults /\ (vblk_write(b, x) \/ UNCHANGED pending)

(* vblk_flush: everything issued is on the medium; no caller looks at its status *)
vblk_flush == pending = <<>> \/ "flush" \in Faults
-----------------------------------------------------------------------------
(* dur_put(c): dedup; claim block; payload block; flush; index and head.  job
   counts the objects of Graph that persist_process_phase has gone through: it
   goes on to the next whatever dur_put returned. *)
Room(n)   == dur_log_head + n - 1 <= NBlocks
Turn(c)   == IF job = 0 THEN TRUE ELSE job <= Len(Graph) /\ Graph[job] = c
NextJob   == job' = IF job = 0 THEN 0 ELSE job + 1

PutDedup(c) ==
  /\ pc = "idle" /\ Turn(c) /\ dur_idx_find(c)
  /\ acked' = acked \cup {c} /\ NextJob
  /\ UNCHANGED <<disk, pending, ram, pc, cur, boot, replayed>>
PutClaim(c) ==
  /\ pc = "idle" /\ Turn(c) /\ ~dur_idx_find(c) /\ Room(2)
  /\ vblk_write(dur_log_head, Claim(c))
  /\ pc' = "claim" /\ cur' = c
  /\ UNCHANGED <<disk, ram, job, boot, acked, replayed>>
PutPayload ==
  /\ pc = "claim"
  /\ vblk_write(dur_log_head + 1, Payload(cur))
  /\ pc' = "payload"
  /\ UNCHANGED <<disk, ram, cur, job, boot, acked, replayed>>
PutDone ==
  /\ pc = "payload" /\ vblk_flush
  /\ dur_idx' = IF Len(dur_idx) < IdxCap
                THEN Append(dur_idx, [hash |-> Hash(cur), hdr_block |-> dur_log_head])
                ELSE dur_idx
  /\ dur_log_head' = dur_log_head + 2
  /\ acked' = acked \cup {cur} /\ pc' = "idle" /\ cur' = None /\ NextJob
  /\ UNCHANGED <<disk, pending, gc_rc, boot, replayed>>

(* return -2: the write of the claim, or of the payload, failed *)
PutFails(c) ==
  /\ \/ /\ pc = "idle" /\ Turn(c) /\ ~dur_idx_find(c) /\ Room(2)
        /\ vblk_write_fails(dur_log_head, Claim(c))
     \/ /\ pc = "claim" /\ cur = c
        /\ vblk_write_fails(dur_log_head + 1, Payload(c))
  /\ pc' = "idle" /\ cur' = None /\ NextJob
  /\ UNCHANGED <<disk, ram, boot, acked, replayed>>

(* gc_rc_put_delta: the status of the write is not looked at *)
RcWrite(c, d) ==
  /\ pc = "idle" /\ job = 0 /\ Room(1)
  /\ \/ vblk_write(dur_log_head, RcRec(c, d))
     \/ vblk_write_fails(dur_log_head, RcRec(c, d))
  /\ pc' = "rc" /\ cur' = [c |-> c, d |-> d]
  /\ UNCHANGED <<disk, ram, job, boot, acked, replayed>>
RcDone ==
  /\ pc = "rc" /\ vblk_flush
  /\ dur_log_head' = dur_log_head + 1
  /\ gc_rc' = [gc_rc EXCEPT ![Hash(cur.c)] = @ + cur.d]
  /\ pc' = "idle" /\ cur' = None
  /\ UNCHANGED <<disk, pending, dur_idx, job, boot, acked, replayed>>

(* run_persist, once recovery is over.  A disk without objects is a fresh one: the
   test object and the objects of the graph are put (persist_process_phase), then
   the ROOT block is written.  Any other disk is taken for one to revive from. *)
BootPersist ==
  /\ pc = "boot" /\ dur_idx = <<>>
  /\ job' = 1 /\ pc' = "idle" /\ boot' = "persist"
  /\ UNCHANGED <<disk, pending, ram, cur, acked, replayed>>
PersistRoot ==
  /\ pc = "idle" /\ job = Len(Graph) + 1
  /\ (vblk_write(0, Root) \/ vblk_write_fails(0, Root)) /\ pc' = "root"
  /\ UNCHANGED <<disk, ram, cur, job, boot, acked, replayed>>
PersistDone ==
  /\ pc = "root" /\ vblk_flush
  /\ pc' = "idle" /\ job' = 0
  /\ UNCHANGED <<disk, pending, ram, cur, boot, acked, replayed>>
-----------------------------------------------------------------------------
(* the device completes its oldest write *)
Complete ==
  /\ pending # <<>>
  /\ LET w == Head(pending) IN
       /\ disk' = [disk EXCEPT ![w.block] = w.val]
       /\ replayed' = IF w.val.kind = "RC_MAGIC"
                      THEN [replayed EXCEPT ![w.val.c] = @ + w.val.delta] ELSE replayed
  /\ pending' = Tail(pending)
  /\ UNCHANGED <<ram, pc, cur, job, boot, acked>>

(* power loss: RAM and what was pending are gone; the next boot recovers *)
CrashKeepsCounts ==                    \* mutant: gc_nrc is not reset
  /\ pending' = <<>> /\ dur_idx' = <<>> /\ dur_log_head' = 1
  /\ pc' = "recover" /\ cur' = None /\ job' = 0 /\ boot' = "none"
  /\ UNCHANGED <<disk, gc_rc, acked, replayed>>
Crash ==
  /\ pending' = <<>> /\ dur_idx' = <<>> /\ dur_log_head' = 1 /\ gc_rc' = NoCounts
  /\ pc' = "recover" /\ cur' = None /\ job' = 0 /\ boot' = "none"
  /\ UNCHANGED <<disk, acked, replayed>>

(* dur_recover, one record per step; dur_log_head is its scan position B *)
PayloadHash(b) == IF disk[b].kind = "bytes" THEN Hash(disk[b].c) ELSE None
ValidObject(b) == /\ b + 1 <= NBlocks /\ disk[b].kind = "DUR_MAGIC"
                  /\ PayloadHash(b + 1) = disk[b].c
ValidRc(b)     == b <= NBlocks /\ disk[b].kind = "RC_MAGIC"

RecoverUnverified ==                   \* mutant: no re-hash
  LET B == dur_log_head IN
  /\ pc = "recover" /\ B < NBlocks /\ disk[B].kind = "DUR_MAGIC"
  /\ dur_idx' = Append(dur_idx, [hash |-> disk[B].c, hdr_block |-> B])
  /\ dur_log_head' = B + 2
  /\ UNCHANGED <<disk, pending, gc_rc, pc, cur, job, boot, acked, replayed>>
RecoverUnindexed ==                    \* mutant: found, verified, forgotten
  /\ pc = "recover" /\ ValidObject(dur_log_head) /\ dur_log_head' = dur_log_head + 2
  /\ UNCHANGED <<disk, pending, dur_idx, gc_rc, pc, cur, job, boot, acked, replayed>>
RecoverStuck ==                        \* mutant: the scan position is not moved on
  /\ pc = "recover" /\ ValidObject(dur_log_head)
  /\ dur_idx' = IF Len(dur_idx) < IdxCap
                THEN Append(dur_idx, [hash |-> disk[dur_log_head].c,
                                      hdr_block |-> dur_log_head]) ELSE dur_idx
  /\ UNCHANGED <<disk, pending, dur_log_head, gc_rc, pc, cur, job, boot, acked, replayed>>
RecoverObject ==
  LET B == dur_log_head IN
  /\ pc = "recover" /\ ValidObject(B)
  /\ dur_idx' = IF Len(dur_idx) < IdxCap
                THEN Append(dur_idx, [hash |-> disk[B].c, hdr_block |-> B]) ELSE dur_idx
  /\ dur_log_head' = B + 2
  /\ UNCHANGED <<disk, pending, gc_rc, pc, cur, job, boot, acked, replayed>>
RecoverRc ==
  LET B == dur_log_head IN
  /\ pc = "recover" /\ ValidRc(B)
  /\ gc_rc' = [gc_rc EXCEPT ![disk[B].c] = @ + disk[B].delta]
  /\ dur_log_head' = B + 1
  /\ UNCHANGED <<disk, pending, dur_idx, pc, cur, job, boot, acked, replayed>>
(* The scan ends at a block that is no record, at a claim whose payload does not
   verify (rejected), or at a read that fails.  Over a rejected record run_persist
   does nothing more. *)
RecoverEnd(rejected) ==
  LET claimed == dur_log_head <= NBlocks /\ disk[dur_log_head].kind = "DUR_MAGIC" IN
  /\ pc = "recover"
  /\ \/ ~ValidObject(dur_log_head) /\ ~ValidRc(dur_log_head) /\ rejected = claimed
     \/ "read" \in Faults /\ (rejected => claimed)
  /\ IF rejected THEN pc' = "idle" /\ boot' = "rejected" ELSE pc' = "boot" /\ boot' = boot
  /\ UNCHANGED <<disk, pending, ram, cur, job, acked, replayed>>

Recover == RecoverObject \/ RecoverRc \/ \E rejected \in BOOLEAN : RecoverEnd(rejected)

(* revive_process_phase: the ROOT block, then every object of the index, read and
   hashed again (dur_get), into the stores; sm_remat rebuilds the process if they
   have its whole graph.  A read that fails is an object that is not loaded. *)
dur_get(i) ==
  /\ disk[dur_idx[i].hdr_block].kind = "DUR_MAGIC"
  /\ disk[dur_idx[i].hdr_block].c = dur_idx[i].hash
  /\ PayloadHash(dur_idx[i].hdr_block + 1) = dur_idx[i].hash
BootRevive(lost) ==
  /\ pc = "boot" /\ dur_idx # <<>> /\ pc' = "idle"
  /\ lost # {} => "read" \in Faults
  /\ boot' = IF disk[0] # Root \/ 0 \in lost THEN "noRoot"
             ELSE IF \A g \in Range(Graph) : \E i \in DOMAIN dur_idx \ lost :
                       dur_idx[i].hash = Hash(g) /\ dur_get(i)
                  THEN "revived" ELSE "notWhole"
  /\ UNCHANGED <<disk, pending, ram, cur, job, acked, replayed>>

Next ==
  \/ \E c \in Content : PutDedup(c) \/ PutClaim(c) \/ PutFails(c)
  \/ PutPayload \/ PutDone
  \/ \E c \in Content, d \in Delta : RcWrite(c, d)
  \/ RcDone \/ BootPersist \/ (\E lost \in SUBSET (0..IdxCap) : BootRevive(lost)) \/ PersistRoot \/ PersistDone
  \/ Complete \/ Crash \/ Recover

Spec == Init /\ [][Next]_vars

(* the kernel runs on (its steps are straight-line code), and the device
   completes what it has accepted: vblk_op polls for it *)
Continue == PutPayload \/ PutDone \/ RcDone \/ PersistDone \/ Recover \/ BootPersist \/ BootRevive({})
FairSpec == Spec /\ WF_vars(Continue) /\ WF_vars(Complete)
-----------------------------------------------------------------------------
BlockOK(x) ==
  /\ x.kind \in {"DUR_MAGIC", "RC_MAGIC"} => x.c \in DOMAIN NoCounts
  /\ x.kind = "bytes" => x.c \in Content
  /\ x.delta \in Int

(* Device, RAM and program counter have the right shapes; a claim and a count
   record hold a hash, a payload block holds content. *)
TypeOK ==
  /\ DOMAIN disk = 0..NBlocks /\ \A b \in 0..NBlocks : BlockOK(disk[b])
  /\ \A i \in DOMAIN pending : pending[i].block \in 0..NBlocks /\ BlockOK(pending[i].val)
  /\ \A i \in DOMAIN dur_idx : dur_idx[i].hdr_block \in 1..NBlocks
  /\ Len(dur_idx) <= IdxCap /\ dur_log_head \in 1..(NBlocks + 1)
  /\ gc_rc \in [DOMAIN NoCounts -> Int] /\ replayed \in [DOMAIN NoCounts -> Int]
  /\ pc \in {"idle", "claim", "payload", "rc", "root", "recover", "boot"}
  /\ boot \in {"none", "rejected", "persist", "noRoot", "revived", "notWhole"}
  /\ job \in 0..(Len(Graph) + 1) /\ acked \subseteq Content

(* what a read of block b returns: the newest write the device has accepted *)
Newest(b) ==
  LET w == {i \in DOMAIN pending : pending[i].block = b}
  IN  IF w = {} THEN disk[b] ELSE pending[Max(w)].val

(* dur_get(h) of an indexed object succeeds: the claim and the bytes are still
   there and verify, whatever was overwritten after a torn tail and whichever
   requests failed. *)
IndexVerified ==
  \A i \in DOMAIN dur_idx :
    LET claim == Newest(dur_idx[i].hdr_block)
        bytes == Newest(dur_idx[i].hdr_block + 1)
    IN  /\ claim.kind = "DUR_MAGIC" /\ claim.c = dur_idx[i].hash
        /\ bytes.kind = "bytes" /\ Hash(bytes.c) = claim.c

(* "durable before we index/ack" (dur_put): whatever crashes come, once recovery
   is over every object ever acknowledged is in the index again. *)
AckedDurable == pc = "idle" => \A c \in acked : dur_idx_find(c)

(* "a cold reboot reconstructs them by replay": the counts in RAM are the sum of
   exactly the deltas that reached the log, each once. *)
RcReplay == (pc = "idle" /\ pending = <<>>) => gc_rc = replayed

(* The ROOT block names a process only when the objects of its graph are all in
   the log, so a revive after any crash finds them. *)
Logged(c) == \E b \in 1..NBlocks : ValidObject(b) /\ disk[b].c = Hash(c)
RootComplete == disk[0] = Root => \A i \in DOMAIN Graph : Logged(Graph[i])

(* A boot that finds objects revives the process whenever its ROOT had become
   durable, and then whole. *)
ReviveExact == boot # "notWhole" /\ (boot = "noRoot" => disk[0] # Root)

(* What recovery leaves behind agrees with the log: the counts are its deltas, and
   the process whose ROOT is on the disk is there to revive. *)
RecoveredAgrees == RcReplay /\ RootComplete /\ ReviveExact

(* The log implements the durable map: a crash and every step of recovery are
   steps in which the map does not change. *)
Objects == {c \in Content : Logged(c)}
DM == INSTANCE DurableMap WITH objects <- Objects,
                               counts <- [c \in Content |-> replayed[Hash(c)]]
RefinesDurableMap == DM!Spec

(* Once the power stays on, whatever the kernel was doing ends: an append in
   progress is completed, and a recovery, however often it was interrupted and
   restarted, reaches the end of the log (every turn of its loop moves the scan). *)
SettlesDown == <>[][~Crash]_vars => (pc # "idle" ~> pc = "idle")
=============================================================================
