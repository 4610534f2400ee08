-------------------------------- MODULE Vblk --------------------------------
(* kernel/kernel.c, the virtio block driver: one polled queue, one request at a
   time, through one header, one 4 KiB bounce buffer and one status byte that
   every request uses again.  The device runs beside the kernel: it takes a
   request from the available ring when it likes, reads the header and the buffer
   as they are THEN, and reports by moving the used index.

   vblk_op gives up after 2000000000 turns of its poll and returns -2; the request
   stays with the device.  late counts the times that this has happened. *)
EXTENDS Integers

CONSTANTS Blk, Data,
          IdxMod,       \* the ring indices are uint16_t: 2^16
          Zero,         \* what the medium holds at first
          MaxLate       \* bound: polls that time out

VARIABLES vio_has_flush,                  \* negotiated by virtio_blk_init
          vblk_hdr, vblk_data, vblk_stat, \* shared with the device
          vq_avail_idx, vq_used_seen,
          pc, call, rc,                   \* vblk_op: where it is, for whom, its result
          taken, used_idx, req,           \* the device: requests taken, done, in hand
          cache, medium,                  \* what a read returns; what a power cut leaves
          late                            \* history: polls that timed out

memory == <<vblk_hdr, vblk_data, vblk_stat>>
device == <<taken, used_idx, req, cache, medium>>
vars   == <<vio_has_flush, memory, vq_avail_idx, vq_used_seen, pc, call, rc, device, late>>

Requests == [type : {"IN", "OUT"}, blk : Blk, val : Data] \cup
            [type : {"FLUSH"}, blk : Blk, val : {Zero}]
NoReq    == [type |-> "none", blk |-> Zero, val |-> Zero]
Done     == [type |-> "done", blk |-> Zero, val |-> Zero]

Inc(i) == (i + 1) % IdxMod

(* after virtio_blk_init: rings zeroed, queue empty *)
Init ==
  /\ vio_has_flush \in BOOLEAN
  /\ vblk_hdr = [type |-> "none", blk |-> Zero] /\ vblk_data = Zero /\ vblk_stat = "ok"
  /\ vq_avail_idx = 0 /\ vq_used_seen = 0 /\ taken = 0 /\ used_idx = 0
  /\ pc = "idle" /\ call = NoReq /\ rc = "none" /\ req = NoReq
  /\ cache = [b \in Blk |-> Zero] /\ medium = cache
  /\ late = 0
-----------------------------------------------------------------------------
(* vblk_read, vblk_write and vblk_flush.  A writer has filled the bounce buffer
   first (val).  A flush that was not negotiated returns 0 at once. *)
Call(r) ==
  /\ pc = "idle" /\ (r.type = "FLUSH" => vio_has_flush)
  /\ call' = r /\ pc' = "fill" /\ rc' = "none"
  /\ vblk_data' = IF r.type = "OUT" THEN r.val ELSE vblk_data
  /\ UNCHANGED <<vio_has_flush, vblk_hdr, vblk_stat, vq_avail_idx, vq_used_seen, device, late>>
FlushAbsent(r) ==
  /\ pc = "idle" /\ r.type = "FLUSH" /\ ~vio_has_flush
  /\ call' = r /\ rc' = "ok"
  /\ UNCHANGED <<vio_has_flush, memory, vq_avail_idx, vq_used_seen, pc, device, late>>

Describe ==         \* header, status byte, descriptors
  /\ pc = "fill"
  /\ vblk_hdr' = [type |-> call.type, blk |-> call.blk] /\ vblk_stat' = "0xFF" /\ pc' = "publish"
  /\ UNCHANGED <<vio_has_flush, vblk_data, vq_avail_idx, vq_used_seen, call, rc, device, late>>
Publish ==          \* avail.idx, then the notification
  /\ pc = "publish"
  /\ vq_avail_idx' = Inc(vq_avail_idx) /\ pc' = "poll"
  /\ UNCHANGED <<vio_has_flush, memory, vq_used_seen, call, rc, device, late>>

(* the poll ends: the used index has moved, and the status byte is the answer *)
PollKeepsSeen ==    \* mutant
  /\ pc = "poll" /\ used_idx # vq_used_seen
  /\ rc' = IF vblk_stat = "ok" THEN "ok" ELSE "-3"
  /\ pc' = "idle"
  /\ UNCHANGED <<vio_has_flush, memory, vq_avail_idx, vq_used_seen, call, device, late>>
Poll ==
  /\ pc = "poll" /\ used_idx # vq_used_seen
  /\ vq_used_seen' = used_idx
  /\ rc' = IF vblk_stat = "ok" THEN "ok" ELSE "-3"
  /\ pc' = "idle"
  /\ UNCHANGED <<vio_has_flush, memory, vq_avail_idx, call, device, late>>
Timeout ==
  /\ pc = "poll" /\ used_idx = vq_used_seen /\ late < MaxLate
  /\ rc' = "-2" /\ pc' = "idle" /\ late' = late + 1
  /\ UNCHANGED <<vio_has_flush, memory, vq_avail_idx, vq_used_seen, call, device>>
-----------------------------------------------------------------------------
(* The device (external).  It takes requests in the order of the ring and has one
   in hand.  A write it took is visible to reads when it is done, and on the
   medium by then only if no flush was negotiated (a write-through device). *)
Take ==
  /\ taken # vq_avail_idx /\ req = NoReq
  /\ req' = [type |-> vblk_hdr.type, blk |-> vblk_hdr.blk, val |-> vblk_data]
  /\ taken' = Inc(taken)
  /\ UNCHANGED <<vio_has_flush, memory, vq_avail_idx, vq_used_seen, pc, call, rc,
                 used_idx, cache, medium, late>>
Effect ==
  \/ /\ req.type = "IN" /\ vblk_data' = cache[req.blk]
     /\ UNCHANGED <<cache, medium>>
  \/ /\ req.type = "OUT" /\ cache' = [cache EXCEPT ![req.blk] = req.val]
     /\ medium' = IF vio_has_flush THEN medium ELSE [medium EXCEPT ![req.blk] = req.val]
     /\ UNCHANGED vblk_data
  \/ /\ req.type = "FLUSH" /\ medium' = cache
     /\ UNCHANGED <<vblk_data, cache>>
Work(ok) ==         \* the transfer, if it succeeds, then the status byte
  /\ req.type \in {"IN", "OUT", "FLUSH"}
  /\ IF ok THEN Effect ELSE UNCHANGED <<vblk_data, cache, medium>>
  /\ vblk_stat' = IF ok THEN "ok" ELSE "ioerr"
  /\ req' = Done
  /\ UNCHANGED <<vio_has_flush, vblk_hdr, vq_avail_idx, vq_used_seen, pc, call, rc,
                 taken, used_idx, late>>
Report ==
  /\ req = Done
  /\ used_idx' = Inc(used_idx) /\ req' = NoReq
  /\ UNCHANGED <<vio_has_flush, memory, vq_avail_idx, vq_used_seen, pc, call, rc,
                 taken, cache, medium, late>>
WriteBack(b) ==     \* its cache drains when it likes
  /\ medium[b] # cache[b] /\ medium' = [medium EXCEPT ![b] = cache[b]]
  /\ UNCHANGED <<vio_has_flush, memory, vq_avail_idx, vq_used_seen, pc, call, rc,
                 taken, used_idx, req, cache, late>>

Driver == \/ \E r \in Requests : Call(r) \/ FlushAbsent(r)
          \/ Describe \/ Publish \/ Poll \/ Timeout
Device == Take \/ (\E ok \in BOOLEAN : Work(ok)) \/ Report \/ \E b \in Blk : WriteBack(b)
Next   == Driver \/ Device
Spec   == Init /\ [][Next]_vars
-----------------------------------------------------------------------------
(* Every vblk_op shares one header, buffer and status byte, and the poll only asks
   whether the used index moved.  As long as no poll has timed out, the answer 0 is
   the answer to the caller's own request: a read has the block in the buffer, a
   write is what the next read returns, after a flush the medium has everything
   written so far, and the device holds no request that could touch the buffer the
   caller fills next. *)
AnswerIsOwn ==
  (pc = "idle" /\ rc = "ok" /\ late = 0) =>
    /\ taken = vq_avail_idx /\ used_idx = vq_avail_idx /\ req = NoReq
    /\ call.type = "IN" => vblk_data = cache[call.blk]
    /\ call.type = "OUT" => cache[call.blk] = call.val
    /\ (call.type = "FLUSH" \/ ~vio_has_flush) => medium = cache
=============================================================================
