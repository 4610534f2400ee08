---------------------------- MODULE DeviceProofs ----------------------------
(* Proofs about Vblk and Nvme, the two block drivers: a driver answers a call with
   the completion of that call's own request, for every ring size, set of blocks and
   contents and however far driver and device have gone round the rings, as long as
   no poll has timed out. *)
EXTENDS Vblk, Nvme, TLAPS

(* The request of the call in progress has had its effect. *)
Served ==
  /\ call.type = "IN" => vblk_data = cache[call.blk]
  /\ call.type = "OUT" => cache[call.blk] = call.val
  /\ call.type = "FLUSH" => medium = cache

TypeOK ==
  /\ vio_has_flush \in BOOLEAN
  /\ vq_avail_idx \in 0..(IdxMod - 1) /\ vq_used_seen \in 0..(IdxMod - 1)
  /\ taken \in 0..(IdxMod - 1) /\ used_idx \in 0..(IdxMod - 1)
  /\ pc \in {"idle", "fill", "publish", "poll"}
  /\ call \in Requests \cup {NoReq}
  /\ pc # "idle" => call \in Requests
  /\ cache \in [Blk -> Data] /\ medium \in [Blk -> Data]
  /\ late \in Nat
  /\ vblk_data \in Data
  /\ vblk_hdr.blk \in Blk \/ (taken = vq_avail_idx /\ pc \in {"idle", "fill"})
  /\ req \in {NoReq, Done} \/ (req.blk \in Blk /\ req.val \in Data)

(* Where the one request is, while no poll has timed out: nowhere, in the ring, in
   the device's hand, carried out, or reported.  Each place fixes the four indices
   relative to each other. *)
Quiet == taken = vq_avail_idx /\ used_idx = vq_avail_idx /\ vq_used_seen = vq_avail_idx /\ req = NoReq
Ours  == vblk_hdr.type = call.type /\ vblk_hdr.blk = call.blk
InRing ==
  /\ vq_avail_idx = Inc(vq_used_seen) /\ taken = vq_used_seen /\ used_idx = vq_used_seen
  /\ req = NoReq /\ Ours /\ (call.type = "OUT" => vblk_data = call.val)
InHand ==
  /\ vq_avail_idx = Inc(vq_used_seen) /\ taken = vq_avail_idx /\ used_idx = vq_used_seen
  /\ req.type = call.type /\ req.blk = call.blk /\ (call.type = "OUT" => req.val = call.val)
CarriedOut ==
  /\ vq_avail_idx = Inc(vq_used_seen) /\ taken = vq_avail_idx /\ used_idx = vq_used_seen
  /\ req = Done /\ (vblk_stat = "ok" => Served)
Reported ==
  /\ vq_avail_idx = Inc(vq_used_seen) /\ taken = vq_avail_idx /\ used_idx = vq_avail_idx
  /\ req = NoReq /\ (vblk_stat = "ok" => Served)

OneRequest ==
  late = 0 =>
    /\ pc \in {"idle", "fill", "publish"} => Quiet
    /\ pc \in {"fill", "publish"} => (call.type = "OUT" => vblk_data = call.val)
    /\ pc = "publish" => Ours
    /\ pc = "poll" => InRing \/ InHand \/ CarriedOut \/ Reported
    /\ (pc = "idle" /\ rc = "ok") => Served

WriteThrough == ~vio_has_flush => medium = cache

Inv == TypeOK /\ OneRequest /\ WriteThrough

(* What the proof asks of the constants: an index that moves, and a medium that
   holds data. *)
Constants == IdxMod \in Nat /\ IdxMod > 1 /\ Zero \in Data

(* The 16-bit index moves, and stays an index. *)
LEMMA IncMoves ==
  ASSUME Constants, NEW i \in 0..(IdxMod - 1)
  PROVE  Inc(i) \in 0..(IdxMod - 1) /\ Inc(i) # i
<1>1. IdxMod \in Nat /\ IdxMod > 1
  BY Zenon DEF Constants
<1>2. CASE i = IdxMod - 1
  <2>1. Inc(i) = IdxMod % IdxMod  BY <1>1, <1>2 DEF Inc
  <2>2. IdxMod % IdxMod = 0  BY <1>1
  <2> QED  BY <1>1, <1>2, <2>1, <2>2
<1>3. CASE i < IdxMod - 1
  <2>1. i + 1 \in 0..(IdxMod - 1)  BY <1>1, <1>3
  <2>2. (i + 1) % IdxMod = i + 1  BY <1>1, <2>1
  <2> QED  BY <1>1, <2>1, <2>2 DEF Inc
<1> QED  BY <1>1, <1>2, <1>3

LEMMA InitInv == Constants /\ Init => Inv
<1> SUFFICES ASSUME Constants, Init PROVE Inv
  BY Zenon
<1>1. TypeOK  BY DEF Constants, Init, TypeOK, NoReq
<1>2. OneRequest  BY Zenon DEF Init, OneRequest, Quiet, NoReq
<1>3. WriteThrough  BY Zenon DEF Init, WriteThrough
<1> QED  BY <1>1, <1>2, <1>3 DEF Inv

(* The caller's side: one request is made at a time. *)
LEMMA DriverKeeps == Constants /\ Inv /\ Driver => Inv'
<1> SUFFICES ASSUME Constants, Inv, Driver PROVE Inv'
  BY Zenon
<1> USE DEF Inv
<1>1. ASSUME NEW r \in Requests, Call(r) PROVE Inv'
  <2>1. TypeOK'  BY <1>1 DEF Call, TypeOK, device, Requests
  <2>2. OneRequest'
    BY Zenon, <1>1 DEF Call, TypeOK, device, OneRequest, Quiet
  <2>3. WriteThrough'  BY <1>1 DEF Call, device, WriteThrough
  <2> QED  BY <2>1, <2>2, <2>3
<1>2. ASSUME NEW r \in Requests, FlushAbsent(r) PROVE Inv'
  <2>1. TypeOK'  BY <1>2 DEF FlushAbsent, TypeOK, device, memory
  <2>2. OneRequest'
    BY Zenon, <1>2 DEF FlushAbsent, device, memory, OneRequest, Quiet, Served, WriteThrough
  <2>3. WriteThrough'  BY <1>2 DEF FlushAbsent, device, WriteThrough
  <2> QED  BY <2>1, <2>2, <2>3
<1>3. CASE Describe
  <2>1. vblk_hdr'.type = call.type /\ vblk_hdr'.blk = call.blk /\ call.blk \in Blk
    BY Zenon, <1>3 DEF Describe, TypeOK, Requests
  <2>2. TypeOK'  BY <1>3, <2>1 DEF Describe, TypeOK, device
  <2>3. OneRequest'  BY <1>3, <2>1 DEF Describe, device, OneRequest, Quiet, Ours
  <2>4. WriteThrough'  BY <1>3 DEF Describe, device, WriteThrough
  <2> QED  BY <2>2, <2>3, <2>4
<1>4. CASE Publish
  <2>1. TypeOK'  BY <1>4, IncMoves DEF Publish, TypeOK, device, memory
  <2>2. OneRequest'
    BY Zenon, <1>4 DEF Publish, device, memory, OneRequest, Quiet, Ours, InRing
  <2>3. WriteThrough'  BY <1>4 DEF Publish, device, WriteThrough
  <2> QED  BY <2>1, <2>2, <2>3
<1>5. CASE Poll
  <2>1. TypeOK'  BY <1>5 DEF Poll, TypeOK, device, memory
  <2>2. OneRequest'
    <3>1. late = 0 => Reported
      BY Zenon, <1>5 DEF Poll, OneRequest, InRing, InHand, CarriedOut
    <3> QED
      BY Zenon, <1>5, <3>1 DEF Poll, device, memory, OneRequest, Reported, Quiet, Served
  <2>3. WriteThrough'  BY <1>5 DEF Poll, device, WriteThrough
  <2> QED  BY <2>1, <2>2, <2>3
<1>6. CASE Timeout
  <2>1. TypeOK'  BY <1>6 DEF Timeout, TypeOK, device, memory
  <2>2. OneRequest'  BY <1>6 DEF Timeout, TypeOK, OneRequest
  <2>3. WriteThrough'  BY <1>6 DEF Timeout, device, WriteThrough
  <2> QED  BY <2>1, <2>2, <2>3
<1> QED  BY <1>1, <1>2, <1>3, <1>4, <1>5, <1>6 DEF Driver

(* The device's side: it has a request in hand only while the driver polls. *)
LEMMA DeviceKeeps == Constants /\ Inv /\ Device => Inv'
<1> SUFFICES ASSUME Constants, Inv, Device PROVE Inv'
  BY Zenon
<1> USE DEF Inv
<1>1. CASE Take
  <2>1. TypeOK'  BY <1>1, IncMoves DEF Take, TypeOK, memory
  <2>2. OneRequest'
    <3> SUFFICES ASSUME late = 0 PROVE OneRequest'
      BY Zenon, <1>1 DEF Take, OneRequest
    <3>1. pc = "poll" /\ InRing
      BY Zenon, <1>1 DEF Take, TypeOK, OneRequest, Quiet, InHand, CarriedOut, Reported
    <3>2. req'.type = call.type /\ req'.blk = call.blk
          /\ (call.type = "OUT" => req'.val = call.val)
      BY Zenon, <1>1, <3>1 DEF Take, InRing, Ours
    <3>3. InHand'  BY <1>1, <3>1, <3>2 DEF Take, InRing, InHand
    <3> QED  BY <1>1, <3>1, <3>3 DEF Take, OneRequest
  <2>3. WriteThrough'  BY <1>1 DEF Take, WriteThrough
  <2> QED  BY <2>1, <2>2, <2>3
<1>2. ASSUME NEW ok \in BOOLEAN, Work(ok) PROVE Inv'
  <2>1. late = 0 => pc = "poll" /\ InHand
    BY <1>2 DEF Work, TypeOK, OneRequest, Quiet, InRing, CarriedOut, Reported, NoReq, Done
  <2>2. TypeOK'
    <3>1. req.blk \in Blk /\ req.val \in Data
      BY <1>2 DEF Work, TypeOK, NoReq, Done
    <3>2. cache' \in [Blk -> Data] /\ medium' \in [Blk -> Data] /\ vblk_data' \in Data
      <4>1. CASE ok  BY <1>2, <3>1, <4>1 DEF Work, Effect, TypeOK
      <4>2. CASE ~ok  BY <1>2, <4>2 DEF Work, TypeOK
      <4> QED  BY <4>1, <4>2
    <3> QED  BY <1>2, <3>2 DEF Work, TypeOK
  <2>3. OneRequest'
    <3> SUFFICES ASSUME late = 0 PROVE OneRequest'
      BY Zenon, <1>2 DEF Work, OneRequest
    <3>1. vblk_stat' = "ok" => Served'
      <4> SUFFICES ASSUME ok PROVE Served'
        BY Zenon, <1>2 DEF Work
      <4>1. Effect  BY <1>2 DEF Work
      <4> QED
        BY Zenon, <1>2, <2>1, <4>1 DEF Work, Effect, InHand, TypeOK, Requests, Served
    <3>2. CarriedOut'  BY <1>2, <2>1, <3>1 DEF Work, InHand, CarriedOut
    <3> QED  BY <1>2, <2>1, <3>2 DEF Work, OneRequest
  <2>4. WriteThrough'
    <3>1. CASE ok  BY <1>2, <3>1 DEF Work, Effect, TypeOK, WriteThrough
    <3>2. CASE ~ok  BY <1>2, <3>2 DEF Work, WriteThrough
    <3> QED  BY <3>1, <3>2
  <2> QED  BY <2>2, <2>3, <2>4
<1>3. CASE Report
  <2>1. TypeOK'  BY <1>3, IncMoves DEF Report, TypeOK, memory
  <2>2. OneRequest'
    <3> SUFFICES ASSUME late = 0 PROVE OneRequest'
      BY Zenon, <1>3 DEF Report, OneRequest
    <3>1. pc = "poll" /\ CarriedOut
      BY Zenon, <1>3 DEF Report, TypeOK, OneRequest, Quiet, InRing, InHand, Reported, NoReq, Done, Requests
    <3>2. Reported'
      BY Zenon, <1>3, <3>1 DEF Report, memory, CarriedOut, Reported, Served
    <3> QED  BY <1>3, <3>1, <3>2 DEF Report, OneRequest
  <2>3. WriteThrough'  BY <1>3 DEF Report, WriteThrough
  <2> QED  BY <2>1, <2>2, <2>3
<1>4. ASSUME NEW b \in Blk, WriteBack(b) PROVE Inv'
  <2>1. TypeOK'  BY <1>4 DEF WriteBack, TypeOK, memory
  <2>2. medium = cache => medium' = cache
    BY Zenon, <1>4 DEF WriteBack, TypeOK
  <2>3. OneRequest'
    BY Zenon, <1>4, <2>2 DEF WriteBack, memory, OneRequest, Quiet, Ours, InRing, InHand, CarriedOut,
                     Reported, Served
  <2>4. WriteThrough'  BY <1>4, <2>2 DEF WriteBack, WriteThrough
  <2> QED  BY <2>1, <2>3, <2>4
<1> QED  BY <1>1, <1>2, <1>3, <1>4 DEF Device
(* vblk_op: as long as no poll has timed out, the answer 0 means that the caller's
   own request was carried out and that the device is done with the shared header,
   buffer and status byte. *)
THEOREM AnswersAreOwn ==
  ASSUME Constants PROVE Spec => []AnswerIsOwn
<1>1. Init => Inv
  BY Zenon, InitInv
<1>2. Inv /\ [Next]_vars => Inv'
  <2> SUFFICES ASSUME Inv, [Next]_vars PROVE Inv'
    BY Zenon
  <2>1. CASE Driver  BY <2>1, DriverKeeps
  <2>2. CASE Device  BY <2>2, DeviceKeeps
  <2>3. CASE UNCHANGED vars
    BY <2>3 DEF vars, memory, device, Inv, TypeOK, OneRequest, WriteThrough, Quiet, Ours,
                InRing, InHand, CarriedOut, Reported, Served
  <2> QED  BY <2>1, <2>2, <2>3 DEF Next
<1>3. Inv => AnswerIsOwn
  BY Zenon DEF Inv, TypeOK, OneRequest, WriteThrough, Quiet, Served, AnswerIsOwn
<1> QED  BY <1>1, <1>2, <1>3, PTL DEF Spec

(***************************************************************************)
(* NVMe: the phase bit tells the driver's own completion from an old one.  *)
(***************************************************************************)

Depth == NVQ_DEPTH \in Nat /\ NVQ_DEPTH > 1

NvmeTypeOK ==
  /\ sqt \in QSlot /\ cqh \in QSlot /\ sqh \in QSlot /\ cqt \in QSlot
  /\ phase \in {0, 1} /\ cphase \in {0, 1} /\ nlate \in Nat
  /\ sq = [i \in QSlot |-> sq[i]] /\ cq = [i \in QSlot |-> cq[i]]
  /\ flash = [l \in Lba |-> flash[l]]
  /\ npc \in {"idle", "fill", "ring", "poll"}

(* Behind the controller's tail the completion queue has entries of this lap, from
   the tail on entries of the lap before: the phase bit tells them apart. *)
Laps == \A i \in QSlot : cq[i].phase = IF i < cqt THEN cphase ELSE 1 - cphase

(* The phase of a lap is not that of the one before. *)
LEMMA OtherPhase ==
  ASSUME NEW i \in QSlot, NEW q \in {0, 1}
  PROVE  ~(i < i) /\ 1 - q # q
  BY DEF QSlot

(* A command was carried out and ended with status st. *)
Carried(st) ==
  st = "ok" => /\ ncall.op = "READ"  => rbuf = flash[ncall.lba]
               /\ ncall.op = "WRITE" => flash[ncall.lba] = ncall.val

(* The driver's command on its way: to be fetched, in hand, carried out or posted.
   Until it is posted the two sides are at the same slot of the same lap. *)
Even == cqt = cqh /\ cphase = phase
Submitted == Even /\ hand = NoHand /\ sqt = QNext(sqh) /\ sq[sqh] = Command(ncall)
NvmeInHand    == Even /\ sqh = sqt /\ hand = Command(ncall)
Executed  == Even /\ sqh = sqt /\ hand.op = "done" /\ Carried(hand.status)
Posted    == /\ sqh = sqt /\ hand = NoHand
             /\ cqt = IF cqh + 1 = NVQ_DEPTH THEN 0 ELSE cqh + 1
             /\ cphase = IF cqh + 1 = NVQ_DEPTH THEN 1 - phase ELSE phase
             /\ cq[cqh].phase = phase /\ Carried(cq[cqh].status)
NvmeQuiet     == Even /\ sqh = sqt /\ hand = NoHand

OneCommand ==
  /\ npc # "poll" => NvmeQuiet
  /\ npc = "poll" => Submitted \/ NvmeInHand \/ Executed \/ Posted
  /\ npc # "idle" => ncall \in IoCalls \cup {Create}
  /\ npc = "ring" => sq[sqt] = Command(ncall)
  /\ (npc # "idle" /\ ncall.op = "WRITE") => wbuf = ncall.val
  /\ npc = "idle" => Carried(nrc)

(* The inductive invariant.  The laps keep in order whether a poll timed out or not. *)
NInv == NvmeTypeOK /\ Laps /\ (nlate = 0 => OneCommand)

(* The next slot of a ring, with and without the modulus. *)
LEMMA IncSlot ==
  ASSUME Depth, NEW i \in QSlot
  PROVE  /\ QNext(i) \in QSlot /\ QNext(i) # i
         /\ QNext(i) = IF i + 1 = NVQ_DEPTH THEN 0 ELSE i + 1
<1>1. CASE i + 1 = NVQ_DEPTH
  <2>1. (i + 1) % NVQ_DEPTH = 0
    BY <1>1 DEF Depth, QSlot
  <2> QED BY <1>1, <2>1 DEF Depth, QSlot, QNext
<1>2. CASE i + 1 # NVQ_DEPTH
  <2>1. i + 1 \in QSlot
    BY <1>2 DEF Depth, QSlot
  <2>2. (i + 1) % NVQ_DEPTH = i + 1
    BY <2>1 DEF Depth, QSlot
  <2> QED BY <1>2, <2>1, <2>2 DEF Depth, QSlot, QNext
<1> QED BY Zenon, <1>1, <1>2

(* New queues are at the start of their first lap. *)
LEMMA InitNInv == ASSUME Depth PROVE NvmeInit => NInv
<1> SUFFICES ASSUME NvmeInit PROVE NInv
  BY Zenon
<1>1. 0 \in QSlot
  BY DEF Depth, QSlot
<1>2. NvmeTypeOK
  BY Zenon, <1>1 DEF NvmeInit, NvmeTypeOK
<1>3. Laps
  BY DEF NvmeInit, Laps, Depth, QSlot
<1>4. OneCommand
  BY Zenon DEF NvmeInit, OneCommand, NvmeQuiet, Even, Carried
<1> QED BY Zenon, <1>2, <1>3, <1>4 DEF NInv

(* The driver's steps keep the invariant. *)
LEMMA DriverNInv == ASSUME Depth, NInv, NvmeDriver PROVE NInv'
<1> USE DEF NInv
<1>1. ASSUME NEW ready \in BOOLEAN, Reset(ready) PROVE NInv'
  BY <1>1 DEF Reset, driver, controller, NvmeTypeOK, Laps, OneCommand, NvmeQuiet, Even, Carried, Submitted, NvmeInHand, Executed, Posted
<1>2. CASE CreateQueue
  BY Zenon, <1>2 DEF CreateQueue, driver, controller, NvmeTypeOK, Laps, OneCommand, NvmeQuiet, Even, Carried, Create
<1>3. CASE QueueCreated
  <2>1. 0 \in QSlot
    BY DEF Depth, QSlot
  <2>2. CASE nrc = "ok" /\ stage = "createSQ"
    <3>1. NvmeTypeOK'
      BY Zenon, <1>3, <2>1, <2>2 DEF QueueCreated, NewQueues, NvmeTypeOK
    <3>2. Laps'
      BY <1>3, <2>1, <2>2 DEF QueueCreated, NewQueues, Laps, Depth, QSlot
    <3>3. (nlate = 0 => OneCommand)'
      BY Zenon, <1>3, <2>2 DEF QueueCreated, NewQueues, OneCommand, NvmeQuiet, Even, Carried
    <3> QED BY Zenon, <3>1, <3>2, <3>3
  <2>3. CASE ~(nrc = "ok" /\ stage = "createSQ")
    BY Zenon, <1>3, <2>3 DEF QueueCreated, driver, NvmeTypeOK, Laps, OneCommand, NvmeQuiet, Even, Carried
  <2> QED BY Zenon, <2>2, <2>3
<1>4. ASSUME NEW c \in IoCalls, nvme_io(c) PROVE NInv'
  BY Zenon, <1>4 DEF nvme_io, driver, controller, NvmeTypeOK, Laps, OneCommand, NvmeQuiet, Even, Carried, IoCalls
<1>5. CASE Fill
  BY Zenon, <1>5 DEF Fill, driver, controller, NvmeTypeOK, Laps, OneCommand, NvmeQuiet, Even
<1>6. CASE Ring
  <2>1. sqt \in QSlot /\ QNext(sqt) \in QSlot
    BY Zenon, IncSlot DEF NvmeTypeOK
  <2>2. NvmeTypeOK' /\ Laps'
    BY Zenon, <1>6, <2>1 DEF Ring, controller, NvmeTypeOK, Laps
  <2>3. nlate = 0 => Submitted'
    BY Zenon, <1>6 DEF Ring, controller, OneCommand, NvmeQuiet, Even, Submitted
  <2> QED BY Zenon, <1>6, <2>2, <2>3 DEF Ring, OneCommand
<1>7. CASE PollCq
  <2>1. /\ NvmeTypeOK' /\ Laps'
    BY <1>7 DEF PollCq, controller, NvmeTypeOK, Laps, Depth, QSlot
  <2>2. ASSUME nlate = 0 PROVE Posted
    <3>1. cq[cqh].phase = phase /\ cqh \in QSlot /\ phase \in {0, 1}
      BY Zenon, <1>7 DEF PollCq, NvmeTypeOK
    <3>2. ~Even
      <4>1. cq[cqh].phase = IF cqh < cqt THEN cphase ELSE 1 - cphase
        BY Zenon, <3>1 DEF Laps
      <4>2. ~(cqh < cqh) /\ 1 - phase # phase
        BY Zenon, <3>1, OtherPhase
      <4> QED BY Zenon, <3>1, <4>1, <4>2 DEF Even
    <3> QED BY Zenon, <1>7, <2>2, <3>2 DEF PollCq, OneCommand, Submitted, NvmeInHand, Executed
  <2>3. ASSUME nlate = 0 PROVE OneCommand'
    <3>1. /\ Posted /\ npc' = "idle" /\ nrc' = cq[cqh].status
          /\ cqh' = (IF cqh + 1 = NVQ_DEPTH THEN 0 ELSE cqh + 1)
          /\ phase' = (IF cqh + 1 = NVQ_DEPTH THEN 1 - phase ELSE phase)
          /\ UNCHANGED <<sqt, sq, cq, wbuf, rbuf, ncall, sqh, cqt, cphase, hand, flash>>
      BY Zenon, <1>7, <2>2, <2>3 DEF PollCq, controller
    <3>2. NvmeQuiet' /\ Carried(nrc)'
      BY Zenon, <3>1 DEF Posted, NvmeQuiet, Even, Carried
    <3> QED BY Zenon, <3>1, <3>2 DEF OneCommand
  <2> QED BY Zenon, <1>7, <2>1, <2>3 DEF PollCq
<1>8. CASE CmdTimeout
  BY <1>8 DEF CmdTimeout, driver, controller, NvmeTypeOK, Laps
<1> QED BY Zenon, <1>1, <1>2, <1>3, <1>4, <1>5, <1>6, <1>7, <1>8 DEF NvmeDriver

(* The controller's steps keep the invariant. *)
LEMMA DeviceNInv == ASSUME Depth, NInv, NvmeDevice PROVE NInv'
<1> USE DEF NInv
<1>1. CASE Fetch
  <2>1. QNext(sqh) \in QSlot
    BY Zenon, IncSlot DEF NvmeTypeOK
  <2>2. NvmeTypeOK' /\ Laps'
    BY Zenon, <1>1, <2>1 DEF Fetch, driver, NvmeTypeOK, Laps
  <2>3. ASSUME nlate = 0 PROVE OneCommand'
    <3>1. npc = "poll" /\ Submitted
      BY Zenon, <1>1, <2>3 DEF Fetch, OneCommand, NvmeQuiet, NvmeInHand, Executed, Posted
    <3>2. NvmeInHand'
      <4>1. /\ hand' = sq[sqh] /\ sqh' = QNext(sqh)
            /\ UNCHANGED <<sqt, cqh, phase, ncall, cqt, cphase>>
        BY Zenon, <1>1 DEF Fetch, driver
      <4>2. Even /\ sqt = QNext(sqh) /\ sq[sqh] = Command(ncall)
        BY Zenon, <3>1 DEF Submitted
      <4> QED BY Zenon, <4>1, <4>2 DEF NvmeInHand, Even, Command
    <3> QED BY Zenon, <1>1, <2>3, <3>1, <3>2 DEF Fetch, driver, OneCommand
  <2> QED BY Zenon, <1>1, <2>2, <2>3 DEF Fetch
<1>2. ASSUME NEW ok \in BOOLEAN, Execute(ok) PROVE NInv'
  <2>1. NvmeTypeOK' /\ Laps'
    BY Zenon, <1>2 DEF Execute, driver, NvmeTypeOK, Laps
  <2>2. ASSUME nlate = 0 PROVE OneCommand'
    <3>1. npc = "poll" /\ NvmeInHand /\ ncall \in IoCalls \cup {Create}
      BY <1>2, <2>2 DEF Execute, OneCommand, NvmeQuiet, Submitted, Executed, Posted, NoHand
    <3>2. /\ hand = [op |-> ncall.op, lba |-> ncall.lba] /\ hand.op = ncall.op /\ hand.lba = ncall.lba
          /\ ncall.op = "WRITE" => wbuf = ncall.val
          /\ ncall.op \in {"READ", "WRITE"} => ncall.lba \in Lba
      BY <2>2, <3>1 DEF NvmeInHand, Command, OneCommand, IoCalls, Create
    <3>3. hand'.op = "done" /\ Carried(hand.status)'
      BY Zenon, <1>2, <3>2 DEF Execute, Ended, Carried, NvmeTypeOK
    <3>4. Executed'
      BY Zenon, <1>2, <3>1, <3>3 DEF Execute, driver, NvmeInHand, Executed, Even
    <3>5. npc' = npc /\ ncall' = ncall /\ wbuf' = wbuf
      BY Zenon, <1>2 DEF Execute
    <3> QED BY Zenon, <3>1, <3>2, <3>4, <3>5 DEF OneCommand
  <2> QED BY Zenon, <1>2, <2>1, <2>2 DEF Execute
<1>3. CASE Post
  <2>1. NvmeTypeOK'
    <3>1. cqt' \in QSlot /\ cphase' \in {0, 1}
      BY <1>3 DEF Post, NvmeTypeOK, Depth, QSlot
    <3>2. cq' = [i \in QSlot |-> cq'[i]]
      BY Zenon, <1>3 DEF Post, NvmeTypeOK
    <3> QED BY Zenon, <1>3, <3>1, <3>2 DEF Post, driver, NvmeTypeOK
  <2>2. Laps'
    <3> SUFFICES ASSUME NEW i \in QSlot
                 PROVE  cq'[i].phase = IF i < cqt' THEN cphase' ELSE 1 - cphase'
      BY Zenon DEF Laps
    <3>1. /\ cq' = [cq EXCEPT ![cqt] = [phase |-> cphase, status |-> hand.status]]
          /\ cq'[cqt].phase = cphase /\ (i # cqt => cq'[i] = cq[i])
      BY Zenon, <1>3 DEF Post, NvmeTypeOK
    <3>2. cq[i].phase = IF i < cqt THEN cphase ELSE 1 - cphase
      BY Zenon DEF Laps
    <3>3. i \in Int /\ 0 <= i /\ i < NVQ_DEPTH /\ cqt \in Int /\ 0 <= cqt /\ cqt < NVQ_DEPTH
          /\ NVQ_DEPTH \in Int /\ cphase \in {0, 1}
      BY DEF QSlot, Depth, NvmeTypeOK
    <3>4. CASE cqt + 1 = NVQ_DEPTH
      <4>1. cqt' = 0 /\ cphase' = 1 - cphase
        BY Zenon, <1>3, <3>4 DEF Post
      <4>2. cq'[i].phase = cphase
        BY <3>1, <3>2, <3>3, <3>4
      <4> QED BY <3>3, <4>1, <4>2
    <3>5. CASE cqt + 1 # NVQ_DEPTH
      <4>1. cqt' = cqt + 1 /\ cphase' = cphase
        BY Zenon, <1>3, <3>5 DEF Post
      <4> QED BY <3>1, <3>2, <3>3, <4>1
    <3> QED BY Zenon, <3>4, <3>5
  <2>3. ASSUME nlate = 0 PROVE OneCommand'
    <3>1. npc = "poll" /\ Executed /\ ncall \in IoCalls \cup {Create}
      BY <1>3, <2>3 DEF Post, OneCommand, NvmeQuiet, Submitted, NvmeInHand, Posted, NoHand, Command, IoCalls, Create
    <3>2. cq'[cqh].phase = phase /\ cq'[cqh].status = hand.status
      BY Zenon, <1>3, <3>1 DEF Post, NvmeTypeOK, Executed, Even
    <3>3. Posted'
      BY Zenon, <1>3, <3>1, <3>2 DEF Post, driver, Executed, Posted, Even, Carried
    <3> QED BY Zenon, <1>3, <2>3, <3>1, <3>3 DEF Post, driver, OneCommand
  <2> QED BY Zenon, <1>3, <2>1, <2>2, <2>3 DEF Post
<1> QED BY Zenon, <1>1, <1>2, <1>3 DEF NvmeDevice

(* Every step keeps the invariant. *)
LEMMA NextNInv == ASSUME Depth PROVE NInv /\ [NvmeNext]_nvme_vars => NInv'
<1> SUFFICES ASSUME NInv, [NvmeNext]_nvme_vars PROVE NInv'
  BY Zenon
<1>1. CASE UNCHANGED nvme_vars
  BY SMTT(30), <1>1 DEF nvme_vars, driver, controller, NInv, NvmeTypeOK, Laps, OneCommand, NvmeQuiet, Even, Carried,
              Submitted, NvmeInHand, Executed, Posted
<1> QED BY Zenon, <1>1, DriverNInv, DeviceNInv DEF NvmeNext

(* For every depth of more than one entry, and however often the rings go round,
   nvme_cmd takes the completion of its own command and no other: while no poll has
   timed out, its answer is the status of that command, and what a status of 0
   promises is true. *)
THEOREM CompletionsAreOwn ==
  ASSUME NVQ_DEPTH \in Nat, NVQ_DEPTH > 1
  PROVE  NvmeSpec => []CompletionIsOwn
<1>1. Depth
  BY Zenon DEF Depth
<1>2. NvmeInit => NInv
  BY Zenon, <1>1, InitNInv
<1>3. NInv /\ [NvmeNext]_nvme_vars => NInv'
  BY Zenon, <1>1, NextNInv
<1>4. NInv => CompletionIsOwn
  <2> SUFFICES ASSUME NInv, npc = "idle", nlate = 0 PROVE CompletionIsOwn
    BY Zenon DEF CompletionIsOwn
  <2>1. NvmeQuiet /\ Carried(nrc)
    BY Zenon DEF NInv, OneCommand
  <2> QED BY Zenon, <2>1 DEF NvmeQuiet, Even, Carried, CompletionIsOwn
<1> QED BY <1>2, <1>3, <1>4, PTL DEF NvmeSpec
=============================================================================
