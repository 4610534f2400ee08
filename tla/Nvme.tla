-------------------------------- MODULE Nvme --------------------------------
(* kernel/nvmetest.c: the NVMe driver.  nvme_cmd puts a command in the submission
   queue, rings the doorbell and polls the completion queue.  A completion is new
   when its phase bit is the one expected; driver and controller flip theirs each
   time they come round the ring.  nvme_init creates the I/O queue pair through the
   admin queue, which is not used again: the queue here is the one in use.

   The tail and head indices change together with the doorbell that tells the
   controller of them.  The poll gives up after 2000000000 turns, and the command
   stays with the controller; nlate counts the times that this has happened. *)
EXTENDS Integers

CONSTANTS Lba, NvData,
          NVQ_DEPTH,    \* 64; more than 1
          NvZero,       \* what the medium and the buffers hold at first
          NvMaxLate     \* bound: polls that time out

VARIABLES stage,                          \* reset, createCQ, createSQ, io or stalled
          sq, sqt, cq, cqh, phase,        \* nvq_t
          wbuf, rbuf,                     \* the two DMA frames
          npc, ncall, nrc,                \* nvme_cmd: where it is, for whom, its result
          sqh, cqt, cphase, hand, flash,  \* the controller
          nlate                           \* history: polls that timed out

driver     == <<sqt, cqh, phase>>
controller == <<sqh, cqt, cphase, hand, flash>>
nvme_vars  == <<stage, sq, cq, driver, wbuf, rbuf, npc, ncall, nrc, controller, nlate>>

QSlot    == 0..(NVQ_DEPTH - 1)
QNext(i) == (i + 1) % NVQ_DEPTH
IoCalls  == [op : {"READ", "WRITE"}, lba : Lba, val : NvData]
Create   == [op |-> "CREATE", lba |-> NvZero, val |-> NvZero]
NoCall   == [op |-> "none", lba |-> NvZero, val |-> NvZero]
Command(c) == [op |-> c.op, lba |-> c.lba]
NoHand   == [op |-> "empty"]
Ended(st) == [op |-> "done", status |-> st]

(* new queues: zeroed frames, so that no entry has the phase expected, 1 *)
NewQueues ==
  /\ sq' = [i \in QSlot |-> Command(NoCall)] /\ cq' = [i \in QSlot |-> [phase |-> 0, status |-> "ok"]]
  /\ sqt' = 0 /\ cqh' = 0 /\ phase' = 1 /\ sqh' = 0 /\ cqt' = 0 /\ cphase' = 1

NvmeInit ==
  /\ stage = "reset" /\ npc = "idle" /\ ncall = NoCall /\ nrc = "none" /\ nlate = 0
  /\ sq = [i \in QSlot |-> Command(NoCall)] /\ cq = [i \in QSlot |-> [phase |-> 0, status |-> "ok"]]
  /\ sqt = 0 /\ cqh = 0 /\ phase = 1 /\ sqh = 0 /\ cqt = 0 /\ cphase = 1
  /\ hand = NoHand /\ wbuf = NvZero /\ rbuf = NvZero /\ flash = [l \in Lba |-> NvZero]
-----------------------------------------------------------------------------
(* nvme_init.  Up to the admin queues: the controller is found, mapped and ready, or
   the bring-up ends here. *)
Reset(ready) ==
  /\ stage = "reset"
  /\ stage' = IF ready THEN "createCQ" ELSE "stalled"
  /\ UNCHANGED <<sq, cq, driver, wbuf, rbuf, npc, ncall, nrc, controller, nlate>>
CreateQueue ==
  /\ stage \in {"createCQ", "createSQ"} /\ npc = "idle" /\ nrc = "none"
  /\ ncall' = Create /\ npc' = "fill"
  /\ UNCHANGED <<stage, sq, cq, driver, wbuf, rbuf, nrc, controller, nlate>>
QueueCreated ==
  /\ stage \in {"createCQ", "createSQ"} /\ npc = "idle" /\ nrc # "none"
  /\ nrc' = "none"
  /\ IF nrc = "ok" /\ stage = "createSQ"
     THEN stage' = "io" /\ NewQueues
     ELSE /\ stage' = IF nrc = "ok" THEN "createSQ" ELSE "stalled"
          /\ UNCHANGED <<sq, cq, driver, sqh, cqt, cphase>>
  /\ UNCHANGED <<wbuf, rbuf, npc, ncall, hand, flash, nlate>>

(* nvme_io: one block.  Before a write the caller fills the write frame. *)
nvme_io(c) ==
  /\ stage = "io" /\ npc = "idle"
  /\ ncall' = c /\ npc' = "fill" /\ nrc' = "none"
  /\ wbuf' = IF c.op = "WRITE" THEN c.val ELSE wbuf
  /\ UNCHANGED <<stage, sq, cq, driver, rbuf, controller, nlate>>

(* nvme_cmd *)
Fill ==
  /\ npc = "fill"
  /\ sq' = [sq EXCEPT ![sqt] = Command(ncall)] /\ npc' = "ring"
  /\ UNCHANGED <<stage, cq, driver, wbuf, rbuf, ncall, nrc, controller, nlate>>
Ring ==
  /\ npc = "ring"
  /\ sqt' = QNext(sqt) /\ npc' = "poll"
  /\ UNCHANGED <<stage, sq, cq, cqh, phase, wbuf, rbuf, ncall, nrc, controller, nlate>>
PollWrapsLate ==     \* mutant: the phase turns after the first entry, not the last
  /\ npc = "poll" /\ cq[cqh].phase = phase
  /\ nrc' = cq[cqh].status /\ npc' = "idle"
  /\ cqh' = QNext(cqh) /\ phase' = IF cqh = 0 THEN 1 - phase ELSE phase
  /\ UNCHANGED <<stage, sq, sqt, cq, wbuf, rbuf, ncall, controller, nlate>>
PollCq ==
  /\ npc = "poll" /\ cq[cqh].phase = phase
  /\ nrc' = cq[cqh].status /\ npc' = "idle"
  /\ IF cqh + 1 = NVQ_DEPTH THEN cqh' = 0 /\ phase' = 1 - phase
                            ELSE cqh' = cqh + 1 /\ phase' = phase
  /\ UNCHANGED <<stage, sq, sqt, cq, wbuf, rbuf, ncall, controller, nlate>>
CmdTimeout ==
  /\ npc = "poll" /\ cq[cqh].phase # phase /\ nlate < NvMaxLate
  /\ nrc' = "-1" /\ npc' = "idle" /\ nlate' = nlate + 1
  /\ UNCHANGED <<stage, sq, cq, driver, wbuf, rbuf, ncall, controller>>
-----------------------------------------------------------------------------
(* The controller (external).  It fetches commands in the order of the queue, has
   one in hand, and posts a completion when the completion queue has room for it. *)
Fetch ==
  /\ sqh # sqt /\ hand = NoHand
  /\ hand' = sq[sqh] /\ sqh' = QNext(sqh)
  /\ UNCHANGED <<stage, sq, cq, driver, wbuf, rbuf, npc, ncall, nrc, cqt, cphase, flash, nlate>>
Execute(ok) ==      \* the transfer, if it succeeds
  /\ hand.op \in {"CREATE", "READ", "WRITE"}
  /\ rbuf' = IF ok /\ hand.op = "READ" THEN flash[hand.lba] ELSE rbuf
  /\ flash' = IF ok /\ hand.op = "WRITE" THEN [flash EXCEPT ![hand.lba] = wbuf] ELSE flash
  /\ hand' = Ended(IF ok THEN "ok" ELSE "err")
  /\ UNCHANGED <<stage, sq, cq, driver, wbuf, npc, ncall, nrc, sqh, cqt, cphase, nlate>>
Post ==
  /\ hand.op = "done" /\ QNext(cqt) # cqh
  /\ cq' = [cq EXCEPT ![cqt] = [phase |-> cphase, status |-> hand.status]]
  /\ IF cqt + 1 = NVQ_DEPTH THEN cqt' = 0 /\ cphase' = 1 - cphase
                            ELSE cqt' = cqt + 1 /\ cphase' = cphase
  /\ hand' = NoHand
  /\ UNCHANGED <<stage, sq, driver, wbuf, rbuf, npc, ncall, nrc, sqh, flash, nlate>>

NvmeDriver == \/ \E ready \in BOOLEAN : Reset(ready)
              \/ CreateQueue \/ QueueCreated \/ (\E c \in IoCalls : nvme_io(c))
              \/ Fill \/ Ring \/ PollCq \/ CmdTimeout
NvmeDevice == Fetch \/ (\E ok \in BOOLEAN : Execute(ok)) \/ Post
NvmeNext   == NvmeDriver \/ NvmeDevice
NvmeSpec   == NvmeInit /\ [][NvmeNext]_nvme_vars
-----------------------------------------------------------------------------
(* The poll knows a new completion by one bit, in a slot that holds a completion of
   the lap before.  As long as no poll has timed out, what nvme_cmd returns is the
   status of the caller's own command: the controller is done with it, no command
   and no completion is left over, and after status 0 a read has the block in the
   read frame and a write has it on the medium. *)
CompletionIsOwn ==
  (npc = "idle" /\ nlate = 0) =>
    /\ sqh = sqt /\ cqt = cqh /\ cphase = phase /\ hand = NoHand
    /\ (nrc = "ok" /\ ncall.op = "READ") => rbuf = flash[ncall.lba]
    /\ (nrc = "ok" /\ ncall.op = "WRITE") => flash[ncall.lba] = ncall.val
=============================================================================
