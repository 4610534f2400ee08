-------------------------- MODULE DurableLogProofs --------------------------
(* Proofs about DurableLog.  First: whatever requests fail, wherever crashes cut an
   append or a recovery, and for every size of the log and of its index, what dur_idx
   names can be read back and verifies.  Then, when no request fails: what dur_put
   acknowledged survives every crash and every interrupted recovery, recovery restores
   the reference counts and the process the log holds, and the log implements a map
   that no crash changes. *)
EXTENDS DurableLog, TLAPS

Hashes == {Hash(c) : c \in Content}
Kinds  == {"empty", "DUR_MAGIC", "bytes", "RC_MAGIC", "ROOT_MAGIC"}
Blocks == {x \in [kind : Kinds, c : {None} \cup Content \cup Hashes, delta : Int] :
             x.kind \in {"DUR_MAGIC", "RC_MAGIC"} => x.c \in Hashes}
Entries == [hash : Hashes, hdr_block : 1..NBlocks]
Writes == [block : 0..NBlocks, val : Blocks]

(* A read of block b returns x: x is the last write to b on its way to the medium,
   or there is none and the medium has x. *)
LastWrite(b, i) == /\ pending[i].block = b
                   /\ \A j \in DOMAIN pending : j > i => pending[j].block # b
Reads(b, x) ==
  \/ \E i \in DOMAIN pending : LastWrite(b, i) /\ pending[i].val = x
  \/ (\A i \in DOMAIN pending : pending[i].block # b) /\ disk[b] = x

Typed ==
  /\ disk \in [0..NBlocks -> Blocks] /\ pending \in Seq(Writes)
  /\ dur_idx \in Seq(Entries)
  /\ dur_log_head \in Nat \ {0}

(* Entry e has its claim and its bytes below the head of the log, where nothing is
   written any more. *)
Kept(e) == /\ e.hdr_block + 1 < dur_log_head /\ e.hdr_block + 1 <= NBlocks
           /\ \E x, y \in Blocks : /\ Reads(e.hdr_block, x) /\ Reads(e.hdr_block + 1, y)
                                   /\ x.kind = "DUR_MAGIC" /\ x.c = e.hash
                                   /\ y.kind = "bytes" /\ Hash(y.c) = x.c

(* The append in progress has written what it says at the head; a recovery starts
   with nothing on its way. *)
Appending ==
  /\ pc \in {"claim", "payload"} => /\ cur \in Content /\ dur_log_head + 1 <= NBlocks
                                    /\ Reads(dur_log_head, Claim(cur))
  /\ pc = "payload" => Reads(dur_log_head + 1, Payload(cur))
  /\ pc = "recover" => pending = <<>>

(* The inductive invariant. *)
LInv == Typed /\ (\A i \in DOMAIN dur_idx : Kept(dur_idx[i])) /\ Appending

-----------------------------------------------------------------------------
(* What is read is what Newest says. *)
LEMMA ReadsNewest ==
  ASSUME Typed, NEW b, NEW x, Reads(b, x)
  PROVE  Newest(b) = x
<1> DEFINE W == {i \in DOMAIN pending : pending[i].block = b}
<1>1. CASE \E i \in DOMAIN pending : LastWrite(b, i) /\ pending[i].val = x
  <2>1. PICK i \in DOMAIN pending : LastWrite(b, i) /\ pending[i].val = x
    BY Zenon, <1>1
  <2>2. i \in W /\ W \subseteq Int
    BY <2>1 DEF LastWrite, Typed
  <2>3. \A j \in W : i >= j
    BY <2>1, <2>2 DEF LastWrite, Typed
  <2>4. \A k \in W : (\A j \in W : k >= j) => k = i
    BY <2>2, <2>3
  <2>5. Max(W) = i
    BY Zenon, <2>2, <2>3, <2>4 DEF Max
  <2> QED BY Zenon, <2>1, <2>2, <2>5 DEF Newest
<1>2. CASE (\A i \in DOMAIN pending : pending[i].block # b) /\ disk[b] = x
  <2>1. W = {}
    BY Zenon, <1>2
  <2> QED BY Zenon, <1>2, <2>1 DEF Newest
<1> QED BY Zenon, <1>1, <1>2 DEF Reads

(* vblk_write: the block written reads as written, every other one as before. *)
LEMMA WriteReads ==
  ASSUME Typed, NEW b \in 0..NBlocks, NEW x \in Blocks, vblk_write(b, x), disk' = disk
  PROVE  /\ pending' \in Seq(Writes) /\ Reads(b, x)'
         /\ \A k, y : k # b /\ Reads(k, y) => Reads(k, y)'
<1> DEFINE w == [block |-> b, val |-> x]
<1>1. w \in Writes /\ pending \in Seq(Writes) /\ pending' = Append(pending, w)
  BY Zenon DEF Writes, Typed, vblk_write
<1>2. /\ pending' \in Seq(Writes) /\ Len(pending') = Len(pending) + 1
      /\ \A i \in 1..Len(pending) : pending'[i] = pending[i]
      /\ pending'[Len(pending) + 1] = w
  BY <1>1
<1>3. /\ Len(pending) \in Nat /\ DOMAIN pending = 1..Len(pending)
      /\ DOMAIN pending' = 1..(Len(pending) + 1)
  BY <1>1, <1>2
<1>4. Reads(b, x)'
  <2>1. PICK n : n = Len(pending) + 1
    BY Zenon
  <2>2. n \in DOMAIN pending' /\ pending'[n].val = x /\ pending'[n].block = b
    BY <1>2, <1>3, <2>1
  <2>3. \A j \in DOMAIN pending' : j > n => pending'[j].block # b
    BY <1>3, <2>1
  <2> QED BY Zenon, <2>2, <2>3 DEF Reads, LastWrite
<1>5. ASSUME NEW k, NEW y, k # b, Reads(k, y)
      PROVE  Reads(k, y)'
  <2>1. CASE \E i \in DOMAIN pending : LastWrite(k, i) /\ pending[i].val = y
    <3>1. PICK i \in DOMAIN pending : LastWrite(k, i) /\ pending[i].val = y
      BY Zenon, <2>1
    <3>2. i \in DOMAIN pending' /\ pending'[i] = pending[i]
      BY <1>2, <1>3
    <3>3. ASSUME NEW j \in DOMAIN pending', j > i
          PROVE  pending'[j].block # k
      BY <1>2, <1>3, <1>5, <3>1, <3>3 DEF LastWrite
    <3> QED BY Zenon, <3>1, <3>2, <3>3 DEF Reads, LastWrite
  <2>2. CASE (\A i \in DOMAIN pending : pending[i].block # k) /\ disk[k] = y
    BY <1>2, <1>3, <1>5, <2>2 DEF Reads
  <2> QED BY Zenon, <1>5, <2>1, <2>2 DEF Reads
<1> QED BY Zenon, <1>2, <1>4, <1>5

(* The device completes its oldest write: every block reads as before. *)
LEMMA CompleteReads ==
  ASSUME Typed, Complete
  PROVE  /\ disk' \in [0..NBlocks -> Blocks] /\ pending' \in Seq(Writes)
         /\ \A k \in 0..NBlocks : \A y : Reads(k, y) => Reads(k, y)'
<1> DEFINE w == Head(pending)
<1>1. pending \in Seq(Writes) /\ pending # <<>> /\ pending' = Tail(pending)
  BY Zenon DEF Typed, Complete
<1>2. w \in Writes /\ w = pending[1] /\ pending' \in Seq(Writes)
  BY <1>1
<1>3. /\ Len(pending) \in Nat /\ Len(pending) > 0 /\ DOMAIN pending = 1..Len(pending)
      /\ DOMAIN pending' = 1..(Len(pending) - 1)
      /\ \A i \in 1..(Len(pending) - 1) : pending'[i] = pending[i + 1]
  BY <1>1
<1>4. disk' = [disk EXCEPT ![w.block] = w.val]
  BY Zenon DEF Complete
<1>5. disk' \in [0..NBlocks -> Blocks]
  BY Zenon, <1>2, <1>4 DEF Typed, Writes
<1>6. ASSUME NEW k \in 0..NBlocks, NEW y, Reads(k, y)
      PROVE  Reads(k, y)'
  <2>1. CASE \E i \in DOMAIN pending : LastWrite(k, i) /\ pending[i].val = y
    <3>1. PICK i \in DOMAIN pending : LastWrite(k, i) /\ pending[i].val = y
      BY Zenon, <2>1
    <3>2. CASE i = 1
      <4>1. \A j \in DOMAIN pending' : pending'[j].block # k
        BY <1>3, <3>1, <3>2 DEF LastWrite
      <4>2. disk'[k] = y
        BY Zenon, <1>2, <1>4, <3>1, <3>2 DEF LastWrite, Typed
      <4> QED BY Zenon, <4>1, <4>2 DEF Reads
    <3>3. CASE i # 1
      <4>1. i - 1 \in DOMAIN pending' /\ pending'[i - 1] = pending[i]
        BY <1>3, <3>1, <3>3
      <4>2. ASSUME NEW j \in DOMAIN pending', j > i - 1
            PROVE  pending'[j].block # k
        <5>1. j + 1 \in DOMAIN pending /\ j + 1 > i /\ pending'[j] = pending[j + 1]
          BY <1>3, <4>2
        <5> QED BY Zenon, <3>1, <5>1 DEF LastWrite
      <4>3. pending'[i - 1].block = k /\ pending'[i - 1].val = y
        BY Zenon, <3>1, <4>1 DEF LastWrite
      <4>4. PICK h : h = i - 1
        BY Zenon
      <4> QED BY Zenon, <4>1, <4>2, <4>3, <4>4 DEF Reads, LastWrite
    <3> QED BY Zenon, <3>2, <3>3
  <2>2. CASE (\A i \in DOMAIN pending : pending[i].block # k) /\ disk[k] = y
    <3>1. \A j \in DOMAIN pending' : pending'[j].block # k
      BY <1>3, <2>2
    <3>2. disk'[k] = y
      BY SMTT(30), <1>2, <1>3, <1>4, <2>2 DEF Typed
    <3> QED BY Zenon, <3>1, <3>2 DEF Reads
  <2> QED BY Zenon, <1>6, <2>1, <2>2 DEF Reads
<1> QED BY Zenon, <1>2, <1>5, <1>6

(* The blocks the kernel writes are blocks, and a claim is one by its magic. *)
LEMMA BlocksWritten ==
  /\ Empty \in Blocks /\ Root \in Blocks
  /\ \A c \in Content : Claim(c) \in Blocks /\ Payload(c) \in Blocks
  /\ \A c \in Content, d \in Delta : RcRec(c, d) \in Blocks
BY LogAssumption DEF Empty, Root, Claim, Payload, RcRec, Block, Blocks, Kinds, Hashes

(* A step that leaves index, head and what is read below the head alone keeps the
   entries. *)
LEMMA EntriesKept ==
  ASSUME LInv, UNCHANGED <<dur_idx, dur_log_head>>,
         \A k \in 0..NBlocks : \A y : k < dur_log_head /\ k # 0 /\ Reads(k, y) => Reads(k, y)'
  PROVE  (\A i \in DOMAIN dur_idx : Kept(dur_idx[i]))'
<1> SUFFICES ASSUME NEW i \in DOMAIN dur_idx'
             PROVE  Kept(dur_idx[i])'
  BY Zenon
<1> DEFINE e == dur_idx[i]
<1>1. e \in Entries
  BY DEF LInv, Typed
<1>2. Kept(e)
  BY Zenon DEF LInv
<1>3. /\ e.hdr_block \in 0..NBlocks /\ e.hdr_block + 1 \in 0..NBlocks
      /\ e.hdr_block < dur_log_head /\ e.hdr_block # 0 /\ e.hdr_block + 1 # 0
  BY <1>1, <1>2, LogAssumption DEF Kept, LInv, Typed, Entries
<1> QED BY Zenon, <1>2, <1>3 DEF Kept

(* So does a write at the head or behind it, or of the ROOT block. *)
LEMMA WriteKeeps ==
  ASSUME LInv, NEW b \in 0..NBlocks, NEW x \in Blocks, b = 0 \/ b >= dur_log_head,
         vblk_write(b, x), UNCHANGED <<disk, ram>>
  PROVE  /\ Typed' /\ (\A i \in DOMAIN dur_idx : Kept(dur_idx[i]))' /\ Reads(b, x)'
         /\ \A k, y : k # b /\ Reads(k, y) => Reads(k, y)'
<1>1. /\ pending' \in Seq(Writes) /\ Reads(b, x)'
      /\ \A k, y : k # b /\ Reads(k, y) => Reads(k, y)'
  BY Zenon, WriteReads DEF LInv
<1>2. Typed'
  BY Zenon, <1>1 DEF Typed, LInv, ram
<1>3. \A k \in 0..NBlocks : \A y : k < dur_log_head /\ k # 0 /\ Reads(k, y) => Reads(k, y)'
  BY <1>1, LogAssumption DEF LInv, Typed
<1>4. (\A i \in DOMAIN dur_idx : Kept(dur_idx[i]))'
  BY Zenon, <1>3, EntriesKept DEF ram
<1> QED BY Zenon, <1>1, <1>2, <1>4
-----------------------------------------------------------------------------
(* The initial states have the invariant. *)
LEMMA InitLInv == Init => LInv
<1> SUFFICES ASSUME Init PROVE LInv
  BY Zenon
<1>1. Typed
  BY BlocksWritten, LogAssumption DEF Init, Typed
<1> QED BY <1>1 DEF Init, LInv, Appending

(* A step of none of the variables the invariant speaks of. *)
LEMMA OthersKeep ==
  ASSUME LInv, UNCHANGED <<disk, pending, dur_idx, dur_log_head>>,
         \/ UNCHANGED <<pc, cur>>
         \/ pc' \notin {"claim", "payload", "recover"}
  PROVE  LInv'
<1>1. Typed'
  BY Zenon DEF LInv, Typed
<1>2. \A k, y : Reads(k, y) => Reads(k, y)'
  BY Zenon DEF Reads, LastWrite
<1>3. (\A i \in DOMAIN dur_idx : Kept(dur_idx[i]))'
  BY Zenon, <1>2, EntriesKept
<1>4. Appending'
  BY Zenon, <1>2 DEF Appending, LInv, Reads, LastWrite
<1> QED BY Zenon, <1>1, <1>3, <1>4 DEF LInv

(* A write at or behind the head, or of ROOT, with which no append goes on. *)
LEMMA StrayWriteKeeps ==
  ASSUME LInv, NEW b \in 0..NBlocks, NEW x \in Blocks, b = 0 \/ b >= dur_log_head,
         vblk_write(b, x) \/ UNCHANGED pending, UNCHANGED <<disk, ram>>,
         pc' \notin {"claim", "payload", "recover"}
  PROVE  LInv'
<1>1. CASE vblk_write(b, x)
  <2>1. Typed' /\ (\A i \in DOMAIN dur_idx : Kept(dur_idx[i]))'
    BY Zenon, <1>1, WriteKeeps
  <2> QED BY Zenon, <2>1 DEF LInv, Appending
<1>2. CASE UNCHANGED pending
  BY Zenon, <1>2, OthersKeep DEF ram
<1> QED BY Zenon, <1>1, <1>2

(* The index gains an entry whose two blocks are at the head, or is full, and the
   head moves behind them. *)
LEMMA IndexKeeps ==
  ASSUME LInv, NEW b \in 1..NBlocks, NEW h \in Hashes, NEW x \in Blocks, NEW y \in Blocks,
         b = dur_log_head, b + 1 <= NBlocks, Reads(b, x), Reads(b + 1, y),
         x.kind = "DUR_MAGIC", x.c = h, y.kind = "bytes", Hash(y.c) = x.c,
         dur_idx' = IF Len(dur_idx) < IdxCap
                    THEN Append(dur_idx, [hash |-> h, hdr_block |-> b]) ELSE dur_idx,
         dur_log_head' = dur_log_head + 2, UNCHANGED <<disk, pending>>
  PROVE  Typed' /\ (\A i \in DOMAIN dur_idx : Kept(dur_idx[i]))'
<1> DEFINE e == [hash |-> h, hdr_block |-> b]
<1>1. e \in Entries /\ dur_idx \in Seq(Entries)
  BY Zenon DEF LInv, Typed, Entries
<1>2. dur_idx' \in Seq(Entries) /\ \A i \in DOMAIN dur_idx' : dur_idx'[i] = e \/ (i \in DOMAIN dur_idx /\ dur_idx'[i] = dur_idx[i])
  <2>1. CASE Len(dur_idx) < IdxCap
    <3>1. dur_idx' = Append(dur_idx, e)
      BY Zenon, <2>1
    <3>2. /\ dur_idx' \in Seq(Entries) /\ Len(dur_idx') = Len(dur_idx) + 1
          /\ \A i \in 1..Len(dur_idx) : dur_idx'[i] = dur_idx[i]
          /\ dur_idx'[Len(dur_idx) + 1] = e
      BY <1>1, <3>1
    <3>3. /\ Len(dur_idx) \in Nat /\ DOMAIN dur_idx = 1..Len(dur_idx)
          /\ DOMAIN dur_idx' = 1..(Len(dur_idx) + 1)
      BY <1>1, <3>2
    <3> QED BY <3>2, <3>3
  <2>2. CASE ~(Len(dur_idx) < IdxCap)
    BY Zenon, <1>1, <2>2
  <2> QED BY Zenon, <2>1, <2>2
<1>3. \A k, z : Reads(k, z) => Reads(k, z)'
  BY Zenon DEF Reads, LastWrite
<1>4. Typed'
  BY <1>2 DEF LInv, Typed
<1>5. ASSUME NEW i \in DOMAIN dur_idx'
      PROVE  Kept(dur_idx[i])'
  <2>1. CASE dur_idx'[i] = e
    BY <1>3, <2>1 DEF Kept
  <2>2. CASE i \in DOMAIN dur_idx /\ dur_idx'[i] = dur_idx[i]
    <3>1. Kept(dur_idx[i]) /\ dur_idx[i] \in Entries /\ dur_log_head \in Nat
      BY <2>2 DEF LInv, Typed
    <3>2. dur_idx[i].hdr_block \in Nat
      BY <3>1, LogAssumption DEF Entries
    <3> QED BY <1>3, <2>2, <3>1, <3>2 DEF Kept
  <2> QED BY Zenon, <1>2, <2>1, <2>2
<1> QED BY Zenon, <1>4, <1>5

-----------------------------------------------------------------------------
(* dur_put: claim, payload, index; or a write that failed, at the head either way. *)
LEMMA PutKeeps ==
  ASSUME LInv,
         \/ \E c \in Content : PutDedup(c) \/ PutClaim(c) \/ PutFails(c)
         \/ PutPayload \/ PutDone
  PROVE  LInv'
<1>1. ASSUME NEW c \in Content, PutDedup(c)
      PROVE  LInv'
  BY Zenon, <1>1, OthersKeep DEF PutDedup, ram
<1>2. ASSUME NEW c \in Content, PutClaim(c)
      PROVE  LInv'
  <2>1. PICK b \in 0..NBlocks : b = dur_log_head /\ b + 1 <= NBlocks
    BY <1>2, LogAssumption DEF PutClaim, Room, LInv, Typed
  <2>2. /\ vblk_write(b, Claim(c)) /\ UNCHANGED <<disk, ram>> /\ Claim(c) \in Blocks
        /\ pc' = "claim" /\ cur' = c /\ b >= dur_log_head
    BY <1>2, <2>1, BlocksWritten DEF PutClaim
  <2>3. /\ Typed' /\ (\A i \in DOMAIN dur_idx : Kept(dur_idx[i]))' /\ Reads(b, Claim(c))'
    BY Zenon, <2>1, <2>2, WriteKeeps
  <2>4. Appending'
    BY Zenon, <2>1, <2>2, <2>3 DEF Appending, ram
  <2> QED BY Zenon, <2>3, <2>4 DEF LInv
<1>3. ASSUME NEW c \in Content, PutFails(c)
      PROVE  LInv'
  <2>1. /\ UNCHANGED <<disk, ram>> /\ pc' = "idle"
        /\ Claim(c) \in Blocks /\ Payload(c) \in Blocks /\ dur_log_head \in Nat
    BY Zenon, <1>3, BlocksWritten DEF PutFails, LInv, Typed
  <2>2. CASE pc = "idle" /\ Room(2) /\ vblk_write_fails(dur_log_head, Claim(c))
    <3>1. PICK b \in 0..NBlocks : b = dur_log_head
      BY <2>1, <2>2, LogAssumption DEF Room
    <3>2. vblk_write(b, Claim(c)) \/ UNCHANGED pending
      BY Zenon, <2>2, <3>1 DEF vblk_write_fails
    <3> QED BY <2>1, <3>1, <3>2, StrayWriteKeeps
  <2>3. CASE pc = "claim" /\ vblk_write_fails(dur_log_head + 1, Payload(c))
    <3>1. PICK b \in 0..NBlocks : b = dur_log_head + 1
      BY <2>1, <2>3, LogAssumption DEF LInv, Appending
    <3>2. vblk_write(b, Payload(c)) \/ UNCHANGED pending
      BY Zenon, <2>3, <3>1 DEF vblk_write_fails
    <3> QED BY <2>1, <3>1, <3>2, StrayWriteKeeps
  <2> QED BY Zenon, <1>3, <2>2, <2>3 DEF PutFails
<1>4. ASSUME PutPayload
      PROVE  LInv'
  <2>1. PICK c \in Content : c = cur
    BY Zenon, <1>4 DEF PutPayload, LInv, Appending
  <2>2. PICK h \in 0..NBlocks : h = dur_log_head /\ h + 1 \in 0..NBlocks
    BY <1>4, LogAssumption DEF PutPayload, LInv, Appending, Typed
  <2>3. /\ vblk_write(h + 1, Payload(c)) /\ UNCHANGED <<disk, ram, cur>> /\ Payload(c) \in Blocks
        /\ pc' = "payload" /\ h + 1 >= dur_log_head /\ h + 1 # h
    BY <1>4, <2>1, <2>2, BlocksWritten DEF PutPayload
  <2>4. Reads(h, Claim(c))
    BY Zenon, <1>4, <2>1, <2>2 DEF PutPayload, LInv, Appending
  <2>5. /\ Typed' /\ (\A i \in DOMAIN dur_idx : Kept(dur_idx[i]))'
        /\ Reads(h + 1, Payload(c))' /\ \A k, y : k # h + 1 /\ Reads(k, y) => Reads(k, y)'
    BY Zenon, <2>2, <2>3, WriteKeeps
  <2>6. Appending'
    BY <2>1, <2>2, <2>3, <2>4, <2>5 DEF Appending, ram
  <2> QED BY Zenon, <2>5, <2>6 DEF LInv
<1>5. ASSUME PutDone
      PROVE  LInv'
  <2>1. PICK c \in Content : c = cur
    BY Zenon, <1>5 DEF PutDone, LInv, Appending
  <2>2. PICK b \in 1..NBlocks : b = dur_log_head /\ b + 1 <= NBlocks
    BY <1>5, LogAssumption DEF PutDone, LInv, Appending, Typed
  <2>3. Reads(b, Claim(c)) /\ Reads(b + 1, Payload(c))
    BY Zenon, <1>5, <2>1, <2>2 DEF PutDone, LInv, Appending
  <2>4. /\ Claim(c).kind = "DUR_MAGIC" /\ Claim(c).c = Hash(c) /\ Payload(c).kind = "bytes"
        /\ Hash(Payload(c).c) = Hash(c) /\ Hash(c) \in Hashes
    BY Zenon DEF Claim, Payload, Block, Hashes
  <2>5. Typed' /\ (\A i \in DOMAIN dur_idx : Kept(dur_idx[i]))'
    BY Zenon, <1>5, <2>1, <2>2, <2>3, <2>4, BlocksWritten, IndexKeeps DEF PutDone
  <2> QED BY Zenon, <1>5, <2>5 DEF PutDone, LInv, Appending
<1> QED BY Zenon, <1>1, <1>2, <1>3, <1>4, <1>5

(* A revive writes nothing. *)
LEMMA ReviveLeaves ==
  ASSUME \E lost \in SUBSET (0..IdxCap) : BootRevive(lost)
  PROVE  pc = "boot" /\ pc' = "idle" /\ UNCHANGED <<disk, pending, ram, cur, acked, replayed>>
BY Zenon DEF BootRevive

(* gc_rc_put_delta and the ROOT block. *)
LEMMA RecordsKeep ==
  ASSUME LInv,
         \/ \E c \in Content, d \in Delta : RcWrite(c, d)
         \/ RcDone \/ BootPersist \/ (\E lost \in SUBSET (0..IdxCap) : BootRevive(lost))
         \/ PersistRoot \/ PersistDone
  PROVE  LInv'
<1>1. ASSUME NEW c \in Content, NEW d \in Delta, RcWrite(c, d)
      PROVE  LInv'
  <2>1. PICK b \in 0..NBlocks : b = dur_log_head
    BY <1>1, LogAssumption DEF RcWrite, Room, LInv, Typed
  <2>2. /\ vblk_write(b, RcRec(c, d)) \/ UNCHANGED pending
        /\ RcRec(c, d) \in Blocks /\ b >= dur_log_head
        /\ UNCHANGED <<disk, ram>> /\ pc' = "rc"
    BY <1>1, <2>1, BlocksWritten DEF RcWrite, vblk_write_fails
  <2> QED BY Zenon, <2>2, StrayWriteKeeps
<1>2. ASSUME RcDone
      PROVE  LInv'
  <2>1. /\ UNCHANGED <<disk, pending, dur_idx>> /\ dur_log_head' = dur_log_head + 1
        /\ pc' = "idle" /\ dur_log_head \in Nat
    BY Zenon, <1>2 DEF RcDone, LInv, Typed
  <2>2. Typed'
    BY <2>1 DEF LInv, Typed
  <2>3. ASSUME NEW i \in DOMAIN dur_idx'
        PROVE  Kept(dur_idx[i])'
    <3>1. Kept(dur_idx[i]) /\ dur_idx[i] \in Entries
      BY <2>1 DEF LInv, Typed
    <3>2. dur_idx[i].hdr_block \in Nat
      BY <3>1, LogAssumption DEF Entries
    <3> QED BY <2>1, <3>1, <3>2 DEF Kept, Reads, LastWrite
  <2> QED BY Zenon, <2>1, <2>2, <2>3 DEF LInv, Appending
<1>3. ASSUME BootPersist \/ (\E lost \in SUBSET (0..IdxCap) : BootRevive(lost)) \/ PersistDone
      PROVE  LInv'
  BY Zenon, <1>3, ReviveLeaves, OthersKeep DEF BootPersist, PersistDone, ram
<1>4. ASSUME PersistRoot
      PROVE  LInv'
  <2>1. /\ vblk_write(0, Root) \/ UNCHANGED pending
        /\ UNCHANGED <<disk, ram>> /\ pc' = "root"
    BY Zenon, <1>4 DEF PersistRoot, vblk_write_fails
  <2>2. 0 \in 0..NBlocks /\ Root \in Blocks
    BY BlocksWritten, LogAssumption
  <2> QED BY Zenon, <2>1, <2>2, StrayWriteKeeps
<1> QED BY Zenon, <1>1, <1>2, <1>3, <1>4

(* A completed write, a crash, and dur_recover. *)
LEMMA DeviceKeeps ==
  ASSUME LInv, Complete \/ Crash \/ Recover
  PROVE  LInv'
<1>1. ASSUME Complete
      PROVE  LInv'
  <2>1. UNCHANGED <<dur_idx, dur_log_head, pc, cur>> /\ pending # <<>>
    BY Zenon, <1>1 DEF Complete, ram
  <2>2. /\ disk' \in [0..NBlocks -> Blocks] /\ pending' \in Seq(Writes)
        /\ \A k \in 0..NBlocks : \A y : Reads(k, y) => Reads(k, y)'
    BY Zenon, <1>1, CompleteReads DEF LInv
  <2>3. Typed'
    BY Zenon, <2>1, <2>2 DEF LInv, Typed
  <2>4. (\A i \in DOMAIN dur_idx : Kept(dur_idx[i]))'
    BY Zenon, <2>1, <2>2, EntriesKept
  <2>5. Appending'
    <3>1. pc # "recover"
      BY Zenon, <2>1 DEF LInv, Appending
    <3>2. CASE pc \in {"claim", "payload"}
      <4>1. PICK c \in Content : c = cur
        BY Zenon, <3>2 DEF LInv, Appending
      <4>2. PICK h \in 0..NBlocks : h = dur_log_head /\ h + 1 \in 0..NBlocks
        BY <3>2, LogAssumption DEF LInv, Appending, Typed
      <4>3. Reads(h, Claim(c)) /\ (pc = "payload" => Reads(h + 1, Payload(c)))
        BY Zenon, <3>2, <4>1, <4>2 DEF LInv, Appending
      <4> QED BY <2>1, <2>2, <3>1, <4>1, <4>2, <4>3 DEF Appending
    <3>3. CASE pc \notin {"claim", "payload"}
      BY Zenon, <2>1, <3>1, <3>3 DEF Appending
    <3> QED BY Zenon, <3>2, <3>3
  <2> QED BY Zenon, <2>3, <2>4, <2>5 DEF LInv
<1>2. ASSUME Crash
      PROVE  LInv'
  <2>1. pending' = <<>> /\ dur_idx' = <<>> /\ dur_log_head' = 1 /\ pc' = "recover" /\ disk' = disk
    BY Zenon, <1>2 DEF Crash
  <2> QED BY <2>1 DEF LInv, Typed, Appending
<1>3. ASSUME RecoverObject
      PROVE  LInv'
  <2>1. PICK b \in 1..NBlocks : b = dur_log_head /\ b + 1 <= NBlocks /\ b \in 0..NBlocks /\ b + 1 \in 0..NBlocks
    BY <1>3, LogAssumption DEF RecoverObject, ValidObject, LInv, Typed
  <2>2. PICK x \in Blocks, y \in Blocks : x = disk[b] /\ y = disk[b + 1]
    BY Zenon, <2>1 DEF LInv, Typed
  <2>3. pending = <<>> /\ pc = "recover" /\ ValidObject(b)
    BY Zenon, <1>3, <2>1 DEF RecoverObject, LInv, Appending
  <2>4. Reads(b, x) /\ Reads(b + 1, y)
    BY <2>2, <2>3 DEF Reads
  <2>5. x.kind = "DUR_MAGIC" /\ x.c \in Hashes /\ x.c # None /\ PayloadHash(b + 1) = x.c
    BY Zenon, <2>2, <2>3, LogAssumption DEF ValidObject, Blocks, Hashes
  <2>6. y.kind = "bytes" /\ Hash(y.c) = x.c
    BY Zenon, <2>2, <2>5 DEF PayloadHash
  <2>7. Typed' /\ (\A i \in DOMAIN dur_idx : Kept(dur_idx[i]))'
    BY Zenon, <1>3, <2>1, <2>2, <2>4, <2>5, <2>6, IndexKeeps DEF RecoverObject
  <2> QED BY Zenon, <1>3, <2>3, <2>7 DEF RecoverObject, LInv, Appending
<1>4. ASSUME RecoverRc
      PROVE  LInv'
  <2>1. /\ UNCHANGED <<disk, pending, dur_idx, pc>> /\ dur_log_head' = dur_log_head + 1
        /\ pc = "recover" /\ dur_log_head \in Nat
    BY Zenon, <1>4 DEF RecoverRc, LInv, Typed
  <2>2. Typed'
    BY <2>1 DEF LInv, Typed
  <2>3. ASSUME NEW i \in DOMAIN dur_idx'
        PROVE  Kept(dur_idx[i])'
    <3>1. Kept(dur_idx[i]) /\ dur_idx[i] \in Entries
      BY <2>1 DEF LInv, Typed
    <3>2. dur_idx[i].hdr_block \in Nat
      BY <3>1, LogAssumption DEF Entries
    <3> QED BY <2>1, <3>1, <3>2 DEF Kept, Reads, LastWrite
  <2> QED BY Zenon, <2>1, <2>2, <2>3 DEF LInv, Appending
<1>5. ASSUME NEW rejected \in BOOLEAN, RecoverEnd(rejected)
      PROVE  LInv'
  <2>1. UNCHANGED <<disk, pending, dur_idx, dur_log_head>> /\ pc' \in {"idle", "boot"}
    BY Zenon, <1>5 DEF RecoverEnd, ram
  <2> QED BY Zenon, <2>1, OthersKeep
<1> QED BY Zenon, <1>1, <1>2, <1>3, <1>4, <1>5 DEF Recover

(* Every step keeps the invariant. *)
LEMMA NextLInv ==
  ASSUME LInv, [Next]_vars
  PROVE  LInv'
<1>1. CASE UNCHANGED vars
  BY Zenon, <1>1, OthersKeep DEF vars, ram
<1> QED BY Zenon, <1>1, PutKeeps, RecordsKeep, DeviceKeeps DEF Next

(* dur_get of an indexed object succeeds, for every size of log and index, whatever
   requests fail and wherever crashes fall (dur_put, dur_recover). *)
THEOREM IndexReadsBack == Spec => []IndexVerified
<1>1. LInv /\ [Next]_vars => LInv'
  BY Zenon, NextLInv
<1>2. LInv => IndexVerified
  <2> SUFFICES ASSUME LInv, NEW i \in DOMAIN dur_idx
               PROVE  LET claim == Newest(dur_idx[i].hdr_block)
                          bytes == Newest(dur_idx[i].hdr_block + 1)
                      IN  /\ claim.kind = "DUR_MAGIC" /\ claim.c = dur_idx[i].hash
                          /\ bytes.kind = "bytes" /\ Hash(bytes.c) = claim.c
    BY Zenon DEF IndexVerified
  <2>1. PICK x, y \in Blocks : /\ Reads(dur_idx[i].hdr_block, x) /\ Reads(dur_idx[i].hdr_block + 1, y)
                               /\ x.kind = "DUR_MAGIC" /\ x.c = dur_idx[i].hash
                               /\ y.kind = "bytes" /\ Hash(y.c) = x.c
    BY Zenon DEF LInv, Kept
  <2>2. Newest(dur_idx[i].hdr_block) = x /\ Newest(dur_idx[i].hdr_block + 1) = y
    BY Zenon, <2>1, ReadsNewest DEF LInv
  <2> QED BY Zenon, <2>1, <2>2
<1> QED BY InitLInv, <1>1, <1>2, PTL DEF Spec

-----------------------------------------------------------------------------
(* Durability, when no request fails.  S are the blocks at which a scan of the disk
   starts a record, e the one at which it ends.  Before e every block is the start
   of a record or the payload behind one; e may hold a claim that was torn off. *)
Chain(S, e) ==
  /\ S \subseteq 1..(NBlocks + 1) /\ 1 \in S /\ e \in S /\ \A b \in S : b <= e
  /\ \A b \in S \ {e} : \/ ValidObject(b) /\ b + 2 \in S /\ b + 1 \notin S
                        \/ ValidRc(b) /\ b + 1 \in S
  /\ \A b \in 1..NBlocks : b < e => b \in S \/ (b - 1 \in S /\ ValidObject(b - 1))
  /\ \A b \in 1..NBlocks : b > e => disk[b].kind = "empty"
  /\ e <= NBlocks => disk[e].kind \in {"empty", "DUR_MAGIC"}

Write(b, x) == [block |-> b, val |-> x]

(* How far the operation in progress has got: the head is the end of the log, or
   the record of the operation is already there. *)
Phase(S, e) ==
  /\ pc \in {"idle", "boot"} => pending = <<>> /\ dur_log_head = e
  /\ pc = "claim" => /\ cur \in Content /\ dur_log_head = e /\ e + 1 <= NBlocks
                     /\ \/ pending = <<Write(e, Claim(cur))>>
                        \/ pending = <<>> /\ disk[e] = Claim(cur)
  /\ pc = "payload" =>
       /\ cur \in Content
       /\ \/ /\ dur_log_head = e /\ e + 1 <= NBlocks
             /\ \/ pending = <<Write(e, Claim(cur)), Write(e + 1, Payload(cur))>>
                \/ pending = <<Write(e + 1, Payload(cur))>> /\ disk[e] = Claim(cur)
          \/ /\ dur_log_head + 2 = e /\ dur_log_head \in S /\ pending = <<>>
             /\ ValidObject(dur_log_head) /\ disk[dur_log_head].c = Hash(cur)
  /\ pc = "rc" =>
       /\ cur \in [c : Content, d : Delta]
       /\ \/ dur_log_head = e /\ e <= NBlocks /\ pending = <<Write(e, RcRec(cur.c, cur.d))>>
          \/ /\ dur_log_head + 1 = e /\ dur_log_head \in S /\ pending = <<>>
             /\ ValidRc(dur_log_head) /\ disk[dur_log_head] = RcRec(cur.c, cur.d)
  /\ pc = "root" => dur_log_head = e /\ pending \in {<<>>, <<Write(0, Root)>>}
  /\ pc = "recover" => dur_log_head \in S /\ pending = <<>>
  /\ pc \in {"idle", "boot", "claim", "payload", "rc", "root", "recover"}

(* F[b] are the counts a scan has when it gets to block b. *)
Replay(S, e, F) ==
  /\ F \in [S -> [Hashes -> Int]] /\ F[1] = NoCounts /\ F[e] = replayed
  /\ \A b \in S \ {e} :
       /\ ValidObject(b) => F[b + 2] = F[b]
       /\ ValidRc(b) => F[b + 1] = [F[b] EXCEPT ![disk[b].c] = @ + disk[b].delta]
  /\ dur_log_head \in S /\ gc_rc = F[dur_log_head]

(* The log has content h. *)
Has(S, e, h) == \E b \in S \ {e} : ValidObject(b) /\ disk[b].c = h

(* Below the head every object is indexed, what is indexed is in the log, and so is
   what was acknowledged; the index has room. *)
Indexed(S, e) ==
  /\ \A b \in S \ {e} : b < dur_log_head /\ ValidObject(b) =>
       \E i \in DOMAIN dur_idx : dur_idx[i].hash = disk[b].c
  /\ \A i \in DOMAIN dur_idx : Has(S, e, dur_idx[i].hash)
  /\ \A c \in acked : Has(S, e, Hash(c))
  /\ 2 * Len(dur_idx) < dur_log_head

Whole(S, e) == Chain(S, e) /\ Phase(S, e) /\ Indexed(S, e)
LogWhole == \E S \in SUBSET (1..(NBlocks + 1)) : \E e \in S :
              Whole(S, e) /\ \E F \in [S -> [Hashes -> Int]] : Replay(S, e, F)

(* dur_recover's scan ends at e. *)
LEMMA ChainEnds ==
  ASSUME Typed, NEW S, NEW e, Chain(S, e)
  PROVE  ~ValidObject(e) /\ ~ValidRc(e)
<1>1. e \in 1..(NBlocks + 1) /\ NBlocks \in Nat
  BY Zenon, LogAssumption DEF Chain
<1>2. ~ValidRc(e)
  BY Zenon, <1>1 DEF Chain, ValidRc
<1>3. ASSUME ValidObject(e) PROVE FALSE
  <2>1. e \in 0..NBlocks /\ e + 1 \in 1..NBlocks /\ disk[e].kind = "DUR_MAGIC" /\ PayloadHash(e + 1) = disk[e].c
    BY <1>1, <1>3 DEF ValidObject
  <2>2. disk[e + 1].kind = "empty"
    BY <1>1, <2>1 DEF Chain
  <2>3. disk[e].c \in Hashes /\ disk[e].c = None
    BY Zenon, <2>1, <2>2 DEF Typed, Blocks, PayloadHash
  <2> QED BY Zenon, <2>3, LogAssumption DEF Hashes
<1> QED BY Zenon, <1>2, <1>3

(* The objects on the disk are those at which a record starts. *)
LEMMA LoggedInChain ==
  ASSUME Typed, NEW S, NEW e, Chain(S, e), NEW c \in Content
  PROVE  Logged(c) <=> Has(S, e, Hash(c))
<1>1. NBlocks \in Nat /\ e \in 1..(NBlocks + 1) /\ S \subseteq 1..(NBlocks + 1)
  BY Zenon, LogAssumption DEF Chain
<1>2. ASSUME NEW b \in 1..NBlocks, ValidObject(b)
      PROVE  b \in S \ {e}
  <2>1. b # e
    BY Zenon, <1>2, ChainEnds
  <2>2. ~(b > e)
    BY Zenon, <1>2 DEF Chain, ValidObject
  <2>3. b < e
    BY <1>1, <2>1, <2>2
  <2>4. ASSUME b - 1 \in S, ValidObject(b - 1)
        PROVE  FALSE
    <3>1. b - 1 \in 0..NBlocks /\ (b - 1) + 1 = b
      BY <1>1
    <3>2. disk[b - 1].c \in Hashes /\ PayloadHash(b) = disk[b - 1].c
      BY Zenon, <2>4, <3>1 DEF ValidObject, Typed, Blocks
    <3>3. PayloadHash(b) = None
      BY Zenon, <1>2 DEF ValidObject, PayloadHash
    <3> QED BY Zenon, <3>2, <3>3, LogAssumption DEF Hashes
  <2> QED BY Zenon, <2>1, <2>3, <2>4 DEF Chain
<1>3. \A b \in S : ValidObject(b) => b \in 1..NBlocks
  BY <1>1 DEF ValidObject
<1> QED BY Zenon, <1>2, <1>3 DEF Logged, Has

LEMMA LoggedPrimed ==
  ASSUME NEW S, NEW e
  PROVE  (Typed /\ Chain(S, e))' => (\A c \in Content : Logged(c) <=> Has(S, e, Hash(c)))'
<1>1. Typed /\ Chain(S, e) => \A c \in Content : Logged(c) <=> Has(S, e, Hash(c))
  BY Zenon, LoggedInChain
<1> QED BY <1>1, PTL

(* A step that does not touch the disk. *)
LEMMA DiskStays ==
  ASSUME disk' = disk
  PROVE  /\ \A b : (ValidObject(b) <=> ValidObject(b)') /\ (ValidRc(b) <=> ValidRc(b)')
         /\ \A S, e : Chain(S, e) => Chain(S, e)'
         /\ \A S, e, h : Has(S, e, h) => Has(S, e, h)'
<1>1. \A b : (ValidObject(b) <=> ValidObject(b)') /\ (ValidRc(b) <=> ValidRc(b)')
  BY Zenon DEF ValidObject, ValidRc, PayloadHash
<1>2. \A S, e : Chain(S, e) => Chain(S, e)'
  BY <1>1 DEF Chain
<1>3. \A S, e, h : Has(S, e, h) => Has(S, e, h)'
  BY Zenon, <1>1 DEF Has
<1> QED BY Zenon, <1>1, <1>2, <1>3

LEMMA IndexStays ==
  ASSUME NEW S, NEW e, Indexed(S, e), UNCHANGED <<disk, dur_idx, dur_log_head, acked>>
  PROVE  Indexed(S, e)'
BY Zenon, DiskStays DEF Indexed

(* The scan's next record: an object is two blocks, a count one. *)
LEMMA NextRecord ==
  ASSUME Typed, NEW S, NEW e, Chain(S, e), NEW b \in S
  PROVE  /\ ValidObject(b) => b # e /\ b + 2 \in S /\ b + 1 \notin S
         /\ ValidRc(b) => b # e /\ b + 1 \in S /\ ~ValidObject(b)
         /\ ~ValidObject(b) /\ ~ValidRc(b) => b = e
BY ZenonT(30), ChainEnds DEF Chain, ValidObject, ValidRc

(* The object at b = the head is indexed, the head moves behind it. *)
LEMMA IndexGrows ==
  ASSUME Typed, NEW S, NEW e, Chain(S, e), Indexed(S, e), NBlocks <= 2 * IdxCap,
         NEW b \in S, b = dur_log_head, ValidObject(b), NEW h \in Hashes, h = disk[b].c,
         dur_idx' = IF Len(dur_idx) < IdxCap
                    THEN Append(dur_idx, [hash |-> h, hdr_block |-> b]) ELSE dur_idx,
         dur_log_head' = b + 2, disk' = disk,
         \A c \in acked' : c \in acked \/ Hash(c) = h
  PROVE  Indexed(S, e)'
<1> DEFINE r == [hash |-> h, hdr_block |-> b]
<1>1. /\ NBlocks \in Nat /\ IdxCap \in Nat /\ b \in 1..NBlocks /\ S \subseteq 1..(NBlocks + 1)
      /\ b + 1 <= NBlocks /\ Len(dur_idx) \in Nat /\ 2 * Len(dur_idx) < b
  BY SMTT(30), LogAssumption DEF Chain, ValidObject, Indexed, Typed
<1>2. Len(dur_idx) < IdxCap /\ dur_idx' = Append(dur_idx, r)
  BY <1>1
<1>3. r \in Entries /\ dur_idx \in Seq(Entries)
  BY Zenon, <1>1 DEF Entries, Typed
<1>4. /\ Len(dur_idx') = Len(dur_idx) + 1 /\ dur_idx'[Len(dur_idx) + 1] = r
      /\ \A i \in 1..Len(dur_idx) : dur_idx'[i] = dur_idx[i]
      /\ DOMAIN dur_idx = 1..Len(dur_idx) /\ DOMAIN dur_idx' = 1..(Len(dur_idx) + 1)
  BY <1>2, <1>3
<1>5. b # e /\ b + 1 \notin S
  BY Zenon, NextRecord
<1>6. Has(S, e, h)
  BY Zenon, <1>5 DEF Has
<1>7. ASSUME NEW k \in S \ {e}, k < b + 2, ValidObject(k)
      PROVE  \E i \in DOMAIN dur_idx' : dur_idx'[i].hash = disk[k].c
  <2>1. CASE k < b
    <3>1. PICK i \in DOMAIN dur_idx : dur_idx[i].hash = disk[k].c
      BY Zenon, <1>7, <2>1 DEF Indexed
    <3> QED BY SMTT(30), <1>1, <1>4, <3>1
  <2>2. CASE k = b
    <3>1. PICK n : n = Len(dur_idx) + 1
      BY Zenon
    <3>2. n \in DOMAIN dur_idx' /\ dur_idx'[n].hash = disk[k].c
      BY <1>1, <1>4, <2>2, <3>1
    <3> QED BY Zenon, <3>2
  <2>3. k \in Nat /\ b \in Nat /\ k # b + 1
    BY <1>1, <1>5, <1>7
  <2>4. k < b \/ k = b
    BY <1>7, <2>3
  <2> QED BY Zenon, <2>1, <2>2, <2>4
<1>8. \A i \in DOMAIN dur_idx' : Has(S, e, dur_idx'[i].hash)
  <2> SUFFICES ASSUME NEW i \in DOMAIN dur_idx' PROVE Has(S, e, dur_idx'[i].hash)
    BY Zenon
  <2>1. CASE i \in 1..Len(dur_idx)
    BY Zenon, <1>4, <2>1 DEF Indexed
  <2>2. CASE i = Len(dur_idx) + 1
    BY <1>4, <1>6, <2>2
  <2> QED BY <1>1, <1>4, <2>1, <2>2
<1>9. \A c \in acked' : Has(S, e, Hash(c))
  BY Zenon, <1>6 DEF Indexed
<1>10. 2 * Len(dur_idx') < dur_log_head'
  BY <1>1, <1>4
<1> QED BY ZenonT(30), <1>7, <1>8, <1>9, <1>10, DiskStays DEF Indexed

(* The head moves over a count record. *)
LEMMA IndexPasses ==
  ASSUME Typed, NEW S, NEW e, Chain(S, e), Indexed(S, e), NEW b \in S, b = dur_log_head, ValidRc(b),
         dur_log_head' = b + 1, UNCHANGED <<disk, dur_idx, acked>>
  PROVE  Indexed(S, e)'
<1>0. ~ValidObject(b)
  BY Zenon, NextRecord
<1>1. b \in Nat /\ S \subseteq Nat /\ Len(dur_idx) \in Nat
  BY LogAssumption DEF Chain, Typed
<1>2. \A k \in S : k < b + 1 => k < b \/ k = b
  BY <1>1
<1>3. 2 * Len(dur_idx') < dur_log_head'
  BY <1>1 DEF Indexed
<1> QED BY Zenon, <1>0, <1>2, <1>3, DiskStays DEF Indexed

(* The writes of one append on their way. *)
LEMMA ShortQueues ==
  ASSUME NEW x, NEW y
  PROVE  /\ Append(<<x>>, y) = <<x, y>> /\ Append(<<>>, y) = <<y>>
         /\ Head(<<x>>) = x /\ Head(<<x, y>>) = x
         /\ Tail(<<x>>) = <<>> /\ Tail(<<x, y>>) = <<y>>
         /\ <<x>> # <<>> /\ <<x, y>> # <<>>
<1>1. <<x>> \in Seq({x, y}) /\ <<x, y>> \in Seq({x, y}) /\ Append(<<x>>, y) \in Seq({x, y})
  OBVIOUS
<1>2. Len(Append(<<x>>, y)) = 2 /\ Append(<<x>>, y)[1] = x /\ Append(<<x>>, y)[2] = y
  OBVIOUS
<1>3. PICK s \in Seq({x, y}), t \in Seq({x, y}) : s = Append(<<x>>, y) /\ t = <<x, y>>
  BY <1>1, Zenon
<1>4. Len(s) = Len(t) /\ \A i \in 1..Len(s) : s[i] = t[i]
  BY <1>2, <1>3
<1>5. s = t
  BY <1>4
<1>6. Append(<<x>>, y) = <<x, y>>
  BY <1>3, <1>5, Zenon
<1>7. /\ Append(<<>>, y) = <<y>> /\ Head(<<x>>) = x /\ Head(<<x, y>>) = x
      /\ <<x>> # <<>> /\ <<x, y>> # <<>>
  OBVIOUS
<1>8. Tail(<<x>>) = <<>> /\ Tail(<<x, y>>) = <<y>>
  OBVIOUS
<1> QED BY Zenon, <1>6, <1>7, <1>8

(* dur_put keeps the log whole. *)
LEMMA PutWhole ==
  ASSUME Typed, Faults = {}, NBlocks <= 2 * IdxCap, NEW S, NEW e, Whole(S, e),
         \/ \E c \in Content : PutDedup(c) \/ PutClaim(c) \/ PutFails(c)
         \/ PutPayload \/ PutDone
  PROVE  Whole(S, e)'
<1>0. Chain(S, e) /\ Phase(S, e) /\ Indexed(S, e) /\ disk' = disk
  BY Zenon DEF Whole, PutDedup, PutClaim, PutFails, PutPayload, PutDone
<1>1. Chain(S, e)' /\ NBlocks \in Nat /\ e \in Nat
  <2>1. Chain(S, e)'
    BY Zenon, <1>0, DiskStays
  <2>2. NBlocks \in Nat
    BY Zenon, LogAssumption
  <2>3. e \in 1..(NBlocks + 1)
    BY Zenon, <1>0 DEF Chain
  <2> QED BY <2>1, <2>2, <2>3
<1>2. ASSUME NEW c \in Content, PutDedup(c)
      PROVE  Whole(S, e)'
  <2>1. Has(S, e, Hash(c))
    BY Zenon, <1>0, <1>2 DEF PutDedup, dur_idx_find, Indexed
  <2>2. Indexed(S, e)'
    BY Zenon, <1>0, <1>2, <2>1, DiskStays DEF PutDedup, ram, Indexed
  <2>3. Phase(S, e)'
    BY Zenon, <1>0, <1>2 DEF PutDedup, Phase, ram
  <2> QED BY Zenon, <1>1, <2>2, <2>3 DEF Whole
<1>3. ASSUME NEW c \in Content, PutClaim(c)
      PROVE  Whole(S, e)'
  <2>1. Indexed(S, e)'
    BY Zenon, <1>0, <1>3, IndexStays DEF PutClaim, ram
  <2>2. /\ pending' = <<Write(e, Claim(c))>> /\ dur_log_head' = e /\ e + 1 <= NBlocks
        /\ pc' = "claim" /\ cur' = c
    BY <1>0, <1>1, <1>3 DEF PutClaim, Phase, vblk_write, Room, ram, Write
  <2>3. Phase(S, e)'
    BY Zenon, <2>2 DEF Phase
  <2> QED BY Zenon, <1>1, <2>1, <2>3 DEF Whole
<1>4. ASSUME PutPayload
      PROVE  Whole(S, e)'
  <2>1. Indexed(S, e)'
    BY Zenon, <1>0, <1>4, IndexStays DEF PutPayload, ram
  <2>2. /\ cur' = cur /\ cur \in Content /\ dur_log_head' = e /\ e + 1 <= NBlocks /\ pc' = "payload"
        /\ pending' = Append(pending, Write(e + 1, Payload(cur)))
        /\ \/ pending = <<Write(e, Claim(cur))>>
           \/ pending = <<>> /\ disk[e] = Claim(cur)
    BY Zenon, <1>0, <1>4 DEF PutPayload, Phase, vblk_write, ram, Write
  <2>3. \/ pending' = <<Write(e, Claim(cur)), Write(e + 1, Payload(cur))>>
        \/ pending' = <<Write(e + 1, Payload(cur))>> /\ disk[e] = Claim(cur)
    <3>1. PICK u, v : u = Write(e, Claim(cur)) /\ v = Write(e + 1, Payload(cur))
      BY Zenon
    <3>2. Append(<<u>>, v) = <<u, v>> /\ Append(<<>>, v) = <<v>>
      BY ShortQueues, Zenon
    <3> QED BY <2>2, <3>1, <3>2, Zenon
  <2>4. Phase(S, e)'
    BY Zenon, <1>0, <2>2, <2>3 DEF Phase
  <2> QED BY Zenon, <1>1, <2>1, <2>4 DEF Whole
<1>5. ASSUME PutDone
      PROVE  Whole(S, e)'
  <2>1. /\ pending = <<>> /\ pending' = <<>> /\ dur_log_head + 2 = e /\ dur_log_head \in S
        /\ ValidObject(dur_log_head) /\ disk[dur_log_head].c = Hash(cur) /\ cur \in Content
    BY <1>0, <1>5 DEF PutDone, Phase, vblk_flush
  <2>2. PICK b \in S : b = dur_log_head
    BY Zenon, <2>1
  <2>3. PICK h \in Hashes : h = Hash(cur)
    BY Zenon, <2>1 DEF Hashes
  <2>4. Indexed(S, e)'
    BY Zenon, <1>0, <1>5, <2>1, <2>2, <2>3, IndexGrows DEF PutDone
  <2>5. Phase(S, e)'
    BY Zenon, <1>5, <2>1 DEF PutDone, Phase
  <2> QED BY Zenon, <1>1, <2>4, <2>5 DEF Whole
<1>6. ASSUME NEW c \in Content, PutFails(c)
      PROVE  FALSE
  BY Zenon, <1>6 DEF PutFails, vblk_write_fails
<1> QED BY Zenon, <1>2, <1>3, <1>4, <1>5, <1>6

(* gc_rc_put_delta, the ROOT block and the boot's decision. *)
LEMMA RecordsWhole ==
  ASSUME Typed, Faults = {}, NEW S, NEW e, Whole(S, e),
         \/ \E c \in Content, d \in Delta : RcWrite(c, d)
         \/ RcDone \/ BootPersist \/ (\E lost \in SUBSET (0..IdxCap) : BootRevive(lost))
         \/ PersistRoot \/ PersistDone
  PROVE  Whole(S, e)'
<1>0. Chain(S, e) /\ Phase(S, e) /\ Indexed(S, e) /\ disk' = disk
  BY Zenon, ReviveLeaves DEF Whole, RcWrite, RcDone, BootPersist, PersistRoot, PersistDone
<1>1. Chain(S, e)' /\ NBlocks \in Nat /\ e \in Nat
  <2>1. Chain(S, e)'
    BY Zenon, <1>0, DiskStays
  <2>2. NBlocks \in Nat
    BY Zenon, LogAssumption
  <2>3. e \in 1..(NBlocks + 1)
    BY Zenon, <1>0 DEF Chain
  <2> QED BY <2>1, <2>2, <2>3
<1>2. ASSUME NEW c \in Content, NEW d \in Delta, RcWrite(c, d)
      PROVE  Whole(S, e)'
  <2>1. Indexed(S, e)'
    BY Zenon, <1>0, <1>2, IndexStays DEF RcWrite, ram
  <2>2. /\ pending' = Append(<<>>, Write(e, RcRec(c, d))) /\ dur_log_head' = e /\ e <= NBlocks
        /\ pc' = "rc" /\ cur' = [c |-> c, d |-> d]
    BY <1>0, <1>1, <1>2 DEF RcWrite, Phase, vblk_write, vblk_write_fails, Room, ram, Write
  <2>3. /\ pending' = <<Write(e, RcRec(cur'.c, cur'.d))>> /\ cur' \in [c : Content, d : Delta]
    BY <2>2
  <2>4. Phase(S, e)'
    BY Zenon, <2>2, <2>3 DEF Phase
  <2> QED BY Zenon, <1>1, <2>1, <2>4 DEF Whole
<1>3. ASSUME RcDone
      PROVE  Whole(S, e)'
  <2>1. /\ pending = <<>> /\ pending' = <<>> /\ dur_log_head + 1 = e /\ dur_log_head \in S
        /\ ValidRc(dur_log_head)
    BY <1>0, <1>3 DEF RcDone, Phase, vblk_flush
  <2>2. PICK b \in S : b = dur_log_head
    BY Zenon, <2>1
  <2>3. Indexed(S, e)'
    BY Zenon, <1>0, <1>3, <2>1, <2>2, IndexPasses DEF RcDone
  <2>4. Phase(S, e)'
    BY Zenon, <1>3, <2>1 DEF RcDone, Phase
  <2> QED BY Zenon, <1>1, <2>3, <2>4 DEF Whole
<1>4. ASSUME BootPersist \/ (\E lost \in SUBSET (0..IdxCap) : BootRevive(lost)) \/ PersistDone
      PROVE  Whole(S, e)'
  <2>1. /\ UNCHANGED <<disk, dur_idx, dur_log_head, acked>> /\ pc' = "idle"
        /\ pending' = <<>> /\ dur_log_head = e
    BY Zenon, <1>0, <1>4, ReviveLeaves DEF BootPersist, PersistDone, Phase, vblk_flush, ram
  <2>2. Phase(S, e)'
    BY Zenon, <2>1 DEF Phase
  <2> QED BY Zenon, <1>0, <1>1, <2>1, <2>2, IndexStays DEF Whole
<1>5. ASSUME PersistRoot
      PROVE  Whole(S, e)'
  <2>1. /\ UNCHANGED <<disk, dur_idx, dur_log_head, acked>> /\ pc' = "root"
        /\ pending' = Append(<<>>, Write(0, Root)) /\ dur_log_head = e
    BY Zenon, <1>0, <1>5 DEF PersistRoot, Phase, vblk_write, vblk_write_fails, ram, Write
  <2>2. Phase(S, e)'
    BY <2>1 DEF Phase
  <2> QED BY Zenon, <1>0, <1>1, <2>1, <2>2, IndexStays DEF Whole
<1> QED BY Zenon, <1>2, <1>3, <1>4, <1>5

(* A crash, and dur_recover: it scans the chain from its start to e. *)
LEMMA RecoverWhole ==
  ASSUME Typed, Faults = {}, NBlocks <= 2 * IdxCap, NEW S, NEW e, Whole(S, e), Crash \/ Recover
  PROVE  Whole(S, e)'
<1>0. Chain(S, e) /\ Phase(S, e) /\ Indexed(S, e) /\ disk' = disk
  BY Zenon DEF Whole, Crash, Recover, RecoverObject, RecoverRc, RecoverEnd
<1>1. Chain(S, e)' /\ NBlocks \in Nat /\ e \in Nat
  <2>1. Chain(S, e)'
    BY Zenon, <1>0, DiskStays
  <2>2. NBlocks \in Nat
    BY Zenon, LogAssumption
  <2>3. e \in 1..(NBlocks + 1)
    BY Zenon, <1>0 DEF Chain
  <2> QED BY <2>1, <2>2, <2>3
<1>2. ASSUME Crash
      PROVE  Whole(S, e)'
  <2>1. /\ pending' = <<>> /\ dur_idx' = <<>> /\ dur_log_head' = 1 /\ pc' = "recover"
        /\ acked' = acked /\ 1 \in S /\ S \subseteq 1..(NBlocks + 1)
    BY Zenon, <1>0, <1>2 DEF Crash, Chain
  <2>2. Phase(S, e)'
    BY Zenon, <2>1 DEF Phase
  <2>3. \A k \in S : ~(k < 1)
    BY <1>1, <2>1
  <2>4. Indexed(S, e)'
    <3>1. DOMAIN dur_idx' = {} /\ 2 * Len(dur_idx') < dur_log_head'
      BY <2>1
    <3>2. \A h : Has(S, e, h) => Has(S, e, h)'
      BY Zenon, <1>0, DiskStays
    <3>3. \A c \in acked' : Has(S, e, Hash(c))'
      BY Zenon, <1>0, <2>1, <3>2 DEF Indexed, Hash
    <3>4. \A k \in S \ {e} : ~(k < dur_log_head')
      BY Zenon, <2>1, <2>3
    <3> QED BY Zenon, <3>1, <3>3, <3>4 DEF Indexed
  <2> QED BY Zenon, <1>1, <2>2, <2>4 DEF Whole
<1>3. ASSUME RecoverObject \/ RecoverRc \/ \E rejected \in BOOLEAN : RecoverEnd(rejected)
      PROVE  dur_log_head \in S /\ pending' = <<>> /\ acked' = acked
  BY Zenon, <1>0, <1>3 DEF RecoverObject, RecoverRc, RecoverEnd, Phase
<1>4. ASSUME RecoverObject
      PROVE  Whole(S, e)'
  <2>1. PICK b \in S : b = dur_log_head
    BY Zenon, <1>3, <1>4
  <2>2. ValidObject(b) /\ dur_log_head' = b + 2 /\ pc' = "recover"
    BY Zenon, <1>4, <2>1 DEF RecoverObject
  <2>3. b \in 0..NBlocks /\ disk[b].kind = "DUR_MAGIC"
    BY <1>0, <1>1, <2>2 DEF Chain, ValidObject
  <2>4. PICK h \in Hashes : h = disk[b].c
    BY Zenon, <2>3 DEF Typed, Blocks
  <2>5. Indexed(S, e)'
    BY Zenon, <1>0, <1>3, <1>4, <2>1, <2>2, <2>4, IndexGrows DEF RecoverObject
  <2>6. b + 2 \in S
    BY Zenon, <1>0, <2>2, NextRecord
  <2>7. Phase(S, e)'
    BY Zenon, <1>3, <1>4, <2>2, <2>6 DEF Phase
  <2> QED BY Zenon, <1>1, <2>5, <2>7 DEF Whole
<1>5. ASSUME RecoverRc
      PROVE  Whole(S, e)'
  <2>1. PICK b \in S : b = dur_log_head
    BY Zenon, <1>3, <1>5
  <2>2. ValidRc(b) /\ dur_log_head' = b + 1 /\ pc' = "recover" /\ UNCHANGED <<dur_idx, acked>>
    BY Zenon, <1>5, <2>1 DEF RecoverRc
  <2>3. Indexed(S, e)'
    BY Zenon, <1>0, <2>1, <2>2, IndexPasses
  <2>4. b + 1 \in S
    BY Zenon, <1>0, <2>2, NextRecord
  <2>5. Phase(S, e)'
    BY Zenon, <1>3, <1>5, <2>2, <2>4 DEF Phase
  <2> QED BY Zenon, <1>1, <2>3, <2>5 DEF Whole
<1>6. ASSUME NEW rejected \in BOOLEAN, RecoverEnd(rejected)
      PROVE  Whole(S, e)'
  <2>1. PICK b \in S : b = dur_log_head
    BY Zenon, <1>3, <1>6
  <2>2. /\ ~ValidObject(b) /\ ~ValidRc(b) /\ UNCHANGED <<dur_idx, dur_log_head, acked>>
        /\ pc' \in {"idle", "boot"}
    BY Zenon, <1>6, <2>1 DEF RecoverEnd, ram
  <2>3. b = e
    BY Zenon, <1>0, <2>2, NextRecord
  <2>4. Phase(S, e)'
    BY Zenon, <1>3, <1>6, <2>1, <2>2, <2>3 DEF Phase
  <2> QED BY Zenon, <1>0, <1>1, <2>2, <2>4, IndexStays DEF Whole
<1> QED BY Zenon, <1>2, <1>4, <1>5, <1>6 DEF Recover

(* Block k becomes x. *)
Written(k, x) == disk' = [disk EXCEPT ![k] = x]
(* The records before the end of the log are as they were. *)
Stay(S, e) == \A b \in S \ {e} : /\ disk'[b] = disk[b]
                                 /\ ValidObject(b) <=> ValidObject(b)'
                                 /\ ValidRc(b) <=> ValidRc(b)'

(* A write that completes at or behind the end of the log: the records before stay. *)
LEMMA RecordsStay ==
  ASSUME Typed, NEW S, NEW e, Chain(S, e), NEW k \in 0..NBlocks, NEW x, k = 0 \/ k >= e,
         Written(k, x)
  PROVE  /\ \A b \in 0..NBlocks : b # k => disk'[b] = disk[b]
         /\ disk'[k] = x
         /\ Stay(S, e)
<1>1. /\ NBlocks \in Nat /\ S \subseteq 1..(NBlocks + 1) /\ e \in S /\ e \in 1..(NBlocks + 1)
      /\ \A b \in S : b <= e
  BY Zenon, LogAssumption DEF Chain
<1>2. (\A b \in 0..NBlocks : b # k => disk'[b] = disk[b]) /\ disk'[k] = x
  BY Zenon DEF Typed, Written
<1>3. ASSUME NEW b \in S \ {e}
      PROVE  disk'[b] = disk[b] /\ (ValidObject(b) <=> ValidObject(b)') /\ (ValidRc(b) <=> ValidRc(b)')
  <2>1. b \in 1..NBlocks /\ b < e /\ disk'[b] = disk[b]
    BY <1>1, <1>2
  <2>2. ValidRc(b) <=> ValidRc(b)'
    BY Zenon, <2>1 DEF ValidRc
  <2>3. CASE ValidRc(b)
    BY Zenon, <2>1, <2>2, <2>3 DEF ValidObject, ValidRc
  <2>4. CASE ~ValidRc(b)
    <3>1. ValidObject(b) /\ b + 1 \notin S
      BY Zenon, <2>4 DEF Chain
    <3>2. b + 1 \in 0..NBlocks /\ b + 1 # k
      BY <1>1, <2>1, <3>1 DEF ValidObject
    <3>3. disk'[b + 1] = disk[b + 1]
      BY Zenon, <1>2, <3>2
    <3> QED BY Zenon, <2>1, <2>2, <3>1, <3>3 DEF ValidObject, PayloadHash
  <2> QED BY Zenon, <2>1, <2>2, <2>3, <2>4
<1> QED BY Zenon, <1>2, <1>3 DEF Stay

(* What Indexed says outlives a completed write. *)
LEMMA IndexOutlives ==
  ASSUME NEW S, NEW e, NEW T, NEW f, Indexed(S, e), S \ {e} \subseteq T \ {f},
         Stay(S, e),
         \A b \in (T \ {f}) \ (S \ {e}) : ~(b < dur_log_head),
         UNCHANGED <<dur_idx, dur_log_head, acked>>
  PROVE  Indexed(T, f)'
<1>1. \A h : Has(S, e, h) => Has(T, f, h)'
  BY Zenon DEF Has, Stay
<1> QED BY Zenon, <1>1 DEF Indexed, Stay

(* A claim reaches the end of the log, or ROOT its block: no record is added. *)
LEMMA ChainSame ==
  ASSUME Typed, NEW S, NEW e, Chain(S, e), NEW k \in 0..NBlocks, NEW x,
         k = 0 \/ (k = e /\ x.kind = "DUR_MAGIC"), Written(k, x)
  PROVE  Chain(S, e)' /\ \A h : Has(S, e, h)' <=> Has(S, e, h)
<1>1. NBlocks \in Nat /\ e \in 1..(NBlocks + 1) /\ S \subseteq 1..(NBlocks + 1)
  BY Zenon, LogAssumption DEF Chain
<1>2. k = 0 \/ k >= e
  BY <1>1
<1>3. /\ \A b \in 0..NBlocks : b # k => disk'[b] = disk[b]
      /\ disk'[k] = x
      /\ Stay(S, e)
  BY Zenon, <1>2, RecordsStay
<1>4. \A h : Has(S, e, h)' <=> Has(S, e, h)
  BY Zenon, <1>3 DEF Has, Stay
<1>5. ASSUME NEW b \in S \ {e}
      PROVE  \/ ValidObject(b)' /\ b + 2 \in S /\ b + 1 \notin S
             \/ ValidRc(b)' /\ b + 1 \in S
  BY Zenon, <1>3 DEF Chain, Stay
<1>6. ASSUME NEW b \in 1..NBlocks, b < e
      PROVE  b \in S \/ (b - 1 \in S /\ ValidObject(b - 1)')
  <2>1. CASE b \notin S
    <3>1. b - 1 \in S /\ ValidObject(b - 1)
      BY Zenon, <1>6, <2>1 DEF Chain
    <3>2. b - 1 \in S \ {e}
      BY <1>1, <1>6, <3>1
    <3> QED BY Zenon, <1>3, <3>1, <3>2 DEF Stay
  <2> QED BY Zenon, <2>1
<1>7. /\ \A b \in 1..NBlocks : b > e => disk'[b].kind = "empty"
      /\ e <= NBlocks => disk'[e].kind \in {"empty", "DUR_MAGIC"}
  BY <1>1, <1>3 DEF Chain
<1>8. S \subseteq 1..(NBlocks + 1) /\ 1 \in S /\ e \in S /\ \A b \in S : b <= e
  BY Zenon DEF Chain
<1>9. Chain(S, e)'
  BY Zenon, <1>5, <1>6, <1>7, <1>8 DEF Chain
<1> QED BY Zenon, <1>4, <1>9

(* The record at the end of the log is complete: it ends n blocks further on. *)
Completed(S, e, n, k, x, T, f) ==
  /\ n \in {1, 2} /\ k \in 1..NBlocks /\ f = e + n /\ T = S \cup {f} /\ k = e + n - 1 /\ Written(k, x)
  /\ \/ n = 2 /\ ValidObject(e)'
     \/ n = 1 /\ ValidRc(e)'
LEMMA ChainGrows ==
  ASSUME Typed, NEW S, NEW e, Chain(S, e), NEW n, NEW k, NEW x, NEW T, NEW f, Completed(S, e, n, k, x, T, f)
  PROVE  /\ Chain(T, f)'
         /\ S \ {e} \subseteq T \ {f}
         /\ \A b \in T \ {f} : b = e \/ b \in S \ {e}
         /\ e \in T \ {f}
         /\ Stay(S, e)
         /\ f \notin S /\ f \in 1..(NBlocks + 1)
<1>0. /\ n \in {1, 2} /\ k \in 1..NBlocks /\ f = e + n /\ T = S \cup {f} /\ k = e + n - 1 /\ Written(k, x)
      /\ (n = 2 /\ ValidObject(e)') \/ (n = 1 /\ ValidRc(e)')
  BY Zenon DEF Completed
<1>1. /\ NBlocks \in Nat /\ e \in 1..(NBlocks + 1) /\ S \subseteq 1..(NBlocks + 1)
      /\ 1 \in S /\ e \in S /\ \A b \in S : b <= e
  BY Zenon, LogAssumption DEF Chain
<1>2. k >= e /\ k \in 0..NBlocks /\ f \in 1..(NBlocks + 1) /\ e \in 1..NBlocks
  BY <1>0, <1>1
<1>2a. (k = 0 \/ k >= e) /\ k \in 0..NBlocks
  BY Zenon, <1>2
<1>3. /\ \A b \in 0..NBlocks : b # k => disk'[b] = disk[b]
      /\ Stay(S, e)
  BY <1>0, <1>2a, RecordsStay
<1>4. /\ S \ {e} \subseteq T \ {f} /\ e \in T \ {f} /\ f \notin S
      /\ \A b \in T \ {f} : b = e \/ b \in S \ {e}
  BY <1>0, <1>1
<1>5. T \subseteq 1..(NBlocks + 1) /\ 1 \in T /\ f \in T /\ \A b \in T : b <= f
  BY <1>0, <1>1, <1>2
<1>6. ASSUME NEW b \in T \ {f}
      PROVE  \/ ValidObject(b)' /\ b + 2 \in T /\ b + 1 \notin T
             \/ ValidRc(b)' /\ b + 1 \in T
  <2>1. CASE b = e
    BY <1>0, <1>1, <2>1
  <2>2. CASE b \in S \ {e}
    <3>1. b < e
      BY <1>1, <2>2
    <3> QED BY <1>0, <1>1, <1>3, <2>2, <3>1 DEF Chain, Stay
  <2> QED BY Zenon, <1>4, <2>1, <2>2
<1>7. ASSUME NEW b \in 1..NBlocks, b < f
      PROVE  b \in T \/ (b - 1 \in T /\ ValidObject(b - 1)')
  <2>1. CASE b < e /\ b \notin S
    <3>1. b - 1 \in S /\ ValidObject(b - 1)
      BY Zenon, <2>1 DEF Chain
    <3>2. b - 1 \in S \ {e}
      BY <1>1, <2>1, <3>1
    <3> QED BY Zenon, <1>0, <1>3, <3>1, <3>2 DEF Stay
  <2>2. CASE b = e + 1 /\ n = 2
    <3>1. b - 1 = e
      BY <1>1, <2>2
    <3> QED BY Zenon, <1>0, <1>1, <2>2, <3>1
  <2> QED BY <1>0, <1>1, <1>7, <2>1, <2>2
<1>8. /\ \A b \in 1..NBlocks : b > f => disk'[b].kind = "empty"
      /\ f <= NBlocks => disk'[f].kind \in {"empty", "DUR_MAGIC"}
  <2>1. \A b \in 1..NBlocks : b >= f => b \in 0..NBlocks /\ b # k /\ b > e
    BY <1>0, <1>1
  <2>2. \A b \in 1..NBlocks : b >= f => disk'[b].kind = "empty"
    BY Zenon, <1>3, <2>1 DEF Chain
  <2> QED BY <1>0, <1>1, <1>2, <2>2
<1>9. Chain(T, f)'
  BY Zenon, <1>5, <1>6, <1>7, <1>8 DEF Chain
<1> QED BY Zenon, <1>2, <1>3, <1>4, <1>9

-----------------------------------------------------------------------------
(* The counts a scan collects, when the kernel goes on without touching the disk. *)
LEMMA ReplayStays ==
  ASSUME NEW S, NEW e, NEW F, Replay(S, e, F), UNCHANGED <<disk, replayed>>,
         dur_log_head' \in S, gc_rc' = F[dur_log_head']
  PROVE  Replay(S, e, F)'
<1>1. \A b : (ValidObject(b) <=> ValidObject(b)') /\ (ValidRc(b) <=> ValidRc(b)')
  BY Zenon, DiskStays
<1> QED BY <1>1, Zenon DEF Replay

(* A step of the kernel keeps them. *)
LEMMA KernelReplays ==
  ASSUME Typed, Faults = {}, NEW S, NEW e, NEW F, Whole(S, e), Replay(S, e, F),
         [Next]_vars, ~Complete
  PROVE  Replay(S, e, F)'
<1>0. Chain(S, e) /\ Phase(S, e)
  BY Zenon DEF Whole
<1>1. ASSUME UNCHANGED <<disk, replayed, dur_log_head, gc_rc>>
      PROVE  Replay(S, e, F)'
  <2>1. dur_log_head' \in S /\ gc_rc' = F[dur_log_head']
    BY Zenon, <1>1 DEF Replay
  <2> QED BY Zenon, <1>1, <2>1, ReplayStays
<1>2. ASSUME PutDone
      PROVE  Replay(S, e, F)'
  <2>1. PICK b \in S : b = dur_log_head /\ ValidObject(b)
    BY <1>0, <1>2 DEF PutDone, Phase, vblk_flush
  <2>2. b # e /\ b + 2 \in S
    BY Zenon, <1>0, <2>1, NextRecord
  <2>3. F[b + 2] = F[b] /\ gc_rc = F[b]
    BY <2>1, <2>2, Zenon DEF Replay
  <2> QED BY Zenon, <1>2, <2>1, <2>2, <2>3, ReplayStays DEF PutDone
<1>3. ASSUME RcDone
      PROVE  Replay(S, e, F)'
  <2>1. PICK b \in S : b = dur_log_head /\ ValidRc(b) /\ disk[b] = RcRec(cur.c, cur.d)
    BY <1>0, <1>3 DEF RcDone, Phase, vblk_flush
  <2>2. b # e /\ b + 1 \in S
    BY Zenon, <1>0, <2>1, NextRecord
  <2>3. F[b + 1] = [F[b] EXCEPT ![disk[b].c] = @ + disk[b].delta] /\ gc_rc = F[b]
    BY <2>1, <2>2, Zenon DEF Replay
  <2>4. disk[b].c = Hash(cur.c) /\ disk[b].delta = cur.d
    BY <2>1 DEF RcRec, Block
  <2> QED BY <1>3, <2>1, <2>2, <2>3, <2>4, ReplayStays, Zenon DEF RcDone
<1>4. ASSUME Crash
      PROVE  Replay(S, e, F)'
  <2>1. 1 \in S /\ F[1] = NoCounts
    BY Zenon, <1>0 DEF Chain, Replay
  <2>2. dur_log_head' = 1 /\ gc_rc' = NoCounts /\ UNCHANGED <<disk, replayed>>
    BY Zenon, <1>4 DEF Crash
  <2> QED BY Zenon, <2>1, <2>2, ReplayStays
<1>5. ASSUME RecoverObject
      PROVE  Replay(S, e, F)'
  <2>1. PICK b \in S : b = dur_log_head /\ ValidObject(b)
    BY Zenon, <1>5 DEF RecoverObject, Replay
  <2>2. b # e /\ b + 2 \in S
    BY Zenon, <1>0, <2>1, NextRecord
  <2>3. F[b + 2] = F[b] /\ gc_rc = F[b]
    BY <2>1, <2>2, Zenon DEF Replay
  <2> QED BY Zenon, <1>5, <2>1, <2>2, <2>3, ReplayStays DEF RecoverObject
<1>6. ASSUME RecoverRc
      PROVE  Replay(S, e, F)'
  <2>1. PICK b \in S : b = dur_log_head /\ ValidRc(b)
    BY Zenon, <1>6 DEF RecoverRc, Replay
  <2>2. b # e /\ b + 1 \in S
    BY Zenon, <1>0, <2>1, NextRecord
  <2>3. F[b + 1] = [F[b] EXCEPT ![disk[b].c] = @ + disk[b].delta] /\ gc_rc = F[b]
    BY <2>1, <2>2, Zenon DEF Replay
  <2> QED BY Zenon, <1>6, <2>1, <2>2, <2>3, ReplayStays DEF RecoverRc
<1>7. ASSUME \/ \E c \in Content : PutDedup(c) \/ PutClaim(c) \/ PutFails(c)
             \/ PutPayload \/ (\E c \in Content, d \in Delta : RcWrite(c, d)) \/ BootPersist
             \/ PersistRoot \/ PersistDone \/ (\E rejected \in BOOLEAN : RecoverEnd(rejected))
      PROVE  Replay(S, e, F)'
  BY Zenon, <1>1, <1>7 DEF PutDedup, PutClaim, PutFails, PutPayload, RcWrite, BootPersist,
                    PersistRoot, PersistDone, RecoverEnd, ram
<1>8. ASSUME \E lost \in SUBSET (0..IdxCap) : BootRevive(lost)
      PROVE  Replay(S, e, F)'
  BY Zenon, <1>1, <1>8, ReviveLeaves DEF ram
<1>9. ASSUME UNCHANGED vars
      PROVE  Replay(S, e, F)'
  BY Zenon, <1>1, <1>9 DEF vars, ram
<1> QED BY Zenon, <1>2, <1>3, <1>4, <1>5, <1>6, <1>7, <1>8, <1>9 DEF Next, Recover

(* A write that adds no record changes no count. *)
LEMMA ReplaySame ==
  ASSUME Typed, NEW S, NEW e, NEW F, Chain(S, e), Replay(S, e, F), NEW k \in 0..NBlocks, NEW x,
         k = 0 \/ k >= e, Written(k, x),
         UNCHANGED <<dur_log_head, gc_rc, replayed>>
  PROVE  Replay(S, e, F)'
<1>1. Stay(S, e)
  BY Zenon, RecordsStay
<1> QED BY <1>1, Zenon DEF Replay, Stay

(* A record that is complete continues the counts by its own. *)
LEMMA ReplayGrows ==
  ASSUME Typed, NEW S, NEW e \in S, NEW F, Chain(S, e), Replay(S, e, F), NEW f, f \notin S,
         Stay(S, e),
         \/ f = e + 2 /\ ValidObject(e)' /\ ~ValidRc(e)' /\ replayed' = replayed
         \/ f = e + 1 /\ ValidRc(e)' /\ ~ValidObject(e)' /\ replayed' = [replayed EXCEPT ![disk'[e].c] = @ + disk'[e].delta],
         replayed' \in [Hashes -> Int], UNCHANGED <<dur_log_head, gc_rc>>
  PROVE  \E G \in [S \cup {f} -> [Hashes -> Int]] : Replay(S \cup {f}, f, G)'
<1>1. PICK r : r = replayed'
  BY Zenon
<1> DEFINE G == [b \in S \cup {f} |-> IF b = f THEN r ELSE F[b]]
<1>2. G \in [S \cup {f} -> [Hashes -> Int]] /\ G[f] = r /\ \A b \in S : G[b] = F[b]
  BY Zenon, <1>1 DEF Replay
<1>3. 1 \in S /\ dur_log_head \in S
  BY Zenon DEF Chain, Replay
<1>4. ASSUME NEW b \in (S \cup {f}) \ {f}
      PROVE  /\ ValidObject(b)' => G[b + 2] = G[b]
             /\ ValidRc(b)' => G[b + 1] = [G[b] EXCEPT ![disk'[b].c] = @ + disk'[b].delta]
  <2>1. CASE b = e
    BY <1>1, <1>2, <2>1, Zenon DEF Replay
  <2>2. CASE b \in S \ {e}
    <3>1. ValidObject(b) => b + 2 \in S
      BY <2>2, NextRecord, Zenon
    <3>2. ValidRc(b) => b + 1 \in S
      BY Zenon, <2>2, NextRecord
    <3>3. CASE ValidObject(b)'
      <4>1. F[b + 2] = F[b]
        BY <2>2, <3>3, Zenon DEF Replay, Stay
      <4>2. ~ValidRc(b)
        BY Zenon, <2>2, <3>3, NextRecord DEF Stay
      <4> QED BY <1>2, <2>2, <3>1, <3>3, <4>1, <4>2, Zenon DEF Stay
    <3>4. CASE ValidRc(b)'
      <4>1. F[b + 1] = [F[b] EXCEPT ![disk[b].c] = @ + disk[b].delta]
        BY <2>2, <3>4, Zenon DEF Replay, Stay
      <4>2. ~ValidObject(b)
        BY Zenon, <2>2, <3>4, NextRecord DEF Stay
      <4> QED BY <1>2, <2>2, <3>2, <3>4, <4>1, <4>2, Zenon DEF Stay
    <3> QED BY <3>3, <3>4, Zenon
  <2> QED BY <2>1, <2>2, Zenon
<1>5. PICK H \in [S \cup {f} -> [Hashes -> Int]] : H = G
  BY <1>2, Zenon
<1>6. Replay(S \cup {f}, f, H)'
  BY <1>1, <1>2, <1>3, <1>4, <1>5, ZenonT(30) DEF Replay
<1> QED BY Zenon, <1>6

(* The device completes a write: the log stays whole, its end moves when a record
   is complete; what the log has grows by the object completed. *)
LEMMA CompleteWhole ==
  ASSUME Typed, NEW S, NEW e \in S, NEW F, Whole(S, e), Replay(S, e, F), Complete
  PROVE  \E T \in SUBSET (1..(NBlocks + 1)) : \E f \in T :
           /\ Whole(T, f)' /\ \E G \in [T -> [Hashes -> Int]] : Replay(T, f, G)'
           /\ \/ (\A h : Has(T, f, h)' <=> Has(S, e, h)) /\ replayed' = replayed
              \/ \E c \in Content :
                   (\A h : Has(T, f, h)' <=> Has(S, e, h) \/ h = Hash(c)) /\ replayed' = replayed
              \/ /\ \A h : Has(T, f, h)' <=> Has(S, e, h)
                 /\ \E c \in Content, d \in Delta :
                      replayed' = [replayed EXCEPT ![Hash(c)] = @ + d]
<1>0. Chain(S, e) /\ Phase(S, e) /\ Indexed(S, e)
  BY Zenon DEF Whole
<1>1. /\ NBlocks \in Nat /\ e \in 1..(NBlocks + 1) /\ S \in SUBSET (1..(NBlocks + 1))
      /\ dur_log_head \in S /\ replayed \in [Hashes -> Int] /\ \A b \in S : b <= e
  BY <1>0, LogAssumption, Zenon DEF Chain, Replay
<1>2. /\ pending # <<>> /\ pending' = Tail(pending)
      /\ UNCHANGED <<dur_idx, dur_log_head, gc_rc, pc, cur, acked>>
      /\ disk' = [disk EXCEPT ![Head(pending).block] = Head(pending).val]
      /\ replayed' = IF Head(pending).val.kind = "RC_MAGIC"
                     THEN [replayed EXCEPT ![Head(pending).val.c] = @ + Head(pending).val.delta]
                     ELSE replayed
  BY Zenon DEF Complete, ram
<1>3. ASSUME NEW k \in 0..NBlocks, NEW x, Head(pending) = Write(k, x)
      PROVE  /\ Written(k, x) /\ disk'[k] = x
             /\ replayed' = IF x.kind = "RC_MAGIC" THEN [replayed EXCEPT ![x.c] = @ + x.delta]
                            ELSE replayed
  <2>1. Head(pending).block = k /\ Head(pending).val = x
    BY <1>3 DEF Write
  <2> QED BY <1>2, <2>1, Zenon DEF Typed, Written
(* no record is added *)
<1>4. ASSUME NEW k \in 0..NBlocks, NEW x, k = 0 \/ (k = e /\ x.kind = "DUR_MAGIC"),
             x.kind # "RC_MAGIC", Head(pending) = Write(k, x), Phase(S, e)'
      PROVE  /\ Whole(S, e)' /\ Replay(S, e, F)'
             /\ (\A h : Has(S, e, h)' <=> Has(S, e, h)) /\ replayed' = replayed
  <2>1. Written(k, x) /\ replayed' = replayed
    BY Zenon, <1>3, <1>4
  <2>2. k = 0 \/ k >= e
    BY Zenon, <1>1, <1>4
  <2>3. Chain(S, e)' /\ \A h : Has(S, e, h)' <=> Has(S, e, h)
    BY Zenon, <1>0, <1>4, <2>1, ChainSame
  <2>4. Replay(S, e, F)'
    BY Zenon, <1>0, <1>2, <2>1, <2>2, ReplaySame
  <2>5. Stay(S, e)
    BY Zenon, <1>0, <2>1, <2>2, RecordsStay
  <2>6. Indexed(S, e)'
    BY Zenon, <1>0, <1>2, <2>5, IndexOutlives
  <2> QED BY Zenon, <1>4, <2>1, <2>3, <2>4, <2>6 DEF Whole
(* the record at e is complete *)
<1>5. ASSUME NEW n \in {1, 2}, NEW k \in 1..NBlocks, NEW x, NEW T, NEW f,
             f = e + n, T = S \cup {f}, k = e + n - 1, Head(pending) = Write(k, x),
             \/ n = 2 /\ ValidObject(e)' /\ ~ValidRc(e)' /\ x.kind # "RC_MAGIC"
             \/ n = 1 /\ ValidRc(e)' /\ ~ValidObject(e)' /\ x.kind = "RC_MAGIC" /\ x.c \in Hashes /\ x.delta \in Int,
             dur_log_head = e, Phase(T, f)'
      PROVE  /\ T \in SUBSET (1..(NBlocks + 1)) /\ Whole(T, f)'
             /\ \E G \in [T -> [Hashes -> Int]] : Replay(T, f, G)'
             /\ \A h : Has(T, f, h)' <=> Has(S, e, h) \/ (ValidObject(e)' /\ disk'[e].c = h)
  <2>0a. k \in 0..NBlocks
    BY <1>1
  <2>0. k \in 0..NBlocks /\ Head(pending) = Write(k, x)
    BY <1>5, <2>0a, Zenon
  <2>1. /\ Written(k, x) /\ k \in 0..NBlocks /\ disk'[k] = x
        /\ replayed' = IF x.kind = "RC_MAGIC" THEN [replayed EXCEPT ![x.c] = @ + x.delta] ELSE replayed
    BY <1>3, <2>0, Zenon
  <2>2. f = e + n /\ T = S \cup {f}
    BY Zenon, <1>5
  <2>3. /\ Chain(T, f)'
        /\ S \ {e} \subseteq T \ {f}
        /\ \A b \in T \ {f} : b = e \/ b \in S \ {e}
        /\ e \in T \ {f}
        /\ Stay(S, e)
        /\ f \notin S /\ f \in 1..(NBlocks + 1)
    <3>1. (n = 2 /\ ValidObject(e)') \/ (n = 1 /\ ValidRc(e)')
      BY Zenon, <1>5
    <3>2. Chain(S, e) /\ k = e + n - 1 /\ Written(k, x)
      BY <1>0, <1>5, <2>1, Zenon
    <3>3. Completed(S, e, n, k, x, T, f)
      BY Zenon, <2>2, <3>1, <3>2 DEF Completed
    <3> QED BY <3>2, <3>3, ChainGrows
  <2>4. Indexed(T, f)'
    <3>1. \A b \in (T \ {f}) \ (S \ {e}) : ~(b < dur_log_head)
      BY <1>1, <1>5, <2>3, <2>2
    <3>2. Stay(S, e)
      BY Zenon, <2>3
    <3> QED BY <1>0, <1>2, <2>3, <2>2, <3>1, <3>2, IndexOutlives, Zenon
  <2>5. replayed' \in [Hashes -> Int]
    BY <1>1, <1>5, <2>1
  <2>7. \E G \in [T -> [Hashes -> Int]] : Replay(T, f, G)'
    <3>1. CASE n = 1
      <4>1. k = e
        BY <1>1, <1>5, <3>1
      <4>2. f = e + 1 /\ ValidRc(e)' /\ ~ValidObject(e)' /\ x.kind = "RC_MAGIC"
        BY <1>5, <2>2, <3>1
      <4>3. replayed' = [replayed EXCEPT ![disk'[e].c] = @ + disk'[e].delta]
        BY <2>1, <4>1, <4>2, Zenon
      <4> QED BY <1>0, <1>2, <2>3, <2>2, <2>5, <4>2, <4>3, ReplayGrows, Zenon
    <3>2. CASE n = 2
      <4>1. f = e + 2 /\ ValidObject(e)' /\ ~ValidRc(e)' /\ replayed' = replayed
        <5>1. n # 1 /\ f = e + 2
          BY <2>2, <3>2
        <5>2. ValidObject(e)' /\ ~ValidRc(e)' /\ x.kind # "RC_MAGIC"
          BY Zenon, <1>5, <5>1
        <5> QED BY Zenon, <2>1, <5>1, <5>2
      <4> QED BY <1>0, <1>2, <2>3, <2>2, <2>5, <4>1, ReplayGrows, Zenon
    <3> QED BY Zenon, <3>1, <3>2
  <2>8. \A h : Has(T, f, h)' <=> Has(S, e, h) \/ (ValidObject(e)' /\ disk'[e].c = h)
    BY <2>3, Zenon DEF Has, Stay
  <2> QED BY <1>1, <1>5, <2>3, <2>2, <2>4, <2>7, <2>8, Zenon DEF Whole
<1>6. CASE /\ pc \in {"claim", "payload"} /\ cur \in Content /\ dur_log_head = e /\ e + 1 <= NBlocks
           /\ \/ pc = "claim" /\ pending = <<Write(e, Claim(cur))>>
              \/ pc = "payload" /\ pending = <<Write(e, Claim(cur)), Write(e + 1, Payload(cur))>>
  <2>0. PICK c \in Content : c = cur
    BY Zenon, <1>6
  <2>1. PICK u, v : c = cur /\ u = Write(e, Claim(c)) /\ v = Write(e + 1, Payload(c))
    BY Zenon, <2>0
  <2>2. /\ Head(<<u>>) = u /\ Head(<<u, v>>) = u
        /\ Tail(<<u>>) = <<>> /\ Tail(<<u, v>>) = <<v>>
    BY Zenon, ShortQueues
  <2>3. /\ Head(pending) = Write(e, Claim(c)) /\ e \in 0..NBlocks
        /\ \/ pc = "claim" /\ pending' = <<>>
           \/ pc = "payload" /\ pending' = <<Write(e + 1, Payload(c))>>
    <3>1. e \in 0..NBlocks
      BY <1>1, <1>6
    <3>2. CASE pc = "claim" /\ pending = <<Write(e, Claim(cur))>>
      <4>1. pending = <<u>>
        BY Zenon, <2>1, <3>2
      <4> QED BY Zenon, <1>2, <2>1, <2>2, <3>1, <3>2, <4>1
    <3>3. CASE pc = "payload" /\ pending = <<Write(e, Claim(cur)), Write(e + 1, Payload(cur))>>
      <4>1. pending = <<u, v>>
        BY Zenon, <2>1, <3>3
      <4> QED BY Zenon, <1>2, <2>1, <2>2, <3>1, <3>3, <4>1
    <3> QED BY Zenon, <1>6, <3>2, <3>3
  <2>4. disk'[e] = Claim(c) /\ Claim(c).kind = "DUR_MAGIC"
    BY Zenon, <1>3, <2>3 DEF Claim, Block
  <2>5. Phase(S, e)'
    BY Zenon, <1>2, <1>6, <2>1, <2>3, <2>4 DEF Phase
  <2>6. /\ Whole(S, e)' /\ Replay(S, e, F)'
        /\ (\A h : Has(S, e, h)' <=> Has(S, e, h)) /\ replayed' = replayed
    BY <1>4, <2>3, <2>4, <2>5, Zenon
  <2>7. F \in [S -> [Hashes -> Int]]
    BY Zenon DEF Replay
  <2> QED BY <1>1, <2>6, <2>7, Zenon
<1>7. CASE /\ pc = "payload" /\ cur \in Content /\ dur_log_head = e /\ e + 1 <= NBlocks
           /\ pending = <<Write(e + 1, Payload(cur))>> /\ disk[e] = Claim(cur)
  <2>0. PICK c \in Content, k \in 1..NBlocks : c = cur /\ k = e + 1
    BY <1>1, <1>7
  <2>1. PICK v : v = Write(k, Payload(c))
    BY Zenon
  <2>2. Head(<<v>>) = v /\ Tail(<<v>>) = <<>>
    BY Zenon, ShortQueues
  <2>3. Head(pending) = Write(k, Payload(c)) /\ pending' = <<>> /\ k \in 0..NBlocks
    BY <1>2, <1>7, <2>0, <2>1, <2>2
  <2>4. /\ disk'[k] = Payload(c) /\ Written(k, Payload(c))
        /\ Payload(c).kind = "bytes" /\ Payload(c).c = c
    BY Zenon, <1>3, <2>3 DEF Payload, Block
  <2>5. e \in 0..NBlocks /\ e # k /\ disk'[e] = Claim(c) /\ Claim(c).kind = "DUR_MAGIC" /\ Claim(c).c = Hash(c)
    BY <1>1, <1>7, <2>0, <2>4 DEF Typed, Claim, Block, Written
  <2>6. ValidObject(e)' /\ ~ValidRc(e)' /\ disk'[e].c = Hash(c)
    BY Zenon, <1>7, <2>0, <2>4, <2>5 DEF ValidObject, ValidRc, PayloadHash
  <2>6a. PICK T, f : f = e + 2 /\ T = S \cup {f}
    BY Zenon
  <2>7. Phase(T, f)'
    BY Zenon, <1>1, <1>2, <1>7, <2>6a, <2>0, <2>3, <2>6 DEF Phase
  <2>8. PICK n \in {1, 2} : n = 2 /\ k = e + n - 1 /\ f = e + n /\ T = S \cup {f}
    BY <1>1, <2>0, <2>6a
  <2>8a. /\ n = 2 /\ ValidObject(e)' /\ ~ValidRc(e)' /\ Payload(c).kind # "RC_MAGIC"
         /\ dur_log_head = e /\ Head(pending) = Write(k, Payload(c))
    BY Zenon, <1>7, <2>3, <2>4, <2>6, <2>8
  <2>9. /\ T \in SUBSET (1..(NBlocks + 1)) /\ Whole(T, f)'
        /\ \E G \in [T -> [Hashes -> Int]] : Replay(T, f, G)'
        /\ \A h : Has(T, f, h)' <=> Has(S, e, h) \/ (ValidObject(e)' /\ disk'[e].c = h)
    BY <1>5, <2>7, <2>8, <2>8a, ZenonT(30)
  <2>10. replayed' = replayed
    BY <1>3, <2>3, <2>4, Zenon
  <2>11. \A h : Has(T, f, h)' <=> Has(S, e, h) \/ h = Hash(c)
    BY Zenon, <2>6, <2>9
  <2> QED BY <2>6a, <2>9, <2>10, <2>11, Zenon
<1>8. CASE /\ pc = "rc" /\ cur \in [c : Content, d : Delta] /\ dur_log_head = e /\ e <= NBlocks
           /\ pending = <<Write(e, RcRec(cur.c, cur.d))>>
  <2>0. PICK c \in Content, d \in Delta : cur.c = c /\ cur.d = d
    BY Zenon, <1>8
  <2>1. PICK v : cur.c = c /\ cur.d = d /\ v = Write(e, RcRec(c, d))
    BY Zenon, <2>0
  <2>2. Head(<<v>>) = v /\ Tail(<<v>>) = <<>>
    BY Zenon, ShortQueues
  <2>2a. e \in 0..NBlocks /\ e \in 1..NBlocks
    BY <1>1, <1>8
  <2>2b. pending = <<v>> /\ pending' = Tail(pending)
    BY <1>2, <1>8, <2>1, Zenon
  <2>3. Head(pending) = Write(e, RcRec(c, d)) /\ pending' = <<>> /\ e \in 0..NBlocks /\ e \in 1..NBlocks
    BY Zenon, <2>1, <2>2, <2>2a, <2>2b
  <2>4. /\ RcRec(c, d).kind = "RC_MAGIC" /\ RcRec(c, d).c = Hash(c) /\ RcRec(c, d).delta = d
        /\ Hash(c) \in Hashes /\ d \in Int
    BY Zenon, LogAssumption DEF RcRec, Block, Hashes
  <2>5. disk'[e] = RcRec(c, d) /\ replayed' = [replayed EXCEPT ![Hash(c)] = @ + d]
    BY ZenonT(30), <1>3, <2>3, <2>4
  <2>6. ValidRc(e)' /\ ~ValidObject(e)'
    BY Zenon, <1>8, <2>4, <2>5 DEF ValidObject, ValidRc
  <2>6a. PICK T, f : f = e + 1 /\ T = S \cup {f}
    BY Zenon
  <2>7. Phase(T, f)'
    BY Zenon, <1>1, <1>2, <1>8, <2>6a, <2>1, <2>3, <2>5, <2>6 DEF Phase
  <2>8. PICK n \in {1, 2}, k \in 1..NBlocks : n = 1 /\ k = e /\ k = e + n - 1 /\ f = e + n /\ T = S \cup {f}
    BY <1>1, <2>3, <2>6a
  <2>8a. /\ n = 1 /\ ValidRc(e)' /\ ~ValidObject(e)' /\ RcRec(c, d).kind = "RC_MAGIC"
         /\ RcRec(c, d).c \in Hashes /\ RcRec(c, d).delta \in Int
         /\ dur_log_head = e /\ Head(pending) = Write(k, RcRec(c, d))
    BY Zenon, <1>8, <2>3, <2>4, <2>6, <2>8
  <2>9. /\ T \in SUBSET (1..(NBlocks + 1)) /\ Whole(T, f)'
        /\ \E G \in [T -> [Hashes -> Int]] : Replay(T, f, G)'
        /\ \A h : Has(T, f, h)' <=> Has(S, e, h) \/ (ValidObject(e)' /\ disk'[e].c = h)
    BY <1>5, <2>7, <2>8, <2>8a, ZenonT(30)
  <2>10. \A h : Has(T, f, h)' <=> Has(S, e, h)
    BY Zenon, <2>6, <2>9
  <2> QED BY <2>5, <2>6a, <2>9, <2>10, Zenon
<1>9. CASE pc = "root" /\ dur_log_head = e /\ pending = <<Write(0, Root)>>
  <2>1. PICK v : v = Write(0, Root)
    BY Zenon
  <2>2. Head(<<v>>) = v /\ Tail(<<v>>) = <<>>
    BY Zenon, ShortQueues
  <2>2a. pending = <<v>> /\ pending' = Tail(pending)
    BY <1>2, <1>9, <2>1, Zenon
  <2>3. Head(pending) = Write(0, Root) /\ pending' = <<>> /\ 0 \in 0..NBlocks
    BY <1>1, <2>1, <2>2, <2>2a
  <2>4. Root.kind = "ROOT_MAGIC"
    BY Zenon DEF Root, Block
  <2>5. Phase(S, e)'
    BY Zenon, <1>2, <1>9, <2>3 DEF Phase
  <2>6. /\ Whole(S, e)' /\ Replay(S, e, F)'
        /\ (\A h : Has(S, e, h)' <=> Has(S, e, h)) /\ replayed' = replayed
    BY Zenon, <1>4, <2>3, <2>4, <2>5
  <2>7. F \in [S -> [Hashes -> Int]]
    BY Zenon DEF Replay
  <2> QED BY <1>1, <2>6, <2>7, Zenon
<1>10. \/ /\ pc \in {"claim", "payload"} /\ cur \in Content /\ dur_log_head = e /\ e + 1 <= NBlocks
          /\ \/ pc = "claim" /\ pending = <<Write(e, Claim(cur))>>
             \/ pc = "payload" /\ pending = <<Write(e, Claim(cur)), Write(e + 1, Payload(cur))>>
       \/ /\ pc = "payload" /\ cur \in Content /\ dur_log_head = e /\ e + 1 <= NBlocks
          /\ pending = <<Write(e + 1, Payload(cur))>> /\ disk[e] = Claim(cur)
       \/ /\ pc = "rc" /\ cur \in [c : Content, d : Delta] /\ dur_log_head = e /\ e <= NBlocks
          /\ pending = <<Write(e, RcRec(cur.c, cur.d))>>
       \/ pc = "root" /\ dur_log_head = e /\ pending = <<Write(0, Root)>>
  BY Zenon, <1>0, <1>2 DEF Phase
<1> QED BY <1>6, <1>7, <1>8, <1>9, <1>10, Zenon

-----------------------------------------------------------------------------
(* What the boot and the persisting of the graph have got to: the objects before
   job are acknowledged, ROOT is written after the last of them and by nobody else,
   and a boot that found no ROOT writes none. *)
RootInv ==
  /\ job \in 0..(Len(Graph) + 1) /\ acked \subseteq Content
  /\ \A i \in 1..Len(Graph) : i < job => Graph[i] \in acked
  /\ pc \in {"claim", "payload"} /\ job # 0 => job \in 1..Len(Graph) /\ cur = Graph[job]
  /\ pc = "root" => job = Len(Graph) + 1
  /\ job # 0 => boot = "persist" /\ pc \in {"idle", "claim", "payload", "root"}
  /\ disk[0] = Root => \A i \in 1..Len(Graph) : Graph[i] \in acked
  /\ ReviveExact

(* The inductive invariant: what dur_idx names reads back, the log is whole, and the
   boot has done what it says. *)
WInv == LInv /\ LogWhole /\ RootInv

(* What is acknowledged is in the log, so ROOT names what can be revived. *)
LEMMA AckedLogged ==
  ASSUME Typed, NEW S, NEW e, Whole(S, e), NEW c \in Content, c \in acked
  PROVE  Logged(c)
BY LoggedInChain, Zenon DEF Whole, Indexed

(* An indexed object is loaded by dur_get when no read fails. *)
LEMMA IndexLoads ==
  ASSUME LInv, pending = <<>>, NEW i \in DOMAIN dur_idx
  PROVE  dur_get(i)
<1>1. PICK x, y \in Blocks : /\ Reads(dur_idx[i].hdr_block, x) /\ Reads(dur_idx[i].hdr_block + 1, y)
                             /\ x.kind = "DUR_MAGIC" /\ x.c = dur_idx[i].hash
                             /\ y.kind = "bytes" /\ Hash(y.c) = x.c
  BY Zenon DEF LInv, Kept
<1>2. x = disk[dur_idx[i].hdr_block] /\ y = disk[dur_idx[i].hdr_block + 1]
  BY <1>1 DEF Reads
<1> QED BY Zenon, <1>1, <1>2 DEF dur_get, PayloadHash

(* Init. *)
LEMMA InitWInv ==
  ASSUME Init
  PROVE  WInv
<1>1. LInv /\ Typed
  BY Zenon, InitLInv DEF LInv
<1>2. RootInv
  BY LogAssumption DEF Init, RootInv, ReviveExact, Empty, Root, Block
<1>3. PICK S, F : S = {1} /\ F = [b \in {1} |-> NoCounts]
  BY Zenon
<1>4. NBlocks \in Nat /\ S \in SUBSET (1..(NBlocks + 1)) /\ 1 \in S /\ \A b \in S : b = 1
  BY <1>3, LogAssumption
<1>5. Chain(S, 1)
  <2>1. \A b \in 1..NBlocks : disk[b].kind = "empty"
    BY LogAssumption DEF Init, Empty, Block
  <2> QED BY <1>4, <2>1 DEF Chain
<1>6. Phase(S, 1)
  BY Zenon, <1>4 DEF Init, Phase
<1>7. Indexed(S, 1)
  BY <1>4 DEF Init, Indexed
<1>8. F \in [S -> [Hashes -> Int]] /\ Replay(S, 1, F)
  BY <1>3 DEF Replay, Init, NoCounts, Hashes
<1> QED BY Zenon, <1>1, <1>2, <1>4, <1>5, <1>6, <1>7, <1>8 DEF WInv, LogWhole, Whole

(* The log stays whole. *)
LEMMA NextWhole ==
  ASSUME Typed, Faults = {}, NBlocks <= 2 * IdxCap, LogWhole, [Next]_vars
  PROVE  LogWhole'
<1>0. PICK S \in SUBSET (1..(NBlocks + 1)) : \E e \in S :
        Whole(S, e) /\ \E F \in [S -> [Hashes -> Int]] : Replay(S, e, F)
  BY Zenon DEF LogWhole
<1>0a. PICK e \in S : Whole(S, e) /\ \E F \in [S -> [Hashes -> Int]] : Replay(S, e, F)
  BY Zenon, <1>0
<1>1. PICK F \in [S -> [Hashes -> Int]] : Whole(S, e) /\ Replay(S, e, F)
  BY Zenon, <1>0a
<1>2. CASE Complete
  BY Zenon, <1>1, <1>2, CompleteWhole DEF LogWhole
<1>3. CASE ~Complete
  <2>1. Replay(S, e, F)'
    BY Zenon, <1>1, <1>3, KernelReplays
  <2>2. Whole(S, e)'
    <3>1. CASE UNCHANGED vars
      <4>1. UNCHANGED <<disk, dur_idx, dur_log_head, acked, pc, cur, pending>>
        BY Zenon, <3>1 DEF vars, ram
      <4>2. Chain(S, e)' /\ Indexed(S, e)'
        BY Zenon, <1>1, <4>1, DiskStays, IndexStays DEF Whole
      <4>3. Phase(S, e)'
        BY Zenon, <1>1, <4>1, DiskStays DEF Whole, Phase
      <4> QED BY Zenon, <4>2, <4>3 DEF Whole
    <3>2. CASE \/ \E c \in Content : PutDedup(c) \/ PutClaim(c) \/ PutFails(c)
               \/ PutPayload \/ PutDone
      BY Zenon, <1>1, <3>2, PutWhole
    <3>3. CASE \/ \E c \in Content, d \in Delta : RcWrite(c, d)
               \/ RcDone \/ BootPersist \/ (\E lost \in SUBSET (0..IdxCap) : BootRevive(lost))
               \/ PersistRoot \/ PersistDone
      BY Zenon, <1>1, <3>3, RecordsWhole
    <3>4. CASE Crash \/ Recover
      BY Zenon, <1>1, <3>4, RecoverWhole
    <3> QED BY Zenon, <1>3, <3>1, <3>2, <3>3, <3>4 DEF Next
  <2> QED BY Zenon, <2>1, <2>2 DEF LogWhole
<1> QED BY Zenon, <1>2, <1>3

(* RootInv is kept. *)
LEMMA NextRoot ==
  ASSUME Faults = {}, WInv, [Next]_vars
  PROVE  RootInv'
<1>0. PICK S \in SUBSET (1..(NBlocks + 1)) : \E e \in S : Whole(S, e)
  BY Zenon DEF WInv, LogWhole
<1>1. PICK e \in S : Whole(S, e)
  BY Zenon, <1>0
<1>2. LInv /\ Typed /\ RootInv /\ Chain(S, e) /\ Phase(S, e) /\ Indexed(S, e)
  BY Zenon, <1>1 DEF WInv, LInv, Whole
<1>3. Len(Graph) \in Nat /\ DOMAIN Graph = 1..Len(Graph) /\ \A i \in 1..Len(Graph) : Graph[i] \in Content
  BY LogAssumption
<1>4. ASSUME UNCHANGED <<disk, pc, cur, job, boot, acked>>
      PROVE  RootInv'
  BY Zenon, <1>2, <1>4 DEF RootInv, ReviveExact
<1>5. ASSUME NEW c \in Content, PutDedup(c)
      PROVE  RootInv'
  BY <1>2, <1>3, <1>5 DEF RootInv, ReviveExact, PutDedup, NextJob, Turn, ram
<1>6. ASSUME NEW c \in Content, PutClaim(c)
      PROVE  RootInv'
  BY <1>2, <1>3, <1>6 DEF RootInv, ReviveExact, PutClaim, Turn, ram
<1>7. ASSUME PutPayload
      PROVE  RootInv'
  BY Zenon, <1>2, <1>7 DEF RootInv, ReviveExact, PutPayload
<1>8. ASSUME PutDone
      PROVE  RootInv'
  <2>1. cur \in Content
    BY Zenon, <1>2, <1>8 DEF PutDone, Phase
  <2> QED BY <1>2, <1>3, <1>8, <2>1 DEF RootInv, ReviveExact, PutDone, NextJob
<1>9. ASSUME NEW c \in Content, PutFails(c)
      PROVE  RootInv'
  BY Zenon, <1>9 DEF PutFails, vblk_write_fails
<1>10. ASSUME (\E c \in Content, d \in Delta : RcWrite(c, d)) \/ RcDone
       PROVE  RootInv'
  BY Zenon, <1>2, <1>10 DEF RootInv, ReviveExact, RcWrite, RcDone
<1>11. ASSUME BootPersist
       PROVE  RootInv'
  BY <1>2, <1>3, <1>11 DEF RootInv, ReviveExact, BootPersist
<1>12. ASSUME PersistRoot \/ PersistDone
       PROVE  RootInv'
  BY <1>2, <1>3, <1>12 DEF RootInv, ReviveExact, PersistRoot, PersistDone
<1>13. ASSUME NEW lost \in SUBSET (0..IdxCap), BootRevive(lost)
       PROVE  RootInv'
  <2>1. /\ pc = "boot" /\ pc' = "idle" /\ lost = {} /\ UNCHANGED <<disk, cur, job, acked>>
        /\ boot' = IF disk[0] # Root THEN "noRoot"
                   ELSE IF \A g \in Range(Graph) : \E i \in DOMAIN dur_idx :
                             dur_idx[i].hash = Hash(g) /\ dur_get(i)
                        THEN "revived" ELSE "notWhole"
    BY Zenon, <1>13 DEF BootRevive
  <2>2. CASE disk[0] # Root
    BY Zenon, <1>2, <2>1, <2>2 DEF RootInv, ReviveExact
  <2>3. CASE disk[0] = Root
    <3>1. ASSUME NEW g \in Range(Graph)
          PROVE  \E i \in DOMAIN dur_idx : dur_idx[i].hash = Hash(g) /\ dur_get(i)
      <4>1. PICK j \in 1..Len(Graph) : g = Graph[j]
        BY Zenon, <1>3, <3>1 DEF Range
      <4>2. Has(S, e, Hash(g))
        BY Zenon, <1>2, <2>3, <4>1 DEF RootInv, Indexed
      <4>3. dur_log_head = e /\ pending = <<>>
        BY Zenon, <1>2, <2>1 DEF Phase
      <4>4. PICK b \in S \ {e} : ValidObject(b) /\ disk[b].c = Hash(g)
        BY Zenon, <4>2 DEF Has
      <4>5. b < dur_log_head
        <5>1. b \in Nat /\ e \in Nat /\ b <= e /\ b # e
          BY SMTT(30), <1>2, LogAssumption DEF Chain
        <5> QED BY <4>3, <5>1
      <4>6. PICK i \in DOMAIN dur_idx : dur_idx[i].hash = Hash(g)
        BY Zenon, <1>2, <4>4, <4>5 DEF Indexed
      <4> QED BY Zenon, <1>2, <4>3, <4>6, IndexLoads
    <3>2. boot' = "revived"
      BY Zenon, <2>1, <2>3, <3>1
    <3> QED BY Zenon, <1>2, <2>1, <3>2 DEF RootInv, ReviveExact
  <2> QED BY Zenon, <2>2, <2>3
<1>14. ASSUME Crash
       PROVE  RootInv'
  BY <1>2, <1>3, <1>14 DEF RootInv, ReviveExact, Crash
<1>15. ASSUME Recover
       PROVE  RootInv'
  BY Zenon, <1>2, <1>3, <1>15 DEF RootInv, ReviveExact, Recover, RecoverObject, RecoverRc, RecoverEnd, ram
<1>16. ASSUME Complete
       PROVE  RootInv'
  <2>1. UNCHANGED <<pc, cur, job, boot, acked>>
    BY Zenon, <1>16 DEF Complete
  <2>2. CASE pc = "root"
    <3>1. /\ job = Len(Graph) + 1 /\ job # 0 /\ boot = "persist" /\ acked \subseteq Content
          /\ \A i \in 1..Len(Graph) : Graph[i] \in acked
      BY <1>2, <1>3, <2>2 DEF RootInv
    <3> QED BY <1>3, <2>1, <2>2, <3>1 DEF RootInv, ReviveExact
  <2>3. CASE pc # "root"
    <3>1. Head(pending).block # 0
      <4>1. pending # <<>> /\ e \in Nat /\ e # 0
        BY <1>2, <1>16, LogAssumption DEF Complete, Chain
      <4>2. \E x, y : pending = <<Write(e, x)>> \/ pending = <<Write(e, x), Write(e + 1, y)>> \/ pending = <<Write(e + 1, y)>>
        BY <1>2, <2>3, <4>1 DEF Phase
      <4> QED BY <4>1, <4>2 DEF Write
    <3>2. disk'[0] = disk[0]
      BY <1>2, <1>16, <3>1, LogAssumption DEF Complete, Typed
    <3> QED BY Zenon, <1>2, <2>1, <2>3, <3>2 DEF RootInv, ReviveExact
  <2> QED BY Zenon, <2>2, <2>3
<1>17. ASSUME UNCHANGED vars
       PROVE  RootInv'
  BY Zenon, <1>4, <1>17 DEF vars
<1> QED BY Zenon, <1>5, <1>6, <1>7, <1>8, <1>9, <1>10, <1>11, <1>12, <1>13, <1>14, <1>15, <1>16, <1>17 DEF Next

(* When no request fails and the index has an entry for every object the log can hold,
   the log is whole in every reachable state. *)
LEMMA AlwaysWhole ==
  ASSUME Faults = {}, NBlocks <= 2 * IdxCap
  PROVE  Spec => []WInv
<1>1. Init => WInv
  BY Zenon, InitWInv
<1>2. WInv /\ [Next]_vars => WInv'
  BY Zenon, NextLInv, NextWhole, NextRoot DEF WInv, LInv
<1> QED BY <1>1, <1>2, PTL DEF Spec

(* "durable before we index/ack": whatever crashes come, and however often they
   interrupt recovery, every object dur_put reported is in the index once recovery is
   over; for every size of the log and every content. *)
THEOREM AcknowledgedStays ==
  ASSUME Faults = {}, NBlocks <= 2 * IdxCap
  PROVE  Spec => []AckedDurable
<1>1. WInv => AckedDurable
  <2> SUFFICES ASSUME WInv, pc = "idle", NEW c \in acked
               PROVE  dur_idx_find(c)
    BY Zenon DEF AckedDurable
  <2>0. PICK S \in SUBSET (1..(NBlocks + 1)) : \E e \in S : Whole(S, e)
    BY Zenon DEF WInv, LogWhole
  <2>1. PICK e \in S : Whole(S, e)
    BY Zenon, <2>0
  <2>2. dur_log_head = e /\ Has(S, e, Hash(c))
    BY Zenon, <2>1 DEF Whole, Phase, Indexed
  <2>3. PICK b \in S \ {e} : ValidObject(b) /\ disk[b].c = Hash(c)
    BY Zenon, <2>2 DEF Has
  <2>4. b \in Nat /\ e \in Nat /\ b <= e /\ b # e
    BY <2>1, LogAssumption DEF Whole, Chain
  <2>5. b < dur_log_head
    BY <2>2, <2>4
  <2> QED BY <2>1, <2>3, <2>5, Zenon DEF Whole, Indexed, dur_idx_find
<1> QED BY <1>1, AlwaysWhole, PTL

(* Recovery agrees with the log: the counts are the sum of the deltas on the disk, each
   once, ROOT names a graph that is all there, and a boot that finds it revives it. *)
THEOREM RecoveryAgrees ==
  ASSUME Faults = {}, NBlocks <= 2 * IdxCap
  PROVE  Spec => []RecoveredAgrees
<1>1. WInv => RecoveredAgrees
  <2> SUFFICES ASSUME WInv PROVE RecoveredAgrees
    BY Zenon
  <2>0. PICK S \in SUBSET (1..(NBlocks + 1)) : \E e \in S :
          Whole(S, e) /\ \E F \in [S -> [Hashes -> Int]] : Replay(S, e, F)
    BY Zenon DEF WInv, LogWhole
  <2>1. PICK e \in S : Whole(S, e) /\ \E F \in [S -> [Hashes -> Int]] : Replay(S, e, F)
    BY Zenon, <2>0
  <2>2. PICK F : Replay(S, e, F)
    BY Zenon, <2>1
  <2>3. RcReplay
    BY Zenon, <2>1, <2>2 DEF RcReplay, Replay, Whole, Phase
  <2>4. RootComplete
    <3> SUFFICES ASSUME disk[0] = Root, NEW i \in DOMAIN Graph
                 PROVE  Logged(Graph[i])
      BY Zenon DEF RootComplete
    <3>1. Graph[i] \in Content /\ i \in 1..Len(Graph)
      BY LogAssumption
    <3>2. Graph[i] \in acked
      BY Zenon, <3>1 DEF WInv, RootInv
    <3> QED BY Zenon, <2>1, <3>1, <3>2, AckedLogged DEF WInv, LInv
  <2>5. ReviveExact
    BY Zenon DEF WInv, RootInv
  <2> QED BY Zenon, <2>3, <2>4, <2>5 DEF RecoveredAgrees
<1> QED BY <1>1, AlwaysWhole, PTL

(* The log implements the durable map: the completion of a payload adds one object, that
   of a count record moves one count, and no other step, no crash and no step of a
   recovery changes the map. *)
THEOREM LogImplementsMap ==
  ASSUME Faults = {}, NBlocks <= 2 * IdxCap
  PROVE  Spec => RefinesDurableMap
<1> DEFINE counts == [c \in Content |-> replayed[Hash(c)]]
<1>1. Init => DM!Init
  <2> SUFFICES ASSUME Init PROVE DM!Init
    BY Zenon
  <2>1. \A c \in Content : ~Logged(c)
    BY LogAssumption DEF Init, Logged, ValidObject, Empty, Block
  <2>2. counts = [c \in Content |-> 0]
    BY Zenon DEF Init, NoCounts
  <2> QED BY Zenon, <2>1, <2>2 DEF DM!Init, Objects
<1>2. WInv /\ [Next]_vars => [DM!Next]_<<Objects, counts>>
  <2> SUFFICES ASSUME WInv, [Next]_vars, ~UNCHANGED <<Objects, counts>>
               PROVE  DM!Next
    BY Zenon
  <2>0. PICK S \in SUBSET (1..(NBlocks + 1)) : \E e \in S :
          Whole(S, e) /\ \E F \in [S -> [Hashes -> Int]] : Replay(S, e, F)
    BY Zenon DEF WInv, LogWhole
  <2>1. PICK e \in S : Whole(S, e) /\ \E F \in [S -> [Hashes -> Int]] : Replay(S, e, F)
    BY Zenon, <2>0
  <2>2. PICK F \in [S -> [Hashes -> Int]] : Replay(S, e, F)
    BY Zenon, <2>1
  <2>3. Typed /\ Typed' /\ replayed \in [Hashes -> Int]
    BY Zenon, <2>1, <2>2, NextLInv DEF WInv, LInv, Replay, Whole, Chain
  <2>4. CASE UNCHANGED <<disk, replayed>>
    <3>1. \A c : Logged(c)' <=> Logged(c)
      BY <2>4, DiskStays, Zenon DEF Logged
    <3> QED BY Zenon, <2>4, <3>1 DEF Objects
  <2>5. CASE Complete
    <3>1. PICK T \in SUBSET (1..(NBlocks + 1)) : \E f \in T :
           /\ Whole(T, f)' /\ \E G \in [T -> [Hashes -> Int]] : Replay(T, f, G)'
           /\ \/ (\A h : Has(T, f, h)' <=> Has(S, e, h)) /\ replayed' = replayed
              \/ \E c \in Content :
                   (\A h : Has(T, f, h)' <=> Has(S, e, h) \/ h = Hash(c)) /\ replayed' = replayed
              \/ /\ \A h : Has(T, f, h)' <=> Has(S, e, h)
                 /\ \E c \in Content, d \in Delta :
                      replayed' = [replayed EXCEPT ![Hash(c)] = @ + d]
      BY <2>1, <2>2, <2>3, <2>5, CompleteWhole, Zenon
    <3>2. PICK f \in T :
           /\ Whole(T, f)'
           /\ \/ (\A h : Has(T, f, h)' <=> Has(S, e, h)) /\ replayed' = replayed
              \/ \E c \in Content :
                   (\A h : Has(T, f, h)' <=> Has(S, e, h) \/ h = Hash(c)) /\ replayed' = replayed
              \/ /\ \A h : Has(T, f, h)' <=> Has(S, e, h)
                 /\ \E c \in Content, d \in Delta :
                      replayed' = [replayed EXCEPT ![Hash(c)] = @ + d]
      BY Zenon, <3>1
    <3>3. /\ Objects = {c \in Content : Has(S, e, Hash(c))}
          /\ Objects' = {c \in Content : Has(T, f, Hash(c))'}
      <4>1. \A c \in Content : Logged(c) <=> Has(S, e, Hash(c))
        BY Zenon, <2>1, <2>3, LoggedInChain DEF Whole
      <4>2. \A c \in Content : Logged(c)' <=> Has(T, f, Hash(c))'
        <5>1. Typed' /\ Chain(T, f)'
          BY Zenon, <2>3, <3>2 DEF Whole
        <5> QED BY Zenon, <5>1, LoggedPrimed
      <4> QED BY Zenon, <4>1, <4>2 DEF Objects
    <3>4. CASE (\A h : Has(T, f, h)' <=> Has(S, e, h)) /\ replayed' = replayed
      BY Zenon, <3>3, <3>4
    <3>5. ASSUME NEW c \in Content, replayed' = replayed,
                 \A h : Has(T, f, h)' <=> Has(S, e, h) \/ h = Hash(c)
          PROVE  DM!Next
      <4>1. Objects' = Objects \cup {c}
        BY Zenon, <3>3, <3>5 DEF Hash
      <4> QED BY Zenon, <3>5, <4>1 DEF DM!Next, DM!Add
    <3>6. ASSUME NEW c \in Content, NEW d \in Delta,
                 replayed' = [replayed EXCEPT ![Hash(c)] = @ + d],
                 \A h : Has(T, f, h)' <=> Has(S, e, h)
          PROVE  DM!Next
      <4>1. Objects' = Objects
        BY Zenon, <3>3, <3>6
      <4>2. counts' = [counts EXCEPT ![c] = @ + d]
        <5>1. \A k \in Content : Hash(k) \in Hashes /\ (Hash(k) = Hash(c) <=> k = c)
          BY Zenon DEF Hash, Hashes
        <5>2. \A k \in Content : replayed'[Hash(k)] = IF k = c THEN replayed[Hash(k)] + d ELSE replayed[Hash(k)]
          BY Zenon, <2>3, <3>6, <5>1
        <5> QED BY <5>2, Zenon
      <4> QED BY <3>6, <4>1, <4>2, Zenon DEF DM!Next, DM!Count
    <3> QED BY Zenon, <3>2, <3>4, <3>5, <3>6
  <2>6. Complete \/ UNCHANGED <<disk, replayed>>
    BY ReviveLeaves, Zenon DEF Next, PutDedup, PutClaim, PutFails, PutPayload, PutDone, RcWrite, RcDone,
       BootPersist, PersistRoot, PersistDone, Crash, Recover, RecoverObject, RecoverRc, RecoverEnd, vars
  <2> QED BY Zenon, <2>4, <2>5, <2>6
<1> QED BY <1>1, <1>2, AlwaysWhole, PTL DEF Spec, RefinesDurableMap, DM!Spec
=============================================================================
