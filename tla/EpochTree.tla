----------------------------- MODULE EpochTree -----------------------------
(* store/epoch_tree.c: the Merkle tree over a task's linear memory whose commits
   re-hash only what was written since the last one.  A digest is the term it
   was computed from (BLAKE3 as an injection), tagged leaf or node. *)
EXTENDS Integers, Sequences

CONSTANTS MemLens,          \* lengths a linear memory may have
          CHUNK_SIZE,
          MAX_CHUNKS,       \* a power of two
          Byte,             \* the values of a byte, 0 among them
          MaxWrite          \* longest write explored

VARIABLES mem, n_chunks, n_leaves, node, leaf_dirty, committed, valid

evars == <<mem, n_chunks, n_leaves, node, leaf_dirty, committed, valid>>

LeafHash(bytes) == [leaf |-> bytes]
NodeHash(l, r)  == [left |-> l, right |-> r]
NoHash          == [zero |-> 0]

mem_len == Len(mem)
next_pow2(x) == CHOOSE p \in {2^k : k \in 0..x} : p >= x /\ (p = 1 \/ p < 2 * x)
ChunksOf(len) == IF len = 0 THEN 1 ELSE (len + CHUNK_SIZE - 1) \div CHUNK_SIZE

(* cvsasx_epoch_init: a memory that needs too many leaves is refused *)
cvsasx_epoch_init(len) ==
  LET nc == ChunksOf(len)
      nl == next_pow2(nc)
      ok == nl <= MAX_CHUNKS IN
  /\ mem = [i \in 1..len |-> 0]
  /\ n_chunks = (IF ok THEN nc ELSE 0) /\ n_leaves = (IF ok THEN nl ELSE 0)
  /\ leaf_dirty = (IF ok THEN 0..(nc - 1) ELSE {})
  /\ node = [i \in 1..(IF ok THEN 2 * nl - 1 ELSE 0) |-> NoHash]
  /\ committed = FALSE /\ valid = ok

EpochInit == \E len \in MemLens : cvsasx_epoch_init(len)

(* Mutant: the last chunk of the write computed from its length alone. *)
TouchedByLength(offset, len) == (offset \div CHUNK_SIZE)..(offset \div CHUNK_SIZE + (len - 1) \div CHUNK_SIZE)
Touched(offset, len) == (offset \div CHUNK_SIZE)..((offset + len - 1) \div CHUNK_SIZE)

(* cvsasx_epoch_write: out of range, empty or to an invalid epoch is no write *)
cvsasx_epoch_write(offset, data) ==
  /\ valid /\ data # <<>>
  /\ offset <= mem_len /\ Len(data) <= mem_len - offset
  /\ mem' = [i \in DOMAIN mem |-> IF i - 1 \in offset..(offset + Len(data) - 1)
                                  THEN data[i - offset] ELSE mem[i]]
  /\ leaf_dirty' = leaf_dirty \cup {c \in Touched(offset, Len(data)) : c < n_chunks}
  /\ UNCHANGED <<n_chunks, n_leaves, node, committed, valid>>

Chunk(c) == SubSeq(mem, c * CHUNK_SIZE + 1,
                   IF (c + 1) * CHUNK_SIZE > mem_len THEN mem_len ELSE (c + 1) * CHUNK_SIZE)

(* cvsasx_epoch_commit.  at[k] is node k after the bottom-up pass, and whether
   the pass changed it. *)
cvsasx_epoch_commit ==
  /\ valid
  /\ LET L == n_leaves
         padding(c) == c >= n_chunks
         leaf(c) == IF c \in leaf_dirty \/ (padding(c) /\ ~committed)
                    THEN [hash |-> LeafHash(IF padding(c) THEN <<>> ELSE Chunk(c)), changed |-> TRUE]
                    ELSE [hash |-> node[L + c], changed |-> FALSE]
         at[k \in 1..(2 * L - 1)] ==
           IF k >= L THEN leaf(k - L)
           ELSE IF at[2 * k].changed \/ at[2 * k + 1].changed
                THEN [hash |-> NodeHash(at[2 * k].hash, at[2 * k + 1].hash), changed |-> TRUE]
                ELSE [hash |-> node[k], changed |-> FALSE]
     IN node' = [k \in 1..(2 * L - 1) |-> at[k].hash]
  /\ leaf_dirty' = {} /\ committed' = TRUE
  /\ UNCHANGED <<mem, n_chunks, n_leaves, valid>>

EpochNext ==
  \/ \E len \in 1..MaxWrite : \E offset \in 0..mem_len, data \in [1..len -> Byte] :
       cvsasx_epoch_write(offset, data)
  \/ cvsasx_epoch_commit

EpochSpec == EpochInit /\ [][EpochNext]_evars
-----------------------------------------------------------------------------
(* the root a recompute of every chunk would produce *)
FullRoot ==
  LET full[k \in 1..(2 * n_leaves - 1)] ==
        IF k >= n_leaves
        THEN LeafHash(IF k - n_leaves >= n_chunks THEN <<>> ELSE Chunk(k - n_leaves))
        ELSE NodeHash(full[2 * k], full[2 * k + 1])
  IN  full[1]

(* "The incremental root equals the root a full recompute of all current chunks
   would produce": after any sequence of writes and commits, a tree with nothing
   dirty has the root of its memory, so cvsasx_epoch_commit never leaves a stale
   hash on a path to the root, padding, short last chunk and one-leaf trees
   included. *)
IncrementalIsFull == valid /\ committed /\ leaf_dirty = {} => node[1] = FullRoot
=============================================================================
