------------------------------- MODULE Blake3 -------------------------------
(***************************************************************************)
(* The BLAKE3 hasher every content address comes from (store/blake3): a    *)
(* message is cut into chunks of blocks, full chunks and subtrees are      *)
(* merged lazily on a stack of chaining values, and finalisation rolls the *)
(* stack up into the root.  The compression function is a free             *)
(* constructor: two chaining values are equal exactly when they come from  *)
(* the same inputs, so equality of hashes is equality of the trees hashed. *)
(*                                                                         *)
(* Values that meet in a block or as a chaining value are tuples: byte i   *)
(* of the message is <<i>>, a zeroed byte <<0>>, and stale memory <<-1>>.  *)
(***************************************************************************)
EXTENDS Integers, Sequences, FiniteSets, SequencesExt

CONSTANTS BLOCK_LEN, CHUNK_LEN,  \* bytes; powers of two (64 and 1024)
          MAX_DEPTH,             \* levels of the tallest tree (54)
          Degrees,               \* SIMD degrees a build may report (1 in the kernel)
          MaxLen                 \* bound: length of a message

VARIABLES degree,  \* blake3_simd_degree()
          h,       \* blake3_hasher
          fed      \* bytes given to update since init or reset

bvars == <<degree, h, fed>>

Zeroes == [i \in 1..BLOCK_LEN |-> <<0>>]
Bytes(from, n) == [i \in 1..n |-> <<from + i>>]
MinOf(a, b) == IF a < b THEN a ELSE b

(* popcnt and round_down_to_power_of_2 (1 for 0), for the sizes in use. *)
popcnt[x \in 0..MaxLen] == IF x = 0 THEN 0 ELSE (x % 2) + popcnt[x \div 2]
round_down_to_power_of_2[x \in 0..MaxLen] ==
  IF x <= 1 THEN 1 ELSE 2 * round_down_to_power_of_2[x \div 2]

-----------------------------------------------------------------------------
(* Outputs: a node not compressed yet, so that it can still be the root. *)
compress(cv, block, len, counter, flags) == <<cv, block, <<len>>, <<counter>>, flags>>
make_output(cv, block, len, counter, flags) ==
  [input_cv |-> cv, block |-> block, block_len |-> len, counter |-> counter, flags |-> flags]
output_chaining_value(o) == compress(o.input_cv, o.block, o.block_len, o.counter, o.flags)

chunk_state_init(key, counter, flags) ==
  [cv |-> key, chunk_counter |-> counter, buf |-> Zeroes, buf_len |-> 0,
   blocks_compressed |-> 0, flags |-> flags]
chunk_state_len(c) == BLOCK_LEN * c.blocks_compressed + c.buf_len
StartFlag(c) == IF c.blocks_compressed = 0 THEN {"CHUNK_START"} ELSE {}

chunk_state_fill_buf(c, in) ==
  LET take == MinOf(BLOCK_LEN - c.buf_len, Len(in)) IN
  [c EXCEPT !.buf = [i \in 1..BLOCK_LEN |->
                       IF i \in (c.buf_len + 1)..(c.buf_len + take) THEN in[i - c.buf_len] ELSE @[i]],
            !.buf_len = @ + take]

CompressBlock(c, block) ==
  [c EXCEPT !.cv = compress(@, block, BLOCK_LEN, c.chunk_counter, c.flags \cup StartFlag(c)),
            !.blocks_compressed = @ + 1]

(* The loop of chunk_state_update: the last block always stays in buf. *)
RECURSIVE WholeBlocks(_, _)
WholeBlocks(c, in) ==
  IF Len(in) > BLOCK_LEN
  THEN WholeBlocks(CompressBlock(c, SubSeq(in, 1, BLOCK_LEN)), SubSeq(in, BLOCK_LEN + 1, Len(in)))
  ELSE chunk_state_fill_buf(c, in)

UpdateKeepsStaleBuf(c, in) ==
  LET f    == IF c.buf_len > 0 THEN chunk_state_fill_buf(c, in) ELSE c
      rest == SubSeq(in, f.buf_len - c.buf_len + 1, Len(in))
  IN  WholeBlocks(IF c.buf_len > 0 /\ rest # <<>>
                  THEN [CompressBlock(f, f.buf) EXCEPT !.buf_len = 0] ELSE f, rest)

chunk_state_update(c, in) ==
  LET f    == IF c.buf_len > 0 THEN chunk_state_fill_buf(c, in) ELSE c
      rest == SubSeq(in, f.buf_len - c.buf_len + 1, Len(in))
  IN  WholeBlocks(IF c.buf_len > 0 /\ rest # <<>>
                  THEN [CompressBlock(f, f.buf) EXCEPT !.buf_len = 0, !.buf = Zeroes] ELSE f, rest)

chunk_state_output(c) ==
  make_output(c.cv, c.buf, c.buf_len, c.chunk_counter, c.flags \cup StartFlag(c) \cup {"CHUNK_END"})
parent_output(l, r, key, flags) == make_output(key, <<l, r>>, BLOCK_LEN, 0, flags \cup {"PARENT"})
ParentCv(l, r, key, flags) == output_chaining_value(parent_output(l, r, key, flags))
ChunkCv(in, key, counter, flags) ==
  output_chaining_value(chunk_state_output(chunk_state_update(chunk_state_init(key, counter, flags), in)))

-----------------------------------------------------------------------------
(* blake3_hash_many on whole chunks, block by block without a buffer. *)
hash_one(in, key, counter, flags) ==
  LET blocks == Len(in) \div BLOCK_LEN
      step(cv, b) == compress(cv, SubSeq(in, (b - 1) * BLOCK_LEN + 1, b * BLOCK_LEN), BLOCK_LEN, counter,
                              flags \cup (IF b = 1 THEN {"CHUNK_START"} ELSE {})
                                    \cup (IF b = blocks THEN {"CHUNK_END"} ELSE {}))
  IN  FoldLeft(step, key, [b \in 1..blocks |-> b])

compress_chunks_parallel(in, key, counter, flags) ==
  LET full == Len(in) \div CHUNK_LEN
      rest == SubSeq(in, full * CHUNK_LEN + 1, Len(in))
  IN  [i \in 1..full |->
         hash_one(SubSeq(in, (i - 1) * CHUNK_LEN + 1, i * CHUNK_LEN), key, counter + i - 1, flags)]
      \o (IF rest = <<>> THEN <<>> ELSE <<ChunkCv(rest, key, counter + full, flags)>>)

compress_parents_parallel(cvs, key, flags) ==
  [i \in 1..(Len(cvs) \div 2) |-> ParentCv(cvs[2*i - 1], cvs[2*i], key, flags)]
  \o (IF Len(cvs) % 2 = 1 THEN <<cvs[Len(cvs)]>> ELSE <<>>)

left_subtree_len(n) == round_down_to_power_of_2[(n - 1) \div CHUNK_LEN] * CHUNK_LEN

(* The right subtree's values are written at the degree's place in cv_array *)
(* whatever the left one returned: what lies between them is stale memory.  *)
RECURSIVE compress_subtree_wide(_, _, _, _)
compress_subtree_wide(in, key, counter, flags) ==
  IF Len(in) <= degree * CHUNK_LEN THEN compress_chunks_parallel(in, key, counter, flags)
  ELSE LET split == left_subtree_len(Len(in))
           deg   == IF split > CHUNK_LEN /\ degree = 1 THEN 2 ELSE degree
           left  == compress_subtree_wide(SubSeq(in, 1, split), key, counter, flags)
           right == compress_subtree_wide(SubSeq(in, split + 1, Len(in)), key,
                                          counter + split \div CHUNK_LEN, flags)
           cv_array == [i \in 1..(deg + Len(right)) |->
                          IF i > deg THEN right[i - deg]
                          ELSE IF i <= Len(left) THEN left[i] ELSE <<-1>>]
       IN  IF Len(left) = 1 THEN SubSeq(cv_array, 1, 2)
           ELSE compress_parents_parallel(SubSeq(cv_array, 1, Len(left) + Len(right)), key, flags)

RECURSIVE Condense(_, _, _)
Condense(cvs, key, flags) ==
  IF Len(cvs) > 2 THEN Condense(compress_parents_parallel(cvs, key, flags), key, flags) ELSE cvs
compress_subtree_to_parent_node(in, key, counter, flags) ==
  Condense(compress_subtree_wide(in, key, counter, flags), key, flags)

-----------------------------------------------------------------------------
hasher_init_base(key, flags) ==
  [key |-> key, chunk |-> chunk_state_init(key, 0, flags), cv_stack |-> <<>>]

(* Lazy merging: only as many values stay as total_len has one-bits. *)
RECURSIVE hasher_merge_cv_stack(_, _)
hasher_merge_cv_stack(s, total_len) ==
  LET n == Len(s.cv_stack) IN
  IF n <= popcnt[total_len] THEN s
  ELSE hasher_merge_cv_stack(
         [s EXCEPT !.cv_stack = Append(SubSeq(@, 1, n - 2),
                                       ParentCv(@[n - 1], @[n], s.key, s.chunk.flags))], total_len)

hasher_push_cv(s, cv, counter) ==
  [hasher_merge_cv_stack(s, counter) EXCEPT !.cv_stack = Append(@, cv)]

(* The subtree_len loop: halve until it divides the bytes so far. *)
RECURSIVE Shrink(_, _)
Shrink(len, so_far) == IF so_far % len # 0 THEN Shrink(len \div 2, so_far) ELSE len

RECURSIVE Subtrees(_, _)
Subtrees(s, in) ==
  LET at   == s.chunk.chunk_counter
      len  == Shrink(round_down_to_power_of_2[Len(in)], at * CHUNK_LEN)
      now  == SubSeq(in, 1, len)
      pair == compress_subtree_to_parent_node(now, s.key, at, s.chunk.flags)
      pushed == IF len <= CHUNK_LEN THEN hasher_push_cv(s, ChunkCv(now, s.key, at, s.chunk.flags), at)
                ELSE hasher_push_cv(hasher_push_cv(s, pair[1], at), pair[2],
                                    at + (len \div CHUNK_LEN) \div 2)
  IN  IF Len(in) > CHUNK_LEN
      THEN Subtrees([pushed EXCEPT !.chunk.chunk_counter = @ + len \div CHUNK_LEN],
                    SubSeq(in, len + 1, Len(in)))
      ELSE IF in = <<>> THEN s
      ELSE hasher_merge_cv_stack([s EXCEPT !.chunk = chunk_state_update(@, in)], at)

update_base(s, in) ==
  LET had   == chunk_state_len(s.chunk)
      take  == MinOf(CHUNK_LEN - had, Len(in))
      rest  == SubSeq(in, take + 1, Len(in))
      first == [s EXCEPT !.chunk = chunk_state_update(@, SubSeq(in, 1, take))]
      next  == [hasher_push_cv(first, output_chaining_value(chunk_state_output(first.chunk)),
                               first.chunk.chunk_counter)
                EXCEPT !.chunk = chunk_state_init(s.key, first.chunk.chunk_counter + 1, s.chunk.flags)]
  IN  IF in = <<>> THEN s
      ELSE IF had = 0 THEN Subtrees(s, in)
      ELSE IF rest = <<>> THEN first ELSE Subtrees(next, rest)

(* The node finalize_seek takes the output bytes from. *)
RECURSIVE RollUp(_, _, _)
RollUp(s, o, left) ==
  IF left = 0 THEN o
  ELSE RollUp(s, parent_output(s.cv_stack[left], output_chaining_value(o), s.key, s.chunk.flags), left - 1)
RootOutput(s) ==
  LET n == Len(s.cv_stack) IN
  IF n = 0 THEN chunk_state_output(s.chunk)
  ELSE IF chunk_state_len(s.chunk) > 0 THEN RollUp(s, chunk_state_output(s.chunk), n)
  ELSE RollUp(s, parent_output(s.cv_stack[n - 1], s.cv_stack[n], s.key, s.chunk.flags), n - 2)

(* output_root_bytes: the tail of the first block, whole blocks, a head.   *)
(* An output byte is <<block counter, offset>> of the root's stream.       *)
output_root_bytes(seek, out_len) ==
  LET at    == seek \div BLOCK_LEN
      off   == seek % BLOCK_LEN
      head  == IF off = 0 THEN 0 ELSE MinOf(out_len, BLOCK_LEN - off)
      at1   == IF off = 0 THEN at ELSE at + 1
      many  == (out_len - head) \div BLOCK_LEN
      tail  == (out_len - head) % BLOCK_LEN
  IN  [i \in 1..head |-> <<at, off + i - 1>>]
      \o [i \in 1..(many * BLOCK_LEN) |-> <<at1 + (i - 1) \div BLOCK_LEN, (i - 1) % BLOCK_LEN>>]
      \o [i \in 1..tail |-> <<at1 + many, i - 1>>]
blake3_hasher_finalize_seek(s, seek, out_len) ==
  [root |-> RootOutput(s), bytes |-> output_root_bytes(seek, out_len)]

-----------------------------------------------------------------------------
IV == <<"IV">>
blake3_hasher_init == hasher_init_base(IV, {})
blake3_hasher_init_keyed == hasher_init_base(<<"key">>, {"KEYED_HASH"})
blake3_hasher_init_derive_key_raw(context_len) ==
  LET context == update_base(hasher_init_base(IV, {"DERIVE_KEY_CONTEXT"}), Bytes(0, context_len))
  IN  hasher_init_base(<<"derived", RootOutput(context)>>, {"DERIVE_KEY_MATERIAL"})

BlakeInit ==
  /\ degree \in Degrees
  /\ h \in {blake3_hasher_init, blake3_hasher_init_keyed, blake3_hasher_init_derive_key_raw(CHUNK_LEN + 1)}
  /\ fed = 0

blake3_hasher_update(n) ==
  /\ fed + n <= MaxLen
  /\ h' = update_base(h, Bytes(fed, n))
  /\ fed' = fed + n
  /\ UNCHANGED degree

blake3_hasher_reset ==
  /\ h' = [h EXCEPT !.chunk = chunk_state_init(h.key, 0, @.flags), !.cv_stack = <<>>]
  /\ fed' = 0
  /\ UNCHANGED degree

BlakeNext == (\E n \in 0..MaxLen : blake3_hasher_update(n)) \/ blake3_hasher_reset
BlakeSpec == BlakeInit /\ [][BlakeNext]_bvars

-----------------------------------------------------------------------------
(* The reference: the tree of a message, with the largest power-of-two     *)
(* number of chunks that leaves at least a byte for the right in the left. *)
RefChunk(lo, n, key, counter, flags) ==
  LET blocks == IF n = 0 THEN 1 ELSE (n + BLOCK_LEN - 1) \div BLOCK_LEN
      part(b) == Bytes(lo + (b - 1) * BLOCK_LEN, MinOf(BLOCK_LEN, n - (b - 1) * BLOCK_LEN))
      padded(b) == SubSeq(part(b) \o Zeroes, 1, BLOCK_LEN)
      start(b) == IF b = 1 THEN {"CHUNK_START"} ELSE {}
      cv == FoldLeft(LAMBDA c, b : compress(c, padded(b), BLOCK_LEN, counter, flags \cup start(b)),
                     key, [b \in 1..(blocks - 1) |-> b])
  IN  make_output(cv, padded(blocks), Len(part(blocks)), counter,
                  flags \cup start(blocks) \cup {"CHUNK_END"})

RECURSIVE RefTree(_, _, _, _)
RefTree(lo, n, key, flags) ==
  IF n <= CHUNK_LEN THEN RefChunk(lo, n, key, lo \div CHUNK_LEN, flags)
  ELSE LET l == CHOOSE m \in {CHUNK_LEN * 2^k : k \in 0..MAX_DEPTH} : m < n /\ 2 * m >= n
       IN  parent_output(output_chaining_value(RefTree(lo, l, key, flags)),
                         output_chaining_value(RefTree(lo + l, n - l, key, flags)), key, flags)

(* However a message is cut into updates, after any resets and on a        *)
(* machine of any SIMD degree, the hash is the one of the message's tree,  *)
(* and asking for output at an offset gives the bytes from that offset on. *)
(* The stack of chaining values never outgrows its MAX_DEPTH + 1 places.   *)
HashIsTree ==
  /\ RootOutput(h) = RefTree(0, fed, h.key, h.chunk.flags)
  /\ \A seek \in 0..(2 * BLOCK_LEN), n \in 0..(3 * BLOCK_LEN) :
       blake3_hasher_finalize_seek(h, seek, n).bytes
         = [i \in 1..n |-> <<(seek + i - 1) \div BLOCK_LEN, (seek + i - 1) % BLOCK_LEN>>]
  /\ Len(h.cv_stack) <= MAX_DEPTH + 1
=============================================================================
