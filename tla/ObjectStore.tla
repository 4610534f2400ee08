---------------------------- MODULE ObjectStore ----------------------------
(* store/object_store.c: the content-addressed store over a fixed arena and a
   fixed index.  The arena is a function on 1..ArenaCap (byte k of the C array
   is arena[k+1]); index is the sequence of the first index_count entries.
   A get hands out an alias into the arena, not a copy: `views` are the aliases
   callers still hold, and they are read through the CURRENT arena.

   BLAKE3 is external: Hash is only assumed to be collision free, which is what
   put() relies on when it does not compare bytes on a hit (lines 52-55). *)
EXTENDS Integers, Sequences, FiniteSets

CONSTANTS Byte,        \* the byte values
          Contents,    \* the contents clients store
          Hash(_),     \* cvsasx_blake3
          ArenaCap,    \* arena_cap
          IndexCap,    \* index_cap
          MaxPuts      \* bound on put_calls: a counter nothing else reads

ASSUME StoreAssumption ==
  /\ Contents \subseteq Seq(Byte)
  /\ ArenaCap \in Nat /\ IndexCap \in Nat /\ MaxPuts \in Nat
  /\ \A c, d \in Contents : Hash(c) = Hash(d) => c = d

VARIABLES arena, arena_used, index,
          put_calls, dedup_hits,
          views,       \* aliases returned by get, with the content they named
          ret          \* what the last call returned

vars == <<arena, arena_used, index, put_calls, dedup_hits, views, ret>>

Hashes      == {Hash(c) : c \in Contents}
Reply(st, h, b) == [st |-> st, hash |-> h, bytes |-> b]
NoBytes     == <<>>
NoHash      == "none"

(* the bytes an (offset, len) pair denotes in arena a *)
Slice(a, off, len) == [i \in 1..len |-> a[off + i]]

(* cvsasx_store_init; the arena keeps whatever bytes it had *)
Fresh == /\ arena_used' = 0 /\ index' = <<>>
         /\ put_calls' = 0 /\ dedup_hits' = 0

Init == /\ arena \in [1..ArenaCap -> Byte] /\ arena_used = 0 /\ index = <<>>
        /\ put_calls = 0 /\ dedup_hits = 0
        /\ views = {} /\ ret = Reply("INIT", NoHash, NoBytes)

(* find_entry: the first entry with this hash *)
Found(h)      == \E i \in 1..Len(index) : index[i].hash = h
find_entry(h) == CHOOSE i \in 1..Len(index) :
                   /\ index[i].hash = h
                   /\ \A j \in 1..(i-1) : index[j].hash # h

Room(len) == Len(index) < IndexCap /\ len <= ArenaCap - arena_used

(* the append of put(): copy the bytes past arena_used and index them *)
Store(c) ==
  /\ arena' = [k \in 1..ArenaCap |->
                 IF arena_used < k /\ k <= arena_used + Len(c)
                 THEN c[k - arena_used] ELSE arena[k]]
  /\ index' = Append(index, [hash |-> Hash(c), offset |-> arena_used, len |-> Len(c)])
  /\ arena_used' = arena_used + Len(c)

PutHit(c) ==
  /\ Found(Hash(c))
  /\ dedup_hits' = dedup_hits + 1
  /\ ret' = Reply("OK", Hash(c), NoBytes)
  /\ UNCHANGED <<arena, arena_used, index>>

PutNew(c) ==
  /\ ~Found(Hash(c)) /\ Room(Len(c))
  /\ Store(c)
  /\ ret' = Reply("OK", Hash(c), NoBytes)
  /\ UNCHANGED dedup_hits

PutFullSilent(c) ==                    \* mutant: a put that did not fit reports OK
  /\ ~Found(Hash(c)) /\ ~Room(Len(c))
  /\ ret' = Reply("OK", Hash(c), NoBytes)
  /\ UNCHANGED <<arena, arena_used, index, dedup_hits>>

(* out_hash is not written on FULL *)
PutFull(c) ==
  /\ ~Found(Hash(c)) /\ ~Room(Len(c))
  /\ ret' = Reply("FULL", NoHash, NoBytes)
  /\ UNCHANGED <<arena, arena_used, index, dedup_hits>>

cvsasx_store_put(c) ==
  /\ put_calls < MaxPuts
  /\ put_calls' = put_calls + 1
  /\ PutHit(c) \/ PutNew(c) \/ PutFull(c)
  /\ UNCHANGED views

cvsasx_store_get(h) ==
  /\ IF Found(h)
     THEN LET e == index[find_entry(h)] IN
          /\ ret' = Reply("OK", h, Slice(arena, e.offset, e.len))
          /\ views' = views \cup {[hash |-> h, offset |-> e.offset, len |-> e.len]}
     ELSE ret' = Reply("MISS", h, NoBytes) /\ UNCHANGED views
  /\ UNCHANGED <<arena, arena_used, index, put_calls, dedup_hits>>

cvsasx_store_exists(h) ==
  /\ ret' = Reply(IF Found(h) THEN "YES" ELSE "NO", h, NoBytes)
  /\ UNCHANGED <<arena, arena_used, index, put_calls, dedup_hits, views>>

InitUnderViews ==                      \* mutant: re-init while aliases are in use
  /\ Fresh
  /\ ret' = Reply("INIT", NoHash, NoBytes)
  /\ UNCHANGED <<arena, views>>

(* a second store_init over the same arena (the kernel's run_sr does this once
   every alias of the previous stage is dead) *)
cvsasx_store_init ==
  /\ Fresh
  /\ views' = {} /\ ret' = Reply("INIT", NoHash, NoBytes)
  /\ UNCHANGED arena

Next == \/ \E c \in Contents : cvsasx_store_put(c)
        \/ \E h \in Hashes : cvsasx_store_get(h) \/ cvsasx_store_exists(h)
        \/ cvsasx_store_init

Spec == Init /\ [][Next]_vars
-----------------------------------------------------------------------------
Entry == [hash : Hashes, offset : Nat, len : Nat]

(* The state has the shape of cvsasx_store_t. *)
TypeOK ==
  /\ arena \in [1..ArenaCap -> Byte]
  /\ arena_used \in 0..ArenaCap
  /\ index \in Seq(Entry)
  /\ put_calls \in Nat /\ dedup_hits \in Nat
  /\ views \subseteq Entry

(* Content addressing: every index entry lies inside the used arena and the
   bytes it denotes are those of a content with the entry's hash, so that a
   caller that re-hashes what get returned always gets the address it asked. *)
Addressed ==
  \A i \in 1..Len(index) :
    /\ index[i].offset + index[i].len <= arena_used
    /\ \E c \in Contents :
         /\ index[i].hash = Hash(c) /\ index[i].len = Len(c)
         /\ Slice(arena, index[i].offset, index[i].len) = c

(* Dedup: no two entries carry the same address (put() stores one copy). *)
Deduplicated ==
  \A i, j \in 1..Len(index) : index[i].hash = index[j].hash => i = j

(* An alias handed out by get keeps denoting the content it was asked for,
   whatever is stored after it ("objects are never mutated in place"). *)
ViewsStable ==
  \A v \in views : \E c \in Contents :
    /\ v.hash = Hash(c)
    /\ v.offset + v.len <= arena_used
    /\ Slice(arena, v.offset, v.len) = c

(* The store implements the abstract content map: what is present is exactly
   what the entries denote, and every reply is one the map could give. *)
Denoted == {Slice(arena, index[i].offset, index[i].len) : i \in 1..Len(index)}
CM == INSTANCE ContentMap WITH present <- Denoted
RefinesContentMap == CM!Spec
=============================================================================
