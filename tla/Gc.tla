--------------------------------- MODULE Gc ---------------------------------
(***************************************************************************)
(* Reference-counted reclamation (kernel.c GC1-GC7, DS1-DS6, U2-2..U2-6):  *)
(* the refcount table keyed by (content, authority domain), the block      *)
(* arena with its bounded free list, domain-scoped deduplicating stores    *)
(* with the resurrection window, and sys_mem_release.                      *)
(*                                                                         *)
(* A caller keeps the block number its store returned: `held' counts the   *)
(* callers per (content, domain, block), `zombie' holds the references a   *)
(* caller has dropped and not yet tried to reclaim.  The durable half of   *)
(* the counts (RC and TOMB records in the log) is module DurableLog.       *)
(***************************************************************************)
EXTENDS Integers, Sequences, FiniteSets, FiniteSetsExt, SequencesExt

CONSTANTS Content,   \* contents (a hash is the content it names)
          DsDomain,  \* domains that use ds_store_scoped
          U2_DOM,    \* the domain sys_mem_release works in
          GC_DOM_SYS,
          RcMax,     \* entries of gc_rc[] (256 in the code)
          FreeMax,   \* entries of gc_free[] (64 in the code)
          MaxBlock,  \* bound: blocks the arena may grow to
          MaxCount   \* bound: references counted per entry

VARIABLES rc,     \* (content, domain) -> count and tombstone of the entries present
          arena,  \* free list, high-water mark, and what each block holds
          held,   \* (content, domain, block) -> callers holding that reference
          zombie, \* references dropped and not yet reclaimed
          home    \* (content, domain) -> the block of its last miss

gvars == <<rc, arena, held, zombie, home>>

(* gc_rc_apply: a full table drops the insertion silently. *)
gc_rc_apply(t, k, delta) ==
  IF k \in DOMAIN t THEN [t EXCEPT ![k].count = @ + delta]
  ELSE IF Cardinality(DOMAIN t) >= RcMax THEN t
  ELSE [x \in DOMAIN t \cup {k} |->
          IF x = k THEN [count |-> delta, tomb |-> FALSE] ELSE t[x]]

gc_rc_get(t, k) == IF k \in DOMAIN t THEN t[k].count ELSE 0

(* gc_alloc and gc_obj_put: the block that is written, and the arena after. *)
NextBlock(a) == IF a.free # <<>> THEN Last(a.free) ELSE a.hwm + 1

gc_obj_put(a, c) ==
  LET b == NextBlock(a) IN
  [free |-> IF a.free # <<>> THEN Front(a.free) ELSE a.free,
   hwm  |-> IF a.free # <<>> THEN a.hwm ELSE a.hwm + 1,
   disk |-> [x \in DOMAIN a.disk \cup {b} |-> IF x = b THEN c ELSE a.disk[x]]]

(* gc_freeblk: a full free list forgets the block. *)
gc_freeblk(a, b) ==
  IF Len(a.free) < FreeMax THEN [a EXCEPT !.free = Append(@, b)] ELSE a

(* GC5 and GC6 run first, on the arena only (their counts are local): two   *)
(* puts of which the second is freed; then X, Y, M and K are put, M and its *)
(* referents are freed in cascade order and three blocks allocated again.   *)
ArenaAfterGC(c) ==
  LET a1 == gc_obj_put([free |-> <<>>, hwm |-> 0, disk |-> <<>>], c)
      a2 == gc_freeblk(gc_obj_put(a1, c), NextBlock(a1))
      a3 == gc_obj_put(a2, c)
      a4 == gc_obj_put(a3, c)
      a5 == gc_obj_put(a4, c)
      a6 == gc_obj_put(a5, c)
      a7 == FoldLeft(gc_freeblk, a6, <<NextBlock(a4), NextBlock(a2), NextBlock(a3)>>)
  IN  FoldLeft(LAMBDA a, i : gc_obj_put(a, c), a7, <<1, 2, 3>>)

(* GC3 has counted a volatile root and dropped it: its entry stays at zero. *)
GcInit ==
  \E c \in Content :
    /\ rc = [k \in {<<c, GC_DOM_SYS>>} |-> [count |-> 0, tomb |-> FALSE]]
    /\ arena = ArenaAfterGC(c)
    /\ held = <<>> /\ zombie = {} /\ home = <<>>

HasRoom(k) ==
  /\ arena.free # <<>> \/ arena.hwm < MaxBlock
  /\ k \in DOMAIN rc => rc[k].count < MaxCount

Holders(c, d) == {h \in DOMAIN held : h[1] = c /\ h[2] = d}
Hold(hs, h) == [x \in DOMAIN hs \cup {h} |->
                  (IF x \in DOMAIN hs THEN hs[x] ELSE 0) + IF x = h THEN 1 ELSE 0]
Unhold(hs, h) == LET n == [hs EXCEPT ![h] = @ - 1]
                 IN  [x \in {y \in DOMAIN n : n[y] > 0} |-> n[x]]

-----------------------------------------------------------------------------
(* ds_store_scoped: a live or zombie entry of the domain is a hit, anything *)
(* else (a tombstoned entry included) is a miss with storage of its own.    *)
ds_store_scoped(c, d) ==
  LET k == <<c, d>>
      b == NextBlock(arena)
  IN IF k \in DOMAIN rc /\ ~rc[k].tomb
     THEN /\ rc[k].count < MaxCount
          /\ rc' = gc_rc_apply(rc, k, 1)
          /\ held' = Hold(held, <<c, d, home[k]>>)
          /\ zombie' = zombie \ {<<c, d, home[k]>>}
          /\ UNCHANGED <<arena, home>>
     ELSE /\ HasRoom(k)
          /\ arena' = gc_obj_put(arena, c)
          /\ rc' = gc_rc_apply(rc, k, 1)
          /\ held' = Hold(held, <<c, d, b>>)
          /\ home' = [x \in DOMAIN home \cup {k} |-> IF x = k THEN b ELSE home[x]]
          /\ UNCHANGED zombie

(* ds_store_global, the unscoped baseline: only the arena can change. *)
ds_store_global(c) ==
  /\ ~\E k \in DOMAIN rc : k[1] = c /\ ~rc[k].tomb /\ rc[k].count > 0
  /\ HasRoom(<<c, GC_DOM_SYS>>)
  /\ arena' = gc_obj_put(arena, c)
  /\ UNCHANGED <<rc, held, zombie, home>>

(* A domain drops a reference: at zero the object is a zombie until reclaimed. *)
Drop(h) ==
  /\ h \in DOMAIN held /\ h[2] \in DsDomain
  /\ rc' = gc_rc_apply(rc, <<h[1], h[2]>>, -1)
  /\ held' = Unhold(held, h)
  /\ zombie' = zombie \cup {h}
  /\ UNCHANGED <<arena, home>>

(* Mutant: reclaims without looking at the count again. *)
ReclaimBlindly(h) ==
  /\ h \in zombie
  /\ zombie' = zombie \ {h}
  /\ rc' = [rc EXCEPT ![<<h[1], h[2]>>].tomb = TRUE]
  /\ arena' = gc_freeblk(arena, h[3])
  /\ UNCHANGED <<held, home>>

(* DS6: reclaim at count zero: tombstone first, then the block is free. *)
Reclaim(h) ==
  LET k == <<h[1], h[2]>> IN
  /\ h \in zombie
  /\ zombie' = zombie \ {h}
  /\ IF gc_rc_get(rc, k) = 0 /\ k \in DOMAIN rc
     THEN rc' = [rc EXCEPT ![k].tomb = TRUE] /\ arena' = gc_freeblk(arena, h[3])
     ELSE UNCHANGED <<rc, arena>>
  /\ UNCHANGED <<held, home>>

-----------------------------------------------------------------------------
(* U2-2: a region enters the domain with its own block; U2-4: a second holder. *)
Acquire(c) ==
  /\ HasRoom(<<c, U2_DOM>>)
  /\ arena' = gc_obj_put(arena, c)
  /\ rc' = gc_rc_apply(rc, <<c, U2_DOM>>, 1)
  /\ held' = Hold(held, <<c, U2_DOM, NextBlock(arena)>>)
  /\ UNCHANGED <<zombie, home>>

Share(h) ==
  /\ h \in DOMAIN held /\ h[2] = U2_DOM
  /\ gc_rc_get(rc, <<h[1], U2_DOM>>) < MaxCount /\ held[h] < MaxCount
  /\ rc' = gc_rc_apply(rc, <<h[1], U2_DOM>>, 1)
  /\ held' = Hold(held, h)
  /\ UNCHANGED <<arena, zombie, home>>

Refused(t, k) == k \notin DOMAIN t \/ t[k].tomb \/ t[k].count <= 0

(* u2_mem_release on table t and arena a. *)
u2_mem_release(t, a, c, b) ==
  LET k == <<c, U2_DOM>>
      d == gc_rc_apply(t, k, -1)
  IN IF Refused(t, k) THEN [rc |-> t, arena |-> a]
     ELSE IF gc_rc_get(d, k) = 0
     THEN [rc |-> [d EXCEPT ![k].tomb = TRUE], arena |-> gc_freeblk(a, b)]
     ELSE [rc |-> d, arena |-> a]

Release(h) ==
  LET r == u2_mem_release(rc, arena, h[1], h[3]) IN
  /\ h \in DOMAIN held /\ h[2] = U2_DOM
  /\ ~Refused(rc, <<h[1], U2_DOM>>)
  /\ rc' = r.rc /\ arena' = r.arena
  /\ held' = Unhold(held, h)
  /\ UNCHANGED <<zombie, home>>

(* The measuring loops of U2-6 and CU-6: acquire, release (its result is   *)
(* ignored), then the tombstone is cleared by hand.                        *)
Churn(c) ==
  LET k == <<c, U2_DOM>>
      b == NextBlock(arena)
      r == u2_mem_release(gc_rc_apply(rc, k, 1), gc_obj_put(arena, c), c, b)
  IN /\ HasRoom(k)
     /\ rc' = IF k \in DOMAIN r.rc THEN [r.rc EXCEPT ![k].tomb = FALSE] ELSE r.rc
     /\ arena' = r.arena
     /\ UNCHANGED <<held, zombie, home>>

GcNext ==
  \/ \E c \in Content :
       \/ \E d \in DsDomain : ds_store_scoped(c, d)
       \/ ds_store_global(c) \/ Acquire(c) \/ Churn(c)
  \/ \E h \in DOMAIN held : Drop(h) \/ Share(h) \/ Release(h)
  \/ \E h \in zombie : Reclaim(h)

GcSpec == GcInit /\ [][GcNext]_gvars

-----------------------------------------------------------------------------
(* Storage with a holder is safe: its block is not on the free list and     *)
(* still holds the content (gc_obj_verify succeeds), and the count of an    *)
(* entry is never below its holders.  No block is on the free list twice.   *)
(* The count is looked at after the reference was dropped, with hits and    *)
(* other domains' stores in between (the resurrection window).              *)
LiveBlocksKept ==
  /\ \A h \in DOMAIN held :
       /\ h[3] \notin Range(arena.free)
       /\ arena.disk[h[3]] = h[1]
  /\ \A k \in DOMAIN rc :
       rc[k].count >= MapThenSumSet(LAMBDA h : held[h], Holders(k[1], k[2]))
  /\ IsInjective(arena.free)
=============================================================================
