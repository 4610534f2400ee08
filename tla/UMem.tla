-------------------------------- MODULE UMem --------------------------------
(***************************************************************************)
(* User memory (kernel.c U0-5, U2-1): the acquire-only pool behind         *)
(* SYS_U_ACQUIRE, bounded by the anti-amplification gate, and the userland *)
(* heap, a first-fit free list over a bump region, without splitting.      *)
(* Sizes are in bytes; the pool's arithmetic wraps at 2^Width as uint64_t  *)
(* does.  The heap's callers pass small sizes only, so n + 15 never wraps. *)
(***************************************************************************)
EXTENDS Integers, Sequences, SequencesExt

CONSTANTS Width,      \* 64 in the code
          U0_POOLSZ, AcquireSizes,
          U2_HEAP, MallocSizes

VARIABLES bump,    \* u0_page_bump
          regions, \* regions handed out since the bump was last reset: <<offset, size>>
          hbump,   \* u2_hbump
          flist,   \* u2_flist, most recently freed first: <<offset of the header, size>>
          live     \* blocks in use: <<offset of the header, size recorded, size asked>>

uvars == <<bump, regions, hbump, flist, live>>

HDR == 16
Round(n) == ((n + 15) \div 16) * 16

UMemInit == bump = 0 /\ regions = {} /\ hbump = 0 /\ flist = <<>> /\ live = {}

(* cvsasx_sw_cap_remint of [0, size) over the pool's capability and region. *)
GateAllows(size) == size <= U0_POOLSZ

(* Mutant: the pool's own bound alone decides. *)
AcquireUngated(size) ==
  /\ (bump + size) % 2^Width <= U0_POOLSZ
  /\ bump' = (bump + size) % 2^Width
  /\ regions' = regions \cup {<<bump, size>>}
  /\ UNCHANGED <<hbump, flist, live>>

u0_mem_acquire(size) ==
  /\ GateAllows(size)
  /\ (bump + size) % 2^Width <= U0_POOLSZ
  /\ bump' = (bump + size) % 2^Width
  /\ regions' = regions \cup {<<bump, size>>}
  /\ UNCHANGED <<hbump, flist, live>>

(* A new program starts on the pool: u0_page_bump=0, earlier regions are given up. *)
ResetPool ==
  /\ bump > 0
  /\ bump' = 0 /\ regions' = {}
  /\ UNCHANGED <<hbump, flist, live>>

(* The first free block that is large enough, else the bump region, else 0. *)
Fits(n) == {i \in DOMAIN flist : flist[i][2] >= Round(n)}
u2_malloc(n) ==
  /\ IF Fits(n) # {}
     THEN LET i == CHOOSE j \in Fits(n) : \A k \in Fits(n) : j <= k
          IN /\ live' = live \cup {<<flist[i][1], flist[i][2], n>>}
             /\ flist' = RemoveAt(flist, i)
             /\ UNCHANGED hbump
     ELSE /\ hbump + HDR + Round(n) <= U2_HEAP
          /\ live' = live \cup {<<hbump, Round(n), n>>}
          /\ hbump' = hbump + HDR + Round(n)
          /\ UNCHANGED flist
  /\ UNCHANGED <<bump, regions>>

u2_free(b) ==
  /\ b \in live
  /\ live' = live \ {b}
  /\ flist' = <<<<b[1], b[2]>>>> \o flist
  /\ UNCHANGED <<bump, regions, hbump>>

UMemNext ==
  \/ \E size \in AcquireSizes : u0_mem_acquire(size)
  \/ ResetPool
  \/ \E n \in MallocSizes : u2_malloc(n)
  \/ \E b \in live : u2_free(b)

UMemSpec == UMemInit /\ [][UMemNext]_uvars

-----------------------------------------------------------------------------
Bytes(off, size) == off..(off + size - 1)
Apart(S) == \A x, y \in S : x # y => x \cap y = {}

(* Memory handed out does not overlap: the regions of the pool lie inside  *)
(* it and apart from each other, whatever sizes were asked for in between  *)
(* (the sum of bump and size is computed modulo 2^Width); the heap blocks  *)
(* in use, with their headers, lie apart from each other and from the free *)
(* ones, inside the heap, and each is as large as was asked.               *)
RegionsApart ==
  /\ \A r \in regions : r[1] + r[2] <= U0_POOLSZ
  /\ \A r, s \in regions : r # s => Bytes(r[1], r[2]) \cap Bytes(s[1], s[2]) = {}
  /\ LET used == {Bytes(b[1], HDR + b[2]) : b \in live}
         free == {Bytes(flist[i][1], HDR + flist[i][2]) : i \in DOMAIN flist}
     IN /\ Apart(used \cup free) /\ used \cap free = {}
        /\ \A s \in used \cup free : s \subseteq 0..(U2_HEAP - 1)
  /\ \A b \in live : b[2] >= b[3]
=============================================================================
