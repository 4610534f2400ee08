----------------------------- MODULE MCObjects -----------------------------
(* The object store and what is built on it, one part at a time: a behaviour is of
   the part ObjInit chooses, and the variables of the others stay as they are.

   store: four contents, one of them empty, one a prefix of another, and an arena
   and an index that can each be the one that fills first. *)
EXTENDS ObjectStore

VARIABLES part,
          rc, blocks, held, zombie, home,
          present, tab, frc, pins, whole,
          bump, regions, hbump, flist, live,
          ustore, cspace, parent, child, deriv, ep,
          file, frame, proc, dry, wrote

CONSTANT Parts

MCByte     == {0, 1}
MCContents == {<<>>, <<1>>, <<1, 0>>, <<0, 1, 1>>}
MCHash(c)  == <<"H", c>>

(* gc: two contents, two domains beside the releasing one, tables of three entries
   and two free blocks *)
GC == INSTANCE Gc WITH
        Content <- {"c1", "c2"}, DsDomain <- {1, 2}, U2_DOM <- 7, GC_DOM_SYS <- 0,
        RcMax <- 3, FreeMax <- 2, MaxBlock <- 8, MaxCount <- 2, arena <- blocks

(* cfs: two files, three subdirectories and roots that share them; no name is a
   prefix of another *)
File(d) == [is_dir |-> FALSE, data |-> d, ents |-> <<>>]
Dir(es) == [is_dir |-> TRUE, data |-> "", ents |-> es]
Sub  == <<"s", "u">>
Keep == <<"k">>
Trees == <<File("x"), File("y"),
           Dir(<< <<Keep, 1>> >>), Dir(<< <<Keep, 2>>, <<Sub, 1>> >>),
           Dir(<< <<Sub, 3>>, <<Keep, 1>> >>), Dir(<< <<Sub, 3>>, <<Keep, 2>> >>),
           Dir(<< <<Sub, 4>>, <<Keep, 2>> >>)>>
FS == INSTANCE Cfs WITH Named <- Trees, RcMax <- 8, MaxPin <- 2, rc <- frc

(* umem: words of five bits, so that a size near the top of them wraps the bump *)
UM == INSTANCE UMem WITH
        Width <- 5, U0_POOLSZ <- 12, AcquireSizes <- {4, 5, 13, 28}, U2_HEAP <- 144, MallocSizes <- {8, 16, 20, 40}

(* ucaps: five slots, a store with room for one object more, a quota of one byte *)
UC == INSTANCE UCaps WITH
        Slot <- 0..4, Object <- {"o1", "o2", "o3"}, Known <- "o1", Size <- {1, 2}, Quota <- 1, StoreCap <- 2, MaxReq <- 2,
        store <- ustore

(* loader: words of four bits and frames of three bytes; images of six bytes with up
   to three headers, one more than a process may have segments.  Five frames, so that
   the second load can run out of them. *)
Seg(t, w, x, off, filesz, memsz, va) ==
  [type |-> t, w |-> w, x |-> x, off |-> off, filesz |-> filesz, memsz |-> memsz, va |-> va]
Segs == {Seg("PT_LOAD", FALSE, TRUE,  2, 2, 2, 1),    \* code
         Seg("PT_LOAD", TRUE,  FALSE, 4, 1, 3, 2),    \* data with a tail
         Seg("PT_LOAD", TRUE,  FALSE, 2, 2, 2, 3),    \* data with the bytes of the code
         Seg("PT_LOAD", FALSE, FALSE, 2, 2, 3, 4),    \* the same bytes, read-only, a tail
         Seg("PT_LOAD", TRUE,  TRUE,  2, 2, 2, 1),    \* writable code
         Seg("PT_LOAD", FALSE, TRUE, 15, 2, 2, 1),    \* off + filesz wraps
         Seg("PT_LOAD", FALSE, TRUE,  6, 1, 1, 1),    \* one byte past the end
         Seg("PT_LOAD", FALSE, TRUE,  2, 2, 1, 1),    \* memsz < filesz
         Seg("PT_LOAD", FALSE, TRUE,  2, 2, 4, 1),    \* larger than a frame
         Seg("PT_NOTE", FALSE, FALSE, 15, 2, 2, 1)}
Image(phoff, phentsize, ph) ==
  [valid |-> TRUE, len |-> 6, phoff |-> phoff, phentsize |-> phentsize, ph |-> ph]
Images == {Image(1, 1, ph) : ph \in UNION {[1..n -> Segs] : n \in 0..3}} \cup
          {Image(o, z, <<s>>) : o \in {1, 4, 6, 15}, z \in {0, 1, 2, 6}, s \in Segs} \cup
          {[Image(1, 1, <<>>) EXCEPT !.valid = FALSE]}
LD == INSTANCE Loader WITH
        Word <- 16, FrameSize <- 3, PhdrSize <- 1, MaxSeg <- 2, Files <- Images, Frames <- 1..5, Proc <- {"a", "b"}

gvars == <<rc, blocks, held, zombie, home>>
fvars == <<present, tab, frc, pins, whole>>
uvars == <<bump, regions, hbump, flist, live>>
cvars == <<ustore, cspace, parent, child, deriv, ep>>
lvars == <<file, frame, proc, dry, wrote>>
allvars == <<part, vars, gvars, fvars, uvars, cvars, lvars>>

ObjInit ==
  /\ part \in Parts
  /\ LD!LoaderInit /\ (part # "loader" => file = Image(1, 1, <<>>))
  /\ Init      /\ (part # "store" => \A i \in 1..ArenaCap : arena[i] = 0)
  /\ GC!GcInit /\ (part # "gc" => <<"c1", 0>> \in DOMAIN rc)
  /\ FS!CfsInit /\ UM!UMemInit /\ UC!UCapsInit

ObjNext ==
  \/ part = "store" /\ Next         /\ UNCHANGED <<part, gvars, fvars, uvars, cvars, lvars>>
  \/ part = "gc"    /\ GC!GcNext    /\ UNCHANGED <<part, vars, fvars, uvars, cvars, lvars>>
  \/ part = "cfs"   /\ FS!CfsNext   /\ UNCHANGED <<part, vars, gvars, uvars, cvars, lvars>>
  \/ part = "umem"  /\ UM!UMemNext  /\ UNCHANGED <<part, vars, gvars, fvars, cvars, lvars>>
  \/ part = "ucaps" /\ UC!UCapsNext /\ UNCHANGED <<part, vars, gvars, fvars, uvars, lvars>>
  \/ part = "loader" /\ LD!LoaderNext /\ UNCHANGED <<part, vars, gvars, fvars, uvars, cvars>>

ObjSpec == ObjInit /\ [][ObjNext]_allvars

(* Storage with a holder is never on the free list, and is what its holder stored. *)
LiveBlocksKept == part = "gc" => GC!LiveBlocksKept
(* Every tree a caller pins is there down to its files, and cfs_diff prunes nothing
   that differs. *)
VersionsKept == part = "cfs" => FS!TreesKept /\ FS!DiffExact
(* Neither allocator gives out a byte twice, and every capability names what its
   process could have been given. *)
GrantsApart == (part = "umem" => UM!RegionsApart) /\ (part = "ucaps" => UC!CapsBacked)
(* elf_parse lets no image through that reaches outside itself, and every process
   sees the image it was loaded from. *)
LoadSound == part = "loader" => LD!LoadSound
=============================================================================
