------------------------------- MODULE Loader -------------------------------
(* kernel/kernel.c, the process loader (L0-L4): elf_parse checks an image,
   run_loader stores the bytes of every loadable segment, ld_materialize builds a
   process from them.  A read-only segment is the resident frame of its hash,
   shared by all processes; a writable one is a private copy.  Both get the tail
   behind the file's bytes zeroed.

   Offsets and sizes are words: the arithmetic of elf_parse is modulo Word (2^64).
   The bytes of a segment are named by the range of the file they come from, and a
   frame by the range it was filled with (body) and by what follows (tail). *)
EXTENDS Integers, Sequences, FiniteSets, SequencesExt

CONSTANTS Word, FrameSize,   \* 2^64, 4096
          PhdrSize,          \* 56
          MaxSeg,            \* LD_MAXSEG
          Files,             \* images: length, program header table, its entries
          Frames, Proc

VARIABLES file,              \* the embedded image
          frame,             \* the pool: body, tail, reference count, hash
          proc,              \* the loaded (or refused) processes
          dry,               \* falloc has run out of pages: a bump allocator, for good
          wrote              \* history: the pages a process has stored to

lvars == <<file, frame, proc, dry, wrote>>
-----------------------------------------------------------------------------
(* elf_parse accepts a file, and then returns its loadable segments.  Sums never appear: the checks are
   in subtraction form, which does not wrap once off <= len is known. *)
AddForm(off, size, len) == ~((off + size) % Word > len)  \* mutant
InRange(off, size, len) == ~(off > len \/ size > (len - off) % Word)

Loadable(f) == SelectSeq(f.ph, LAMBDA s : s.type = "PT_LOAD")
elf_parse(f) ==
  LET segs == Loadable(f)
  IN  /\ f.valid /\ f.phentsize >= PhdrSize
      /\ InRange(f.phoff, (Len(f.ph) * f.phentsize) % Word, f.len)
      /\ Len(segs) <= MaxSeg
      /\ \A i \in DOMAIN segs :
           /\ InRange(segs[i].off, segs[i].filesz, f.len)
           /\ segs[i].filesz <= segs[i].memsz /\ segs[i].memsz <= FrameSize

None     == <<>>
Bytes(s) == <<s.off, s.filesz>>
Free     == [body |-> None, tail |-> "junk", ref |-> 0, hash |-> None]
Unloaded == [status |-> "none", map |-> <<>>]

LoaderInit ==
  /\ file \in Files
  /\ frame = [f \in Frames |-> Free]
  /\ proc = [p \in Proc |-> Unloaded]
  /\ dry = FALSE /\ wrote = [p \in Proc |-> {}]
-----------------------------------------------------------------------------
(* The steps of ld_materialize, on m: the pool, the page table so far, the mm_map
   calls that will still find a page, and whether the load goes on.  What a failed
   load has taken is not given back. *)
Fail(m)      == [m EXCEPT !.ok = FALSE]
Unused(m)    == {f \in Frames : m.frame[f].ref = 0}
Resident(m, h) == {f \in Frames : m.frame[f].ref > 0 /\ m.frame[f].hash = h}

Fill(m, f, s, h) ==    \* a reserved frame keeps the junk of its last user behind the bytes
  [m EXCEPT !.frame[f] = [body |-> Bytes(s), tail |-> "junk", ref |-> 1, hash |-> h], !.at = f]
frame_reserve(m, s, h) ==
  IF Unused(m) = {} THEN Fail(m) ELSE Fill(m, CHOOSE f \in Unused(m) : TRUE, s, h)
rm_materialize(m, s) ==
  IF Resident(m, Bytes(s)) = {} THEN frame_reserve(m, s, Bytes(s))
  ELSE LET f == CHOOSE f \in Resident(m, Bytes(s)) : TRUE
       IN  [m EXCEPT !.frame[f].ref = @ + 1, !.at = f]
ZeroTail(m, s) ==
  IF m.ok /\ s.memsz > s.filesz THEN [m EXCEPT !.frame[m.at].tail = "zero"] ELSE m
mm_map(m, va, w) ==
  CASE ~m.ok      -> m
    [] m.maps = 0 -> [Fail(m) EXCEPT !.dry = TRUE]
    [] OTHER      -> [m EXCEPT !.maps = @ - 1,
                               !.map = Append(SelectSeq(@, LAMBDA e : e.va # va),
                                              [va |-> va, f |-> m.at, w |-> w])]

LoadSharing(m, s) ==   \* mutant
  IF ~m.ok \/ (s.w /\ s.x) THEN Fail(m)
  ELSE mm_map(ZeroTail(rm_materialize(m, s), s), s.va, s.w)
LoadSegment(m, s) ==
  IF ~m.ok \/ (s.w /\ s.x) THEN Fail(m)      \* W^X: refuse the load
  ELSE mm_map(ZeroTail(IF s.w THEN frame_reserve(m, s, None) ELSE rm_materialize(m, s), s),
              s.va, s.w)

StackVa == 0                                  \* LD_STACK_VA
Stack   == [off |-> None, filesz |-> None]    \* no bytes: whatever the frame held
LoadStack(m) ==
  IF m.ok THEN mm_map(frame_reserve(m, Stack, None), StackVa, TRUE) ELSE m

(* ld_materialize for process p.  maps: how many of the mm_map calls find the pages
   for the tables they need.  Without a page there is no address space at all. *)
Load(p, maps) ==
  /\ proc[p].status = "none" /\ elf_parse(file) /\ Loadable(file) # <<>>
  /\ IF dry THEN proc' = [proc EXCEPT ![p].status = "failed"] /\ UNCHANGED <<frame, dry>>
     ELSE LET start == [frame |-> frame, map |-> <<>>, maps |-> maps, at |-> None,
                        dry |-> FALSE, ok |-> TRUE]
              m == LoadStack(FoldLeft(LoadSegment, start, Loadable(file)))
          IN  /\ frame' = m.frame /\ dry' = m.dry
              /\ proc' = [proc EXCEPT ![p] = [status |-> IF m.ok THEN "loaded" ELSE "failed",
                                              map |-> m.map]]
  /\ UNCHANGED <<file, wrote>>

(* a loaded process runs in ring 3 and stores to a page it may write *)
Store(p, i) ==
  /\ proc[p].status = "loaded" /\ i \in DOMAIN proc[p].map /\ proc[p].map[i].w
  /\ frame' = [frame EXCEPT ![proc[p].map[i].f].body = <<p>>]
  /\ wrote' = [wrote EXCEPT ![p] = @ \cup {proc[p].map[i].va}]
  /\ UNCHANGED <<file, proc, dry>>

LoaderNext ==
  \E p \in Proc : \/ \E maps \in 0..(MaxSeg + 1) : Load(p, maps)
                  \/ \E i \in 1..(MaxSeg + 1) : Store(p, i)
-----------------------------------------------------------------------------
(* An image is accepted exactly when, counted without wrap-around, its header table
   and the bytes of every loadable segment lie inside it and a segment fits a
   frame: elf_parse and run_loader then read nothing outside the image. *)
ParseSafe ==
  LET segs == Loadable(file)
      Inside(off, size) == off + size <= file.len
  IN  elf_parse(file) <=>
        /\ file.valid /\ file.phentsize >= PhdrSize /\ Len(segs) <= MaxSeg
        /\ Inside(file.phoff, Len(file.ph) * file.phentsize)
        /\ \A i \in DOMAIN segs : /\ Inside(segs[i].off, segs[i].filesz)
                                  /\ segs[i].memsz \in segs[i].filesz..FrameSize

(* Every loaded process sees its own image, whatever the others load and store and
   however many loads fail half-way: every segment is mapped, writable only if it is
   not code, with the file's bytes (until the process itself stores there) and
   zeros behind them; no other process can write what it sees. *)
Sees(p, s) ==
  \E i \in DOMAIN proc[p].map :
    LET e == proc[p].map[i]
    IN  /\ e.va = s.va /\ e.w = s.w /\ ~(e.w /\ s.x)
        /\ s.va \notin wrote[p] => frame[e.f].body = Bytes(s)
        /\ s.memsz > s.filesz => frame[e.f].tail = "zero"
        /\ e.w => \A q \in Proc : \A j \in DOMAIN proc[q].map :
                    proc[q].map[j].f = e.f => q = p /\ j = i
ImageSeen ==
  \A p \in Proc : proc[p].status = "loaded" =>
    \A i \in DOMAIN Loadable(file) : Sees(p, Loadable(file)[i])

LoadSound == ParseSafe /\ ImageSeen
=============================================================================
