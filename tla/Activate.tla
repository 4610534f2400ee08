------------------------------ MODULE Activate ------------------------------
(***************************************************************************)
(* Activation by hash (kernel.c STEP 12, U0-U4): a parked task is put into *)
(* the store as its stack pointer and the used part of its stack, its live *)
(* form is scribbled over, and it is restored from the hash alone.  Beside *)
(* it, the incremental form of U2: a state blob whose changed chunks are   *)
(* the only ones stored again.                                             *)
(*                                                                         *)
(* Memory is the words 0..STACK+Guard; the task's stack is 1..STACK, its   *)
(* top STACK+1.  The store also holds objects no task was saved as.        *)
(***************************************************************************)
EXTENDS Integers, Sequences, FiniteSets

CONSTANTS STACK, Guard,  \* words of the stack, and of the memory behind it
          Word,          \* contents of a word
          Junk,          \* what the live form is scribbled with
          Foreign,       \* objects put into the store by hand (F-U1)
          Chunk,         \* the chunks of the state blob
          StoreCap       \* objects the store takes

VARIABLES mem,      \* word -> contents
          rsp,      \* saved stack pointer, 0 when dropped
          store,    \* the objects in u_store
          parked,   \* the object the parked task is, ghost
          root,     \* the object H names, or NoObj after a refused put
          back,     \* the object the task was restored from since, or NoObj
          blob, last, have_last,
          refused   \* some put was refused: its hash is not one of an object

avars == <<mem, rsp, store, parked, root, back, blob, last, have_last, refused>>

Top   == STACK + 1
Space == 0..(STACK + Guard)
NoObj == [rsp |-> 0, used |-> 0, len |-> 0, bytes |-> <<>>]
Image(r, used, bytes) == [rsp |-> r, used |-> used, len |-> Len(bytes), bytes |-> bytes]

(* u_serialize: the words from rsp up to the top. *)
u_serialize ==
  LET used == IF Top - rsp > STACK THEN STACK ELSE Top - rsp
  IN  Image(rsp, used, [i \in 1..used |-> mem[rsp + i - 1]])

Stored(o) == [chunk |-> -1, obj |-> o]
ChunkOf(c, v) == [chunk |-> c, obj |-> Image(0, 0, <<v>>)]
Takes(n) == Cardinality(store) + n <= StoreCap

ActivateInit ==
  /\ mem = [a \in Space |-> Junk]
  /\ rsp = Top
  /\ store = {Stored(f) : f \in Foreign}
  /\ parked = NoObj /\ root = NoObj /\ back = NoObj
  /\ blob = [c \in Chunk |-> Junk] /\ last = blob /\ have_last = FALSE
  /\ refused = FALSE

(* The task runs from kmain to its park(): its frame is below the top. *)
Park(r, words) ==
  /\ parked = NoObj
  /\ rsp' = r
  /\ mem' = [a \in Space |-> IF a \in r..STACK THEN words[a] ELSE mem[a]]
  /\ parked' = Image(r, Top - r, [i \in 1..(Top - r) |-> words[r + i - 1]])
  /\ back' = NoObj /\ root' = NoObj
  /\ UNCHANGED <<store, blob, last, have_last, refused>>

(* The result of the put is not looked at. *)
dematerialize ==
  LET o == u_serialize IN
  /\ parked # NoObj /\ rsp # 0
  /\ IF Stored(o) \in store \/ Takes(1)
     THEN store' = store \cup {Stored(o)} /\ root' = o /\ UNCHANGED refused
     ELSE root' = NoObj /\ refused' = TRUE /\ UNCHANGED store
  /\ UNCHANGED <<mem, rsp, parked, back, blob, last, have_last>>

(* U1 scribbles the stack, U4 also zeroes the saved pointer. *)
Drop ==
  /\ parked # NoObj /\ root = parked
  /\ mem' = [a \in Space |-> IF a \in 1..STACK THEN Junk ELSE mem[a]]
  /\ rsp' \in {rsp, 0}
  /\ back' = NoObj
  /\ UNCHANGED <<store, parked, root, blob, last, have_last, refused>>

(* Mutant: the pointer is in the stack; where the copied range ends is not asked. *)
ByStart(o) == Stored(o) \in store /\ o.used <= STACK /\ o.len = o.used /\ o.rsp \in 1..Top

(* materialize: malformed objects and ranges outside the stack fail closed. *)
Restorable(o) == Stored(o) \in store /\ o.used <= STACK /\ o.len = o.used
                 /\ o.rsp \in 1..Top /\ o.used <= Top - o.rsp

materialize(o) ==
  /\ parked # NoObj
  /\ IF Restorable(o)
     THEN /\ mem' = [a \in Space |-> IF a \in o.rsp..(o.rsp + o.used - 1)
                                     THEN o.bytes[a - o.rsp + 1] ELSE mem[a]]
          /\ rsp' = o.rsp /\ back' = o
     ELSE UNCHANGED <<mem, rsp, back>>
  /\ UNCHANGED <<store, parked, root, blob, last, have_last, refused>>

(* The task is switched to and runs to its end. *)
Finish ==
  /\ parked # NoObj /\ rsp # 0 /\ u_serialize = parked
  /\ parked' = NoObj /\ root' = NoObj /\ back' = NoObj
  /\ UNCHANGED <<mem, rsp, store, blob, last, have_last, refused>>

-----------------------------------------------------------------------------
(* u_dirty_chunks flips a chunk, then dematerialize_incremental over the whole blob. *)
Dirty(c) ==
  /\ parked = NoObj
  /\ blob' = [blob EXCEPT ![c] = IF @ = Junk THEN CHOOSE v \in Word : v # Junk ELSE Junk]
  /\ UNCHANGED <<mem, rsp, store, parked, root, back, last, have_last, refused>>

DirtySet == {c \in Chunk : ~have_last \/ blob[c] # last[c]}

dematerialize_incremental ==
  LET puts == {ChunkOf(c, blob[c]) : c \in DirtySet} IN
  /\ parked = NoObj
  /\ \E kept \in SUBSET puts :
       /\ kept = puts \/ (Cardinality(store \cup kept) = StoreCap /\ ~(puts \subseteq store))
       /\ Cardinality(store \cup kept) <= StoreCap
       /\ puts \cap store \subseteq kept
       /\ store' = store \cup kept
       /\ refused' = (refused \/ kept # puts)
  /\ last' = blob /\ have_last' = TRUE
  /\ UNCHANGED <<mem, rsp, parked, root, back, blob>>

ActivateNext ==
  \/ \E r \in 1..STACK : \E w \in [r..STACK -> Word] : Park(r, w)
  \/ dematerialize \/ Drop \/ Finish
  \/ \E s \in store : s.chunk = -1 /\ materialize(s.obj)
  \/ materialize(root)
  \/ \E c \in Chunk : Dirty(c)
  \/ dematerialize_incremental

ActivateSpec == ActivateInit /\ [][ActivateNext]_avars

-----------------------------------------------------------------------------
(* Back by hash is back as parked: when the task's own object is restored, *)
(* what a switch to it would resume is exactly what was parked, however    *)
(* the live form was scribbled over in between; and no restore, of a       *)
(* malformed object or of one whose range leaves the stack, writes outside *)
(* the stack of the task.                                                  *)
BackAsParked ==
  /\ \A a \in Space \ (1..STACK) : mem[a] = Junk
  /\ parked # NoObj /\ root = parked => Restorable(root)
  /\ parked # NoObj /\ back = parked => u_serialize = parked

(* Storing only the changed chunks loses none: unless the store refused    *)
(* one, every chunk of the blob as last saved is in the store.             *)
IncrementalCovers ==
  have_last /\ ~refused => \A c \in Chunk : ChunkOf(c, last[c]) \in store
=============================================================================
