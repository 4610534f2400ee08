----------------------------- MODULE ContentMap -----------------------------
(* What the object store promises (store/cvsasx_store.h): a map from content
   addresses to immutable contents.  A content is either there, and a get of
   its address returns exactly it, or it is not; nothing is ever overwritten.
   The store may refuse a content it does not hold yet (FULL), for reasons a
   client cannot see.  ObjectStore is shown to implement this module. *)
CONSTANTS Contents, Hash(_)

VARIABLES present, ret

Reply(st, h, b) == [st |-> st, hash |-> h, bytes |-> b]
NoBytes         == <<>>
NoHash          == "none"

Init == /\ present = {}
        /\ ret = Reply("INIT", NoHash, NoBytes)

Put(c) ==
  \/ /\ present' = present \cup {c}
     /\ ret' = Reply("OK", Hash(c), NoBytes)
  \/ /\ c \notin present
     /\ ret' = Reply("FULL", NoHash, NoBytes)
     /\ UNCHANGED present

Get(h) ==
  /\ UNCHANGED present
  /\ \/ \E c \in present : Hash(c) = h /\ ret' = Reply("OK", h, c)
     \/ (\A c \in present : Hash(c) # h) /\ ret' = Reply("MISS", h, NoBytes)

Exists(h) ==
  /\ UNCHANGED present
  /\ ret' = Reply(IF \E c \in present : Hash(c) = h THEN "YES" ELSE "NO", h, NoBytes)

Reset == present' = {} /\ ret' = Reply("INIT", NoHash, NoBytes)

Next == \/ \E c \in Contents : Put(c) \/ Get(Hash(c)) \/ Exists(Hash(c))
        \/ Reset

Spec == Init /\ [][Next]_<<present, ret>>
=============================================================================
