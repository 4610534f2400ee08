---------------------------- MODULE MCLibraries ----------------------------
(* The libraries beside the kernel, one at a time: a behaviour is of the part
   LibInit chooses, and the variables of the others stay as they are.  Words are
   small, so that the ends of the address space and of an object are near.

   deleg: two nodes and one object of three bytes in an eight-word memory, so
   that a capability can end at the top of memory.  The regions differ in placement
   and permissions, and one is not bounded to its object. *)
EXTENDS Delegation, Sequences, TLC

VARIABLES part,
          hw, sw, at, window,
          mem, n_chunks, n_leaves, node, leaf_dirty, committed, valid,
          objects, diff,
          phase, have, n_locals, code, fast_code, size, plain, fast,
          degree, h, fed

CONSTANT Parts

MkCap(b, l, ps) == [base |-> b, length |-> l, perms |-> ps, valid |-> TRUE]
MkRegion(b, l, olen, ps) ==
  [object_cap |-> MkCap(b, l, ps), object_base_addr |-> b, object_length |-> olen,
   hash |-> "obj"]
MkPir(o, l, ps, u) ==
  [referent_hash |-> "obj", offset |-> o, length |-> l, perms |-> ps,
   version_ok |-> TRUE, unsealed |-> u, referent_valid |-> TRUE]

NodeSymmetry == Permutations(Node)

MCHash    == {"obj", "other"}
MCRoots   == {MkCap(0, 7, Perm), MkCap(4, 4, {"LOAD", "STORE", "EXECUTE"}), NullCap}
MCRegions == {MkRegion(1, 3, 3, Perm), MkRegion(5, 3, 3, {"LOAD", "STORE", "EXECUTE"}),
              MkRegion(4, 3, 3, {"LOAD"}), MkRegion(4, 4, 3, {"LOAD", "STORE"}),
              [MkRegion(1, 3, 3, Perm) EXCEPT !.hash = "other"]}
MCPresented ==
  {MkPir(o, l, ps, TRUE) : o \in {0, 2}, l \in {1, 3},
                           ps \in {{"LOAD", "STORE"}, {"STORE_CAP", "EXECUTE"}, {"LOAD", "EXECUTE"}}}
    \cup {MkPir(0, l, {"LOAD"}, TRUE) : l \in {0, 1}}
    \cup {MkPir(0, 1, {"LOAD", "SEAL"}, TRUE), MkPir(0, 1, {"LOAD"}, FALSE)}

(* cap/: an address space of 8; bounds over two bytes are representable when
   both ends are even *)
ExactBounds(base, length) == length <= 2 \/ (base % 2 = 0 /\ length % 2 = 0)
HW == INSTANCE HwCap WITH
        WordMod <- 8, Hash <- {"obj"}, ObjLen <- 4, Places <- {0, 3, 4},
        LocalPerms <- {{"LOAD"}, {"LOAD", "STORE"}, {"LOAD", "EXECUTE"}, {"STORE_CAP", "EXECUTE"}, {"LOAD", "SYS"}},
        Exact <- ExactBounds

(* store/epoch_tree.c: up to four chunks of two bytes *)
ET == INSTANCE EpochTree WITH
        MemLens <- {0, 1, 3, 5, 9}, CHUNK_SIZE <- 2, MAX_CHUNKS <- 4, Byte <- {0, 1}, MaxWrite <- 3

(* sls/: four objects, nodes of up to two children *)
SL == INSTANCE Sls WITH
        Data <- {"a", "b"}, StoreSlots <- 4, MAX_CHILDREN <- 2, MAX_DEPTH <- 2, DIFF_MAX <- 3, OutCap <- 2

(* gate/: words of two one-bit bytes, three bytes of memory *)
GT == INSTANCE Gate WITH
        BYTE_MOD <- 2, WORD_BYTES <- 2, Consts <- {0, 1}, Offsets <- {1}, Args <- {3},
        Binary <- {"ADD"}, MemSizes <- {0, 3}, STACK_MAX <- 3, CodeCap <- 4

(* store/blake3: blocks of two bytes, chunks of two blocks, up to eleven chunks, a
   portable build and one that hashes four inputs at a time *)
B3 == INSTANCE Blake3 WITH
        BLOCK_LEN <- 2, CHUNK_LEN <- 4, MAX_DEPTH <- 4, Degrees <- {1, 4}, MaxLen <- 44

hvars == <<hw, sw, at, window>>
evars == <<mem, n_chunks, n_leaves, node, leaf_dirty, committed, valid>>
svars == <<objects, diff>>
gvars == <<phase, have, n_locals, code, fast_code, size, plain, fast>>
bvars == <<degree, h, fed>>
allvars == <<part, vars, hvars, evars, svars, gvars, bvars>>

LibInit ==
  /\ part \in Parts
  /\ Init /\ HW!HwInit /\ SL!SlsInit /\ GT!GateInit
  /\ ET!EpochInit /\ (part # "epoch" => mem = <<>>)
  /\ B3!BlakeInit /\ (part # "blake" => degree = 1 /\ h = B3!blake3_hasher_init)

LibNext ==
  \/ part = "deleg" /\ Next         /\ UNCHANGED <<part, hvars, evars, svars, gvars, bvars>>
  \/ part = "cap"   /\ HW!HwNext    /\ UNCHANGED <<part, vars, evars, svars, gvars, bvars>>
  \/ part = "epoch" /\ ET!EpochNext /\ UNCHANGED <<part, vars, hvars, svars, gvars, bvars>>
  \/ part = "sls"   /\ SL!SlsNext   /\ UNCHANGED <<part, vars, hvars, evars, gvars, bvars>>
  \/ part = "gate"  /\ GT!GateNext  /\ UNCHANGED <<part, vars, hvars, evars, svars, bvars>>
  \/ part = "blake" /\ B3!BlakeNext /\ UNCHANGED <<part, vars, hvars, evars, svars, gvars>>

LibSpec == LibInit /\ [][LibNext]_allvars

(* cvsasx_cap_remint gives back what the software gate would, or nothing. *)
BackendsAgree == part = "cap" => HW!BackendsAgree
(* cvsasx_epoch_commit's root is that of a full recompute. *)
IncrementalIsFull == part = "epoch" => ET!IncrementalIsFull
(* cvsasx_sls_diff loses no change between two epochs. *)
DiffCoversChange == part = "sls" => SL!DiffCoversChange
(* cvsasx_gate_optimize changes nothing a run can observe, and cvsasx_gate_exec
   finds every operand of a module cvsasx_gate_check passed. *)
ElisionSound == part = "gate" => GT!ElisionSound /\ GT!CheckedRunsOn
(* However its input is split, blake3_hasher hashes the tree of its chunks. *)
HashIsTree == part = "blake" => B3!HashIsTree
=============================================================================
