---------------------------- MODULE MCProcesses ----------------------------
(* The versioned capability slot and the processes, one part at a time:
   a behaviour is of the part ProcInit chooses, and the variables of the others
   stay as they are.

   vgate: an object of three bytes ending at the top of a four-word memory under a
   ceiling with one permission too few for some of the requests, and one that no
   request may have; the stale stack contents of buf[1] are any capability. *)
EXTENDS VGate, Sequences

VARIABLES part,
          stage, cp, mode, cur, park_at, free, mem, images, pins, fa_on, done, lost, leaked, since, thrash,
          tstage, cap, proc, pool, pages, records, spacers, want, gone, tleaked,
          words, rsp, store, parked, root, back, blob, last, have_last, refused

CONSTANT Parts

MCHash    == {"obj"}
MCCeiling == [base |-> 1, length |-> 3, perms |-> {"LOAD", "STORE", "SEAL"}, valid |-> TRUE]
MCRegion  == [object_cap |-> MCCeiling, object_base_addr |-> 1, object_length |-> 3, hash |-> "obj"]
MCRequests ==
  [referent_hash : {"obj"}, offset : {0, 1}, length : {1, 2, 3},
   perms : {{"LOAD"}, {"LOAD", "STORE"}, {"LOAD", "SEAL"}, {"EXECUTE"}},
   version_ok : {TRUE}, unsealed : {TRUE}, referent_valid : {TRUE}]

(* conc: two processes of two writes over five frames, images for three *)
CP == INSTANCE ConcProc WITH
        NProc <- 2, Target <- 2, ParkAt <- {0, 1}, POOL <- 5, PRESSURE_LO <- 1, COOLDOWN_BUDGET <- 2,
        REUSE_HOT <- 2, GRANT_CAP <- 2, StoreCap <- 3, StackResidue <- FALSE, MaxTax <- 2

(* task: six frames, and each store or the page-table frames running out *)
Caps == {[rm |-> 12, ts |-> 30, pt |-> 14], [rm |-> 3, ts |-> 30, pt |-> 14],
         [rm |-> 12, ts |-> 6, pt |-> 14], [rm |-> 12, ts |-> 30, pt |-> 10]}
TK == INSTANCE TaskState WITH
        Proc <- {1, 2}, Writer <- 1, FRAMES <- 6, MaxRun <- 1, MaxLeak <- 1,
        stage <- tstage, leaked <- tleaked

(* activate: a stack of two words, two chunks of state, two objects put by hand *)
Made(r, u, bs) == [rsp |-> r, used |-> u, len |-> Len(bs), bytes |-> bs]
AC == INSTANCE Activate WITH
        STACK <- 2, Guard <- 2, Word <- {"a", "b"}, Junk <- "j", Chunk <- {1, 2}, StoreCap <- 5,
        Foreign <- {Made(4, 1, <<"a">>), Made(2, 2, <<"a", "a">>)}, mem <- words

pvars == <<stage, cp, mode, cur, park_at, free, mem, images, pins, fa_on, done, lost, leaked, since, thrash>>
tvars == <<tstage, cap, proc, pool, pages, records, spacers, want, gone, tleaked>>
avars == <<words, rsp, store, parked, root, back, blob, last, have_last, refused>>
allvars == <<part, vgvars, pvars, tvars, avars>>

ProcInit ==
  /\ part \in Parts
  /\ VGateInit    /\ (part # "vgate" => buf[1] = buf[0] /\ buf[0].length = 3 /\ buf[0].perms = {"LOAD"})
  /\ CP!ConcInit  /\ (part # "conc" => stage = "conc")
  /\ TK!TaskInit  /\ (part # "task" => tstage = "ts" /\ cap.rm = 3)
  /\ AC!ActivateInit

ProcNext ==
  \/ part = "vgate"    /\ VGateNext       /\ UNCHANGED <<part, pvars, tvars, avars>>
  \/ part = "conc"     /\ CP!ConcNext     /\ UNCHANGED <<part, vgvars, tvars, avars>>
  \/ part = "task"     /\ TK!TaskNext     /\ UNCHANGED <<part, vgvars, pvars, avars>>
  \/ part = "activate" /\ AC!ActivateNext /\ UNCHANGED <<part, vgvars, pvars, tvars>>

ProcSpec == ProcInit /\ [][ProcNext]_allvars

(* conc_dematerialize and conc_rematerialize lose nothing a process has done. *)
ProgressSurvives == part = "conc" => CP!ProgressSurvives
(* The frame pool holds every frame no process has. *)
FramesAccounted == part = "conc" => CP!FramesAccounted
(* should_dematerialize lets no process be parked again within its backoff. *)
BackoffBoundsThrash == part = "conc" => CP!BackoffBoundsThrash
(* A process rebuilt from its task hash is the one that was taken down, and a page
   shared by two of them is one frame that outlives the first to go. *)
TaskStateExact == part = "task" => TK!TaskRoundTrip /\ TK!SharedOneFrame
(* A task comes back as it was parked, whatever its store refused, and an
   incremental capture leaves out nothing that changed. *)
BackByHash == part = "activate" => AC!BackAsParked /\ AC!IncrementalCovers
=============================================================================
