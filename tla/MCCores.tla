------------------------------ MODULE MCCores ------------------------------
(* What runs beside the boot's own thread, one part at a time: the virtio disk, the
   NVMe controller, the second core and the preemptive tasks.  A behaviour is of the
   part CoresInit chooses, and the variables of the others stay as they are. *)
EXTENDS Vblk, Nvme, Smp, Sched

VARIABLE part
CONSTANT Parts

(* sched: P0 with a third task, P1, and P2 under the timer *)
Rounds(x, y, z) == [i \in 0..2 |-> CASE i = 0 -> x [] i = 1 -> y [] i = 2 -> z]
CoresDemos == {[n |-> 3, rounds |-> Rounds(1, 2, 1), yields |-> TRUE,  timer |-> FALSE],
               [n |-> 2, rounds |-> Rounds(1, 3, 0), yields |-> TRUE,  timer |-> FALSE],
               [n |-> 2, rounds |-> Rounds(3, 3, 0), yields |-> FALSE, timer |-> TRUE]}

allvars == <<part, vars, nvme_vars, svars, hvars>>

CoresInit ==
  /\ part \in Parts
  /\ Init      /\ (part # "disk" => vio_has_flush)
  /\ NvmeInit
  /\ SmpInit   /\ (part # "smp" => bsp = 0)
  /\ SchedInit /\ (part # "sched" => demo.n = 3)

CoresNext ==
  \/ part = "disk"  /\ Next      /\ UNCHANGED <<part, nvme_vars, svars, hvars>>
  \/ part = "nvme"  /\ NvmeNext  /\ UNCHANGED <<part, vars, svars, hvars>>
  \/ part = "smp"   /\ SmpNext   /\ UNCHANGED <<part, vars, nvme_vars, hvars>>
  \/ part = "sched" /\ SchedNext /\ UNCHANGED <<part, vars, nvme_vars, svars>>

(* Both cores run, and so does the tasks' one. *)
BspRuns == /\ part = "smp" /\ (BspStep \/ JobStep("bsp") \/ isr_ipi("bsp"))
           /\ UNCHANGED <<part, vars, nvme_vars, hvars>>
ApRuns  == /\ part = "smp" /\ (ApStep \/ JobStep("ap") \/ isr_ipi("ap"))
           /\ UNCHANGED <<part, vars, nvme_vars, hvars>>
CpuRuns == part = "sched" /\ CpuStep /\ UNCHANGED <<part, vars, nvme_vars, svars>>

CoresSpec ==
  /\ CoresInit /\ [][CoresNext]_allvars
  /\ WF_allvars(BspRuns) /\ WF_allvars(ApRuns) /\ WF_allvars(CpuRuns)

(* The boot goes on behind U-3, with the second core parked. *)
BootEnds == part # "smp" \/ BootGoesOn
(* start_tasks returns with every task done. *)
DemosEnd == part # "sched" \/ BackInMain
=============================================================================
