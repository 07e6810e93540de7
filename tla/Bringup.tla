-------------------------------- MODULE Bringup --------------------------------
(***************************************************************************)
(* From the booter's first call to the last core that waits for work:      *)
(* booter_main (Booter) hands over to the kernel, whose boot core, in      *)
(* processor::initialize, reads the ACPI tables (Acpi), sets up its local  *)
(* controller (LocalApic), starts the other cores (SmpBoot) and gives      *)
(* parallel_execute its vectors.  Each core that has come out of the       *)
(* trampoline then waits for _ready, and enables its own controller.       *)
(***************************************************************************)
EXTENDS Booter, Acpi, SmpBoot, LocalApic

CONSTANTS Default,   \* bound: the machine whose kernel is followed
          FollowedCores  \* bound: the cores of a machine whose interrupts are followed

bringupVars == <<booterVars, acpiVars, smpVars, lapicVars>>

\* One of the memory map and the firmware's tables is the usual one.
BringupInit == /\ BooterInit /\ AcpiInit /\ SmpInit /\ LapicInit
               /\ machine = Default \/ fw = CHOOSE f \in Firmware : TRUE

\* call_kernel: what the booter knew ends with it; HandedOver says what it leaves.
CallKernel == /\ At("call_kernel") /\ machine = Default
              /\ line' = <<"kernel", 1>> /\ mem' = MemInit /\ UNCHANGED machine
KernelRuns == line[1] = "kernel"

\* parse_madt, then lapic::initialize.
LapicInitialize == at[1] = "parsed" /\ Initialize1

\* processor::initialize calls smp::boot(_cores + 1, _num_cores - 1).
SmpBoot1 == /\ at[1] = "done" /\ acpiFault = None /\ stage = "smp"
            /\ \E gone \in SUBSET {cores[k].apic : k \in 2..Len(cores)} :
                 Boot([k \in 1..(Len(cores) - 1) |-> cores[k + 1].apic], gone)

\* smp::initialize_parallel, _ready = true.
GetReady == pc = "ready" /\ InitializeParallel

\* ap_initialize of a core that has left the trampoline: it looks for itself in _cores.
KnownCores == {cores[1].apic} \cup {order[k].core : k \in 1..Len(order)}
CoreInitialize == \E c \in Aps : ap[c].do = "ap_initialize" /\ ApInitialize1(c, KnownCores)

BringupNext ==
  \/ (BooterNext \/ CallKernel) /\ UNCHANGED <<acpiVars, smpVars, lapicVars>>
  \/ /\ KernelRuns /\ UNCHANGED booterVars
     /\ \/ AcpiNext /\ (at[1] = "parsed" => stage # "boot") /\ UNCHANGED <<smpVars, lapicVars>>
        \/ (LapicInitialize \/ GetReady \/ CoreInitialize) /\ UNCHANGED <<acpiVars, smpVars>>
        \/ CoreStep /\ Len(cores) <= FollowedCores /\ UNCHANGED <<acpiVars, smpVars>>
        \/ (SmpBoot1 \/ SmpNext) /\ UNCHANGED <<acpiVars, lapicVars>>

\* The boot core and the cores that it starts go on.
BringupFairness == /\ SmpFairness /\ LapicFairness
                   /\ WF_bringupVars(GetReady /\ UNCHANGED <<booterVars, acpiVars, smpVars>>)
                   /\ WF_bringupVars(CoreInitialize /\ UNCHANGED <<booterVars, acpiVars, smpVars>>)
BringupSpec == BringupInit /\ [][BringupNext]_bringupVars /\ BringupFairness

------------------------------------------------------------------------------
(* Properties                                                              *)

\* Boot ends whichever cores are dead and whatever the counters wrap to, and every core that
\* was kept then enables its controller, so that a broadcast finds it.  Only a core that does
\* not find itself stops the kernel before: one behind a dead one, or any when an xAPIC's id is
\* read without the shift.
EveryCoreOnline ==
  pc = "batch" ~> \/ stage = "ready" /\ \A c \in Kept : apic[c].enabled
                  \/ halted # "no" /\ (dead # {} \/ kind = "xapic")

\* processor.cpp:192, get_core's panic: a core that runs ap_initialize finds itself in the
\* array of cores by the id that its controller reads.
CoreIsKnown == halted # "requested core with unknown APIC ID!"
==============================================================================
