--------------------------------- MODULE Smp ---------------------------------
(***************************************************************************)
(* Bringing up the processors (kernel/src/smp.rs): the first one installs  *)
(* its per-CPU block, starts the others and waits until all have reported; *)
(* each of them takes the next dense index, with the tables and the block  *)
(* of that index.  A processor is its LAPIC id.                            *)
(***************************************************************************)
EXTENDS Naturals, FiniteSets

CONSTANTS
    Lapics, Bsp,    \* the processors the firmware lists; the one that boots
    MAX_CPUS,       \* at least as many: one more ends in an assertion of ap_entry
    None

VARIABLES
    pc,             \* processor -> "off", "entry", "tables", "percpu", "report", "sched";
                    \* the first: "install", "start", "sched"
    index,          \* processor -> its index
    gs,             \* processor -> the block its GS base points at
    PER_CPU,        \* index -> LAPIC id of the owner
    gdt,            \* index -> the processors that loaded the tables of that index
    NEXT_INDEX, CPUS_ONLINE, CPU_COUNT

vars == <<pc, index, gs, PER_CPU, gdt, NEXT_INDEX, CPUS_ONLINE, CPU_COUNT>>

Init ==
    /\ pc = [l \in Lapics |-> IF l = Bsp THEN "install" ELSE "off"]
    /\ index = [l \in Lapics |-> 0]
    /\ gs = [l \in Lapics |-> None]
    /\ PER_CPU = [i \in 0..MAX_CPUS - 1 |-> None]
    /\ gdt = [i \in 0..MAX_CPUS - 1 |-> IF i = 0 THEN {Bsp} ELSE {}]
    /\ NEXT_INDEX = 1 /\ CPUS_ONLINE = 0 /\ CPU_COUNT = 1

\* The block of the index: its owner, and both GS bases of the processor.
install_percpu(l, i) ==
    /\ PER_CPU' = [PER_CPU EXCEPT ![i] = l]
    /\ gs' = [gs EXCEPT ![l] = i]

\* init, up to the first processor's own report.
BspInstall ==
    /\ pc[Bsp] = "install"
    /\ CPU_COUNT' = Cardinality(Lapics)
    /\ install_percpu(Bsp, 0)
    /\ CPUS_ONLINE' = CPUS_ONLINE + 1
    /\ pc' = [pc EXCEPT ![Bsp] = "start"]
    /\ UNCHANGED <<index, gdt, NEXT_INDEX>>

\* init's loop: the others are released one by one.
Bootstrap(l) ==
    /\ pc[Bsp] = "start" /\ l # Bsp /\ pc[l] = "off"
    /\ pc' = [pc EXCEPT ![l] = "entry"]
    /\ UNCHANGED <<index, gs, PER_CPU, gdt, NEXT_INDEX, CPUS_ONLINE, CPU_COUNT>>

\* init's wait for every report.
AllReported ==
    /\ pc[Bsp] = "start" /\ \A l \in Lapics : pc[l] # "off"
    /\ CPUS_ONLINE >= Cardinality(Lapics)
    /\ pc' = [pc EXCEPT ![Bsp] = "sched"]
    /\ UNCHANGED <<index, gs, PER_CPU, gdt, NEXT_INDEX, CPUS_ONLINE, CPU_COUNT>>

\* Mistake: the counter is read here and advanced when the block is installed.
TakeIndexLate(l) ==
    /\ pc[l] = "entry"
    /\ index' = [index EXCEPT ![l] = CPUS_ONLINE]
    /\ NEXT_INDEX' = CPUS_ONLINE + 1
    /\ pc' = [pc EXCEPT ![l] = "tables"]
    /\ UNCHANGED <<gs, PER_CPU, gdt, CPUS_ONLINE, CPU_COUNT>>

\* ap_entry: fetch_add of NEXT_INDEX.
TakeIndex(l) ==
    /\ pc[l] = "entry"
    /\ index' = [index EXCEPT ![l] = NEXT_INDEX]
    /\ NEXT_INDEX' = NEXT_INDEX + 1
    /\ pc' = [pc EXCEPT ![l] = "tables"]
    /\ UNCHANGED <<gs, PER_CPU, gdt, CPUS_ONLINE, CPU_COUNT>>

\* gdt::init and idt::init.
LoadTables(l) ==
    /\ pc[l] = "tables"
    /\ gdt' = [gdt EXCEPT ![index[l]] = @ \cup {l}]
    /\ pc' = [pc EXCEPT ![l] = "percpu"]
    /\ UNCHANGED <<index, gs, PER_CPU, NEXT_INDEX, CPUS_ONLINE, CPU_COUNT>>

InstallPercpu(l) ==
    /\ pc[l] = "percpu"
    /\ install_percpu(l, index[l])
    /\ pc' = [pc EXCEPT ![l] = "report"]
    /\ UNCHANGED <<index, gdt, NEXT_INDEX, CPUS_ONLINE, CPU_COUNT>>

\* The last step of ap_entry before it becomes the CPU's idle thread.
Report(l) ==
    /\ pc[l] = "report"
    /\ CPUS_ONLINE' = CPUS_ONLINE + 1
    /\ pc' = [pc EXCEPT ![l] = "sched"]
    /\ UNCHANGED <<index, gs, PER_CPU, gdt, NEXT_INDEX, CPU_COUNT>>

Step(l) ==
    \/ Bootstrap(l) \/ TakeIndex(l) \/ LoadTables(l) \/ InstallPercpu(l) \/ Report(l)

Next == BspInstall \/ AllReported \/ \E l \in Lapics : Step(l)

\* Every processor that was started runs.
Fairness == WF_vars(BspInstall \/ AllReported) /\ \A l \in Lapics : WF_vars(Step(l))
Spec == Init /\ [][Next]_vars /\ Fairness

----------------------------------------------------------------------------
(* Properties. *)

Up ==
    /\ CPUS_ONLINE = CPU_COUNT
    /\ \A l \in Lapics : /\ pc[l] = "sched" /\ gs[l] = index[l]
                         /\ PER_CPU[index[l]] = l /\ gdt[index[l]] = {l}

\* In the end all processors run the scheduler, and no two of them share an index,
\* a per-CPU block or a GDT, in whatever order they start (init, ap_entry,
\* install_percpu).
CpusComeUp == <>[]Up

=============================================================================
