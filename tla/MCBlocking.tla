----------------------------- MODULE MCBlocking -----------------------------
(***************************************************************************)
(* What has to go on although it waits for something else, with the        *)
(* fairness of each: the disk driver (Ahci) and the Security Service's     *)
(* gate (ExecGate), the processors at boot (Smp), the boot picker (Boot).  *)
(* A behaviour is one component's, chosen in the initial state: the others *)
(* keep their variables at Idle, the driver and the gate as they start.    *)
(***************************************************************************)
EXTENDS ExecGate, Ahci

CONSTANTS
    Lapics, Bsp, MAX_CPUS,                                                      \* Smp
    TICKS, MaxKeys, MaxTries                                                    \* Boot

VARIABLES
    part,
    at, index, gs, PER_CPU, gdt, NEXT_INDEX, CPUS_ONLINE, CPU_COUNT,
    fw, step, entries, timeout, sel, default, remaining, counting, image, pcr4, keys, tries

smpVars == <<at, index, gs, PER_CPU, gdt, NEXT_INDEX, CPUS_ONLINE, CPU_COUNT>>
bootVars == <<fw, step, entries, timeout, sel, default, remaining, counting, image, pcr4, keys, tries>>
allVars == <<part, ahciVars, vars, smpVars, bootVars>>

P == INSTANCE Smp WITH pc <- at

\* Three boot options, one of them an app of the firmware's and each possibly not
\* to be offered; a disk with and without loaders; with and without a boot.conf.
Path(p) == [disk |-> TRUE, efi |-> TRUE, fwfile |-> FALSE, path |-> <<p>>]
Option(label, p, active) == [set |-> TRUE, active |-> active, whole |-> TRUE, label |-> label, dp |-> Path(p)]
Line(key, num, n, word) == [key |-> key, num |-> num, n |-> n, word |-> word]
MCFirmware ==
    [order : {<<>>, <<Option(<<"Debian">>, "d", TRUE), Option(<<"UiApp">>, "u", TRUE), Option(<<"Debian">>, "e", TRUE)>>,
              <<Option(<<"THOS">>, "self", TRUE), Option(<<"Fedora">>, "f", FALSE), Option(<<"GRUB">>, "g", TRUE)>>},
     self : {Path("self")},
     vols : {<<>>, <<{"\\thos"}>>, <<{"\\debian", "\\grub"}, {"\\thos", "\\debian"}>>},
     tpm : BOOLEAN,
     conf : {<<>>, <<Line("timeout", TRUE, 0, "")>>, <<Line("timeout", FALSE, 0, "x"), Line("default", TRUE, 7, "")>>,
             <<Line("timeout", TRUE, 1, ""), Line("default", FALSE, 0, "GRUB")>>}]
MCKnown == <<[path |-> "\\thos", label |-> <<"THOS">>], [path |-> "\\debian", label |-> <<"Debian">>],
             [path |-> "\\grub", label |-> <<"Debian", "GRUB">>]>>
B == INSTANCE Boot WITH Firmware <- MCFirmware, KNOWN <- MCKnown, FirmwareWords <- {"UiApp", "Shell"}, pc <- step

Idle == 0
IdleSmp == at = Idle /\ index = Idle /\ gs = Idle /\ PER_CPU = Idle /\ gdt = Idle
    /\ NEXT_INDEX = Idle /\ CPUS_ONLINE = Idle /\ CPU_COUNT = Idle
IdleBoot == fw = Idle /\ step = Idle /\ entries = Idle /\ timeout = Idle /\ sel = Idle /\ default = Idle
    /\ remaining = Idle /\ counting = Idle /\ image = Idle /\ pcr4 = Idle /\ keys = Idle /\ tries = Idle

MCInit ==
    /\ part \in {"disk", "gate", "smp", "boot"}
    /\ AhciInit /\ (part # "disk" => depth = Max(Depths) /\ irqOn)
    /\ Init
    /\ IF part = "smp" THEN P!Init ELSE IdleSmp
    /\ IF part = "boot" THEN B!Init ELSE IdleBoot

InDisk == part = "disk" /\ UNCHANGED <<part, vars, smpVars, bootVars>>
InGate == part = "gate" /\ UNCHANGED <<part, ahciVars, smpVars, bootVars>>
InSmp == part = "smp" /\ UNCHANGED <<part, ahciVars, vars, bootVars>>
InBoot == part = "boot" /\ UNCHANGED <<part, ahciVars, vars, smpVars>>

MCNext == (InDisk /\ AhciNext) \/ (InGate /\ Next) \/ (InSmp /\ P!Next) \/ (InBoot /\ B!Next)

\* The Fairness of each component, in its own behaviours.
MCFairness ==
    /\ \A s \in Subs : WF_allVars(InDisk /\ Run(s))
    /\ WF_allVars(InDisk /\ Wake)
    /\ \A t \in AllTags : WF_allVars(InDisk /\ Complete(t))
    /\ \A c \in Callers : WF_allVars(InGate /\ (Send(c) \/ Sleep(c) \/ Receive(c)))
    /\ \A c \in Callers : SF_allVars(InGate /\ Lock(c))
    /\ \A t \in Callers \cup {Svc} : SF_allVars(InGate /\ Dispatch(t))
    /\ WF_allVars(InGate /\ ServiceStep)
    /\ WF_allVars(InSmp /\ (P!BspInstall \/ P!AllReported))
    /\ \A l \in Lapics : WF_allVars(InSmp /\ P!Step(l))
    /\ WF_allVars(InBoot /\ (B!main \/ B!Unpressed \/ B!chainload \/ B!measure \/ B!start_image))

MCSpec == MCInit /\ [][MCNext]_allVars /\ MCFairness

\* Smp!CpusComeUp: all processors reach the scheduler, with nothing shared.
CpusComeUp == <>[](part = "smp" => P!Up)

\* Boot!UnattendedBoots: the countdown ends in the configured loader, measured first.
UnattendedBoots ==
    (part = "boot" /\ step = "menu" /\ counting) ~> (part = "boot" /\ (B!Due \/ B!Refused \/ keys > 0))

=============================================================================
