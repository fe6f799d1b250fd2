------------------------------- MODULE Sched -------------------------------
(***************************************************************************)
(* The preemptive SMP scheduler of the THOS kernel (kernel/src/sched.rs).  *)
(*                                                                         *)
(* One step of a CPU is one critical section of the SCHED lock, or one     *)
(* access to an atomic that the code makes outside it.  Kernel code runs   *)
(* with interrupts disabled, so a CPU is never interrupted inside one of   *)
(* these operations; only the other CPUs interleave with it.               *)
(*                                                                         *)
(* The callers of `unblock' are the most general ones: whoever holds a     *)
(* reference to a thread (a wait queue, the timer wheel) may call it at    *)
(* any moment, also for a thread that is not waiting any more.             *)
(***************************************************************************)
EXTENDS Naturals, Sequences, Functions

CONSTANTS
    Threads,    \* the boot thread and every thread `spawn' and its kin create
    Cpus,
    Bsp,        \* CPU 0, the one that boots
    Boot,       \* the thread that adopts the BSP's boot stack
    IdleOf,     \* the idle thread of each CPU
    None

Idles == {IdleOf[c] : c \in Cpus}
AllThreads == Threads \cup Idles

ASSUME SchedAssumption ==
    /\ Bsp \in Cpus
    /\ Boot \in Threads
    /\ IdleOf \in [Cpus -> Idles]
    /\ \A c, d \in Cpus : IdleOf[c] = IdleOf[d] => c = d
    /\ Threads \cap Idles = {}
    /\ None \notin AllThreads

VARIABLES
    state,        \* Thread.state; "Unborn" before it exists, "Freed" once dropped
    running,      \* Thread.running: some CPU is on the thread's kernel stack
    wakePending,  \* Thread.wake_pending
    saved,        \* Thread.ctx is the stack pointer the thread was left with
    ready,        \* Inner.ready
    current,      \* CpuSlot.current
    handoff,      \* the thread of CpuSlot.handoff
    blocking,     \* the flag of CpuSlot.handoff
    pc,           \* what the CPU is about to do
    target        \* the argument of the `unblock' a CPU is inside

vars == <<state, running, wakePending, saved, ready, current, handoff,
          blocking, pc, target>>

ThreadStates ==
    {"Unborn", "Ready", "Running", "Blocked", "Exited", "Freed"}

(***************************************************************************)
(* "claim":  the SCHED section of a switch is over, `next.running' is not  *)
(*           yet taken;                                                    *)
(* "switch": `next.running' is taken, the CPU still is on prev's stack;    *)
(* "finish": the stack is next's, finish_switch has not run yet.           *)
(***************************************************************************)
PcValues ==
    {"offline", "run", "armed", "unblock", "claim", "switch", "finish"}

\* Inner.graveyard: `exit' pushes a thread there as it makes it Exited.
Graveyard == {t \in Threads : state[t] = "Exited"}

\* A CPU executes a thread's code in ordinary context.
AtWork(c) == pc[c] = "run" /\ current[c] \in Threads

\* STARTED: init_bsp sets it once the BSP has a current thread.
Started == current[Bsp] # None

----------------------------------------------------------------------------
Init ==
    /\ state = [t \in AllThreads |-> "Unborn"]
    /\ running = [t \in AllThreads |-> FALSE]
    /\ wakePending = [t \in AllThreads |-> FALSE]
    /\ saved = [t \in AllThreads |-> FALSE]
    /\ ready = <<>>
    /\ current = [c \in Cpus |-> None]
    /\ handoff = [c \in Cpus |-> None]
    /\ blocking = [c \in Cpus |-> FALSE]
    /\ pc = [c \in Cpus |-> "offline"]
    /\ target = [c \in Cpus |-> None]

\* init_bsp: the boot flow becomes a thread, and CPU 0 gets a fresh idle thread.
InitBsp ==
    /\ pc[Bsp] = "offline"
    /\ state' = [state EXCEPT ![Boot] = "Running", ![IdleOf[Bsp]] = "Ready"]
    /\ running' = [running EXCEPT ![Boot] = TRUE]
    /\ saved' = [saved EXCEPT ![IdleOf[Bsp]] = TRUE]
    /\ current' = [current EXCEPT ![Bsp] = Boot]
    /\ pc' = [pc EXCEPT ![Bsp] = "run"]
    /\ UNCHANGED <<wakePending, ready, handoff, blocking, target>>

\* cpu_enter: an application processor adopts its own flow as its idle thread.
CpuEnter(c) ==
    /\ c # Bsp
    /\ pc[c] = "offline"
    /\ state' = [state EXCEPT ![IdleOf[c]] = "Running"]
    /\ running' = [running EXCEPT ![IdleOf[c]] = TRUE]
    /\ current' = [current EXCEPT ![c] = IdleOf[c]]
    /\ pc' = [pc EXCEPT ![c] = "run"]
    /\ UNCHANGED <<wakePending, saved, ready, handoff, blocking, target>>

\* spawn, spawn_user, spawn_user_pe, spawn_user_frame.
Spawn(c, t) ==
    /\ AtWork(c)
    /\ state[t] = "Unborn"
    /\ t # Boot
    /\ state' = [state EXCEPT ![t] = "Ready"]
    /\ saved' = [saved EXCEPT ![t] = TRUE]
    /\ ready' = Append(ready, t)
    /\ UNCHANGED <<running, wakePending, current, handoff, blocking, pc, target>>

----------------------------------------------------------------------------
(* Choosing the next thread. *)

Stale(t) ==
    \/ state[t] \in {"Running", "Exited"}
    \/ running[t]
    \/ \E c \in Cpus : current[c] = t

\* The positions of ready whose entry pick_next would return, were it first.
Live == {i \in 1..Len(ready) : ~Stale(ready[i])}

FirstLive == CHOOSE i \in Live : \A j \in Live : i <= j

PickNext(c) == IF Live = {} THEN IdleOf[c] ELSE ready[FirstLive]

AfterPick ==
    IF Live = {} THEN <<>> ELSE SubSeq(ready, FirstLive + 1, Len(ready))

\* Mistake: prev is released and queued before the CPU is off its stack.
EagerSwitchFrom(c, prevState, block) ==
    LET prev == current[c]
        next == PickNext(c)
    IN  /\ state' = [state EXCEPT ![prev] = prevState, ![next] = "Running"]
        /\ IF block \/ prev \in Idles
           THEN ready' = AfterPick /\ UNCHANGED running
           ELSE /\ ready' = Append(AfterPick, prev)
                /\ running' = [running EXCEPT ![prev] = FALSE]
        /\ handoff' = [handoff EXCEPT ![c] = prev]
        /\ blocking' = [blocking EXCEPT ![c] = block]
        /\ current' = [current EXCEPT ![c] = next]
        /\ pc' = [pc EXCEPT ![c] = "claim"]
        /\ UNCHANGED <<wakePending, saved, target>>

\* The common tail of reschedule and exit: publish the switch to PickNext(c).
SwitchFrom(c, prevState, block) ==
    LET prev == current[c]
        next == PickNext(c)
    IN  /\ state' = [state EXCEPT ![prev] = prevState, ![next] = "Running"]
        /\ ready' = AfterPick
        /\ handoff' = [handoff EXCEPT ![c] = prev]
        /\ blocking' = [blocking EXCEPT ![c] = block]
        /\ current' = [current EXCEPT ![c] = next]
        /\ pc' = [pc EXCEPT ![c] = "claim"]
        /\ UNCHANGED <<running, wakePending, saved, target>>

\* reschedule(false), from yield_now or, for ring 3 and idle, from on_tick.
\* When pick_next falls back on the idle thread that already runs, it returns.
Yield(c) ==
    /\ pc[c] = "run"
    /\ Started
    /\ IF PickNext(c) = current[c]
       THEN /\ ready' = AfterPick
            /\ UNCHANGED <<state, running, wakePending, saved, current,
                           handoff, blocking, pc, target>>
       ELSE SwitchFrom(c, IF current[c] \in Idles THEN state[current[c]]
                                                  ELSE "Ready", FALSE)

\* mark_blocking, with which every wait begins; block_current follows.
MarkBlocking(c) ==
    /\ AtWork(c)
    /\ wakePending' = [wakePending EXCEPT ![current[c]] = FALSE]
    /\ pc' = [pc EXCEPT ![c] = "armed"]
    /\ UNCHANGED <<state, running, saved, ready, current, handoff, blocking,
                   target>>

\* Mistake: reschedule commits to the block without looking at wake_pending.
NeverAbortsBlock(c) == FALSE

\* The wake that raced the prepare-to-wait window makes reschedule return.
AbortsBlock(c) == wakePending[current[c]]

\* block_current: reschedule(true).
Block(c) ==
    /\ pc[c] = "armed"
    /\ IF AbortsBlock(c)
       THEN /\ pc' = [pc EXCEPT ![c] = "run"]
            /\ UNCHANGED <<state, running, wakePending, saved, ready, current,
                           handoff, blocking, target>>
       ELSE SwitchFrom(c, "Blocked", TRUE)

\* exit; kmain, the boot thread, never returns.
Exit(c) ==
    /\ AtWork(c)
    /\ current[c] # Boot
    /\ SwitchFrom(c, "Exited", TRUE)

----------------------------------------------------------------------------
(* The context switch, outside the SCHED lock. *)

\* `while next.running.swap(true)': take the next thread's kernel stack.
Claim(c) ==
    /\ pc[c] = "claim"
    /\ ~running[current[c]]
    /\ running' = [running EXCEPT ![current[c]] = TRUE]
    /\ pc' = [pc EXCEPT ![c] = "switch"]
    /\ UNCHANGED <<state, wakePending, saved, ready, current, handoff,
                   blocking, target>>

\* thos_ctx_switch: save prev's stack pointer (`exit' saves it to a scratch
\* word, the thread's ctx stays what it was) and continue on next's.
Switch(c) ==
    /\ pc[c] = "switch"
    /\ saved' = [saved EXCEPT ![handoff[c]] = (state[handoff[c]] # "Exited"),
                              ![current[c]] = FALSE]
    /\ pc' = [pc EXCEPT ![c] = "finish"]
    /\ UNCHANGED <<state, running, wakePending, ready, current, handoff,
                   blocking, target>>

\* a corpse is,
RequeuesExited(c) ==
    LET prev == handoff[c]
    IN  /\ prev \notin Idles
        /\ blocking[c] => wakePending[prev]
        /\ prev \notin Range(ready)

\* the wake that raced the switch is left to unblock,
RequeuesYielding(c) ==
    LET prev == handoff[c]
    IN  /\ prev \notin Idles
        /\ ~blocking[c]
        /\ prev \notin Range(ready)

\* or a preempted thread is taken for a blocked one.
RequeuesWoken(c) ==
    LET prev == handoff[c]
    IN  /\ state[prev] # "Exited"
        /\ prev \notin Idles
        /\ wakePending[prev]
        /\ prev \notin Range(ready)

\* Whether finish_switch makes the thread it releases runnable again.
Requeues(c) ==
    LET prev == handoff[c]
    IN  /\ state[prev] # "Exited"
        /\ prev \notin Idles
        /\ blocking[c] => wakePending[prev]
        /\ prev \notin Range(ready)

\* Mistake: finish_switch returns early when there is nothing to queue.
EarlyFinishSwitch(c) ==
    /\ pc[c] = "finish"
    /\ LET prev == handoff[c]
       IN  IF Requeues(c)
           THEN /\ state' = [state EXCEPT ![prev] = "Ready"]
                /\ ready' = Append(ready, prev)
                /\ running' = [running EXCEPT ![prev] = FALSE]
           ELSE UNCHANGED <<state, ready, running>>
    /\ handoff' = [handoff EXCEPT ![c] = None]
    /\ blocking' = [blocking EXCEPT ![c] = FALSE]
    /\ pc' = [pc EXCEPT ![c] = "run"]
    /\ UNCHANGED <<wakePending, saved, current, target>>

\* finish_switch, the first thing the resumed thread does.
FinishSwitch(c) ==
    /\ pc[c] = "finish"
    /\ LET prev == handoff[c]
       IN  /\ IF Requeues(c)
              THEN /\ state' = [state EXCEPT ![prev] = "Ready"]
                   /\ ready' = Append(ready, prev)
              ELSE UNCHANGED <<state, ready>>
           /\ running' = [running EXCEPT ![prev] = FALSE]
    /\ handoff' = [handoff EXCEPT ![c] = None]
    /\ blocking' = [blocking EXCEPT ![c] = FALSE]
    /\ pc' = [pc EXCEPT ![c] = "run"]
    /\ UNCHANGED <<wakePending, saved, current, target>>

----------------------------------------------------------------------------
(* Waking. *)

\* unblock up to its SCHED section: the store to wake_pending.
UnblockMark(c, t) ==
    /\ pc[c] = "run"
    /\ current[c] # None
    /\ state[t] \notin {"Unborn", "Freed"}
    /\ wakePending' = [wakePending EXCEPT ![t] = TRUE]
    /\ target' = [target EXCEPT ![c] = t]
    /\ pc' = [pc EXCEPT ![c] = "unblock"]
    /\ UNCHANGED <<state, running, saved, ready, current, handoff, blocking>>

\* Only a thread that is Blocked and off every CPU is unblock's to queue.
Parked(t) == state[t] = "Blocked" /\ ~running[t]

\* The SCHED section of unblock.
Unblock(c) ==
    /\ pc[c] = "unblock"
    /\ LET t == target[c]
       IN  IF Parked(t)
           THEN /\ state' = [state EXCEPT ![t] = "Ready"]
                /\ ready' = IF t \in Range(ready) THEN ready ELSE Append(ready, t)
           ELSE UNCHANGED <<state, ready>>
    /\ target' = [target EXCEPT ![c] = None]
    /\ pc' = [pc EXCEPT ![c] = "run"]
    /\ UNCHANGED <<running, wakePending, saved, current, handoff, blocking>>

----------------------------------------------------------------------------
(* Reclaiming exited threads. *)

\* References to t inside the scheduler, the graveyard's own apart.
Referenced(t) ==
    \/ \E c \in Cpus : t \in {current[c], handoff[c], target[c]}
    \/ t \in Range(ready)

\* Mistake: reap drops a corpse as soon as it is in the graveyard.
DroppableAtOnce == Graveyard

\* The corpses reap may drop.
Droppable == {t \in Graveyard : ~running[t] /\ ~Referenced(t)}

\* reap: a wait-queue entry, or the `next' of a suspended reschedule frame,
\* may keep the strong count of any droppable corpse above one.
Reap(c) ==
    /\ AtWork(c)
    /\ \E dead \in SUBSET Droppable :
        /\ dead # {}
        /\ state' = [t \in AllThreads |-> IF t \in dead THEN "Freed" ELSE state[t]]
    /\ UNCHANGED <<running, wakePending, saved, ready, current, handoff,
                   blocking, pc, target>>

----------------------------------------------------------------------------
Next ==
    \/ InitBsp
    \/ \E c \in Cpus :
        \/ CpuEnter(c)
        \/ \E t \in Threads : Spawn(c, t) \/ UnblockMark(c, t)
        \/ Yield(c) \/ MarkBlocking(c) \/ Block(c) \/ Exit(c)
        \/ Claim(c) \/ Switch(c) \/ FinishSwitch(c)
        \/ Unblock(c) \/ Reap(c)

Spec == Init /\ [][Next]_vars

(***************************************************************************)
(* A CPU goes on with what it is inside of.  Between operations the timer  *)
(* interrupt stays latched in the APIC until the CPU is back in ring 3 or  *)
(* idle: a CPU that is again and again able to take it does take it.       *)
(***************************************************************************)
Fairness ==
    /\ WF_vars(InitBsp)
    /\ \A c \in Cpus :
        /\ WF_vars(CpuEnter(c))
        /\ WF_vars(Block(c))
        /\ WF_vars(Claim(c))
        /\ WF_vars(Switch(c))
        /\ WF_vars(FinishSwitch(c))
        /\ WF_vars(Unblock(c))
        /\ SF_vars(Yield(c))

FairSpec == Spec /\ Fairness

----------------------------------------------------------------------------
TypeOK ==
    /\ state \in [AllThreads -> ThreadStates]
    /\ running \in [AllThreads -> BOOLEAN]
    /\ wakePending \in [AllThreads -> BOOLEAN]
    /\ saved \in [AllThreads -> BOOLEAN]
    /\ ready \in Seq(Threads)
    /\ current \in [Cpus -> AllThreads \cup {None}]
    /\ handoff \in [Cpus -> AllThreads \cup {None}]
    /\ blocking \in [Cpus -> BOOLEAN]
    /\ pc \in [Cpus -> PcValues]
    /\ target \in [Cpus -> Threads \cup {None}]

\* The thread whose kernel stack a CPU executes on (sched.rs:128-132).
StackOf(c) == IF pc[c] \in {"claim", "switch"} THEN handoff[c] ELSE current[c]

\* No two CPUs are ever on the same kernel stack: a thread that left a CPU is
\* not resumed on another before the first is off its stack.
StackExclusion ==
    \A c, d \in Cpus :
        c # d /\ StackOf(c) # None => StackOf(c) # StackOf(d)

\* A context switch only ever loads a stack pointer that was saved when its
\* thread was last left, never one its live copy has moved past.
ResumesSavedContext ==
    \A c \in Cpus : pc[c] \in {"claim", "switch"} => saved[current[c]]

\* pick_next never meets an entry to discard: "0 in normal operation".
NoPhantoms == \A i \in 1..Len(ready) : ~Stale(ready[i])

\* The spin on `next.running' never has to wait, so no two CPUs can spin on
\* each other's threads.
ClaimUncontended ==
    \A c \in Cpus : pc[c] = "claim" => ~running[current[c]]

\* A wake-up is never lost: a blocked thread with a pending wake is still being
\* switched away from (finish_switch will see the flag) or has its waker about
\* to enter unblock's critical section.
NoLostWakeup ==
    \A t \in Threads :
        state[t] = "Blocked" /\ wakePending[t] =>
            \E c \in Cpus : handoff[c] = t \/ target[c] = t

\* No runnable thread is lost or queued twice: it waits at exactly one place of
\* the ready queue, or is the handoff of the one CPU that will queue it.
NoStrandedThread ==
    \A t \in Threads :
        state[t] = "Ready" =>
            LET places == {i \in 1..Len(ready) : ready[i] = t}
                leaving == {c \in Cpus : handoff[c] = t}
            IN  \/ leaving = {} /\ \E i \in places : places = {i}
                \/ places = {} /\ \E c \in leaving : leaving = {c} /\ ~blocking[c]

\* reap never drops a stack some CPU executes on, is about to resume, or has
\* yet to be released from by finish_switch.
NoFreedStackInUse ==
    \A c \in Cpus : \A t \in {StackOf(c), current[c], handoff[c]} :
        t # None => state[t] # "Freed"

\* A thread that exited is never scheduled again, whoever still wakes it.
ExitIsFinal ==
    [][\A t \in Threads :
        state[t] \in {"Exited", "Freed"} =>
            \/ state'[t] = state[t]
            \/ state[t] = "Exited" /\ state'[t] = "Freed"]_vars

\* A runnable thread is eventually run: the ready queue starves nobody.
ReadyRuns ==
    \A t \in Threads : state[t] = "Ready" ~> state[t] = "Running"

----------------------------------------------------------------------------
(***************************************************************************)
(* The inductive invariant: who may hold a thread, and what the thread's   *)
(* fields are while it is held.  A thread is current on one CPU, or the    *)
(* handoff of one CPU, or off every CPU.                                   *)
(***************************************************************************)
Off(t) == \A c \in Cpus : t # current[c] /\ t # handoff[c]

Switching(c) == pc[c] \in {"claim", "switch", "finish"}

SlotInv ==
    /\ \A c \in Cpus :
        /\ pc[c] = "offline" <=> current[c] = None
        /\ Switching(c) <=> handoff[c] # None
        /\ pc[c] = "unblock" <=> target[c] # None
        /\ pc[c] = "armed" => current[c] \in Threads
        /\ current[c] \in Threads \cup {IdleOf[c], None}
        /\ handoff[c] \in Threads \cup {IdleOf[c], None}
        /\ handoff[c] # None => handoff[c] # current[c]
    /\ pc[Bsp] = "offline" => state[Boot] = "Unborn"

DistinctInv ==
    \A c, d \in Cpus : c # d =>
        /\ current[c] # None => current[c] # current[d] /\ current[c] # handoff[d]
        /\ handoff[c] # None => handoff[c] # handoff[d]

CurrentInv ==
    \A c \in Cpus : current[c] # None =>
        /\ state[current[c]] = "Running"
        /\ running[current[c]] <=> pc[c] # "claim"
        /\ pc[c] \in {"claim", "switch"} => saved[current[c]]

HandoffInv ==
    \A c \in Cpus : handoff[c] # None =>
        /\ running[handoff[c]]
        /\ handoff[c] \in Threads =>
                IF blocking[c] THEN state[handoff[c]] \in {"Blocked", "Exited"}
                               ELSE state[handoff[c]] = "Ready"
        /\ pc[c] = "finish" => saved[handoff[c]] \/ state[handoff[c]] = "Exited"

OffInv ==
    \A t \in AllThreads : Off(t) =>
        /\ ~running[t]
        /\ t \in Threads /\ state[t] \in {"Ready", "Blocked"} => saved[t]
        /\ t \in Threads => state[t] # "Running"

IdleInv ==
    \A c \in Cpus :
        /\ current[c] # None /\ Off(IdleOf[c]) => saved[IdleOf[c]]
        /\ state[IdleOf[c]] \notin {"Exited", "Freed"}

ReadyInv ==
    /\ \A t \in Threads :
        t \in Range(ready) <=>
            state[t] = "Ready" /\ \A c \in Cpus : handoff[c] # t
    /\ \A i, j \in 1..Len(ready) : ready[i] = ready[j] => i = j

\* What every step preserves; each safety property above follows from it.
IInv ==
    /\ TypeOK
    /\ SlotInv
    /\ DistinctInv
    /\ CurrentInv
    /\ HandoffInv
    /\ OffInv
    /\ IdleInv
    /\ ReadyInv
    /\ NoLostWakeup

----------------------------------------------------------------------------
(* The contract with the wait objects. *)

ModeOf(s) ==
    CASE s = "Unborn" -> "absent"
      [] s \in {"Ready", "Running"} -> "runnable"
      [] s = "Blocked" -> "parked"
      [] s \in {"Exited", "Freed"} -> "gone"

ParkMode == [t \in Threads |-> ModeOf(state[t])]

ParkToken == [t \in Threads |-> wakePending[t]]

P == INSTANCE Park WITH
        Callers <- Cpus, mode <- ParkMode, token <- ParkToken, call <- target

\* The scheduler keeps the contract of Park: a wake recorded after a thread
\* armed itself is never slept through, and nothing but a wake ends a sleep.
ImplementsPark == P!Spec

\* It also keeps the promise that every recorded wake takes effect.
ImplementsFairPark == P!FairSpec

============================================================================
