------------------------------- MODULE Waits -------------------------------
(***************************************************************************)
(* The wait objects of the kernel: WaitQueue, Event, Semaphore and Mutant  *)
(* (kernel/src/wait.rs), the timer wheel (timer.rs), and the waits of      *)
(* NtWaitForSingleObject, NtWaitForMultipleObjects and NtDelayExecution    *)
(* (nt.rs) over them.                                                      *)
(*                                                                         *)
(* The scheduler is the contract Park, which Sched implements: waits arm   *)
(* and sleep with Park!Arm and Park!Sleep, wakers are inside Park!Wake     *)
(* until Park!Return.  One step is one critical section of a queue lock or *)
(* of the wheel lock, or one atomic access outside them.                   *)
(***************************************************************************)
EXTENDS Integers, Sequences, Functions

CONSTANTS
    Threads,
    Objects,
    Timer,      \* the timer interrupt of CPU 0, a caller of unblock
    None,
    Kinds,      \* the kinds the objects may be created with
    Forms,      \* the waits the threads make
    MaxHandles, \* the handles of a WaitAny or WaitAll (64 in the code)
    Limit,      \* Semaphore.limit
    MaxTick,    \* the clock saturates here, past every deadline
    MaxCalls    \* the calls all threads make between them

AllKinds == {"Manual", "Auto", "Semaphore", "Mutant"}

\* NtWaitForSingleObject; WaitAny and WaitAll; NtDelayExecution.
AllForms == {"one", "any", "all", "sleep"}

ASSUME WaitsAssumption ==
    /\ Kinds \subseteq AllKinds
    /\ Forms \subseteq AllForms
    /\ MaxHandles \in Nat \ {0}
    /\ Limit \in Nat \ {0}
    /\ MaxTick \in Nat \ {0}
    /\ MaxCalls \in Nat
    /\ None \notin Threads \cup {Timer}
    /\ Timer \notin Threads

VARIABLES
    kind,       \* what each object is
    value,      \* Event.signaled (0, 1), Semaphore.count, Mutant.recursion
    owner,      \* Mutant.owner
    queue,      \* WaitQueue.waiters
    now,        \* TICKS
    alarm,      \* the deadline of each thread's entry in WHEEL
    firing,     \* the threads tick took off the wheel and has yet to unblock
    pc,         \* where a thread is in its call
    req,        \* the call it is in
    idx,        \* the object of req a loop is at
    waking,     \* the threads a waker took off a queue and has yet to unblock
    left,       \* the wake_one calls a release has left
    calls,      \* the calls made so far
    mode,       \* Park
    token,      \* Park
    call,       \* Park
    owed,       \* history: signals of an Auto event no wait has returned for
    expired,    \* history: some blocked wait has reported a timeout
    bare        \* history: the queues a thread joined with wait_if

parkVars == <<mode, token, call>>
objVars == <<value, owner, owed>>
vars == <<kind, value, owner, queue, now, alarm, firing, pc, req, idx, waking,
          left, calls, mode, token, call, owed, expired, bare>>

P == INSTANCE Park WITH Callers <- Threads \cup {Timer}

Idle == [form |-> "none", objs |-> <<>>, until |-> None]

PcValues == {"idle", "scan", "take", "enqueue", "arm", "block", "woken",
             "scrub", "disarm", "notify", "unblock"}

Init ==
    /\ kind \in [Objects -> Kinds]
    /\ value = [o \in Objects |-> 0]
    /\ owner = [o \in Objects |-> None]
    /\ queue = [o \in Objects |-> <<>>]
    /\ now = 0
    /\ alarm = [t \in Threads |-> None]
    /\ firing = {}
    /\ pc = [t \in Threads |-> "idle"]
    /\ req = [t \in Threads |-> Idle]
    /\ idx = [t \in Threads |-> 1]
    /\ waking = [t \in Threads |-> <<>>]
    /\ left = [t \in Threads |-> 0]
    /\ calls = 0
    /\ mode = [t \in Threads |-> "runnable"]
    /\ token = [t \in Threads |-> FALSE]
    /\ call = [c \in Threads \cup {Timer} |-> None]
    /\ owed = [o \in Objects |-> 0]
    /\ expired = FALSE
    /\ bare = [t \in Threads |-> {}]

At(t, p) == pc[t] = p /\ mode[t] = "runnable"
Goto(t, p) == pc' = [pc EXCEPT ![t] = p]

\* The objects a call names, in the order of its handles.
Objs(t) == Range(req[t].objs)
Obj(t) == req[t].objs[idx[t]]
AtLast(t) == idx[t] = Len(req[t].objs)

Advance(t) == idx' = [idx EXCEPT ![t] = IF AtLast(t) THEN 1 ELSE @ + 1]

\* wake_one keeps the queue lock until its unblock is over.  Semaphore and
\* Mutant wake with it; Event's wake_one_or and wake_all do not.
Locked(o) ==
    \E t \in Threads :
        pc[t] = "unblock" /\ kind[o] \in {"Semaphore", "Mutant"} /\ Obj(t) = o

\* tick keeps the wheel lock until the last unblock is over.
WheelLocked == firing # {} \/ call[Timer] # None

----------------------------------------------------------------------------
(* What the objects grant. *)

\* is_signaled: would try_take succeed right now?
IsSignaled(o, t) ==
    IF kind[o] = "Mutant" THEN owner[o] \in {None, t} ELSE value[o] > 0

\* The effect of a try_take that succeeds.
TakenValue(o) ==
    CASE kind[o] = "Manual" -> value[o]
      [] kind[o] = "Auto" -> 0
      [] kind[o] = "Semaphore" -> value[o] - 1
      [] kind[o] = "Mutant" -> value[o] + 1

TryTake(o, t) ==
    IF IsSignaled(o, t)
    THEN /\ value' = [value EXCEPT ![o] = TakenValue(o)]
         /\ owner' = IF kind[o] = "Mutant" THEN [owner EXCEPT ![o] = t] ELSE owner
    ELSE UNCHANGED <<value, owner>>

\* The call returns; a success answers for the objects granted.
Finish(t, granted) ==
    /\ Goto(t, "idle")
    /\ req' = [req EXCEPT ![t] = Idle]
    /\ idx' = [idx EXCEPT ![t] = 1]
    /\ owed' = [o \in Objects |->
                    IF o \in granted /\ kind[o] = "Auto" THEN owed[o] - 1 ELSE owed[o]]
    /\ UNCHANGED <<left, calls>>

----------------------------------------------------------------------------
(* A call begins. *)

\* The deadline of a call: none, a poll (0), or some ticks ahead.
Untils == {None, 0} \cup (now + 1)..MaxTick

Handles == UNION {[1..n -> Objects] : n \in 1..MaxHandles}

\* A wait starts with a look at its objects; an Auto event that is waited for
\* alone is only looked at under its queue lock.  sleep_until looks at the
\* clock, and its deadline is at least a tick ahead.
Wait(t, form, objs, until) ==
    /\ At(t, "idle")
    /\ calls < MaxCalls
    /\ Goto(t, IF \/ form = "sleep"
                  \/ form = "one" /\ kind[objs[1]] = "Auto" /\ until # 0
               THEN "enqueue" ELSE "scan")
    /\ req' = [req EXCEPT ![t] = [form |-> form, objs |-> objs, until |-> until]]
    /\ calls' = calls + 1
    /\ UNCHANGED <<kind, queue, now, alarm, firing, idx, waking, left, expired, bare>>
    /\ UNCHANGED objVars /\ UNCHANGED parkVars

WaitCall(t) ==
    \/ \E form \in Forms \cap {"one"}, o \in Objects, until \in Untils :
        Wait(t, form, <<o>>, until)
    \/ \E form \in Forms \cap {"any", "all"}, objs \in Handles, until \in Untils :
        Wait(t, form, objs, until)
    \/ "sleep" \in Forms /\ \E until \in Untils \ {None, 0} :
        Wait(t, "sleep", <<>>, until)

\* The caller goes on to wake n waiters of o (an Event wakes by its mode).
Notify(t, o, n) ==
    /\ Goto(t, "notify")
    /\ req' = [req EXCEPT ![t] = [form |-> "wake", objs |-> <<o>>, until |-> None]]
    /\ left' = [left EXCEPT ![t] = n]

\* Event::signal, up to its wake.
SignalEvent(t, o) ==
    /\ kind[o] \in {"Manual", "Auto"}
    /\ value' = IF kind[o] = "Manual" THEN [value EXCEPT ![o] = 1] ELSE value
    /\ Notify(t, o, 1)
    /\ UNCHANGED <<owner, owed>>

\* Event::reset; it discards a latched signal.
ResetEvent(t, o) ==
    /\ kind[o] \in {"Manual", "Auto"}
    /\ value' = [value EXCEPT ![o] = 0]
    /\ owed' = IF kind[o] = "Auto" THEN [owed EXCEPT ![o] = @ - value[o]] ELSE owed
    /\ UNCHANGED <<owner, pc, req, left>>

\* Semaphore::release, up to its wakes; past the limit it changes nothing.
ReleaseSemaphore(t, o, n) ==
    /\ value[o] + n <= Limit
    /\ value' = [value EXCEPT ![o] = @ + n]
    /\ Notify(t, o, n)
    /\ UNCHANGED <<owner, owed>>

\* Mistake: the last release wakes nobody.
ReleaseSilently(t, o) ==
    /\ owner[o] = t
    /\ value' = [value EXCEPT ![o] = @ - 1]
    /\ owner' = IF value[o] > 1 THEN owner ELSE [owner EXCEPT ![o] = None]
    /\ UNCHANGED <<pc, req, left, owed>>

\* Mutant::release by its owner: one level, or all of it and then a wake.
ReleaseMutant(t, o) ==
    /\ owner[o] = t
    /\ value' = [value EXCEPT ![o] = @ - 1]
    /\ IF value[o] > 1
       THEN UNCHANGED <<owner, pc, req, left>>
       ELSE owner' = [owner EXCEPT ![o] = None] /\ Notify(t, o, 1)
    /\ UNCHANGED owed

\* The system calls: a handle of another kind of object is refused.
NtSetEvent(t, o) == SignalEvent(t, o) \/ ResetEvent(t, o)
NtReleaseSemaphore(t, o) == kind[o] = "Semaphore" /\ \E n \in 1..Limit : ReleaseSemaphore(t, o, n)
NtReleaseMutant(t, o) == kind[o] = "Mutant" /\ ReleaseMutant(t, o)

SignalCall(t) ==
    /\ At(t, "idle")
    /\ calls < MaxCalls
    /\ \E o \in Objects : NtSetEvent(t, o) \/ NtReleaseSemaphore(t, o) \/ NtReleaseMutant(t, o)
    /\ calls' = calls + 1
    /\ UNCHANGED <<kind, queue, now, alarm, firing, idx, waking, expired, bare>>
    /\ UNCHANGED parkVars

----------------------------------------------------------------------------
(* Waiting. *)

\* A poll, or a WaitAny or WaitAll whose deadline passed, does not block.
GivesUp(t) ==
    \/ req[t].until = 0
    \/ req[t].form # "one" /\ req[t].until # None /\ now >= req[t].until

\* The unsuccessful end of a look at the objects.
LooksAgain(t) ==
    IF GivesUp(t)
    THEN Finish(t, {})
    ELSE /\ Goto(t, "enqueue")
         /\ idx' = [idx EXCEPT ![t] = 1]
         /\ UNCHANGED <<req, left, calls, owed>>

\* try_take on one object after the other, up to the first that grants.
ScanAny(t) ==
    /\ At(t, "scan")
    /\ req[t].form \in {"one", "any"}
    /\ TryTake(Obj(t), t)
    /\ IF IsSignaled(Obj(t), t)
       THEN Finish(t, {Obj(t)})
       ELSE IF AtLast(t)
       THEN LooksAgain(t)
       ELSE Advance(t) /\ UNCHANGED <<pc, req, left, calls, owed>>
    /\ UNCHANGED <<kind, queue, now, alarm, firing, waking, expired, bare>>
    /\ UNCHANGED parkVars

\* WaitAll looks at every object first,
ScanAll(t) ==
    /\ At(t, "scan")
    /\ req[t].form = "all"
    /\ IF ~IsSignaled(Obj(t), t)
       THEN LooksAgain(t)
       ELSE /\ Advance(t)
            /\ Goto(t, IF AtLast(t) THEN "take" ELSE "scan")
            /\ UNCHANGED <<req, left, calls, owed>>
    /\ UNCHANGED <<kind, value, owner, queue, now, alarm, firing, waking, expired, bare>>
    /\ UNCHANGED parkVars

\* then takes every object; what try_take returns is not looked at.
TakeAll(t) ==
    /\ At(t, "take")
    /\ TryTake(Obj(t), t)
    /\ IF AtLast(t)
       THEN Finish(t, Objs(t))
       ELSE Advance(t) /\ UNCHANGED <<pc, req, left, calls, owed>>
    /\ UNCHANGED <<kind, queue, now, alarm, firing, waking, expired, bare>>
    /\ UNCHANGED parkVars
\* Mistake: the condition is not checked again under the queue locks.
BlocksBlindly(t) == TRUE

\* should_block, which wait_if and its kin evaluate under the queue locks.
ShouldBlock(t) ==
    CASE req[t].form \in {"one", "any"} -> \A o \in Objs(t) : ~IsSignaled(o, t)
      [] req[t].form = "all" -> \E o \in Objs(t) : ~IsSignaled(o, t)
      [] req[t].form = "sleep" -> TRUE

\* An Auto event waited for alone: the wake-up, or the latch, is the signal.
WakeIsSignal(t) == req[t].form = "one" /\ kind[req[t].objs[1]] = "Auto"

\* wait_if_until and wait_any_until clean up after block_current, wait_if does not.
Scrubs(t) == req[t].form \in {"any", "all"} \/ req[t].until # None

\* The critical section of wait_if, wait_if_until and wait_any_until; for
\* sleep_until, which has no queue, its mark_blocking.
Enqueue(t) ==
    /\ At(t, "enqueue")
    /\ \A o \in Objs(t) : ~Locked(o)
    /\ IF ShouldBlock(t)
       THEN /\ P!Arm(t)
            /\ queue' = [o \in Objects |->
                            IF o \in Objs(t) THEN Append(queue[o], t) ELSE queue[o]]
            /\ Goto(t, IF req[t].until = None THEN "block" ELSE "arm")
            /\ bare' = IF Scrubs(t) THEN bare ELSE [bare EXCEPT ![t] = @ \cup Objs(t)]
            /\ UNCHANGED <<value, owner, req, idx, left, calls, owed>>
       ELSE IF WakeIsSignal(t)
       THEN /\ TryTake(Obj(t), t)
            /\ Finish(t, {Obj(t)})
            /\ UNCHANGED <<queue, bare>> /\ UNCHANGED parkVars
       ELSE /\ Goto(t, "scan")
            /\ UNCHANGED <<bare, value, owner, queue, req, idx, left, calls, owed>>
            /\ UNCHANGED parkVars
    /\ UNCHANGED <<kind, now, alarm, firing, waking, expired>>

\* Mistake: a deadline that has passed is not armed.
ArmAhead(t) ==
    /\ At(t, "arm")
    /\ ~WheelLocked
    /\ alarm' = IF now < req[t].until THEN [alarm EXCEPT ![t] = req[t].until] ELSE alarm
    /\ Goto(t, "block")
    /\ UNCHANGED <<kind, queue, now, firing, req, idx, waking, left, calls, expired, bare>>
    /\ UNCHANGED objVars /\ UNCHANGED parkVars

\* timer::arm.
Arm(t) ==
    /\ At(t, "arm")
    /\ ~WheelLocked
    /\ alarm' = [alarm EXCEPT ![t] = req[t].until]
    /\ Goto(t, "block")
    /\ UNCHANGED <<kind, queue, now, firing, req, idx, waking, left, calls, expired, bare>>
    /\ UNCHANGED objVars /\ UNCHANGED parkVars

\* Where a wait goes on after block_current.
AfterBlock(t) ==
    CASE req[t].form = "sleep" -> "disarm"
      [] req[t].form # "sleep" /\ Scrubs(t) -> "scrub"
      [] ~Scrubs(t) -> IF WakeIsSignal(t) THEN "woken" ELSE "scan"

\* block_current: it returns at once when a wake was recorded since mark_blocking.
Block(t) ==
    /\ At(t, "block")
    /\ IF token[t] THEN UNCHANGED parkVars ELSE P!Sleep(t)
    /\ Goto(t, AfterBlock(t))
    /\ UNCHANGED <<kind, queue, now, alarm, firing, req, idx, waking, left, calls, expired, bare>>
    /\ UNCHANGED objVars

\* The untimed wait of an Auto event returns.
Woken(t) ==
    /\ At(t, "woken")
    /\ Finish(t, {Obj(t)})
    /\ UNCHANGED <<kind, value, owner, queue, now, alarm, firing, waking, expired, bare>>
    /\ UNCHANGED parkVars

\* Mistake: the entries stay on the queues.
ScrubNothing(t) ==
    /\ At(t, "scrub")
    /\ Advance(t)
    /\ Goto(t, IF ~AtLast(t) THEN "scrub"
               ELSE IF req[t].until # None THEN "disarm" ELSE "scan")
    /\ UNCHANGED <<kind, queue, now, alarm, firing, req, waking, left, calls, expired, bare>>
    /\ UNCHANGED objVars /\ UNCHANGED parkVars

\* VecDeque::retain: the elements in S, in their order.
retain(q, S) ==
    LET kept[i \in 0..Len(q)] ==
            IF i = 0 THEN <<>>
            ELSE IF q[i] \in S THEN Append(kept[i - 1], q[i])
            ELSE kept[i - 1]
    IN kept[Len(q)]

\* WaitQueue::remove, queue after queue.
Scrub(t) ==
    /\ At(t, "scrub")
    /\ ~Locked(Obj(t))
    /\ queue' = [queue EXCEPT ![Obj(t)] = retain(@, Threads \ {t})]
    /\ Advance(t)
    /\ Goto(t, IF ~AtLast(t) THEN "scrub"
               ELSE IF req[t].until # None THEN "disarm" ELSE "scan")
    /\ bare' = [bare EXCEPT ![t] = @ \ {Obj(t)}]
    /\ UNCHANGED <<kind, now, alarm, firing, req, waking, left, calls, expired>>
    /\ UNCHANGED objVars /\ UNCHANGED parkVars

\* timer::disarm, and whether the deadline has passed: a wait that woke late
\* reports a timeout, an earlier one looks at its objects again.
Disarm(t) ==
    LET late == now >= req[t].until
    IN  /\ At(t, "disarm")
        /\ ~WheelLocked
        /\ alarm' = [alarm EXCEPT ![t] = None]
        /\ expired' = (expired \/ (late /\ req[t].form # "sleep"))
        /\ IF late \/ req[t].form = "sleep"
           THEN Finish(t, {})
           ELSE IF WakeIsSignal(t)
           THEN Finish(t, {Obj(t)})
           ELSE Goto(t, "scan") /\ UNCHANGED <<req, idx, left, calls, owed>>
        /\ UNCHANGED <<kind, value, owner, queue, now, firing, waking, bare>>
        /\ UNCHANGED parkVars

----------------------------------------------------------------------------
(* Waking. *)

\* The waker's call is over.
Done(t) ==
    /\ Goto(t, "idle")
    /\ req' = [req EXCEPT ![t] = Idle]
    /\ left' = [left EXCEPT ![t] = 0]

\* The critical section of wake_all, wake_one_or or wake_one.
Take(t) ==
    LET o == Obj(t)
        n == IF kind[o] = "Manual" \/ queue[o] = <<>> THEN Len(queue[o]) ELSE 1
        woken == SubSeq(queue[o], 1, n)
    IN  /\ At(t, "notify")
        /\ ~Locked(o)
        /\ queue' = [queue EXCEPT ![o] = SubSeq(@, n + 1, Len(@))]
        /\ waking' = [waking EXCEPT ![t] = woken]
        /\ IF woken = <<>> THEN Done(t) ELSE Goto(t, "unblock") /\ UNCHANGED <<req, left>>
        /\ value' = IF kind[o] = "Auto" /\ woken = <<>> THEN [value EXCEPT ![o] = 1] ELSE value
        /\ owed' = IF kind[o] = "Auto" /\ (woken # <<>> \/ value[o] = 0)
                   THEN [owed EXCEPT ![o] = @ + 1] ELSE owed
        /\ UNCHANGED <<kind, owner, now, alarm, firing, idx, calls, expired, bare>>
        /\ UNCHANGED parkVars

\* The two halves of unblock, for the next thread to wake.
UnblockNext(t) ==
    /\ At(t, "unblock")
    /\ waking[t] # <<>>
    /\ P!Wake(t, Head(waking[t]))
    /\ waking' = [waking EXCEPT ![t] = Tail(@)]
    /\ UNCHANGED <<kind, queue, now, alarm, firing, pc, req, idx, left, calls, expired, bare>>
    /\ UNCHANGED objVars

Unblocked(t) ==
    /\ At(t, "unblock")
    /\ P!Return(t)
    /\ IF waking[t] # <<>>
       THEN UNCHANGED <<pc, req, left>>
       ELSE IF left[t] > 1
       THEN /\ Goto(t, "notify")
            /\ left' = [left EXCEPT ![t] = @ - 1]
            /\ UNCHANGED req
       ELSE Done(t)
    /\ UNCHANGED <<kind, queue, now, alarm, firing, idx, waking, calls, expired, bare>>
    /\ UNCHANGED objVars
----------------------------------------------------------------------------
(* The clock. *)

\* timer::tick, up to its unblocks: advance the clock, take what is due.
Tick ==
    LET next == IF now < MaxTick THEN now + 1 ELSE now
        due == {t \in Threads : alarm[t] # None /\ alarm[t] <= next}
    IN  /\ ~WheelLocked
        /\ now' = next
        /\ firing' = due
        /\ alarm' = [t \in Threads |-> IF t \in due THEN None ELSE alarm[t]]
        /\ UNCHANGED <<kind, queue, pc, req, idx, waking, left, calls, expired, bare>>
        /\ UNCHANGED objVars /\ UNCHANGED parkVars

\* The two halves of each unblock of tick.
Fire ==
    /\ \E t \in firing : P!Wake(Timer, t) /\ firing' = firing \ {t}
    /\ UNCHANGED <<kind, queue, now, alarm, pc, req, idx, waking, left, calls, expired, bare>>
    /\ UNCHANGED objVars

Fired ==
    /\ P!Return(Timer)
    /\ UNCHANGED <<kind, queue, now, alarm, firing, pc, req, idx, waking, left, calls, expired, bare>>
    /\ UNCHANGED objVars

----------------------------------------------------------------------------
\* The scheduler makes a parked thread with a recorded wake runnable.
Resume(t) ==
    /\ P!Resume(t)
    /\ UNCHANGED <<kind, queue, now, alarm, firing, pc, req, idx, waking, left, calls, expired, bare>>
    /\ UNCHANGED objVars

\* What a thread does once it is inside a call.
Proceed(t) ==
    \/ ScanAny(t) \/ ScanAll(t) \/ TakeAll(t)
    \/ Enqueue(t) \/ Arm(t) \/ Block(t) \/ Woken(t) \/ Scrub(t) \/ Disarm(t)
    \/ Take(t) \/ UnblockNext(t) \/ Unblocked(t)

Next ==
    \/ \E t \in Threads :
        WaitCall(t) \/ SignalCall(t) \/ Proceed(t) \/ Resume(t)
    \/ Tick \/ Fire \/ Fired

Spec == Init /\ [][Next]_vars

(***************************************************************************)
(* A thread inside a call goes on whenever it is runnable (Sched!ReadyRuns *)
(* and the fairness of Park), and the timer interrupt keeps coming.        *)
(* Threads need not call anything.                                         *)
(***************************************************************************)
Fairness ==
    /\ \A t \in Threads : WF_vars(Proceed(t)) /\ WF_vars(Resume(t))
    /\ WF_vars(Tick) /\ WF_vars(Fire) /\ WF_vars(Fired)

FairSpec == Spec /\ Fairness

----------------------------------------------------------------------------
\* The thread is inside a blocking wait, from its enqueue to its clean-up.
Enqueued(t) ==
    pc[t] \in {"arm", "block", "scrub", "disarm"} \/ mode[t] = "parked"

Available(o) == IF kind[o] = "Mutant" THEN owner[o] = None ELSE value[o] > 0

\* The window between a waiter's check and its sleep is closed: nobody is left
\* on the queue of a signalled event, unless the signaller has yet to drain it.
\* (A WaitAll may sleep while some of its objects are signalled.)
NoSleepOverSignal ==
    \A o \in Objects, t \in Threads :
        /\ kind[o] \in {"Manual", "Auto"} /\ value[o] = 1
        /\ t \in Range(queue[o]) /\ req[t].form # "all"
        => /\ kind[o] = "Manual"
           /\ \E u \in Threads : pc[u] = "notify" /\ Obj(u) = o

\* A wait with a deadline or on several objects leaves nothing behind: the
\* wheel, and a queue, hold a thread only while it is inside that very wait, or
\* through a plain wait_if, which a wake meant for another wait may have ended.
NoStaleEntry ==
    \A t \in Threads :
        /\ alarm[t] # None => Enqueued(t) /\ req[t].until = alarm[t]
        /\ \A o \in Objects :
            t \in Range(queue[o]) /\ o \notin bare[t] => Enqueued(t) /\ o \in Objs(t)

\* A timed wait ends, whatever the wakers do.
TimedWaitEnds ==
    \A t \in Threads : req[t].until # None ~> pc[t] = "idle"

\* A thread that waits for one object, without a deadline.
WaitsFor(t, o) == req[t] = [form |-> "one", objs |-> <<o>>, until |-> None]

\* An object that is free does not leave a waiter asleep, unless some wait has
\* timed out.  (An Auto event is not free for a waiter that re-checks.)
FreedIsTaken ==
    \A t \in Threads, o \in Objects :
        kind[o] # "Auto" /\ WaitsFor(t, o) /\ Available(o)
            ~> ~WaitsFor(t, o) \/ ~Available(o) \/ expired

\* Nothing is under way: every thread is outside the kernel or asleep.
Quiet ==
    /\ \A t \in Threads : pc[t] = "idle" \/ (mode[t] = "parked" /\ ~token[t])
    /\ \A c \in Threads \cup {Timer} : call[c] = None
    /\ firing = {}

\* A released unit wakes a waiter: none sleeps on while a unit is free.
NoneStranded ==
    Quiet => \A t \in Threads, o \in Objects : WaitsFor(t, o) => ~Available(o)

\* A signal of an Auto event is latched until a wait returns for it.
NoSignalLost ==
    Quiet => \A o \in Objects : kind[o] = "Auto" => owed[o] <= value[o]

\* A signal of an Auto event lets no more than one wait return.
OneWaitPerSignal == \A o \in Objects : owed[o] >= 0

----------------------------------------------------------------------------
(* What keeps the invariants above: the inductive invariant. *)

Requests ==
    [form : AllForms \cup {"none", "wake"}, objs : Seq(Objects), until : Nat \cup {None}]

TypeOK ==
    /\ kind \in [Objects -> AllKinds]
    /\ value \in [Objects -> Int]
    /\ queue \in [Objects -> Seq(Threads)]
    /\ alarm \in [Threads -> Nat \cup {None}]
    /\ now \in Nat
    /\ pc \in [Threads -> PcValues]
    /\ req \in [Threads -> Requests]
    /\ idx \in [Threads -> Nat]
    /\ mode \in [Threads -> {"runnable", "parked"}]
    /\ bare \in [Threads -> SUBSET Objects]

\* The call a thread is in fits the place it is at.
CallInv(t) ==
    /\ req[t].form = "sleep" => req[t].objs = <<>> /\ req[t].until # None
    /\ req[t].form \in {"one", "any", "all", "wake"} => req[t].objs # <<>>
    /\ pc[t] \in {"notify", "unblock"} => req[t].form = "wake"
    /\ pc[t] \notin {"notify", "unblock", "idle"} => req[t].form \in AllForms
    /\ pc[t] = "arm" => req[t].until # None
    /\ pc[t] \notin {"scan", "take", "scrub"} => idx[t] = 1
    /\ pc[t] \in {"scan", "take", "scrub"} => idx[t] \in 1..Len(req[t].objs)
    /\ mode[t] = "parked" => pc[t] \in {"scrub", "disarm"} \/ (pc[t] \in {"woken", "scan"} /\ ~Scrubs(t))

\* A wait_if knows its entries for its own, and a clean-up has removed the
\* entries of the objects it is past.
EntryInv(t) ==
    /\ (pc[t] = "block" \/ mode[t] = "parked") /\ ~Scrubs(t) => Objs(t) \subseteq bare[t]
    /\ pc[t] = "scrub" => \A j \in 1..idx[t] - 1 : t \notin Range(queue[req[t].objs[j]])
    /\ pc[t] = "disarm" => \A o \in Objs(t) : t \notin Range(queue[o])

\* NoStaleEntry, for one thread.
OwnEntries(t) ==
    /\ alarm[t] # None => Enqueued(t) /\ req[t].until = alarm[t]
    /\ \A o \in Objects :
        t \in Range(queue[o]) /\ o \notin bare[t] => Enqueued(t) /\ o \in Objs(t)

\* A WaitAll that has its entry on the queue of o.
AllWait(t, o) ==
    /\ req[t].form = "all" /\ o \in Objs(t)
    /\ pc[t] \in {"arm", "block", "scrub"}

\* NoSleepOverSignal, for one object, and also for a thread whose entry a
\* wait_if left behind and that has gone on to call a WaitAll.
SignalInv(o) ==
    kind[o] \in {"Manual", "Auto"} /\ value[o] = 1 =>
        \A t \in Threads :
            t \in Range(queue[o]) /\ ~AllWait(t, o) =>
                /\ kind[o] = "Manual"
                /\ \E u \in Threads : pc[u] = "notify" /\ Obj(u) = o

ThreadInv(t) == CallInv(t) /\ EntryInv(t) /\ OwnEntries(t)

IInv ==
    /\ TypeOK
    /\ \A o \in Objects : SignalInv(o)
    /\ \A t \in Threads : ThreadInv(t)

============================================================================
