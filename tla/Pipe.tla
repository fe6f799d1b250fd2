-------------------------------- MODULE Pipe --------------------------------
(***************************************************************************)
(* A pipe (kernel/src/file.rs): a bounded buffer with a read end and a     *)
(* write end over one wait queue, and the descriptors that refer to them.  *)
(*                                                                         *)
(* The scheduler is the contract Park.  One step is one critical section   *)
(* of the buffer or queue lock, or one atomic access outside them.  An end *)
(* is dropped by whoever gives up the last reference to it: a descriptor,  *)
(* or a call that outlived the last descriptor.                            *)
(***************************************************************************)
EXTENDS Naturals, Sequences, FiniteSets

CONSTANTS
    Threads,
    None,
    Cap,        \* PIPE_CAP
    MaxLen,     \* the longest read or write
    MaxFds,     \* descriptors that refer to one end
    MaxCalls    \* the reads, writes and dups of all threads together

ASSUME PipeAssumption ==
    /\ Cap \in Nat \ {0}
    /\ MaxLen \in Nat \ {0}
    /\ MaxFds \in Nat \ {0}
    /\ MaxCalls \in Nat
    /\ None \notin Threads \cup {"r", "w"}

Ends == {"r", "w"}

VARIABLES
    len,        \* the length of PipeInner.buf
    alive,      \* the ends whose count (readers, writers) is not zero
    fds,        \* descriptors that refer to each end
    queue,      \* the waiters of PipeInner.wq
    pc,         \* where a thread is in its call
    end,        \* the end its call holds a reference to
    todo,       \* what is left of its buffer
    waking,     \* the threads wake_all drained and has yet to unblock
    calls,      \* the reads, writes and dups made so far
    mode,       \* Park
    token,      \* Park
    call,       \* Park
    ended       \* history: some read has returned end-of-file

parkVars == <<mode, token, call>>
vars == <<len, alive, fds, queue, pc, end, todo, waking, calls, mode, token,
          call, ended>>

P == INSTANCE Park WITH Callers <- Threads

(***************************************************************************)
(* "read":   read is about to lock the buffer;                             *)
(* "check":  write is about to load `readers', "put" to lock the buffer;   *)
(* "queue":  wait_if is about to lock the wait queue;                      *)
(* "block":  wait_if has enqueued the thread;                              *)
(* "wake":   wake_all is about to lock the queue, "unblock" has drained it. *)
(***************************************************************************)
PcValues == {"idle", "read", "check", "put", "queue", "block", "wake", "unblock"}

Init ==
    /\ len = 0
    /\ alive = Ends
    /\ fds = [e \in Ends |-> 1]
    /\ queue = <<>>
    /\ pc = [t \in Threads |-> "idle"]
    /\ end = [t \in Threads |-> None]
    /\ todo = [t \in Threads |-> 0]
    /\ waking = [t \in Threads |-> <<>>]
    /\ calls = 0
    /\ mode = [t \in Threads |-> "runnable"]
    /\ token = [t \in Threads |-> FALSE]
    /\ call = [t \in Threads |-> None]
    /\ ended = FALSE

At(t, p) == pc[t] = p /\ mode[t] = "runnable"
Goto(t, p) == pc' = [pc EXCEPT ![t] = p]

Min2(a, b) == IF a <= b THEN a ELSE b

----------------------------------------------------------------------------
(* Descriptors. *)

\* Mistake: closing the last descriptor drops the end under a call in progress.
SoleDescriptor(t, e, left) == left = 0

\* t gives up a reference to e: no descriptor is left and no call has one.
LastReference(t, e, left) ==
    /\ left = 0
    /\ \A u \in Threads \ {t} : end[u] # e

\* Mistake: Drop counts the end down and wakes nobody.
ReleaseQuietly(t, e, left) ==
    /\ end' = [end EXCEPT ![t] = None]
    /\ todo' = [todo EXCEPT ![t] = 0]
    /\ alive' = IF LastReference(t, e, left) THEN alive \ {e} ELSE alive
    /\ Goto(t, "idle")

\* Drop for an end: count it down, then wake everybody; t's call is over.
Release(t, e, left) ==
    /\ end' = [end EXCEPT ![t] = None]
    /\ todo' = [todo EXCEPT ![t] = 0]
    /\ IF LastReference(t, e, left)
       THEN alive' = alive \ {e} /\ Goto(t, "wake")
       ELSE UNCHANGED alive /\ Goto(t, "idle")

Begin(t) ==
    /\ At(t, "idle")
    /\ calls < MaxCalls
    /\ calls' = calls + 1

\* dup and fork share the end object.
Dup(t) ==
    /\ Begin(t)
    /\ \E e \in Ends : fds[e] \in 1..(MaxFds - 1) /\ fds' = [fds EXCEPT ![e] = @ + 1]
    /\ UNCHANGED <<len, alive, queue, pc, end, todo, waking, ended>>
    /\ UNCHANGED parkVars

\* fd_close, close_on_exec, and the exit of the task that held the descriptor.
Close(t) ==
    /\ At(t, "idle")
    /\ \E e \in Ends :
        /\ fds[e] > 0
        /\ fds' = [fds EXCEPT ![e] = @ - 1]
        /\ Release(t, e, fds[e] - 1)
    /\ UNCHANGED <<len, queue, waking, calls, ended>>
    /\ UNCHANGED parkVars

\* read or write through a descriptor: fd_get clones the reference.
Enter(t) ==
    /\ Begin(t)
    /\ \E e \in Ends, n \in 0..MaxLen :
        /\ fds[e] > 0
        /\ e = "w" => n > 0    \* an empty write returns at once
        /\ end' = [end EXCEPT ![t] = e]
        /\ todo' = [todo EXCEPT ![t] = n]
        /\ Goto(t, IF e = "r" THEN "read" ELSE "check")
    /\ UNCHANGED <<len, alive, fds, queue, waking, ended>>
    /\ UNCHANGED parkVars

----------------------------------------------------------------------------
(* The read end. *)

\* The buffer's critical section of read: data, or end-of-file, or a wait.
Read(t) ==
    /\ At(t, "read")
    /\ IF len > 0
       THEN /\ len' = len - Min2(todo[t], len)
            /\ Goto(t, "wake")
            /\ todo' = [todo EXCEPT ![t] = 0]
            /\ UNCHANGED <<alive, end, ended>>
       ELSE IF "w" \notin alive
       THEN ended' = TRUE /\ Release(t, "r", fds["r"]) /\ UNCHANGED len
       ELSE /\ Goto(t, "queue")
            /\ UNCHANGED <<len, alive, end, todo, ended>>
    /\ UNCHANGED <<fds, queue, waking, calls>>
    /\ UNCHANGED parkVars

----------------------------------------------------------------------------
(* The write end. *)

\* The load of `readers' at the head of write's loop: EPIPE or a short count.
Check(t) ==
    /\ At(t, "check")
    /\ IF "r" \in alive
       THEN Goto(t, "put") /\ UNCHANGED <<alive, end, todo>>
       ELSE Release(t, "w", fds["w"])
    /\ UNCHANGED <<len, fds, queue, waking, calls, ended>>
    /\ UNCHANGED parkVars

\* Mistake: the readers are only woken by the write that completes.
PutSilently(t) ==
    LET n == Min2(Cap - len, todo[t])
    IN  /\ At(t, "put")
        /\ len' = len + n
        /\ todo' = [todo EXCEPT ![t] = @ - n]
        /\ Goto(t, IF n = 0 THEN "queue" ELSE IF n = todo[t] THEN "wake" ELSE "check")
        /\ UNCHANGED <<alive, fds, queue, end, waking, calls, ended>>
        /\ UNCHANGED parkVars

\* The buffer's critical section of write: what fits, or a wait.
Put(t) ==
    LET n == Min2(Cap - len, todo[t])
    IN  /\ At(t, "put")
        /\ len' = len + n
        /\ todo' = [todo EXCEPT ![t] = @ - n]
        /\ Goto(t, IF n = 0 THEN "queue" ELSE "wake")
        /\ UNCHANGED <<alive, fds, queue, end, waking, calls, ended>>
        /\ UNCHANGED parkVars

----------------------------------------------------------------------------
(* Waiting and waking. *)

\* Mistake: the readers' condition does not look at the write end.
BlocksOnEmpty(t) == IF end[t] = "r" THEN len = 0 ELSE len = Cap /\ "r" \in alive

\* The condition of the two wait_if calls, evaluated under the queue lock.
ShouldBlock(t) ==
    IF end[t] = "r" THEN len = 0 /\ "w" \in alive ELSE len = Cap /\ "r" \in alive

\* The head of the call's loop.
Again(t) == IF end[t] = "r" THEN "read" ELSE "check"

\* The critical section of wait_if.
Enqueue(t) ==
    /\ At(t, "queue")
    /\ IF ShouldBlock(t)
       THEN P!Arm(t) /\ queue' = Append(queue, t) /\ Goto(t, "block")
       ELSE UNCHANGED queue /\ Goto(t, Again(t)) /\ UNCHANGED parkVars
    /\ UNCHANGED <<len, alive, fds, end, todo, waking, calls, ended>>

\* block_current; the loop follows when the thread is resumed.
Block(t) ==
    /\ At(t, "block")
    /\ IF token[t] THEN UNCHANGED parkVars ELSE P!Sleep(t)
    /\ Goto(t, Again(t))
    /\ UNCHANGED <<len, alive, fds, queue, end, todo, waking, calls, ended>>

\* What follows a wake_all: the call returns, or write goes on with the rest.
Woke(t) ==
    IF end[t] = None
    THEN Goto(t, "idle") /\ UNCHANGED <<alive, end, todo>>
    ELSE IF todo[t] = 0
    THEN Release(t, end[t], fds[end[t]])
    ELSE Goto(t, Again(t)) /\ UNCHANGED <<alive, end, todo>>

\* wake_all: drain the queue under its lock, then unblock one by one.
WakeAll(t) ==
    /\ At(t, "wake")
    /\ waking' = [waking EXCEPT ![t] = queue]
    /\ queue' = <<>>
    /\ UNCHANGED fds
    /\ IF queue = <<>> THEN Woke(t) ELSE Goto(t, "unblock") /\ UNCHANGED <<alive, end, todo>>
    /\ UNCHANGED <<len, calls, ended>>
    /\ UNCHANGED parkVars

UnblockNext(t) ==
    /\ At(t, "unblock")
    /\ waking[t] # <<>>
    /\ P!Wake(t, Head(waking[t]))
    /\ waking' = [waking EXCEPT ![t] = Tail(@)]
    /\ UNCHANGED <<len, alive, fds, queue, pc, end, todo, calls, ended>>

Unblocked(t) ==
    /\ At(t, "unblock")
    /\ P!Return(t)
    /\ UNCHANGED fds
    /\ IF waking[t] = <<>> THEN Woke(t) ELSE UNCHANGED <<pc, alive, end, todo>>
    /\ UNCHANGED <<len, queue, waking, calls, ended>>

\* The scheduler makes a parked thread with a recorded wake runnable.
Resume(t) ==
    /\ P!Resume(t)
    /\ UNCHANGED <<len, alive, fds, queue, pc, end, todo, waking, calls, ended>>

Proceed(t) ==
    \/ Read(t) \/ Check(t) \/ Put(t) \/ Enqueue(t) \/ Block(t)
    \/ WakeAll(t) \/ UnblockNext(t) \/ Unblocked(t)

Next ==
    \E t \in Threads : Dup(t) \/ Close(t) \/ Enter(t) \/ Proceed(t) \/ Resume(t)

Spec == Init /\ [][Next]_vars

\* A runnable thread goes on with its call, and a recorded wake takes effect.
Fairness == \A t \in Threads : WF_vars(Proceed(t)) /\ WF_vars(Resume(t))

FairSpec == Spec /\ Fairness

----------------------------------------------------------------------------
(* Properties. *)

\* The state is well formed; the buffer never holds more than PIPE_CAP.
TypeOK ==
    /\ len \in 0..Cap
    /\ alive \subseteq Ends
    /\ fds \in [Ends -> 0..MaxFds]
    /\ queue \in Seq(Threads)
    /\ pc \in [Threads -> PcValues]
    /\ end \in [Threads -> Ends \cup {None}]
    /\ todo \in [Threads -> 0..MaxLen]
    /\ waking \in [Threads -> Seq(Threads)]
    /\ calls \in 0..MaxCalls
    /\ mode \in [Threads -> {"runnable", "parked"}]
    /\ token \in [Threads -> BOOLEAN]
    /\ call \in [Threads -> Threads \cup {None}]
    /\ ended \in BOOLEAN

In(t, s) == \E i \in 1..Len(s) : s[i] = t

\* A wake is recorded for t, or somebody is on the way to record one.
WakeComing(t) ==
    \/ token[t]
    \/ \E u \in Threads : In(t, waking[u])
    \/ In(t, queue) /\ \E u \in Threads : pc[u] = "wake"

\* No reader sleeps over data or a closed write end, no writer over space or
\* a closed read end, unless a wake for it is already under way: the test in
\* wait_if and every "change, then wake_all" of the two ends close the window.
NoSleepOverChange ==
    \A t \in Threads : mode[t] = "parked" /\ ~ShouldBlock(t) => WakeComing(t)

\* Once some read has returned end-of-file the stream is over: nothing is left
\* to read and nobody is still writing, even in a call that began before the
\* last descriptor of the write end was closed.
EofIsFinal ==
    ended => len = 0 /\ \A t \in Threads : end[t] # "w"

\* When the last write end goes every read returns, when the last read end
\* goes every write does, asleep or not.
ClosedEndSeen ==
    \A t \in Threads :
        /\ (end[t] = "r" /\ "w" \notin alive) ~> (end[t] # "r")
        /\ (end[t] = "w" /\ "r" \notin alive) ~> (end[t] # "w")

\* Data does not lie in the buffer while a reader waits, nor space while a
\* writer does: the call returns, or others use the data or the space up.
BytesMove ==
    \A t \in Threads :
        /\ (end[t] = "r" /\ len > 0) ~> (end[t] # "r" \/ len = 0)
        /\ (end[t] = "w" /\ len < Cap) ~> (end[t] # "w" \/ len = Cap)

----------------------------------------------------------------------------
(* The inductive invariant behind the safety properties. *)

\* Where a thread is says which end its call holds, and only a thread inside
\* wake_all has drained entries left.
PlaceInv ==
    \A t \in Threads :
        /\ pc[t] = "idle" => end[t] = None
        /\ pc[t] = "read" => end[t] = "r"
        /\ pc[t] \in {"check", "put"} => end[t] = "w"
        /\ pc[t] \in {"queue", "block"} => end[t] \in Ends
        /\ pc[t] # "unblock" => waking[t] = <<>>

\* A dropped end has no references left.
EndInv ==
    /\ \A e \in Ends : e \notin alive => fds[e] = 0 /\ \A t \in Threads : end[t] # e
    /\ ended => len = 0 /\ "w" \notin alive

\* Committed to sleep, or asleep.
Waiting(t) == pc[t] = "block" \/ mode[t] = "parked"

\* A waiting thread without a recorded wake can be found by a waker, and when
\* its condition no longer holds a waker is coming.
WakeInv ==
    \A t \in Threads : Waiting(t) =>
        /\ token[t] \/ In(t, queue) \/ \E u \in Threads : In(t, waking[u])
        /\ ~ShouldBlock(t) => WakeComing(t)

\* The pipe's state is consistent at every step of every call.
IInv == TypeOK /\ PlaceInv /\ EndInv /\ WakeInv

=============================================================================
