-------------------------------- MODULE Park --------------------------------
(***************************************************************************)
(* What the scheduler promises to the wait objects built on it (wait.rs,   *)
(* timer.rs): the contract of mark_blocking, block_current and unblock.    *)
(*                                                                         *)
(* A thread arms itself, which discards an older wake, and then parks      *)
(* unless a wake was recorded since.  A waker first records the wake, then *)
(* returns; a parked thread with a recorded wake becomes runnable.  A wake *)
(* still on its way when its thread re-arms may end the later wait without *)
(* a wake being recorded for it, which is why waits re-check.              *)
(***************************************************************************)
CONSTANTS
    Threads,
    Callers,   \* the flows of control that may be inside an unblock call
    None

VARIABLES
    mode,      \* what a thread is to its wakers
    token,     \* a wake was recorded since the thread last armed itself
    call       \* the thread whose wake a caller is inside of

vars == <<mode, token, call>>

Init ==
    /\ mode = [t \in Threads |-> "absent"]
    /\ token = [t \in Threads |-> FALSE]
    /\ call = [c \in Callers |-> None]

Become(t, from, to) ==
    /\ mode[t] = from
    /\ mode' = [mode EXCEPT ![t] = to]

Start(t) ==
    /\ Become(t, "absent", "runnable")
    /\ UNCHANGED <<token, call>>

Arm(t) ==
    /\ mode[t] = "runnable"
    /\ token' = [token EXCEPT ![t] = FALSE]
    /\ UNCHANGED <<mode, call>>

Sleep(t) ==
    /\ ~token[t]
    /\ Become(t, "runnable", "parked")
    /\ UNCHANGED <<token, call>>

Wake(c, t) ==
    /\ call[c] = None
    /\ mode[t] # "absent"
    /\ token' = [token EXCEPT ![t] = TRUE]
    /\ call' = [call EXCEPT ![c] = t]
    /\ UNCHANGED mode

\* The call ends; it may find its thread parked and make it runnable.
Return(c) ==
    /\ call[c] # None
    /\ call' = [call EXCEPT ![c] = None]
    /\ UNCHANGED mode \/ Become(call[c], "parked", "runnable")
    /\ UNCHANGED token

\* The thread's own CPU makes it runnable, on behalf of a waker.
Resume(t) ==
    /\ token[t]
    /\ Become(t, "parked", "runnable")
    /\ UNCHANGED <<token, call>>

Finish(t) ==
    /\ Become(t, "runnable", "gone")
    /\ UNCHANGED <<token, call>>

Next ==
    \/ \E t \in Threads :
        \/ Start(t) \/ Arm(t) \/ Sleep(t) \/ Resume(t) \/ Finish(t)
        \/ \E c \in Callers : Wake(c, t)
    \/ \E c \in Callers : Return(c)

Spec == Init /\ [][Next]_vars

Fairness ==
    /\ \A t \in Threads : WF_vars(Resume(t))
    /\ \A c \in Callers : WF_vars(Return(c))

FairSpec == Spec /\ Fairness
=============================================================================
