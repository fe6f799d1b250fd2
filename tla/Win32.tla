-------------------------------- MODULE Win32 -------------------------------
(***************************************************************************)
(* Control transfers into ring 3 and message queues of a PE process: the   *)
(* callback mechanism of user32 (kernel/src/nt.rs, process.rs), user APCs  *)
(* (apc.rs), vectored exceptions (seh.rs), and window messages (window.rs).*)
(*                                                                         *)
(* A thread's user stack is a sequence of activations: its main function,  *)
(* window procedures, APC routines, exception handlers.  An activation is  *)
(* [why, at, ctx]: at counts the calls it has seen return, the register    *)
(* state, and ctx is the state it interrupted: of an APC or exception      *)
(* activation a CONTEXT on that same stack; a callback's the kernel keeps. *)
(***************************************************************************)
EXTENDS Naturals, Sequences, FiniteSets, Functions

CONSTANTS
    Threads,
    MaxDepth,       \* activations on a stack
    MaxCalls,       \* calls an activation makes
    MaxEvents       \* APCs ever queued and messages ever posted, together

VARIABLES
    user,       \* Threads -> activations, innermost last; <<>> when it has exited
    frames,     \* CALLBACK_FRAMES
    apcs,       \* the task's APC queue
    nApcs,      \* APCs queued so far
    veh,        \* a vectored handler is armed (PE_EXC_ADDR)
    class,      \* a window class is registered (CLASSES)
    windows,    \* WINDOWS: the owner of each window, by HWND
    queue,      \* QUEUES
    getting,    \* Threads -> "no", "asleep" or "woken" in get_message
    posted, got \* Threads -> messages posted to it; received by it

win32Vars == <<user, frames, apcs, nApcs, veh, class, windows, queue, getting, posted, got>>
rest == <<apcs, nApcs, veh>>
messages == <<class, windows, queue, getting, posted, got>>

\* Vec::last and pop, of a stack, the saved frames, or what a thread has received.
last(s) == s[Len(s)]
pop(s) == SubSeq(s, 1, Len(s) - 1)

\* Ring 3 enters a new activation, over the state ctx; main is over nothing.
Enters(s, why, ctx) == Append(s, [why |-> why, at |-> 0, ctx |-> ctx])
Nowhere == [depth |-> 0, at |-> 0]

Win32Init ==
    /\ user = [t \in Threads |-> Enters(<<>>, "main", Nowhere)]
    /\ frames = [t \in Threads |-> <<>>]
    /\ apcs = <<>> /\ nApcs = 0 /\ veh = FALSE
    /\ class = FALSE /\ windows = <<>>
    /\ queue = [t \in Threads |-> <<>>]
    /\ getting = [t \in Threads |-> "no"]
    /\ posted = [t \in Threads |-> <<>>] /\ got = [t \in Threads |-> <<>>]

\* What has been queued so far.
Events == nApcs + FoldFunction(LAMBDA q, n : Len(q) + n, 0, posted)

\* The state a kernel entry of t captures: where its innermost activation is.
Regs(t) == [depth |-> Len(user[t]), at |-> last(user[t]).at]

InRing3(t) == user[t] # <<>> /\ getting[t] = "no"
MayNest(t) == Len(user[t]) < MaxDepth /\ last(user[t]).at < MaxCalls

\* write_context and stage: the dispatcher runs above a CONTEXT of the state r.
stage(s, r) == Enters(s, "apc", r)

\* Ring 3 goes on in activation d, at n: the stack above it is gone.
Cut(s, d, n) == [SubSeq(s, 1, d) EXCEPT ![d].at = n]
Resume(t, r) == [user EXCEPT ![t] = Cut(@, r.depth, r.at + 1)]

----------------------------------------------------------------------------
(* Callbacks. *)

\* Mistake: one save slot per thread.
PushOneSlot(t) == [frames EXCEPT ![t] = <<Regs(t)>>]
push_callback_frame(t) == [frames EXCEPT ![t] = Append(@, Regs(t))]

invoke_ring3_callback(t) ==
    /\ InRing3(t) /\ MayNest(t)
    /\ frames' = push_callback_frame(t)
    /\ user' = [user EXCEPT ![t] = Enters(@, "callback", Regs(t))]
    /\ UNCHANGED <<rest, messages>>

CallWindowProcA(t) == invoke_ring3_callback(t)
UpdateWindow(t) == windows # <<>> /\ invoke_ring3_callback(t)

\* The message is the last one received; WM_QUIT has no window.
DispatchMessageA(t) ==
    /\ got[t] # <<>> /\ last(got[t]).hwnd # 0
    /\ invoke_ring3_callback(t)

\* The callback returns into the trampoline page, which makes the system call.
CallbackReturns(t) == InRing3(t) /\ last(user[t]).why = "callback"

NtCallbackReturn(t) ==
    /\ CallbackReturns(t)
    /\ user' = Resume(t, last(frames[t]))
    /\ frames' = [frames EXCEPT ![t] = pop(@)]
    /\ UNCHANGED <<rest, messages>>

\* Activations are left for an outer one without a return (longjmp, a handler that
\* unwinds): the kernel does not hear of it, and the saved frames stay.  A program
\* that leaves a callback leaves them all; see the README for the other case.
Unwind(t) ==
    /\ InRing3(t) /\ Len(user[t]) > 1
    /\ \E d \in 1..Len(user[t]) - 1 :
        /\ user[t][d].at < MaxCalls
        /\ \/ \A e \in 2..d : user[t][e].why # "callback"
           \/ \A e \in d + 1..Len(user[t]) : user[t][e].why # "callback"
        /\ user' = [user EXCEPT ![t] = Cut(@, d, @[d].at + 1)]
    /\ UNCHANGED <<frames, rest, messages>>

----------------------------------------------------------------------------
(* APCs. *)

apc_queue(e) == apcs' = Append(apcs, e)
apc_take == apcs' = Tail(apcs)
apc_pending == apcs # <<>>

NtQueueApcThread(t) ==
    /\ InRing3(t) /\ Events < MaxEvents
    /\ nApcs' = nApcs + 1
    /\ apc_queue(nApcs + 1)
    /\ UNCHANGED <<user, frames, veh, messages>>

\* NtTestAlert, and an alertable wait with an APC pending: take_and_stage over the
\* caller's own state.
TestAlert(t) ==
    /\ InRing3(t) /\ MayNest(t) /\ apc_pending
    /\ apc_take
    /\ user' = [user EXCEPT ![t] = stage(@, Regs(t))]
    /\ UNCHANGED <<frames, nApcs, veh, messages>>

\* The routine returns to the dispatcher page, which calls NtContinue and asks for
\* the next APC.
KiUserApcDispatcher(t) == InRing3(t) /\ last(user[t]).why = "apc"

\* NtContinue(ctx, TestAlert) from KiUserApcDispatcher: the next APC is staged over
\* the state of the CONTEXT, or that state resumes.
NtContinueApc(t) ==
    /\ KiUserApcDispatcher(t)
    /\ IF apc_pending
       THEN /\ user' = [user EXCEPT ![t] = stage(pop(@), last(@).ctx)]
            /\ apc_take
       ELSE user' = Resume(t, last(user[t]).ctx) /\ UNCHANGED apcs
    /\ UNCHANGED <<frames, nApcs, veh, messages>>

----------------------------------------------------------------------------
(* Exceptions. *)

\* RtlAdd- and RtlRemoveVectoredExceptionHandler: one slot for the process.
SetHandler(t) ==
    /\ InRing3(t)
    /\ veh' = ~veh
    /\ UNCHANGED <<user, frames, apcs, nApcs, messages>>

\* An EXCEPTION_RECORD and a CONTEXT go on the stack, below the dispatcher.
deliver(s, r) == Enters(s, "exception", r)

\* thos_fault_dispatch: deliver to ring 3, or the thread exits.
Fault(t) ==
    /\ InRing3(t) /\ MayNest(t)
    /\ user' = [user EXCEPT ![t] = IF veh THEN deliver(@, Regs(t)) ELSE <<>>]
    /\ UNCHANGED <<frames, rest, messages>>

\* KiUserExceptionDispatcher, once the handler has returned: NtContinue(ctx, FALSE),
\* or NtTerminateProcess if the handler declined.
KiUserExceptionDispatcher(t) ==
    /\ InRing3(t) /\ last(user[t]).why = "exception"
    /\ \/ user' = Resume(t, last(user[t]).ctx)
       \/ user' = [user EXCEPT ![t] = <<>>]
    /\ UNCHANGED <<frames, rest, messages>>

----------------------------------------------------------------------------
(* Messages. *)

\* Mistake: the newest message is taken first.
PushFront(to, m) == [queue EXCEPT ![to] = <<m>> \o @]
PushBack(to, m) == [queue EXCEPT ![to] = Append(@, m)]

\* The message joins the queue of a thread, and every thread asleep in GetMessageA
\* is woken.
post(t, to, m) ==
    /\ InRing3(t) /\ Events < MaxEvents
    /\ queue' = PushBack(to, m)
    /\ posted' = [posted EXCEPT ![to] = Append(@, m)]
    /\ getting' = [u \in Threads |-> IF getting[u] = "asleep" THEN "woken" ELSE getting[u]]
    /\ UNCHANGED <<user, frames, rest, class, got>>

RegisterClassA(t) ==
    /\ InRing3(t)
    /\ class' = TRUE
    /\ UNCHANGED <<user, frames, rest, windows, queue, getting, posted, got>>

\* No window, and no message, without a class.
CreateWindowExA(t) ==
    /\ class
    /\ windows' = Append(windows, t)
    /\ post(t, t, [hwnd |-> Len(windows) + 1, message |-> "WM_CREATE"])

\* The queue is the one of the window's owner.
post_message(t, hwnd, m) == post(t, windows[hwnd], [hwnd |-> hwnd, message |-> m]) /\ UNCHANGED windows

ShowWindow(t) == \E h \in DOMAIN windows : post_message(t, h, "WM_PAINT")
PostMessageA(t) == \E h \in DOMAIN windows : post_message(t, h, "WM_USER")
PostQuitMessage(t) == post(t, t, [hwnd |-> 0, message |-> "WM_QUIT"]) /\ UNCHANGED windows

\* What get_message returns once it is past wait_if: a made-up WM_QUIT if the wake
\* was for another thread.
Take(t) ==
    /\ queue' = [queue EXCEPT ![t] = IF @ = <<>> THEN @ ELSE Tail(@)]
    /\ got' = [got EXCEPT ![t] = IF queue[t] = <<>> THEN @ ELSE Append(@, Head(queue[t]))]

GetMessage(t) ==
    /\ InRing3(t)
    /\ IF queue[t] = <<>>
       THEN getting' = [getting EXCEPT ![t] = "asleep"] /\ UNCHANGED <<queue, got>>
       ELSE Take(t) /\ UNCHANGED getting
    /\ UNCHANGED <<user, frames, rest, class, windows, posted>>

Woken(t) ==
    /\ getting[t] = "woken"
    /\ Take(t)
    /\ getting' = [getting EXCEPT ![t] = "no"]
    /\ UNCHANGED <<user, frames, rest, class, windows, posted>>

----------------------------------------------------------------------------

Win32Next ==
    \E t \in Threads :
        \/ CallWindowProcA(t) \/ UpdateWindow(t) \/ DispatchMessageA(t) \/ NtCallbackReturn(t)
        \/ Unwind(t) \/ NtQueueApcThread(t) \/ TestAlert(t) \/ NtContinueApc(t)
        \/ SetHandler(t) \/ Fault(t) \/ KiUserExceptionDispatcher(t)
        \/ RegisterClassA(t) \/ CreateWindowExA(t) \/ ShowWindow(t) \/ PostMessageA(t)
        \/ PostQuitMessage(t) \/ GetMessage(t) \/ Woken(t)

Win32Spec == Win32Init /\ [][Win32Next]_win32Vars

----------------------------------------------------------------------------
(* Properties. *)

\* The state that activation d of a stack interrupted, in the one below it.
Interrupted(s, d) == [depth |-> d - 1, at |-> s[d - 1].at]

\* The callbacks on a stack, and those from depth d up.
Callbacks(s) == {d \in 2..Len(s) : s[d].why = "callback"}
Inner(s, d) == {e \in Callbacks(s) : e >= d}

\* What a stack's CONTEXTs and a thread's saved frames are to hold.
ReturnsFit(s, f) ==
    /\ \A d \in 2..Len(s) : s[d].ctx = Interrupted(s, d)
    /\ \A d \in Callbacks(s) :
        LET n == Cardinality(Inner(s, d))
        IN n <= Len(f) /\ f[Len(f) - n + 1] = Interrupted(s, d)

\* Whatever nests - callbacks in APCs in exception handlers, on two threads, with
\* activations abandoned half-way - every return goes to the state it interrupted:
\* a CONTEXT holds the state of the activation below it, and the callbacks that are
\* still active match the newest saved frames, innermost last (CALLBACK_FRAMES,
\* apc::stage, seh::deliver, NtContinue, NtCallbackReturn).
ResumesInterrupted == \A t \in Threads : ReturnsFit(user[t], frames[t])

\* A thread receives the messages posted to its queue, once each and in order,
\* whatever wakes it up, and no window's message ever reaches another thread than
\* the one whose WndProc must handle it (post, post_message, get_message).
MessagesInOrder ==
    \A t \in Threads :
        /\ posted[t] = got[t] \o queue[t]
        /\ \A n \in DOMAIN posted[t] :
            posted[t][n].hwnd # 0 => windows[posted[t][n].hwnd] = t

(* The inductive invariant. *)

SavedState == [depth : Nat, at : Nat]
Reasons == {"main", "callback", "apc", "exception"}
Activation == [why : Reasons, at : Nat, ctx : SavedState]
Message == [hwnd : Nat, message : {"WM_CREATE", "WM_PAINT", "WM_USER", "WM_QUIT"}]

\* A thread's stack starts in main, which interrupts nothing; its returns fit.
StackInv(s, f) ==
    /\ s \in Seq(Activation) /\ f \in Seq(SavedState)
    /\ s # <<>> => s[1].why = "main"
    /\ ReturnsFit(s, f)

StacksInv ==
    /\ user \in [Threads -> Seq(Activation)] /\ frames \in [Threads -> Seq(SavedState)]
    /\ \A t \in Threads : StackInv(user[t], frames[t])

\* Every message is for a window that exists, or for none; MessagesInOrder then stays
\* true when windows are created.
QueuesInv ==
    /\ windows \in Seq(Threads)
    /\ {queue, posted, got} \subseteq [Threads -> Seq(Message)]
    /\ \A t \in Threads : \A n \in DOMAIN posted[t] : posted[t][n].hwnd <= Len(windows)
    /\ MessagesInOrder

=============================================================================
