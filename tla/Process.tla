------------------------------ MODULE Process ------------------------------
(***************************************************************************)
(* Tasks, their threads and their address spaces (kernel/src/process.rs,   *)
(* sched.rs, syscall.rs, pe.rs and the thread services of nt.rs): spawn,   *)
(* fork, execve, exit, wait4, worker threads, and the reclaiming of a dead *)
(* thread's stack and of its task's memory by sched::reap.                 *)
(*                                                                         *)
(* One step is one critical section or one atomic access.  WaitQueue's     *)
(* wait_if is one step, as Waits and Park justify.  The personalities are  *)
(* not mixed in one task: an ELF task forks, execs and waits, a PE task    *)
(* creates threads, one worker at most (pe::spawn_thread has room for one). *)
(***************************************************************************)
EXTENDS Descriptors

CONSTANTS
    None,
    MaxPid,     \* tasks created and descriptor calls made, together
    MaxTid,     \* threads ever created
    MaxSpace,   \* address spaces ever created
    MaxFds,     \* slots of a descriptor table
    Codes       \* exit codes a program passes

ASSUME ProcessAssumption == None \notin Codes \cup {126}

VARIABLES
    task,       \* TASKS and the tasks its threads keep: pid -> task
    listed,     \* the pids in TASKS
    thr,        \* tid -> thread
    spaces,     \* the state of every address space
    exits,      \* THREAD_EXITS: workers with an exit event
    ops

vars == <<task, listed, thr, spaces, exits, ops>>

Pids == DOMAIN task
Tids == DOMAIN thr

(***************************************************************************)
(* Where a thread is: "user" in ring 3; "files", "exited" and "notify"     *)
(* inside set_exit_status, after the status is stored; "wait4" about       *)
(* to scan TASKS, "sleep" about to block, "asleep" blocked; "register",    *)
(* "handle" inside NtCreateThreadEx; "corpse" in the graveyard with a CPU  *)
(* still on its stack, "dead" off it, "reaped" freed.                      *)
(***************************************************************************)
GonePcs == {"corpse", "dead", "reaped"}

At(t, pc) == t \in Tids /\ thr[t].pc = pc
Goto(t, pc) == [thr EXCEPT ![t].pc = pc]
TaskOf(t) == task[thr[t].pid]

\* A fresh thread of pid, and the task's count of it.
Thread(pid, space, main) ==
    [pid |-> pid, space |-> space, pc |-> "user", arg |-> None, pin |-> None,
     leaks |-> 0, main |-> main]

\* Task::new: on TASKS before its first thread exists.
Task(ppid, space, fds, pe) ==
    [ppid |-> ppid, space |-> space, status |-> None, exited |-> FALSE,
     fds |-> fds, active |-> 1, pe |-> pe, execed |-> FALSE, worker |-> FALSE]

\* Process::new followed by Task::new and sched::spawn_user.
Spawn(ppid, fds, pe) ==
    /\ Len(task) + ops < MaxPid /\ Len(thr) < MaxTid /\ Len(spaces) < MaxSpace
    /\ spaces' = Append(spaces, "live")
    /\ task' = Append(task, Task(ppid, Len(spaces) + 1, fds, pe))
    /\ listed' = listed \cup {Len(task) + 1}
    /\ UNCHANGED <<exits, ops>>

Init ==
    /\ task = <<Task(0, 1, <<[obj |-> "console", cloexec |-> FALSE]>>, FALSE)>>
    /\ listed = {1}
    /\ thr = <<Thread(1, 1, TRUE)>>
    /\ spaces = <<"live">>
    /\ exits = {}
    /\ ops = 0

----------------------------------------------------------------------------
(* Creating tasks. *)

\* spawn_pe, from a kernel thread: nobody is its parent.
SpawnPe ==
    /\ Spawn(0, <<[obj |-> "console", cloexec |-> FALSE]>>, TRUE)
    /\ thr' = Append(thr, Thread(Len(task) + 1, Len(spaces) + 1, TRUE))

\* elevate: the gate, then a new task for the caller with a fresh table.
Elevate(t) ==
    /\ At(t, "user") /\ ~TaskOf(t).pe
    /\ Spawn(thr[t].pid, <<[obj |-> "console", cloexec |-> FALSE]>>, FALSE)
    /\ thr' = Append(thr, Thread(Len(task) + 1, Len(spaces) + 1, TRUE))

\* fork: every page is copied, the descriptor table is shared object by object.
Fork(t) ==
    /\ At(t, "user") /\ ~TaskOf(t).pe
    /\ Spawn(thr[t].pid, TaskOf(t).fds, FALSE)
    /\ thr' = Append(thr, Thread(Len(task) + 1, Len(spaces) + 1, TRUE))

\* The descriptor calls, with a budget.
SetFds(t, fds) ==
    /\ At(t, "user") /\ Len(task) + ops < MaxPid /\ Len(fds) <= MaxFds
    /\ fds # TaskOf(t).fds
    /\ task' = [task EXCEPT ![thr[t].pid].fds = fds]
    /\ ops' = ops + 1
    /\ UNCHANGED <<listed, thr, spaces, exits>>

OpenFile(t) == \E c \in BOOLEAN : SetFds(t, handle_alloc(TaskOf(t).fds, "file", c).tab)
PipeCall(t) == \E c \in BOOLEAN : SetFds(t, sys_pipe(TaskOf(t).fds, "read end", "write end", c))
CloseCall(t) == \E fd \in 0..MaxFds : SetFds(t, fd_close(TaskOf(t).fds, fd).tab)
DupCall(t) ==
    \E old, new \in 0..MaxFds :
        \/ SetFds(t, fd_dup(TaskOf(t).fds, old, new).tab)
        \/ SetFds(t, fd_dup_cloexec(TaskOf(t).fds, old, new).tab)
        \/ \E c \in BOOLEAN : SetFds(t, sys_dup3(TaskOf(t).fds, old, new, c).tab)

----------------------------------------------------------------------------
(* execve. *)

\* set_exit_status begins by storing the status.
SetStatus(t, code) == task' = [task EXCEPT ![thr[t].pid].status = code]

\* The native-exec gate says no: the caller ends with code 126.
ExecQuarantined(t) ==
    /\ At(t, "user") /\ ~TaskOf(t).pe
    /\ SetStatus(t, 126)
    /\ thr' = Goto(t, "files")
    /\ UNCHANGED <<listed, spaces, exits, ops>>

\* Mistake: the old address space is freed before the thread leaves it.
ExecFreesFirst(t) ==
    /\ At(t, "user") /\ ~TaskOf(t).pe
    /\ Len(spaces) < MaxSpace
    /\ spaces' = Append([spaces EXCEPT ![TaskOf(t).space] = "freed"], "live")
    /\ task' = [task EXCEPT ![thr[t].pid].space = Len(spaces) + 1,
                            ![thr[t].pid].fds = close_on_exec(@)]
    /\ thr' = [thr EXCEPT ![t].leaks = @ + 1]
    /\ UNCHANGED <<listed, exits, ops>>

\* A new space is loaded, close-on-exec descriptors are dropped, the spaces are
\* swapped and the old one is freed once CR3 points at the new one.  The call
\* leaves through thos_user_resume: its own reference to the thread is never
\* dropped.
Exec(t) ==
    /\ At(t, "user") /\ ~TaskOf(t).pe
    /\ Len(spaces) < MaxSpace
    /\ spaces' = Append([spaces EXCEPT ![TaskOf(t).space] = "freed"], "live")
    /\ task' = [task EXCEPT ![thr[t].pid].space = Len(spaces) + 1,
                            ![thr[t].pid].fds = close_on_exec(@),
                            ![thr[t].pid].execed = TRUE]
    /\ thr' = [thr EXCEPT ![t].space = Len(spaces) + 1, ![t].leaks = @ + 1]
    /\ UNCHANGED <<listed, exits, ops>>

----------------------------------------------------------------------------
(* Exit. *)

\* exit, exit_group, a fatal signal to itself, ExitProcess, an unhandled fault.
Exit(t) ==
    /\ At(t, "user")
    /\ \E c \in Codes : SetStatus(t, c)
    /\ thr' = Goto(t, "files")
    /\ UNCHANGED <<listed, spaces, exits, ops>>

\* Mistake: the task is published as exited before its files are closed.
PublishFirst(t) ==
    /\ At(t, "files")
    /\ task' = [task EXCEPT ![thr[t].pid].exited = TRUE]
    /\ thr' = Goto(t, "exited")
    /\ UNCHANGED <<listed, spaces, exits, ops>>

\* A zombie holds no open files.
ClearFiles(t) ==
    /\ At(t, "files")
    /\ task' = [task EXCEPT ![thr[t].pid].fds = <<>>]
    /\ thr' = Goto(t, "exited")
    /\ UNCHANGED <<listed, spaces, exits, ops>>

SetExited(t) ==
    /\ At(t, "exited")
    /\ task' = [task EXCEPT ![thr[t].pid].exited = TRUE]
    /\ thr' = Goto(t, "notify")
    /\ UNCHANGED <<listed, spaces, exits, ops>>

Woken(t) == [u \in Tids |->
    IF u = t THEN [thr[u] EXCEPT !.pc = "corpse"]
    ELSE IF thr[u].pc = "asleep" THEN [thr[u] EXCEPT !.pc = "wait4", !.pin = None]
    ELSE thr[u]]

\* CHILD_EXIT.wake_all, then sched::exit: the graveyard and the handoff hold
\* the thread.
Notify(t) ==
    /\ At(t, "notify")
    /\ thr' = Woken(t)
    /\ UNCHANGED <<task, listed, spaces, exits, ops>>

\* finish_switch, in whichever thread the CPU went to.
FinishSwitch(t) ==
    /\ At(t, "corpse")
    /\ thr' = Goto(t, "dead")
    /\ UNCHANGED <<task, listed, spaces, exits, ops>>

----------------------------------------------------------------------------
(* Worker threads of a PE task. *)

\* pe::spawn_thread: the worker is on the ready queue before its exit event
\* is registered.
NtCreateThreadEx(t) ==
    /\ At(t, "user") /\ TaskOf(t).pe /\ ~TaskOf(t).worker
    /\ Len(thr) < MaxTid
    /\ thr' = Append([thr EXCEPT ![t].pc = "register", ![t].arg = Len(thr) + 1],
                     Thread(thr[t].pid, TaskOf(t).space, FALSE))
    /\ task' = [task EXCEPT ![thr[t].pid].active = @ + 1, ![thr[t].pid].worker = TRUE]
    /\ UNCHANGED <<listed, spaces, exits, ops>>

RegisterThreadExit(t) ==
    /\ At(t, "register")
    /\ exits' = exits \cup {thr[t].arg}
    /\ thr' = Goto(t, "handle")
    /\ UNCHANGED <<task, listed, spaces, ops>>

AllocThreadHandle(t) ==
    /\ At(t, "handle")
    /\ task' = [task EXCEPT ![thr[t].pid].fds = handle_alloc(@, "thread", FALSE).tab]
    /\ thr' = [thr EXCEPT ![t].pc = "user", ![t].arg = None]
    /\ UNCHANGED <<listed, spaces, exits, ops>>

\* Registered workers signal their event and leave; anyone else ends the task.
NtTerminateThread(t) ==
    /\ At(t, "user") /\ TaskOf(t).pe
    /\ \E c \in Codes :
        IF t \in exits
        THEN exits' = exits \ {t} /\ thr' = Goto(t, "corpse") /\ UNCHANGED task
        ELSE /\ SetStatus(t, c)
             /\ thr' = Goto(t, "files")
             /\ UNCHANGED exits
    /\ UNCHANGED <<listed, spaces, ops>>

----------------------------------------------------------------------------
(* wait4. *)

Children(me, pid) == {p \in listed : task[p].ppid = me /\ (pid = -1 \/ p = pid)}
Zombies(me, pid) == {p \in Children(me, pid) : task[p].exited}

Wait4Call(t) ==
    /\ At(t, "user") /\ ~TaskOf(t).pe
    /\ \E pid \in {-1} \cup Pids : thr' = [thr EXCEPT ![t].pc = "wait4", ![t].arg = pid]
    /\ UNCHANGED <<task, listed, spaces, exits, ops>>

\* The lowest zombie leaves TASKS; without a matching child the call fails.
Wait4Scan(t) ==
    /\ At(t, "wait4")
    /\ LET z == Zombies(thr[t].pid, thr[t].arg)
           none == Children(thr[t].pid, thr[t].arg) = {}
       IN /\ listed' = IF z = {} THEN listed ELSE listed \ {Lowest(z)}
          /\ thr' = IF z # {} \/ none
                    THEN [thr EXCEPT ![t].pc = "user", ![t].arg = None]
                    ELSE Goto(t, "sleep")
    /\ UNCHANGED <<task, spaces, exits, ops>>

\* Mistake: the predicate asks only whether there is a child.
SleepAnyway(me, pid) == Children(me, pid) # {}

should_block_in_wait4(me, pid) == Children(me, pid) # {} /\ Zombies(me, pid) = {}

\* wait_if.  The suspended frame of reschedule keeps a reference to the thread
\* the CPU went to until this thread runs again.
Wait4Sleep(t) ==
    /\ At(t, "sleep")
    /\ IF should_block_in_wait4(thr[t].pid, thr[t].arg)
       THEN \E u \in (Tids \ {t}) \cup {None} :
                /\ u # None => thr[u].pc \notin GonePcs
                /\ thr' = [thr EXCEPT ![t].pc = "asleep", ![t].pin = u]
       ELSE thr' = Goto(t, "wait4")
    /\ UNCHANGED <<task, listed, spaces, exits, ops>>

----------------------------------------------------------------------------
(* Reclaiming. *)

Pinned(t) == \E u \in Tids : thr[u].pin = t

\* The graveyard's reference is the only one, and `running' is clear.
Dead(t) == thr[t].pc = "dead" /\ thr[t].leaks = 0 /\ ~Pinned(t)

\* Mistake: the count before the decrement is compared with zero.
NeverLast(p) == task[p].active = 0

thread_exited(p) == task[p].active = 1

\* sched::reap, one corpse at a time.
Reap(t) ==
    /\ t \in Tids
    /\ Dead(t)
    /\ LET p == thr[t].pid
       IN /\ task' = [task EXCEPT ![p].active = @ - 1]
          /\ spaces' = IF thread_exited(p) THEN [spaces EXCEPT ![task[p].space] = "freed"]
                       ELSE spaces
    /\ thr' = Goto(t, "reaped")
    /\ UNCHANGED <<listed, exits, ops>>

----------------------------------------------------------------------------

Ended(t) == ClearFiles(t) \/ SetExited(t) \/ Notify(t) \/ FinishSwitch(t)
Waiting(t) == Wait4Scan(t) \/ Wait4Sleep(t)
Starting(t) == RegisterThreadExit(t) \/ AllocThreadHandle(t)

Next ==
    \/ SpawnPe
    \/ \E t \in 1..MaxTid :
        \/ Elevate(t) \/ Fork(t) \/ ExecQuarantined(t) \/ Exec(t)
        \/ t \in Tids /\ (OpenFile(t) \/ PipeCall(t) \/ CloseCall(t) \/ DupCall(t))
        \/ Exit(t) \/ Ended(t)
        \/ NtCreateThreadEx(t) \/ Starting(t) \/ NtTerminateThread(t)
        \/ Wait4Call(t) \/ Waiting(t)
        \/ Reap(t)

Spec == Init /\ [][Next]_vars

\* The scheduler runs every runnable kernel path, and somebody keeps calling reap, as
\* process_teardown_check does: nothing in the kernel calls it by itself yet.
Fairness ==
    \A t \in 1..MaxTid : WF_vars(Ended(t)) /\ WF_vars(Waiting(t)) /\ WF_vars(Reap(t))

FairSpec == Spec /\ Fairness

----------------------------------------------------------------------------
(* Properties. *)

\* No thread that can still run, or whose stack a CPU is still on, has its
\* address space freed under it (reap and execve free one only when its last
\* thread is off it), and a task's current space is the one its threads are on.
SpaceOutlivesThreads ==
    \A t \in Tids : thr[t].pc \notin {"dead", "reaped"} =>
        /\ spaces[thr[t].space] = "live"
        /\ TaskOf(t).space = thr[t].space

\* wait4 takes a task off TASKS only after its exit status is recorded, its
\* files are closed and its exit is published, in whatever order two children
\* and their parent interleave (set_exit_status, wait4).
ReapedIsZombie ==
    [][\A p \in listed \ listed' :
            task[p].exited /\ task[p].status # None /\ \A fd \in 0..Len(task[p].fds) : ~Open(task[p].fds, fd)]_vars

\* A parent whose awaited child has exited does not sleep on: its wait4 returns.
Wait4Returns ==
    \A t \in 1..MaxTid :
        (t \in Tids /\ thr[t].pc \in {"wait4", "sleep", "asleep"}
            /\ Zombies(thr[t].pid, thr[t].arg) # {}) ~> At(t, "user")

Gone(p) == p \in Pids /\ \A t \in Tids : thr[t].pid = p => thr[t].pc \in GonePcs
Settled(p) ==
    p \in Pids /\ (\/ spaces[task[p].space] = "freed"
                  \/ \E t \in Tids : thr[t].pid = p /\ Pinned(t))

\* Once every thread of a task that never called execve is gone, reap frees the
\* task's address space, unless the frame of a sleeping thread still holds a
\* reference to one of them.
Reclaimed == \A p \in 1..MaxPid : (Gone(p) /\ ~task[p].execed) ~> Settled(p)

----------------------------------------------------------------------------
(* What keeps the invariants above: the inductive invariant. *)

PcValues == {"user", "files", "exited", "notify", "wait4", "sleep", "asleep",
             "register", "handle"} \cup GonePcs

ThreadRecs ==
    [pid : Nat, space : Nat, pc : PcValues, arg : Int \cup {None}, pin : Nat \cup {None},
     leaks : Nat, main : BOOLEAN]

TaskRecs ==
    [ppid : Nat, space : Nat, status : Codes \cup {126, None}, exited : BOOLEAN, fds : Tables,
     active : Int, pe : BOOLEAN, execed : BOOLEAN, worker : BOOLEAN]

TypeOK ==
    /\ task \in Seq(TaskRecs)
    /\ thr \in Seq(ThreadRecs)
    /\ spaces \in Seq({"live", "freed"})
    /\ listed \subseteq Pids
    /\ \A t \in Tids : thr[t].pid \in Pids
    /\ \A p \in Pids : task[p].space \in DOMAIN spaces

\* A thread is in its task's space, which is live until the last of them is
\* reaped, and which no other task has or had.
SpaceInv ==
    /\ \A t \in Tids : thr[t].space = TaskOf(t).space
    /\ \A t \in Tids : thr[t].pc # "reaped" => spaces[TaskOf(t).space] = "live"
    /\ \A p, q \in Pids : task[p].space = task[q].space => p = q

\* Whether the main thread (m) or the worker (~m) of p is there to be reaped.
Alive(p, m) ==
    IF \E t \in Tids : thr[t].pid = p /\ thr[t].main = m /\ thr[t].pc # "reaped" THEN 1 ELSE 0

\* A task has one main thread and at most one worker, which only a PE task has;
\* Task.active counts the ones that are not reaped.
CountInv ==
    /\ \A t, u \in Tids : thr[t].pid = thr[u].pid /\ thr[t].main = thr[u].main => t = u
    /\ \A t \in Tids : ~thr[t].main => TaskOf(t).worker /\ TaskOf(t).pe
    /\ \A p \in Pids : task[p].active = Alive(p, TRUE) + Alive(p, FALSE)

\* How far set_exit_status has come in a thread of a task that has a parent.
Ending == {"exited", "notify"} \cup GonePcs

ExitingThread(t) ==
    ~TaskOf(t).pe =>
        /\ thr[t].pc \notin {"register", "handle"}
        /\ thr[t].pc \in {"files"} \cup Ending => TaskOf(t).status # None
        /\ thr[t].pc \in Ending => TaskOf(t).fds = <<>>
        /\ TaskOf(t).exited => thr[t].pc \in {"notify"} \cup GonePcs

ExitedTask(p) ==
    ~task[p].pe /\ task[p].exited => task[p].status # None /\ task[p].fds = <<>>

ExitInv ==
    /\ \A t \in Tids : ExitingThread(t)
    /\ \A p \in Pids : ExitedTask(p) /\ (task[p].pe => task[p].ppid = 0)

IInv == TypeOK /\ SpaceInv /\ CountInv /\ ExitInv

=============================================================================
