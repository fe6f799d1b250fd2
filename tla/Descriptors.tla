---------------------------- MODULE Descriptors ----------------------------
(***************************************************************************)
(* The descriptor table of a task (kernel/src/process.rs): files and NT    *)
(* handles in one vector.  Descriptor fd is position fd + 1 of the table;  *)
(* a closed slot holds NoEntry.  An operation returns the new table and    *)
(* the value of the call.                                                  *)
(***************************************************************************)
EXTENDS Integers, Sequences

CONSTANT NoEntry

EBADF == -9
EINVAL == -22

\* What a table holds: the kinds of HandleObject that the processes create.
HandleObject == {"console", "file", "read end", "write end", "thread"}
Descriptions == [obj : HandleObject, cloexec : BOOLEAN]
Entries == Descriptions \cup {NoEntry}
Tables == Seq(Entries)

ASSUME DescriptorsAssumption == NoEntry \notin Descriptions

\* What a scan from the low end finds.
Lowest(S) == CHOOSE n \in S : \A m \in S : n <= m

Open(fds, fd) == fd + 1 \in DOMAIN fds /\ fds[fd + 1] # NoEntry

\* Grow the vector with closed slots until it holds n of them.
PadTo(fds, n) == fds \o [i \in 1..(IF n > Len(fds) THEN n - Len(fds) ELSE 0) |-> NoEntry]

\* Install entry at the lowest free descriptor that is not below min.
Place(fds, entry, min) ==
    LET free == {i \in DOMAIN fds : i > min /\ fds[i] = NoEntry}
    IN IF free # {} THEN [tab |-> [fds EXCEPT ![Lowest(free)] = entry], ret |-> Lowest(free) - 1]
       ELSE [tab |-> Append(PadTo(fds, min), entry), ret |-> Len(PadTo(fds, min))]

handle_alloc(fds, obj, cloexec) == Place(fds, [obj |-> obj, cloexec |-> cloexec], 0)

\* pipe, pipe2: two descriptors in one call.
sys_pipe(fds, r, w, cloexec) == handle_alloc(handle_alloc(fds, r, cloexec).tab, w, cloexec).tab

fd_close(fds, fd) ==
    IF Open(fds, fd) THEN [tab |-> [fds EXCEPT ![fd + 1] = NoEntry], ret |-> 0]
    ELSE [tab |-> fds, ret |-> EBADF]

fd_set_cloexec(fds, fd, on) ==
    IF Open(fds, fd) THEN [tab |-> [fds EXCEPT ![fd + 1].cloexec = on], ret |-> 0]
    ELSE [tab |-> fds, ret |-> EBADF]

\* dup and F_DUPFD: the copy never inherits close-on-exec.
fd_dup(fds, oldfd, min) ==
    IF Open(fds, oldfd)
    THEN Place(fds, [fds[oldfd + 1] EXCEPT !.cloexec = FALSE], IF min < 0 THEN 0 ELSE min)
    ELSE [tab |-> fds, ret |-> EBADF]

\* F_DUPFD_CLOEXEC: duplicate, then set the flag in a second critical section.
fd_dup_cloexec(fds, oldfd, min) ==
    LET d == fd_dup(fds, oldfd, min)
    IN IF d.ret >= 0 THEN [d EXCEPT !.tab = fd_set_cloexec(d.tab, d.ret, TRUE).tab] ELSE d

\* dup2 and dup3: newfd refers to oldfd's object, whatever it was before.
fd_dup3(fds, oldfd, newfd, cloexec) ==
    IF ~Open(fds, oldfd) THEN [tab |-> fds, ret |-> EBADF]
    ELSE IF oldfd = newfd THEN [tab |-> fds, ret |-> newfd]
    ELSE LET n == IF newfd < 0 THEN 0 ELSE newfd
         IN [tab |-> [PadTo(fds, n + 1) EXCEPT
                        ![n + 1] = [fds[oldfd + 1] EXCEPT !.cloexec = cloexec]],
             ret |-> newfd]

\* dup3 itself refuses equal descriptors; dup2 does not.
sys_dup3(fds, oldfd, newfd, cloexec) ==
    IF oldfd = newfd THEN [tab |-> fds, ret |-> EINVAL] ELSE fd_dup3(fds, oldfd, newfd, cloexec)

\* execve drops every descriptor marked close-on-exec.
close_on_exec(fds) ==
    [i \in DOMAIN fds |-> IF fds[i] # NoEntry /\ fds[i].cloexec THEN NoEntry ELSE fds[i]]

=============================================================================
