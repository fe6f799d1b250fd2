------------------------------ MODULE ExecGate ------------------------------
(***************************************************************************)
(* The exec gate (kernel/src/execgate.rs) and its channel to the Security  *)
(* Service (secsvc.rs), a user process behind two pipes: what a verdict is *)
(* based on, and whether a caller gets one, when the service may die.      *)
(*                                                                         *)
(* Callers are spawn_pe, spawn_with_fds, spawn_elevated and execve, in the *)
(* kernel with interrupts off: a caller keeps its CPU until it sleeps in a *)
(* pipe read or returns, also while it spins on CHANNEL.  The service runs *)
(* in ring 3 and can be preempted.  A request fits the pipe.               *)
(***************************************************************************)
EXTENDS Naturals, Sequences, FiniteSets, Options

CONSTANTS
    Callers, Svc,       \* kernel threads in check(); the service's thread
    NCpu,
    Files,              \* what is to be run, by content
    Eicar,              \* the ones with the EICAR string
    KnownBad,           \* hashes the service knows
    BLOCKED_HASHES,     \* hashes the kernel knows
    MaxChecks           \* checks a caller makes

ASSUME GateAssumption == None \notin Callers \cup Files

VARIABLES
    svc,        \* "absent", "up", "gone"
    channel,    \* CHANNEL is Some
    lock,       \* who holds CHANNEL's spin lock
    req, resp,  \* the two pipes
    busy,       \* the request the service is working on
    cpu,        \* the threads on a CPU
    pc, file,   \* where a caller is, and with which file
    checks,     \* checks a caller has begun
    out         \* Callers -> the last verdict, how it was reached, for which file

vars == <<svc, channel, lock, req, resp, busy, cpu, pc, file, checks, out>>

Init ==
    /\ svc = "absent" /\ channel = FALSE /\ lock = None
    /\ req = <<>> /\ resp = <<>> /\ busy = None
    /\ cpu = {}
    /\ pc = [c \in Callers |-> "idle"]
    /\ file = [c \in Callers |-> None]
    /\ checks = [c \in Callers |-> 0]
    /\ out = [c \in Callers |-> None]

----------------------------------------------------------------------------
(* CPUs. *)

\* A caller that can go on: not asleep on an empty pipe whose writer lives.
Readable == resp # <<>> \/ svc # "up"
Ready(t) ==
    \/ t \in Callers /\ pc[t] \in {"lock", "send"}
    \/ t \in Callers /\ pc[t] = "recv" /\ Readable
    \/ t = Svc /\ svc = "up" /\ (busy # None \/ req # <<>>)

Dispatch(t) ==
    /\ t \notin cpu /\ Ready(t) /\ Cardinality(cpu) < NCpu
    /\ cpu' = cpu \cup {t}
    /\ UNCHANGED <<svc, channel, lock, req, resp, busy, pc, file, checks, out>>

----------------------------------------------------------------------------
(* The gate. *)

\* The service's byte for a hash, and what check makes of one; its own list, else.
Answer(f) == IF f \in KnownBad THEN 1 ELSE 0
OfByte(b) == IF b # 0 THEN "Quarantine" ELSE "Allow"
Local(f) == IF f \in BLOCKED_HASHES THEN "Quarantine" ELSE "Allow"
Verdict(f, said, by) == [file |-> f, said |-> said, by |-> by]

Return(c, verdict) ==
    /\ out' = [out EXCEPT ![c] = verdict]
    /\ pc' = [pc EXCEPT ![c] = "idle"]
    /\ cpu' = cpu \ {c}

\* check: the EICAR string decides by itself, before the service is asked.
Check(c) ==
    /\ pc[c] = "idle" /\ checks[c] < MaxChecks
    /\ checks' = [checks EXCEPT ![c] = @ + 1]
    /\ \E f \in Files :
        /\ file' = [file EXCEPT ![c] = f]
        /\ IF f \in Eicar
           THEN Return(c, Verdict(f, "Quarantine", "eicar"))
           ELSE pc' = [pc EXCEPT ![c] = "lock"] /\ UNCHANGED <<out, cpu>>
    /\ UNCHANGED <<svc, channel, lock, req, resp, busy>>

\* check_hash takes CHANNEL, spinning; no channel is no answer.
Lock(c) ==
    /\ c \in cpu /\ pc[c] = "lock" /\ lock = None
    /\ IF channel
       THEN lock' = c /\ pc' = [pc EXCEPT ![c] = "send"] /\ UNCHANGED <<out, cpu>>
       ELSE Return(c, Verdict(file[c], Local(file[c]), "early")) /\ UNCHANGED lock
    /\ UNCHANGED <<svc, channel, req, resp, busy, file, checks>>

\* Mistake: the lock is let go of once the request is sent.
SendUnlocked(c) ==
    /\ c \in cpu /\ pc[c] = "send"
    /\ IF svc = "up"
       THEN /\ req' = Append(req, file[c])
            /\ pc' = [pc EXCEPT ![c] = "recv"]
            /\ lock' = None /\ UNCHANGED <<out, cpu>>
       ELSE /\ Return(c, Verdict(file[c], Local(file[c]), "local"))
            /\ lock' = None /\ UNCHANGED req
    /\ UNCHANGED <<svc, channel, resp, busy, file, checks>>

\* The write: EPIPE once the service has gone.
Send(c) ==
    /\ c \in cpu /\ pc[c] = "send"
    /\ IF svc = "up"
       THEN /\ req' = Append(req, file[c])
            /\ pc' = [pc EXCEPT ![c] = "recv"]
            /\ UNCHANGED <<lock, out, cpu>>
       ELSE /\ Return(c, Verdict(file[c], Local(file[c]), "local"))
            /\ lock' = None /\ UNCHANGED req
    /\ UNCHANGED <<svc, channel, resp, busy, file, checks>>

\* The read sleeps, and gives the CPU up.
Sleep(c) ==
    /\ c \in cpu /\ pc[c] = "recv" /\ ~Readable
    /\ cpu' = cpu \ {c}
    /\ UNCHANGED <<svc, channel, lock, req, resp, busy, pc, file, checks, out>>

\* The read returns: a verdict, or end of file when the service has gone.
Receive(c) ==
    /\ c \in cpu /\ pc[c] = "recv" /\ Readable
    /\ lock' = None
    /\ IF resp # <<>>
       THEN Return(c, Verdict(file[c], OfByte(Head(resp)), "service")) /\ resp' = Tail(resp)
       ELSE Return(c, Verdict(file[c], Local(file[c]), "local")) /\ UNCHANGED resp
    /\ UNCHANGED <<svc, channel, req, busy, file, checks>>

----------------------------------------------------------------------------
(* The service. *)

\* secsvc::spawn, at boot: the process first, then the channel.
Spawn ==
    /\ svc = "absent"
    /\ svc' = "up"
    /\ UNCHANGED <<channel, lock, req, resp, busy, cpu, pc, file, checks, out>>

SetChannel ==
    /\ svc # "absent" /\ ~channel /\ lock = None
    /\ channel' = TRUE
    /\ UNCHANGED <<svc, lock, req, resp, busy, cpu, pc, file, checks, out>>

ServiceRead ==
    /\ Svc \in cpu /\ svc = "up" /\ busy = None /\ req # <<>>
    /\ busy' = Head(req) /\ req' = Tail(req)
    /\ UNCHANGED <<svc, channel, lock, resp, cpu, pc, file, checks, out>>

ServiceAnswer ==
    /\ Svc \in cpu /\ svc = "up" /\ busy # None
    /\ resp' = Append(resp, Answer(busy))
    /\ busy' = None
    /\ cpu' = cpu \ {Svc}
    /\ UNCHANGED <<svc, channel, lock, req, pc, file, checks, out>>

\* Mistake: the exiting task keeps its descriptors.
CrashHoldingPipes ==
    /\ svc = "up"
    /\ svc' = "up" /\ busy' = None /\ req' = <<>>
    /\ cpu' = cpu \ {Svc}
    /\ UNCHANGED <<channel, lock, resp, pc, file, checks, out>>

\* The service exits or faults, at any point: set_exit_status closes its pipe ends.
Crash ==
    /\ svc = "up"
    /\ svc' = "gone" /\ busy' = None
    /\ cpu' = cpu \ {Svc}
    /\ UNCHANGED <<channel, lock, req, resp, pc, file, checks, out>>

----------------------------------------------------------------------------

CallerStep(c) == Lock(c) \/ Send(c) \/ Sleep(c) \/ Receive(c)
ServiceStep == ServiceRead \/ ServiceAnswer

Next ==
    \/ \E c \in Callers : Check(c) \/ CallerStep(c)
    \/ \E t \in Callers \cup {Svc} : Dispatch(t)
    \/ Spawn \/ SetChannel \/ ServiceStep \/ Crash

\* A CPU runs what it has; every ready thread gets a free CPU in turn (the run queue
\* is first in, first out); a spin lock that keeps being free is taken.
Fairness ==
    /\ \A c \in Callers : WF_vars(Send(c) \/ Sleep(c) \/ Receive(c))
    /\ \A c \in Callers : SF_vars(Lock(c))
    /\ \A t \in Callers \cup {Svc} : SF_vars(Dispatch(t))
    /\ WF_vars(ServiceStep)

Spec == Init /\ [][Next]_vars /\ Fairness

----------------------------------------------------------------------------
(* Properties. *)

\* A verdict is about the caller's own file: the service's answer to that very
\* request, or the kernel's own list, and that only while there is no channel yet or
\* once the service has gone (check, check_hash: one exchange per hold of CHANNEL).
VerdictIsMine ==
    \A c \in Callers : out[c] # None /\ pc[c] = "idle" =>
        /\ out[c].file = file[c]
        /\ out[c].by = "eicar" => file[c] \in Eicar
        /\ out[c].by = "service" => (out[c].said = "Quarantine" <=> file[c] \in KnownBad)
        /\ out[c].by \in {"early", "local"} => (out[c].said = "Quarantine" <=> file[c] \in BLOCKED_HASHES)
        /\ out[c].by = "local" => svc = "gone"

\* Every check returns, whether the service answers or dies under it, when there
\* are at least as many CPUs as callers (check_hash; set_exit_status closes the
\* pipes of a dead service).
CheckReturns == \A c \in Callers : pc[c] # "idle" ~> pc[c] = "idle"

\* The exchange with the service of the caller that holds CHANNEL: its request is in
\* the pipe, or with the service, or answered (or lost, once the service has gone).
Exchange(c) ==
    \/ req = <<file[c]>> /\ busy = None /\ resp = <<>>
    \/ svc = "up" /\ req = <<>> /\ busy = file[c] /\ resp = <<>>
    \/ req = <<>> /\ busy = None /\ resp = <<Answer(file[c])>>
    \/ svc = "gone" /\ busy = None /\ resp = <<>>

\* The inductive invariant behind VerdictIsMine: CHANNEL's holder is the one caller
\* between the write and the read (check_hash), and outside of an exchange the pipes
\* hold nothing that a later caller could take for its own answer.
GInv ==
    /\ svc \in {"absent", "up", "gone"} /\ channel \in BOOLEAN
    /\ lock \in Callers \cup {None}
    /\ pc \in [Callers -> {"idle", "lock", "send", "recv"}]
    /\ file \in [Callers -> Files \cup {None}]
    /\ DOMAIN out = Callers
    /\ channel => svc # "absent"
    /\ \A c \in Callers :
        /\ pc[c] \in {"send", "recv"} <=> lock = c
        /\ pc[c] # "idle" => file[c] \in Files
        /\ pc[c] = "recv" => Exchange(c)
    /\ lock # None => channel
    /\ (\A c \in Callers : pc[c] # "recv") =>
        resp = <<>> /\ busy = None /\ (svc = "gone" \/ req = <<>>)
    /\ VerdictIsMine

=============================================================================
