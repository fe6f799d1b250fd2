-------------------------------- MODULE Ahci --------------------------------
(***************************************************************************)
(* The SATA driver (kernel/src/ahci.rs): tags, command issue, completion   *)
(* by interrupt, timer or polling, and error recovery.  The drive and its  *)
(* registers are part of the model: a command that completes moves data    *)
(* between the tag's bounce buffer and the disk, one that fails stops the  *)
(* queue until the port is reset.  POLL_LIMIT is taken to be longer than   *)
(* any answer of the drive.                                                *)
(*                                                                         *)
(* Every submitter s makes one call: it reads sector s or writes Data(s).  *)
(***************************************************************************)
EXTENDS Naturals, FiniteSets, FiniteSetsExt, Options

CONSTANTS
    Subs,       \* submitters, each with a sector of its own
    Depths,     \* queue depths a drive may answer IDENTIFY with
    FailOps,    \* the commands the drive may fail
    MaxErrors   \* how often it does

\* What is in a sector: what its submitter writes there, or what was there before;
\* and what READ LOG EXT answers.
Data(s) == <<"data", s>>
Old == <<"old contents">>
LogPage == <<"log page">>

\* DEPTH is at most NCQ_MAX, 32, in the code.
ASSUME AhciAssumption ==
    /\ Depths \subseteq Nat \ {0}
    /\ \E most \in Depths : \A d \in Depths : d <= most
    /\ MaxErrors \in Nat
    /\ None \notin Nat
    /\ None \notin {"read", "write", "flush", "ok", "error"}
    /\ \A s \in Subs : None # Data(s)

VARIABLES
    depth, irqOn,           \* DEPTH and IRQ_ON, set once in init
    free, pending, tagErr,  \* FREE_TAGS, PENDING, TAG_ERR
    submit, recov,          \* who holds SUBMIT and RECOVER
    issued, cmd, err, bad,  \* PxSACT/PxCI, the command tables, PxIS.TFES, the log
    bounce, cache, disk,    \* DMA buffers, write cache, media
    sub,                    \* the submitters
    aborted, failed,        \* recover's locals
    errors

ctl == <<depth, irqOn, free, pending, tagErr, submit, recov>>
dev == <<issued, cmd, err, bad, cache, disk, errors>>
rec == <<aborted, failed>>
ahciVars == <<ctl, dev, bounce, sub, rec>>

Tags == 0..(depth - 1)
AllTags == 0..(Max(Depths) - 1)
ncq == depth > 1
At(s, pc) == sub[s].pc = pc
Goto(s, pc) == sub' = [sub EXCEPT ![s].pc = pc]

\* The queue depth in the drive's answer; whether MSI-X or MSI could be armed.
identify == Depths
setup_irq == BOOLEAN

AhciInit ==
    /\ depth \in identify /\ irqOn \in setup_irq
    /\ free = Tags /\ pending = [t \in AllTags |-> None] /\ tagErr = {}
    /\ submit = None /\ recov = None
    /\ issued = {} /\ cmd = [t \in AllTags |-> None] /\ err = FALSE /\ bad = None
    /\ bounce = [t \in AllTags |-> Old]
    /\ cache = [s \in Subs |-> None] /\ disk = [s \in Subs |-> Old]
    /\ sub = [s \in Subs |-> [pc |-> "idle", op |-> None, tag |-> None,
                              res |-> None, buf |-> None]]
    /\ aborted = {} /\ failed = None
    /\ errors = 0

----------------------------------------------------------------------------
(* The command path. *)

\* read and write.
Call(s) ==
    /\ At(s, "idle")
    /\ \E op \in {"read", "write"} : sub' = [sub EXCEPT ![s].pc = "tag", ![s].op = op]
    /\ UNCHANGED <<ctl, dev, bounce, rec>>

alloc_tag == Min(free)

\* The command as the drive reads it: what to do, and for whose sector.
fis(op, s) == [op |-> op, s |-> s]

issue(t, c) ==
    /\ issued' = issued \cup {t}
    /\ cmd' = [cmd EXCEPT ![t] = c]

\* transfer and flush up to issue: a tag, the copy into the bounce buffer,
\* and the note that recovery reads.
AllocTag(s) ==
    /\ At(s, "tag") /\ free # {}
    /\ LET t == alloc_tag
       IN /\ free' = free \ {t}
          /\ bounce' = IF sub[s].op = "write" THEN [bounce EXCEPT ![t] = Data(s)] ELSE bounce
          /\ pending' = IF sub[s].op = "flush" THEN pending
                        ELSE [pending EXCEPT ![t] = fis(sub[s].op, s)]
          /\ sub' = [sub EXCEPT ![s].tag = t,
                                ![s].pc = IF sub[s].op = "flush" THEN "drain" ELSE "issue"]
    /\ UNCHANGED <<depth, irqOn, tagErr, submit, recov, dev, rec>>

\* Build the command under SUBMIT and start it.
Issue(s) ==
    /\ At(s, "issue") /\ submit = None
    /\ issue(sub[s].tag, fis(sub[s].op, s))
    /\ Goto(s, "wait")
    /\ UNCHANGED <<ctl, err, bad, cache, disk, errors, bounce, rec>>

\* flush: SUBMIT is held until the flush is answered.
DrainAndIssue(s) ==
    /\ At(s, "drain") /\ submit = None
    /\ issued \ {sub[s].tag} = {}
    /\ submit' = s
    /\ issue(sub[s].tag, fis("flush", s))
    /\ Goto(s, "wait")
    /\ UNCHANGED <<depth, irqOn, free, pending, tagErr, recov, err, bad, cache, disk, errors,
                   bounce, rec>>

\* One turn of wait's loop up to the completion test.
WaitCheck(s) ==
    /\ At(s, "wait")
    /\ \/ /\ sub[s].tag \in tagErr
          /\ tagErr' = tagErr \ {sub[s].tag}
          /\ sub' = [sub EXCEPT ![s].pc = "done", ![s].res = "error"]
          /\ UNCHANGED recov
       \/ /\ sub[s].tag \notin tagErr /\ err /\ recov = None
          /\ recov' = s
          /\ Goto(s, "capture")
          /\ UNCHANGED tagErr
       \/ /\ sub[s].tag \notin tagErr /\ ~err /\ recov = None
          /\ Goto(s, "poll")
          /\ UNCHANGED <<tagErr, recov>>
    /\ UNCHANGED <<depth, irqOn, free, pending, submit, dev, bounce, rec>>

\* The completion test reads the registers after the tests above.
WaitPoll(s) ==
    /\ At(s, "poll")
    /\ sub' = IF sub[s].tag \notin issued
              THEN [sub EXCEPT ![s].pc = "done", ![s].res = "ok"]
              ELSE [sub EXCEPT ![s].pc =
                        IF irqOn /\ sub[s].op # "flush" THEN "park" ELSE "wait"]
    /\ UNCHANGED <<ctl, dev, bounce, rec>>

\* TAG_WAKE[tag].wait: a wake that came before it is lost.
Park(s) ==
    /\ At(s, "park")
    /\ Goto(s, "asleep")
    /\ UNCHANGED <<ctl, dev, bounce, rec>>

\* Mistake: a write returns while its data is only in the drive's cache.
FinishUnflushed(s) ==
    /\ At(s, "done")
    /\ free' = free \cup {sub[s].tag}
    /\ pending' = [pending EXCEPT ![sub[s].tag] = None]
    /\ submit' = IF submit = s THEN None ELSE submit
    /\ sub' = [sub EXCEPT ![s].tag = None, ![s].pc = "ret",
                          ![s].buf = IF sub[s].op = "read" THEN bounce[sub[s].tag] ELSE @]
    /\ UNCHANGED <<depth, irqOn, tagErr, recov, dev, bounce, rec>>

\* The end of transfer and of flush; a write without NCQ goes on to flush.
Finish(s) ==
    /\ At(s, "done")
    /\ free' = free \cup {sub[s].tag}
    /\ pending' = [pending EXCEPT ![sub[s].tag] = None]
    /\ submit' = IF submit = s THEN None ELSE submit
    /\ LET ok == sub[s].res = "ok"
           again == sub[s].op = "write" /\ ok /\ ~ncq
       IN sub' = [sub EXCEPT ![s].tag = None,
                             ![s].pc = IF again THEN "tag" ELSE "ret",
                             ![s].op = IF again THEN "flush" ELSE @,
                             ![s].buf = IF sub[s].op = "read" /\ ok THEN bounce[sub[s].tag] ELSE @]
    /\ UNCHANGED <<depth, irqOn, tagErr, recov, dev, bounce, rec>>

----------------------------------------------------------------------------
(* Interrupts. *)

\* Mistake: nobody is woken.
WakeNone == UNCHANGED sub

wake_parked == sub' = [s \in Subs |-> IF At(s, "asleep") THEN [sub[s] EXCEPT !.pc = "wait"] ELSE sub[s]]

\* on_irq, which the controller may drop, and poll_wake from the timer tick.
Wake ==
    /\ \E s \in Subs : At(s, "asleep")
    /\ wake_parked
    /\ UNCHANGED <<ctl, dev, bounce, rec>>

----------------------------------------------------------------------------
(* Recovery, by the one thread that holds RECOVER. *)

Capture(s) ==
    /\ At(s, "capture")
    /\ aborted' = issued
    /\ Goto(s, "reset")
    /\ UNCHANGED <<ctl, dev, bounce, failed>>

\* Stop, COMRESET, restart: every command the drive had is gone.
Reset(s) ==
    /\ At(s, "reset")
    /\ issued' = {} /\ err' = FALSE
    /\ Goto(s, "log")
    /\ UNCHANGED <<ctl, cmd, bad, cache, disk, errors, bounce, rec>>

\* READ LOG EXT on tag 0, into tag 0's bounce buffer; it may fail.
ReadLog(s) ==
    /\ At(s, "log") /\ submit = None
    /\ \/ /\ bounce' = [bounce EXCEPT ![0] = LogPage]
          /\ failed' = IF ncq THEN bad ELSE None
       \/ /\ failed' = None
          /\ UNCHANGED bounce
    /\ Goto(s, "fix")
    /\ UNCHANGED <<ctl, dev, aborted>>

\* Re-issue what was aborted and did not fail; the rest get an error.
Fix(s) ==
    /\ At(s, "fix") /\ submit = None
    /\ LET again == {t \in aborted : failed \notin {None, t} /\ pending[t] # None}
       IN /\ issued' = issued \cup again
          /\ cmd' = [t \in AllTags |-> IF t \in again THEN pending[t] ELSE cmd[t]]
          /\ tagErr' = tagErr \cup (aborted \ again)
    /\ sub' = [u \in Subs |-> IF u = s \/ At(u, "asleep") THEN [sub[u] EXCEPT !.pc = "wait"] ELSE sub[u]]
    /\ recov' = None
    /\ UNCHANGED <<depth, irqOn, free, pending, submit, err, bad, cache, disk, errors, bounce, rec>>

----------------------------------------------------------------------------
(* The drive. *)

Complete(t) ==
    /\ t \in issued /\ ~err
    /\ LET c == cmd[t]
       IN /\ bounce' = IF c.op = "read" THEN [bounce EXCEPT ![t] = disk[c.s]] ELSE bounce
          /\ CASE c.op = "write" /\ ncq -> disk' = [disk EXCEPT ![c.s] = bounce[t]] /\ UNCHANGED cache
               [] c.op = "write" /\ ~ncq -> cache' = [cache EXCEPT ![c.s] = bounce[t]] /\ UNCHANGED disk
               [] c.op = "flush" -> /\ disk' = [s \in Subs |-> IF cache[s] = None THEN disk[s] ELSE cache[s]]
                                    /\ cache' = [s \in Subs |-> None]
               [] OTHER -> UNCHANGED <<cache, disk>>
    /\ issued' = issued \ {t}
    /\ UNCHANGED <<ctl, cmd, err, bad, errors, sub, rec>>

Fail(t) ==
    /\ t \in issued /\ ~err /\ errors < MaxErrors
    /\ cmd[t].op \in FailOps
    /\ err' = TRUE /\ bad' = t /\ errors' = errors + 1
    /\ UNCHANGED <<ctl, issued, cmd, cache, disk, bounce, sub, rec>>

----------------------------------------------------------------------------

Run(s) ==
    \/ AllocTag(s) \/ Issue(s) \/ DrainAndIssue(s) \/ WaitCheck(s) \/ WaitPoll(s) \/ Park(s)
    \/ Finish(s) \/ Capture(s) \/ Reset(s) \/ ReadLog(s) \/ Fix(s)

AhciNext ==
    \/ \E s \in Subs : Call(s) \/ Run(s)
    \/ Wake
    \/ \E t \in AllTags : Complete(t) \/ Fail(t)

\* The scheduler runs every submitter, the tick keeps coming and the drive
\* answers every command it still has.
AhciFairness ==
    /\ \A s \in Subs : WF_ahciVars(Run(s))
    /\ WF_ahciVars(Wake)
    /\ \A t \in AllTags : WF_ahciVars(Complete(t))

AhciSpec == AhciInit /\ [][AhciNext]_ahciVars /\ AhciFairness

----------------------------------------------------------------------------
(* Properties. *)

\* Without NCQ, a write that returned Ok is on the media, not in the drive's
\* cache or lost to a reset, and a read that returned Ok has the sector's
\* contents (transfer, flush, recover).
OkMeansDone ==
    \A s \in Subs : At(s, "ret") /\ sub[s].res = "ok" /\ ~ncq =>
        IF sub[s].op = "read" THEN sub[s].buf = disk[s] ELSE disk[s] = Data(s)

\* Every read and write returns, whatever interrupts are dropped, and also the
\* submitters whose commands a reset aborted (wait, poll_wake, recover).
TransferReturns == \A s \in Subs : At(s, "tag") ~> At(s, "ret")

\* A sector only ever holds what was written to it: what recovery re-issues for
\* a survivor is the survivor's own data (recover, read_log_ext).
DiskHoldsOnlyData == \A s \in Subs : disk[s] \in {Old, Data(s)}

\* Between alloc_tag and free_tag, and waiting for the drive's answer.
Holding == {"issue", "drain", "wait", "poll", "park", "asleep",
            "capture", "reset", "log", "fix", "done"}
Waiting == {"wait", "poll", "park", "asleep"}

Sectors == {Old, LogPage} \cup {Data(s) : s \in Subs}
Submitter ==
    [pc : {"idle", "tag", "ret"} \cup Holding, op : {None, "read", "write", "flush"},
     tag : Tags \cup {None}, res : {None, "ok", "error"}, buf : Sectors \cup {None}]
Command == [op : {"read", "write", "flush"}, s : Subs]
AhciTypeOK ==
    /\ depth \in Depths /\ irqOn \in BOOLEAN
    /\ free \subseteq Tags /\ tagErr \subseteq Tags /\ issued \subseteq Tags /\ aborted \subseteq Tags
    /\ pending \in [AllTags -> Command \cup {None}]
    /\ DOMAIN cmd = AllTags /\ \A t \in issued : cmd[t] \in Command
    /\ bounce \in [AllTags -> Sectors]
    /\ cache \in [Subs -> Sectors \cup {None}] /\ disk \in [Subs -> Sectors]
    /\ err \in BOOLEAN
    /\ sub \in [Subs -> Submitter]

\* What the drive has done of s's command once it has completed.
Landed(s) ==
    CASE sub[s].op = "read" -> cache[s] = None /\ bounce[0] = disk[s]
      [] sub[s].op = "write" -> cache[s] = Data(s)
      [] sub[s].op = "flush" -> cache[s] = None /\ disk[s] = Data(s)
      [] OTHER -> FALSE

\* How far s's data has come, wherever s is: a reader's sector has nothing in the
\* cache, a flusher's data is in the cache or on the media.
Progress(s) ==
    /\ sub[s].op \in {None, "read"} => cache[s] = None
    /\ sub[s].op = "flush" =>
        cache[s] = Data(s) \/ (cache[s] = None /\ disk[s] = Data(s))
    /\ At(s, "issue") => sub[s].op \in {"read", "write"}
    /\ At(s, "drain") => sub[s].op = "flush"
    /\ At(s, "ret") /\ sub[s].res = "ok" =>
        CASE sub[s].op = "read" -> sub[s].buf = disk[s]
          [] sub[s].op = "flush" -> cache[s] = None /\ disk[s] = Data(s)
          [] OTHER -> FALSE

\* Where the command of the one that holds tag 0 is: not with the drive yet, with
\* the drive (perhaps failed), given up by recovery, or done.
Serial(s) ==
    /\ sub[s].pc \in {"issue", "drain", "log", "fix", "done"} => issued = {}
    /\ sub[s].pc \in {"capture", "reset"} => issued = {0} /\ err
    /\ sub[s].pc \in {"reset", "log", "fix"} => aborted = {0}
    /\ At(s, "fix") => failed = None
    /\ 0 \in tagErr => At(s, "wait") /\ issued = {}
    /\ 0 \in issued => cmd[0] = fis(sub[s].op, s)
    /\ sub[s].op = "write" /\ (At(s, "issue") \/ 0 \in issued) => bounce[0] = Data(s)
    /\ sub[s].pc \in Waiting /\ issued = {} /\ tagErr = {} => Landed(s)
    /\ At(s, "done") /\ sub[s].res = "ok" => Landed(s)

\* A tag has one holder, at any depth (alloc_tag, free_tag), and a holder a command.
TagInv ==
    /\ \A s \in Subs : sub[s].pc \in Holding <=> sub[s].tag # None
    /\ \A s \in Subs : sub[s].tag \notin free
    /\ \A s \in Subs : At(s, "idle") <=> sub[s].op = None
    /\ \A s, u \in Subs : sub[s].tag = sub[u].tag /\ sub[s].tag # None => s = u

SerialInv ==
    /\ \A s \in Subs : Progress(s)
    /\ \A s \in Subs : sub[s].tag = 0 => Serial(s)
    /\ (\A s \in Subs : sub[s].tag = None) => issued = {} /\ tagErr = {}

\* The inductive invariant behind OkMeansDone: without NCQ the one tag orders all
\* commands, and while one is under way nothing else moves data.
AhciInv ==
    /\ AhciTypeOK
    /\ TagInv
    /\ err => issued # {}
    /\ ~ncq => SerialInv

=============================================================================
