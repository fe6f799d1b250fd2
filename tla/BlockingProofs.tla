--------------------------- MODULE BlockingProofs ---------------------------
(***************************************************************************)
(* Proofs about the exec gate (a verdict is about the caller's own file,   *)
(* for any callers, CPUs, checks and hash lists) and about the disk driver *)
(* (a transfer that returned Ok has moved its data, for any submitters and *)
(* any failures of the drive).                                             *)
(***************************************************************************)
EXTENDS ExecGate, Ahci, WellFoundedInduction, TLAPS

----------------------------------------------------------------------------
(* The exec gate. *)


\* Nobody is between the write and the read while CHANNEL is free or its holder has
\* yet to write (check_hash holds the guard from the lock to the return).
LEMMA OneExchange ==
    ASSUME GInv, NEW c \in Callers, lock = None \/ (lock = c /\ pc[c] # "recv")
    PROVE  \A d \in Callers : pc[d] # "recv"
BY GateAssumption DEF GInv

\* Mutual exclusion on CHANNEL (check_hash's guard).
LEMMA OneHolder ==
    ASSUME GInv, NEW c \in Callers, NEW d \in Callers,
           pc[c] \in {"send", "recv"}, pc[d] \in {"send", "recv"}
    PROVE  c = d
BY DEF GInv

\* The gate starts with an empty channel (secsvc.rs: CHANNEL is None).
LEMMA GateInit == Init => GInv
BY GateAssumption DEF Init, GInv, VerdictIsMine

\* A check that begins disturbs no exchange (check).
LEMMA CheckStep == ASSUME GInv, NEW c \in Callers, Check(c) PROVE GInv'
<1> USE DEF GInv, Check
<1>1. PICK f \in Files :
        /\ file' = [file EXCEPT ![c] = f]
        /\ IF f \in Eicar
           THEN Return(c, Verdict(f, "Quarantine", "eicar"))
           ELSE pc' = [pc EXCEPT ![c] = "lock"] /\ UNCHANGED <<out, cpu>>
    OBVIOUS
<1>2. lock # c
    OBVIOUS
<1>3. pc' = [pc EXCEPT ![c] = "idle"] \/ pc' = [pc EXCEPT ![c] = "lock"]
    BY <1>1 DEF Return
<1>4. DOMAIN out' = Callers
    BY <1>1 DEF Return
<1>5. ASSUME NEW d \in Callers
      PROVE  /\ pc'[d] \in {"send", "recv"} <=> lock' = d
             /\ pc'[d] # "idle" => file'[d] \in Files
             /\ pc'[d] = "recv" => Exchange(d)'
    BY <1>1, <1>2, <1>3, <1>5 DEF Exchange, Answer
<1>6. (\A d \in Callers : pc'[d] # "recv") => \A d \in Callers : pc[d] # "recv"
    BY <1>3
<1>7. VerdictIsMine'
    BY <1>1, <1>3 DEF VerdictIsMine, Return, Verdict
<1> QED
    BY <1>1, <1>3, <1>4, <1>5, <1>6, <1>7

\* Taking CHANNEL makes its holder; without a channel the kernel's list decides
\* (check_hash, the None arms of check).
LEMMA LockStep == ASSUME GInv, NEW c \in Callers, Lock(c) PROVE GInv'
<1> USE DEF GInv, Lock
<1>1. lock = None /\ \A d \in Callers : pc[d] # "recv" /\ pc'[d] # "recv"
    BY OneExchange DEF Return
<1>2. ASSUME NEW d \in Callers
      PROVE  pc'[d] \in {"send", "recv"} <=> lock' = d
    BY <1>1, <1>2, GateAssumption DEF Return
<1>3. VerdictIsMine'
    BY DEF VerdictIsMine, Return, Verdict, Local
<1> QED
    BY <1>1, <1>2, <1>3, GateAssumption DEF Return

\* The write begins an exchange on empty pipes, or finds the service gone
\* (check_hash, EPIPE).
LEMMA SendStep == ASSUME GInv, NEW c \in Callers, Send(c) PROVE GInv'
<1> USE DEF GInv, Send
<1>1. lock = c /\ channel /\ svc # "absent" /\ \A d \in Callers : pc[d] # "recv"
    BY OneExchange, GateAssumption
<1>2. resp = <<>> /\ busy = None /\ (svc = "gone" \/ req = <<>>)
    BY <1>1
<1>3. CASE svc = "up"
    <2>1. req' = <<file[c]>> /\ pc' = [pc EXCEPT ![c] = "recv"]
        BY <1>2, <1>3
    <2>2. Exchange(c)'
        BY <2>1, <1>2 DEF Exchange
    <2>3. VerdictIsMine'
        BY <1>3, <2>1 DEF VerdictIsMine
    <2> QED
        BY <1>1, <1>3, <2>1, <2>2, <2>3
<1>4. CASE svc = "gone"
    <2>1. pc' = [pc EXCEPT ![c] = "idle"] /\ lock' = None /\ UNCHANGED <<svc, req>>
        BY <1>4 DEF Return
    <2>2. VerdictIsMine'
        BY <1>4 DEF VerdictIsMine, Return, Verdict, Local
    <2>3. DOMAIN out' = Callers
        BY <1>4 DEF Return
    <2> QED
        BY <1>1, <1>2, <1>4, <2>1, <2>2, <2>3, GateAssumption
<1> QED
    BY <1>1, <1>3, <1>4

\* The read ends the exchange: what it takes is the answer to the caller's own
\* request, and the pipes are empty again (check_hash).
LEMMA ReceiveStep == ASSUME GInv, NEW c \in Callers, Receive(c) PROVE GInv'
<1> USE DEF GInv, Receive
<1>1. lock = c /\ Exchange(c) /\ channel /\ svc # "absent" /\ file[c] \in Files /\ file[c] # None
    BY GateAssumption
<1>2. pc' = [pc EXCEPT ![c] = "idle"] /\ lock' = None /\ DOMAIN out' = Callers
    BY DEF Return
<1>3. \A d \in Callers : pc'[d] \notin {"send", "recv"}
    BY <1>1, <1>2, OneHolder
<1>4. CASE resp # <<>>
    <2>1. resp = <<Answer(file[c])>> /\ req = <<>> /\ busy = None
        BY <1>1, <1>4 DEF Exchange
    <2>2. resp' = <<>>
        BY <2>1, <1>4
    <2>3. Head(resp) = Answer(file[c])
        BY <2>1
    <2>4. out' = [out EXCEPT ![c] = Verdict(file[c], OfByte(Answer(file[c])), "service")]
        BY <1>4, <2>3 DEF Return
    <2>5. OfByte(Answer(file[c])) = "Quarantine" <=> file[c] \in KnownBad
        BY DEF OfByte, Answer
    <2>6. VerdictIsMine'
        BY <1>2, <2>4, <2>5 DEF VerdictIsMine, Verdict
    <2> QED
        BY <1>1, <1>2, <1>3, <2>1, <2>2, <2>6, GateAssumption
<1>5. CASE resp = <<>>
    <2>1. svc = "gone" /\ busy = None
        BY <1>1, <1>5 DEF Readable, Exchange
    <2>2. VerdictIsMine'
        BY <1>5, <2>1 DEF VerdictIsMine, Return, Verdict, Local
    <2> QED
        BY <1>1, <1>2, <1>3, <1>5, <2>1, <2>2, GateAssumption
<1> QED
    BY <1>4, <1>5

\* The service moves the one request there is through its hands; it cannot have one
\* when nobody waits for it (secsvc's loop, the pipes).
LEMMA ServiceReadStep == ASSUME GInv, ServiceRead PROVE GInv'
<1> USE DEF GInv, ServiceRead
<1>1. PICK c \in Callers : pc[c] = "recv"
    OBVIOUS
<1>2. Exchange(c) /\ svc = "up"
    BY <1>1
<1>3. req = <<file[c]>> /\ resp = <<>>
    BY <1>2 DEF Exchange
<1>4. busy' = file[c] /\ req' = <<>>
    BY <1>3
<1>5. Exchange(c)'
    BY <1>3, <1>4 DEF Exchange
<1>6. \A d \in Callers : pc[d] = "recv" => d = c
    BY <1>1, OneHolder
<1>7. VerdictIsMine'
    BY DEF VerdictIsMine
<1> QED
    BY <1>1, <1>5, <1>6, <1>7

\* The answer is the one to the holder's request.
LEMMA ServiceAnswerStep == ASSUME GInv, ServiceAnswer PROVE GInv'
<1> USE DEF GInv, ServiceAnswer
<1>1. PICK c \in Callers : pc[c] = "recv"
    OBVIOUS
<1>2. Exchange(c) /\ svc = "up"
    BY <1>1
<1>3. req = <<>> /\ busy = file[c] /\ resp = <<>>
    BY <1>2 DEF Exchange
<1>4. resp' = <<Answer(file[c])>>
    BY <1>3
<1>5. Exchange(c)'
    BY <1>3, <1>4 DEF Exchange, Answer
<1>6. \A d \in Callers : pc[d] = "recv" => d = c
    BY <1>1, OneHolder
<1>7. VerdictIsMine'
    BY DEF VerdictIsMine
<1> QED
    BY <1>1, <1>5, <1>6, <1>7

\* A service that dies leaves the holder its answer, if there is one, and nothing
\* else (set_exit_status closes its pipe ends).
LEMMA CrashStep == ASSUME GInv, Crash PROVE GInv'
<1> USE DEF GInv, Crash
<1>1. ASSUME NEW c \in Callers, pc'[c] = "recv"
      PROVE  Exchange(c)'
    BY <1>1 DEF Exchange, Answer
<1>2. VerdictIsMine'
    BY DEF VerdictIsMine
<1> QED
    BY <1>1, <1>2

\* What changes neither a caller, the pipes nor a verdict: dispatching, going to
\* sleep in the read, and the two steps of secsvc::spawn.
LEMMA QuietStep ==
    ASSUME GInv,
           UNCHANGED vars \/ (\E t \in Callers \cup {Svc} : Dispatch(t))
             \/ (\E c \in Callers : Sleep(c)) \/ Spawn \/ SetChannel
    PROVE  GInv'
<1>1. UNCHANGED <<lock, req, resp, busy, pc, file, out>>
    BY DEF vars, Dispatch, Sleep, Spawn, SetChannel
<1>2. /\ svc' \in {"absent", "up", "gone"} /\ channel' \in BOOLEAN
      /\ svc = "gone" <=> svc' = "gone"
      /\ svc = "up" => svc' = "up"
      /\ channel => channel'
      /\ channel' => svc' # "absent"
    <2>1. CASE UNCHANGED <<svc, channel>>
        BY <2>1 DEF GInv
    <2>2. CASE Spawn
        BY <2>2 DEF GInv, Spawn
    <2>3. CASE SetChannel
        BY <2>3 DEF GInv, SetChannel
    <2> QED
        BY <2>1, <2>2, <2>3 DEF vars, Dispatch, Sleep
<1>3. \A c \in Callers : Exchange(c) => Exchange(c)'
    BY <1>1, <1>2 DEF Exchange, Answer
<1>4. VerdictIsMine'
    BY <1>1, <1>2 DEF GInv, VerdictIsMine
<1> QED
    BY <1>1, <1>2, <1>3, <1>4 DEF GInv

\* Every verdict is about the caller's own file, whatever the interleaving of
\* callers, the service and its death (execgate::check, secsvc::check_hash).
THEOREM GateSafety == Spec => []VerdictIsMine
<1>1. Init => GInv
    BY GateInit
<1>2. GInv /\ [Next]_vars => GInv'
    <2> SUFFICES ASSUME GInv, [Next]_vars PROVE GInv'
        OBVIOUS
    <2>1. ASSUME NEW c \in Callers, Check(c) PROVE GInv'
        BY <2>1, CheckStep
    <2>2. ASSUME NEW c \in Callers, Lock(c) PROVE GInv'
        BY <2>2, LockStep
    <2>3. ASSUME NEW c \in Callers, Send(c) PROVE GInv'
        BY <2>3, SendStep
    <2>4. ASSUME NEW c \in Callers, Receive(c) PROVE GInv'
        BY <2>4, ReceiveStep
    <2>5. CASE ServiceRead
        BY <2>5, ServiceReadStep
    <2>6. CASE ServiceAnswer
        BY <2>6, ServiceAnswerStep
    <2>7. CASE Crash
        BY <2>7, CrashStep
    <2>8. CASE \/ UNCHANGED vars \/ (\E t \in Callers \cup {Svc} : Dispatch(t))
               \/ (\E c \in Callers : Sleep(c)) \/ Spawn \/ SetChannel
        BY <2>8, QuietStep
    <2> QED
        BY <2>1, <2>2, <2>3, <2>4, <2>5, <2>6, <2>7, <2>8 DEF Next, CallerStep, ServiceStep
<1>3. GInv => VerdictIsMine
    BY DEF GInv
<1> QED
    BY <1>1, <1>2, <1>3, PTL DEF Spec

----------------------------------------------------------------------------
(* The disk driver. *)

\* The queue of a drive without NCQ has the one tag 0 (IDENTIFY's answer in init).
LEMMA AhciTags ==
    ASSUME depth \in Depths
    PROVE  /\ Tags \subseteq AllTags /\ 0 \in Tags
           /\ ~ncq => Tags = {0}
           /\ \A t \in Tags : t # None
<1>1. PICK most \in Depths : \A d \in Depths : d <= most
    BY AhciAssumption
<1>2. Max(Depths) \in Depths /\ \A d \in Depths : d <= Max(Depths)
    BY <1>1, AhciAssumption DEF Max
<1>3. /\ depth \in Nat /\ Max(Depths) \in Nat /\ depth <= Max(Depths) /\ depth # 0
      /\ None \notin Nat
    BY <1>2, AhciAssumption
<1> QED
    BY <1>3 DEF Tags, AllTags, ncq

\* alloc_tag hands out a free tag, the lowest.
LEMMA AllocTagIsFree ==
    ASSUME AhciTypeOK, free # {}
    PROVE  alloc_tag \in free
<1> DEFINE Less == {p \in Nat \X Nat : p[1] < p[2]}
<1>0. IsWellFoundedOn(Less, Nat)
    BY NatLessThanWellFounded DEF OpToRel
<1> HIDE DEF Less
<1> SUFFICES \E t \in free : \A u \in free : t <= u
    BY DEF alloc_tag, Min
<1>1. free \subseteq Nat
    BY AhciAssumption DEF AhciTypeOK, Tags
<1>2. PICK t \in free : \A u \in free : ~(<<u, t>> \in Less)
    BY <1>0, <1>1, IsWellFoundedOnSubset, WFMin
<1>3. ASSUME NEW u \in free PROVE t <= u
  <2>1. t \in Nat /\ u \in Nat /\ ~(<<u, t>> \in Less)
    BY <1>1, <1>2
  <2> QED
    BY <2>1 DEF Less
<1> QED
    BY <1>3

\* The driver starts with every tag free and nothing issued (init).
LEMMA AhciStart == AhciInit => AhciInv
<1> SUFFICES ASSUME AhciInit PROVE AhciInv
    OBVIOUS
<1> USE AhciAssumption DEF AhciInit, identify, setup_irq
<1>1. AhciTypeOK
    BY DEF AhciTypeOK, Submitter, Sectors, Holding
<1>2. \A s \in Subs : sub[s].pc = "idle" /\ sub[s].tag = None /\ sub[s].op = None /\ cache[s] = None
    OBVIOUS
<1>3. None \notin free
    BY AhciTags
<1>4. \A s \in Subs : Progress(s)
    BY <1>2 DEF Progress, At
<1> QED
    BY <1>1, <1>2, <1>3, <1>4 DEF AhciInv, TagInv, SerialInv, Holding, At

\* A step of one submitter leaves the others alone.
LEMMA OneSubmitter ==
    ASSUME sub \in [Subs -> Submitter], NEW s \in Subs, NEW r \in Submitter,
           sub' = [sub EXCEPT ![s] = r], depth' = depth
    PROVE  /\ Tags' = Tags /\ ncq' = ncq /\ sub' \in [Subs -> Submitter']
           /\ sub'[s] = r /\ \A u \in Subs \ {s} : sub'[u] = sub[u]
<1>1. Tags' = Tags /\ ncq' = ncq
    BY DEF Tags, ncq
<1>2. Submitter' = Submitter
    BY <1>1 DEF Submitter
<1> QED
    BY <1>1, <1>2

\* read and write start a command that holds nothing yet (read, write).
LEMMA CallStep == ASSUME AhciInv, NEW s \in Subs, Call(s) PROVE AhciInv'
<1> USE DEF AhciInv, Call, ctl, dev, rec
<1>1. PICK op \in {"read", "write"} : sub' = [sub EXCEPT ![s].pc = "tag", ![s].op = op]
    OBVIOUS
<1> DEFINE r == [sub[s] EXCEPT !.pc = "tag", !.op = op]
<1>2. sub[s] \in Submitter /\ sub' = [sub EXCEPT ![s] = r] /\ sub[s].pc = "idle" /\ depth' = depth
    BY <1>1 DEF AhciTypeOK, At
<1>3. /\ r \in Submitter /\ r.pc = "tag" /\ r.op = op /\ r.tag = sub[s].tag
    BY <1>2 DEF Submitter
<1> HIDE DEF r
<1>4. /\ Tags' = Tags /\ ncq' = ncq /\ sub' \in [Subs -> Submitter']
      /\ sub'[s] = r /\ \A u \in Subs \ {s} : sub'[u] = sub[u]
    BY <1>2, <1>3, OneSubmitter DEF AhciTypeOK
<1>5. AhciTypeOK'
    BY <1>4 DEF AhciTypeOK
<1>6. sub[s].tag = None /\ TagInv'
    BY AhciAssumption, <1>2, <1>3, <1>4 DEF TagInv, Holding, At
<1>7. ASSUME SerialInv PROVE SerialInv'
  <2>1. \A u \in Subs : Progress(u)'
    BY AhciAssumption, <1>2, <1>3, <1>4, <1>7 DEF Progress, SerialInv, TagInv, At
  <2>2. ASSUME NEW u \in Subs, sub'[u].tag = 0 PROVE Serial(u)'
    BY AhciAssumption, <1>3, <1>4, <1>6, <1>7, <2>2 DEF SerialInv, Serial, At, Landed, fis
  <2> QED
    BY <1>3, <1>4, <1>7, <2>1, <2>2 DEF SerialInv
<1> QED
    BY <1>4, <1>5, <1>6, <1>7

\* Without NCQ the submitter between alloc_tag and free_tag is alone there.
LEMMA SoleHolder ==
    ASSUME AhciInv, ~ncq, NEW s \in Subs, sub[s].pc \in Holding
    PROVE  /\ sub[s].tag = 0 /\ SerialInv /\ Serial(s) /\ free = {}
           /\ \A u \in Subs \ {s} : sub[u].tag = None
<1>1. sub[s] \in Submitter /\ \A u \in Subs : sub[u] \in Submitter
    BY DEF AhciInv, AhciTypeOK
<1>2. Tags = {0} /\ None # 0
    BY AhciTags, AhciAssumption DEF AhciInv, AhciTypeOK
<1>3. \A u \in Subs : sub[u].tag \in {0, None}
    BY <1>1, <1>2 DEF Submitter
<1> QED
    BY <1>2, <1>3 DEF AhciInv, AhciTypeOK, TagInv, SerialInv

\* A command takes a free tag and fills its buffer (transfer, flush, alloc_tag).
LEMMA AllocTagStep == ASSUME AhciInv, NEW s \in Subs, AllocTag(s) PROVE AhciInv'
<1> USE DEF AhciInv, AllocTag, ctl, dev, rec
<1>1. alloc_tag \in free /\ alloc_tag \in Tags
    BY AllocTagIsFree DEF AhciTypeOK
<1> DEFINE r == [sub[s] EXCEPT !.tag = alloc_tag, !.pc = IF sub[s].op = "flush" THEN "drain" ELSE "issue"]
<1>2. sub[s] \in Submitter /\ sub' = [sub EXCEPT ![s] = r] /\ sub[s].pc = "tag" /\ depth' = depth
    BY <1>1 DEF AhciTypeOK, At
<1>3. r \in Submitter /\ r.tag = alloc_tag /\ r.op = sub[s].op
      /\ r.pc = IF sub[s].op = "flush" THEN "drain" ELSE "issue"
    BY <1>2, <1>1 DEF Submitter, Holding
<1> HIDE DEF r
<1>4. /\ Tags' = Tags /\ ncq' = ncq /\ sub' \in [Subs -> Submitter']
      /\ sub'[s] = r /\ \A u \in Subs \ {s} : sub'[u] = sub[u]
    BY <1>2, <1>3, OneSubmitter DEF AhciTypeOK
<1>5. AhciTypeOK'
  <2>1. alloc_tag \in AllTags /\ Data(s) \in Sectors
    BY <1>1, AhciTags DEF AhciTypeOK, Sectors
  <2>2. sub[s].op \in {"read", "write", "flush"} /\ fis(sub[s].op, s) \in Command
    BY <1>2 DEF TagInv, At, Submitter, Command, fis
  <2> QED
    BY <1>4, <2>1, <2>2 DEF AhciTypeOK
<1>6. TagInv'
  <2>1. alloc_tag # None
    BY <1>1, AhciTags DEF AhciTypeOK
  <2> QED
    BY <1>1, <1>2, <1>3, <1>4, <2>1 DEF TagInv, Holding, At
<1>7. ASSUME ~ncq PROVE SerialInv'
  <2>1. Tags = {0} /\ alloc_tag = 0 /\ 0 \in free /\ SerialInv
    BY <1>1, <1>7, AhciTags DEF AhciTypeOK
  <2>2. \A u \in Subs : sub[u].tag = None
    BY <1>1, <2>1 DEF TagInv, AhciTypeOK, Submitter
  <2>3. issued = {} /\ tagErr = {} /\ ~err
    BY <2>1, <2>2, SMTT(30) DEF SerialInv
  <2>4. \A u \in Subs : Progress(u)'
    BY <1>2, <1>3, <1>4, <2>1 DEF Progress, SerialInv, TagInv, At, AhciTypeOK, Submitter
  <2>5. 0 \in DOMAIN bounce
    BY <2>1, AhciTags DEF AhciTypeOK
  <2>6. Serial(s)'
    BY <1>3, <1>4, <2>1, <2>3, <2>5 DEF Serial, At, Waiting
  <2> QED
    BY <1>3, <1>4, <2>1, <2>2, <2>3, <2>4, <2>6, AhciAssumption DEF SerialInv
<1> QED
    BY <1>4, <1>5, <1>6, <1>7
\* A command goes to the drive (transfer, issue).
LEMMA IssueStep == ASSUME AhciInv, NEW s \in Subs, Issue(s) PROVE AhciInv'
<1> USE DEF AhciInv, Issue, ctl, dev, rec, Goto
<1> DEFINE r == [sub[s] EXCEPT !.pc = "wait"]
<1>2. sub[s] \in Submitter /\ sub' = [sub EXCEPT ![s] = r] /\ sub[s].pc = "issue" /\ depth' = depth
    BY DEF AhciTypeOK, At
<1>3. r \in Submitter /\ r.pc = "wait" /\ r.tag = sub[s].tag /\ r.op = sub[s].op
    BY <1>2 DEF Submitter, Holding
<1> HIDE DEF r
<1>4. /\ Tags' = Tags /\ ncq' = ncq /\ sub' \in [Subs -> Submitter']
      /\ sub'[s] = r /\ \A u \in Subs \ {s} : sub'[u] = sub[u]
    BY <1>2, <1>3, OneSubmitter DEF AhciTypeOK
<1>5. AhciTypeOK' /\ sub[s].tag \in Tags
  <2>1. sub[s].tag \in Tags
    BY <1>2 DEF TagInv, Holding, At, Submitter
  <2>2. fis(sub[s].op, s) \in Command /\ fis("flush", s) \in Command
    BY <1>2 DEF TagInv, At, Submitter, Command, fis
  <2>3. sub[s].tag \in AllTags
    BY <2>1, AhciTags DEF AhciTypeOK
  <2> QED
    BY <1>4, <2>1, <2>2, <2>3 DEF AhciTypeOK, issue
<1>6. TagInv'
    BY <1>2, <1>3, <1>4 DEF TagInv, Holding, At
<1>7. ASSUME ~ncq PROVE SerialInv'
  <2>1. /\ sub[s].tag = 0 /\ SerialInv /\ Serial(s)
        /\ \A u \in Subs \ {s} : sub[u].tag = None
    BY <1>2, <1>7, SoleHolder DEF Holding
  <2>2. Tags = {0} /\ 0 \in AllTags
    BY <1>7, AhciTags DEF AhciTypeOK
  <2>3. tagErr = {} /\ ~err /\ issued = {}
    BY <1>2, <2>1, <2>2 DEF Serial, At, AhciTypeOK
  <2>4. Progress(s)
    BY <2>1 DEF SerialInv
  <2>7. \A u \in Subs : Progress(u)'
    BY <1>2, <1>3, <1>4, <2>1, <2>3, <2>4 DEF Progress, SerialInv, At
  <2>8. Serial(s)'
    BY <1>2, <1>3, <1>4, <2>1, <2>2, <2>3, <2>4 DEF Serial, At, Waiting, AhciTypeOK, issue, fis, Progress
  <2> QED
    BY <1>3, <1>4, <2>1, <2>7, <2>8, AhciAssumption DEF SerialInv
<1>8. issued' # {}
    BY DEF issue
<1> QED
    BY <1>8, <1>4, <1>5, <1>6, <1>7
\* A flush goes to a drained drive (flush).
LEMMA DrainAndIssueStep == ASSUME AhciInv, NEW s \in Subs, DrainAndIssue(s) PROVE AhciInv'
<1> USE DEF AhciInv, DrainAndIssue, ctl, dev, rec, Goto
<1> DEFINE r == [sub[s] EXCEPT !.pc = "wait"]
<1>2. sub[s] \in Submitter /\ sub' = [sub EXCEPT ![s] = r] /\ sub[s].pc = "drain" /\ depth' = depth
    BY DEF AhciTypeOK, At
<1>3. r \in Submitter /\ r.pc = "wait" /\ r.tag = sub[s].tag /\ r.op = sub[s].op
    BY <1>2 DEF Submitter, Holding
<1> HIDE DEF r
<1>4. /\ Tags' = Tags /\ ncq' = ncq /\ sub' \in [Subs -> Submitter']
      /\ sub'[s] = r /\ \A u \in Subs \ {s} : sub'[u] = sub[u]
    BY <1>2, <1>3, OneSubmitter DEF AhciTypeOK
<1>5. AhciTypeOK' /\ sub[s].tag \in Tags
  <2>1. sub[s].tag \in Tags
    BY <1>2 DEF TagInv, Holding, At, Submitter
  <2>2. fis(sub[s].op, s) \in Command /\ fis("flush", s) \in Command
    BY <1>2 DEF TagInv, At, Submitter, Command, fis
  <2>3. sub[s].tag \in AllTags
    BY <2>1, AhciTags DEF AhciTypeOK
  <2> QED
    BY <1>4, <2>1, <2>2, <2>3 DEF AhciTypeOK, issue
<1>6. TagInv'
    BY <1>2, <1>3, <1>4 DEF TagInv, Holding, At
<1>7. ASSUME ~ncq PROVE SerialInv'
  <2>1. /\ sub[s].tag = 0 /\ SerialInv /\ Serial(s)
        /\ \A u \in Subs \ {s} : sub[u].tag = None
    BY <1>2, <1>7, SoleHolder DEF Holding
  <2>2. Tags = {0} /\ 0 \in AllTags
    BY <1>7, AhciTags DEF AhciTypeOK
  <2>3. tagErr = {} /\ ~err /\ issued = {}
    BY <1>2, <2>1, <2>2 DEF Serial, At, AhciTypeOK
  <2>4. Progress(s)
    BY <2>1 DEF SerialInv
  <2>7. \A u \in Subs : Progress(u)'
    BY <1>2, <1>3, <1>4, <2>1, <2>3, <2>4 DEF Progress, SerialInv, At
  <2>8. Serial(s)'
    BY <1>2, <1>3, <1>4, <2>1, <2>2, <2>3, <2>4 DEF Serial, At, Waiting, AhciTypeOK, issue, fis, Progress
  <2> QED
    BY <1>3, <1>4, <2>1, <2>7, <2>8, AhciAssumption DEF SerialInv
<1>8. issued' # {}
    BY DEF issue
<1> QED
    BY <1>8, <1>4, <1>5, <1>6, <1>7
\* A waiter takes its error, starts recovery or goes on to the completion test (wait).
LEMMA WaitCheckStep == ASSUME AhciInv, NEW s \in Subs, WaitCheck(s) PROVE AhciInv'
<1> USE DEF AhciInv, WaitCheck, ctl, dev, rec, Goto
<1>1. \/ sub[s].tag \in tagErr /\ tagErr' = tagErr \ {sub[s].tag}
         /\ sub'[s] = [sub[s] EXCEPT !.pc = "done", !.res = "error"]
      \/ sub[s].tag \notin tagErr /\ err /\ tagErr' = tagErr /\ sub'[s] = [sub[s] EXCEPT !.pc = "capture"]
      \/ sub[s].tag \notin tagErr /\ ~err /\ tagErr' = tagErr /\ sub'[s] = [sub[s] EXCEPT !.pc = "poll"]
    BY DEF AhciTypeOK
<1> DEFINE r == sub'[s]
<1>2. sub[s] \in Submitter /\ sub' = [sub EXCEPT ![s] = r] /\ sub[s].pc = "wait" /\ depth' = depth
    BY <1>1 DEF AhciTypeOK, At
<1>3. r \in Submitter /\ r.tag = sub[s].tag /\ r.op = sub[s].op
      /\ \/ sub[s].tag \in tagErr /\ tagErr' = tagErr \ {sub[s].tag} /\ r.pc = "done" /\ r.res = "error"
         \/ sub[s].tag \notin tagErr /\ err /\ tagErr' = tagErr /\ r.pc = "capture"
         \/ sub[s].tag \notin tagErr /\ ~err /\ tagErr' = tagErr /\ r.pc = "poll"
    BY <1>2, <1>1 DEF Submitter, Holding
<1> HIDE DEF r
<1>4. /\ Tags' = Tags /\ ncq' = ncq /\ sub' \in [Subs -> Submitter']
      /\ sub'[s] = r /\ \A u \in Subs \ {s} : sub'[u] = sub[u]
    BY <1>2, <1>3, OneSubmitter DEF AhciTypeOK
<1>5. AhciTypeOK'
    BY <1>4 DEF AhciTypeOK
<1>6. TagInv'
    BY <1>2, <1>3, <1>4 DEF TagInv, Holding, At
<1>7. ASSUME ~ncq PROVE SerialInv'
  <2>1. /\ sub[s].tag = 0 /\ SerialInv /\ Serial(s)
        /\ \A u \in Subs \ {s} : sub[u].tag = None
    BY <1>2, <1>7, SoleHolder DEF Holding
  <2>2. Tags = {0} /\ 0 \in AllTags
    BY <1>7, AhciTags DEF AhciTypeOK
  <2>3. \A v \in {"capture", "poll", "done"} : v # "ret" /\ v # "idle" /\ v # "issue" /\ v # "drain"
    OBVIOUS
  <2>7. \A u \in Subs : Progress(u)'
    BY <1>2, <1>3, <1>4, <2>1, <2>3 DEF Progress, SerialInv, At
  <2>8. Serial(s)'
    BY <1>2, <1>3, <1>4, <2>1, <2>2, <2>3 DEF Serial, At, Waiting, AhciTypeOK, Landed
  <2> QED
    BY <1>3, <1>4, <2>1, <2>7, <2>8, AhciAssumption DEF SerialInv
<1> QED
    BY <1>4, <1>5, <1>6, <1>7
\* The completion test: done, or back to waiting (wait).
LEMMA WaitPollStep == ASSUME AhciInv, NEW s \in Subs, WaitPoll(s) PROVE AhciInv'
<1> USE DEF AhciInv, WaitPoll, ctl, dev, rec
<1>1. \/ sub[s].tag \notin issued /\ sub'[s] = [sub[s] EXCEPT !.pc = "done", !.res = "ok"]
      \/ sub[s].tag \in issued /\ sub'[s] = [sub[s] EXCEPT !.pc = "park"]
      \/ sub[s].tag \in issued /\ sub'[s] = [sub[s] EXCEPT !.pc = "wait"]
    BY DEF AhciTypeOK
<1> DEFINE r == sub'[s]
<1>2. sub[s] \in Submitter /\ sub' = [sub EXCEPT ![s] = r] /\ sub[s].pc = "poll" /\ depth' = depth
    BY <1>1 DEF AhciTypeOK, At
<1>3. r \in Submitter /\ r.tag = sub[s].tag /\ r.op = sub[s].op
      /\ \/ sub[s].tag \notin issued /\ r.pc = "done"
         \/ sub[s].tag \in issued /\ r.pc \in {"park", "wait"}
  <2> HIDE DEF WaitPoll, AhciInv
  <2>1. CASE sub[s].tag \notin issued /\ r = [sub[s] EXCEPT !.pc = "done", !.res = "ok"]
    BY <1>2, <2>1 DEF Submitter, Holding
  <2>2. CASE sub[s].tag \in issued /\ r = [sub[s] EXCEPT !.pc = "park"]
    BY <1>2, <2>2 DEF Submitter, Holding
  <2>3. CASE sub[s].tag \in issued /\ r = [sub[s] EXCEPT !.pc = "wait"]
    BY <1>2, <2>3 DEF Submitter, Holding
  <2> QED
    BY <1>1, <2>1, <2>2, <2>3
<1> HIDE DEF r
<1>4. /\ Tags' = Tags /\ ncq' = ncq /\ sub' \in [Subs -> Submitter']
      /\ sub'[s] = r /\ \A u \in Subs \ {s} : sub'[u] = sub[u]
    BY <1>2, <1>3, OneSubmitter DEF AhciTypeOK
<1>5. AhciTypeOK'
    BY <1>4 DEF AhciTypeOK
<1>6. TagInv'
    BY <1>2, <1>3, <1>4 DEF TagInv, Holding, At
<1>7. ASSUME ~ncq PROVE SerialInv'
  <2>1. /\ sub[s].tag = 0 /\ SerialInv /\ Serial(s)
        /\ \A u \in Subs \ {s} : sub[u].tag = None
    BY <1>2, <1>7, SoleHolder DEF Holding
  <2>2. Tags = {0} /\ 0 \in AllTags
    BY <1>7, AhciTags, SMTT(30) DEF AhciTypeOK
  <2>7. \A u \in Subs : Progress(u)'
    BY <1>2, <1>3, <1>4, <2>1 DEF Progress, SerialInv, At
  <2>8. Serial(s)'
    BY <1>2, <1>3, <1>4, <2>1, <2>2 DEF Serial, At, Waiting, AhciTypeOK, Landed
  <2> QED
    BY <1>3, <1>4, <2>1, <2>7, <2>8, AhciAssumption DEF SerialInv
<1> QED
    BY <1>4, <1>5, <1>6, <1>7
\* A waiter goes to sleep (WaitQueue::wait on TAG_WAKE).
LEMMA ParkStep == ASSUME AhciInv, NEW s \in Subs, Park(s) PROVE AhciInv'
<1> USE DEF AhciInv, Park, ctl, dev, rec, Goto
<1> DEFINE r == [sub[s] EXCEPT !.pc = "asleep"]
<1>2. sub[s] \in Submitter /\ sub' = [sub EXCEPT ![s] = r] /\ sub[s].pc = "park" /\ depth' = depth
    BY DEF AhciTypeOK, At
<1>3. r \in Submitter /\ r.tag = sub[s].tag /\ r.op = sub[s].op /\ r.pc = "asleep"
    BY <1>2 DEF Submitter, Holding
<1> HIDE DEF r
<1>4. /\ Tags' = Tags /\ ncq' = ncq /\ sub' \in [Subs -> Submitter']
      /\ sub'[s] = r /\ \A u \in Subs \ {s} : sub'[u] = sub[u]
    BY <1>2, <1>3, OneSubmitter DEF AhciTypeOK
<1>5. AhciTypeOK'
    BY <1>4 DEF AhciTypeOK
<1>6. TagInv'
    BY <1>2, <1>3, <1>4 DEF TagInv, Holding, At
<1>7. ASSUME ~ncq PROVE SerialInv'
  <2>1. /\ sub[s].tag = 0 /\ SerialInv /\ Serial(s)
        /\ \A u \in Subs \ {s} : sub[u].tag = None
    BY <1>2, <1>7, SoleHolder DEF Holding
  <2>2. Tags = {0} /\ 0 \in AllTags
    BY <1>7, AhciTags DEF AhciTypeOK
  <2>7. \A u \in Subs : Progress(u)'
    BY <1>2, <1>3, <1>4, <2>1 DEF Progress, SerialInv, At
  <2>8. Serial(s)'
    BY <1>2, <1>3, <1>4, <2>1, <2>2 DEF Serial, At, Waiting, AhciTypeOK, Landed
  <2> QED
    BY <1>3, <1>4, <2>1, <2>7, <2>8, AhciAssumption DEF SerialInv
<1> QED
    BY <1>4, <1>5, <1>6, <1>7
\* Recovery notes what the drive had (recover).
LEMMA CaptureStep == ASSUME AhciInv, NEW s \in Subs, Capture(s) PROVE AhciInv'
<1> USE DEF AhciInv, Capture, ctl, dev, rec, Goto
<1> DEFINE r == [sub[s] EXCEPT !.pc = "reset"]
<1>2. sub[s] \in Submitter /\ sub' = [sub EXCEPT ![s] = r] /\ sub[s].pc = "capture" /\ depth' = depth
    BY DEF AhciTypeOK, At
<1>3. r \in Submitter /\ r.tag = sub[s].tag /\ r.op = sub[s].op /\ r.pc = "reset"
    BY <1>2 DEF Submitter, Holding
<1> HIDE DEF r
<1>4. /\ Tags' = Tags /\ ncq' = ncq /\ sub' \in [Subs -> Submitter']
      /\ sub'[s] = r /\ \A u \in Subs \ {s} : sub'[u] = sub[u]
    BY <1>2, <1>3, OneSubmitter DEF AhciTypeOK
<1>5. AhciTypeOK'
    BY <1>4 DEF AhciTypeOK
<1>6. TagInv'
    BY <1>2, <1>3, <1>4 DEF TagInv, Holding, At
<1>7. ASSUME ~ncq PROVE SerialInv'
  <2>1. /\ sub[s].tag = 0 /\ SerialInv /\ Serial(s)
        /\ \A u \in Subs \ {s} : sub[u].tag = None
    BY <1>2, <1>7, SoleHolder DEF Holding
  <2>2. Tags = {0} /\ 0 \in AllTags
    BY <1>7, AhciTags DEF AhciTypeOK
  <2>7. \A u \in Subs : Progress(u)'
    BY <1>2, <1>3, <1>4, <2>1 DEF Progress, SerialInv, At
  <2>8. Serial(s)'
    BY <1>2, <1>3, <1>4, <2>1, <2>2 DEF Serial, At, Waiting, AhciTypeOK, Landed
  <2> QED
    BY <1>3, <1>4, <2>1, <2>7, <2>8, AhciAssumption DEF SerialInv
<1> QED
    BY <1>4, <1>5, <1>6, <1>7
\* A reset takes every command from the drive (recover, comreset).
LEMMA ResetStep == ASSUME AhciInv, NEW s \in Subs, Reset(s) PROVE AhciInv'
<1> USE DEF AhciInv, Reset, ctl, dev, rec, Goto
<1> DEFINE r == [sub[s] EXCEPT !.pc = "log"]
<1>2. sub[s] \in Submitter /\ sub' = [sub EXCEPT ![s] = r] /\ sub[s].pc = "reset" /\ depth' = depth
    BY DEF AhciTypeOK, At
<1>3. r \in Submitter /\ r.tag = sub[s].tag /\ r.op = sub[s].op /\ r.pc = "log"
    BY <1>2 DEF Submitter, Holding
<1> HIDE DEF r
<1>4. /\ Tags' = Tags /\ ncq' = ncq /\ sub' \in [Subs -> Submitter']
      /\ sub'[s] = r /\ \A u \in Subs \ {s} : sub'[u] = sub[u]
    BY <1>2, <1>3, OneSubmitter DEF AhciTypeOK
<1>5. AhciTypeOK'
    BY <1>4 DEF AhciTypeOK
<1>6. TagInv'
    BY <1>2, <1>3, <1>4 DEF TagInv, Holding, At
<1>7. ASSUME ~ncq PROVE SerialInv'
  <2>1. /\ sub[s].tag = 0 /\ SerialInv /\ Serial(s)
        /\ \A u \in Subs \ {s} : sub[u].tag = None
    BY <1>2, <1>7, SoleHolder DEF Holding
  <2>2. Tags = {0} /\ 0 \in AllTags
    BY <1>7, AhciTags DEF AhciTypeOK
  <2>7. \A u \in Subs : Progress(u)'
    BY <1>2, <1>3, <1>4, <2>1 DEF Progress, SerialInv, At
  <2>8. Serial(s)'
    BY <1>2, <1>3, <1>4, <2>1, <2>2 DEF Serial, At, Waiting, AhciTypeOK, Landed
  <2> QED
    BY <1>3, <1>4, <2>1, <2>7, <2>8, AhciAssumption DEF SerialInv
<1> QED
    BY <1>4, <1>5, <1>6, <1>7
\* Without NCQ the log tells recovery nothing, and its page lands in a buffer whose
\* command is given up (read_log_ext).
LEMMA ReadLogStep == ASSUME AhciInv, NEW s \in Subs, ReadLog(s) PROVE AhciInv'
<1> USE DEF AhciInv, ReadLog, ctl, dev, rec, Goto
<1> DEFINE r == [sub[s] EXCEPT !.pc = "fix"]
<1>2. sub[s] \in Submitter /\ sub' = [sub EXCEPT ![s] = r] /\ sub[s].pc = "log" /\ depth' = depth
    BY DEF AhciTypeOK, At
<1>3. r \in Submitter /\ r.tag = sub[s].tag /\ r.op = sub[s].op /\ r.pc = "fix"
    BY <1>2 DEF Submitter, Holding
<1> HIDE DEF r
<1>4. /\ Tags' = Tags /\ ncq' = ncq /\ sub' \in [Subs -> Submitter']
      /\ sub'[s] = r /\ \A u \in Subs \ {s} : sub'[u] = sub[u]
    BY <1>2, <1>3, OneSubmitter DEF AhciTypeOK
<1>5. AhciTypeOK'
    BY <1>4 DEF AhciTypeOK, Sectors
<1>6. TagInv'
    BY <1>2, <1>3, <1>4 DEF TagInv, Holding, At
<1>7. ASSUME ~ncq PROVE SerialInv'
  <2>1. /\ sub[s].tag = 0 /\ SerialInv /\ Serial(s)
        /\ \A u \in Subs \ {s} : sub[u].tag = None
    BY <1>2, <1>7, SoleHolder DEF Holding
  <2>2. Tags = {0} /\ 0 \in AllTags
    BY <1>7, AhciTags DEF AhciTypeOK
  <2>7. \A u \in Subs : Progress(u)'
    BY <1>2, <1>3, <1>4, <2>1, <1>7 DEF Progress, SerialInv, At
  <2>8. Serial(s)'
    BY <1>2, <1>3, <1>4, <2>1, <2>2, <1>7 DEF Serial, At, Waiting, AhciTypeOK, Landed
  <2> QED
    BY <1>3, <1>4, <2>1, <2>7, <2>8, AhciAssumption DEF SerialInv
<1> QED
    BY <1>4, <1>5, <1>6, <1>7

\* A finished command gives its tag back: a write without NCQ goes on to flush, a read
\* has its data in its own buffer (the end of transfer and flush, free_tag).
LEMMA FinishStep == ASSUME AhciInv, NEW s \in Subs, Finish(s) PROVE AhciInv'
<1> USE DEF AhciInv, ctl, dev, rec
<1> DEFINE ok == sub[s].res = "ok"
           again == sub[s].op = "write" /\ ok /\ ~ncq
           r == [sub[s] EXCEPT !.tag = None, !.pc = IF again THEN "tag" ELSE "ret",
                               !.op = IF again THEN "flush" ELSE @,
                               !.buf = IF sub[s].op = "read" /\ ok THEN bounce[sub[s].tag] ELSE @]
<1>1. sub[s] \in Submitter /\ sub' = [sub EXCEPT ![s] = r] /\ sub[s].pc = "done" /\ depth' = depth
    BY DEF AhciTypeOK, At, Finish
<1>2. sub[s].tag \in Tags /\ bounce[sub[s].tag] \in Sectors
  <2>1. sub[s].tag \in Tags
    BY <1>1 DEF TagInv, Holding, At, Submitter
  <2> QED
    BY <2>1, AhciTags DEF AhciTypeOK
<1>3. /\ r \in Submitter /\ r.tag = None /\ r.pc = (IF again THEN "tag" ELSE "ret")
      /\ r.op = (IF again THEN "flush" ELSE sub[s].op) /\ r.res = sub[s].res
      /\ sub[s].op = "read" /\ ok => r.buf = bounce[sub[s].tag]
    BY <1>1, <1>2 DEF Submitter
<1> HIDE DEF r
<1>4. /\ Tags' = Tags /\ ncq' = ncq /\ sub' \in [Subs -> Submitter']
      /\ sub'[s] = r /\ \A u \in Subs \ {s} : sub'[u] = sub[u]
    BY <1>1, <1>3, OneSubmitter DEF AhciTypeOK
<1>5. /\ free' = free \cup {sub[s].tag} /\ pending' = [pending EXCEPT ![sub[s].tag] = None]
      /\ UNCHANGED <<irqOn, tagErr, dev, bounce, rec>>
    BY DEF Finish
<1>6. AhciTypeOK'
    BY <1>1, <1>2, <1>4, <1>5 DEF AhciTypeOK
<1>7. TagInv'
  <2>1. None \notin free'
    BY <1>2, <1>5, AhciTags DEF AhciTypeOK
  <2> QED
    BY <1>1, <1>2, <1>3, <1>4, <1>5, <2>1, AhciAssumption DEF TagInv, Holding, At
<1>8. ASSUME ~ncq PROVE SerialInv'
  <2>1. /\ sub[s].tag = 0 /\ SerialInv /\ Serial(s)
        /\ \A u \in Subs \ {s} : sub[u].tag = None
    BY <1>1, <1>8, SoleHolder DEF Holding
  <2>2. Tags = {0}
    BY <1>8, AhciTags DEF AhciTypeOK
  <2>3. issued = {} /\ tagErr = {} /\ (ok => Landed(s))
    BY <1>1, <2>1, <2>2 DEF Serial, At, AhciTypeOK
  <2>4. ASSUME NEW u \in Subs PROVE Progress(u)'
    <3>1. Progress(u)
      BY <2>1 DEF SerialInv
    <3>2. CASE u # s
      BY <1>4, <1>5, <3>1, <3>2 DEF Progress, At
    <3>3. CASE u = s
      <4>1. sub[s].op \in {"read", "write", "flush"}
        BY <1>1 DEF TagInv, At, Submitter
      <4>2. ok /\ sub[s].op = "read" => cache[s] = None /\ r.buf = disk[s]
        BY <1>3, <2>1, <2>3 DEF Landed
      <4>3. ok /\ sub[s].op = "flush" => cache[s] = None /\ disk[s] = Data(s)
        BY <2>3 DEF Landed
      <4>4. ok /\ sub[s].op = "write" => cache[s] = Data(s)
        BY <2>3 DEF Landed
      <4> QED
        BY <1>3, <1>4, <1>8, <1>5, <3>1, <3>3, <4>1, <4>2, <4>3, <4>4, AhciAssumption DEF Progress, At
    <3> QED
      BY <3>2, <3>3
  <2>5. \A u \in Subs : sub'[u].tag = None /\ sub'[u].tag # 0
    BY <1>3, <1>4, <2>1, AhciAssumption, SMTT(30)
  <2>6. issued' = {} /\ tagErr' = {}
    BY <1>5, <2>3
  <2> QED
    BY <2>4, <2>5, <2>6, Zenon DEF SerialInv
<1> QED
    BY <1>4, <1>6, <1>7, <1>8, <1>5

\* What a step that moves submitters only from asleep to wait does to each.
LEMMA WokenFacts ==
    ASSUME sub \in [Subs -> Submitter], NEW W \in SUBSET Subs, depth' = depth,
           sub' = [u \in Subs |-> IF u \in W THEN [sub[u] EXCEPT !.pc = "wait"] ELSE sub[u]]
    PROVE  /\ Tags' = Tags /\ ncq' = ncq /\ sub' \in [Subs -> Submitter']
           /\ \A u \in Subs :
                /\ sub'[u].tag = sub[u].tag /\ sub'[u].op = sub[u].op
                /\ sub'[u].res = sub[u].res /\ sub'[u].buf = sub[u].buf
                /\ sub'[u].pc = IF u \in W THEN "wait" ELSE sub[u].pc
<1>1. Tags' = Tags /\ ncq' = ncq
    BY DEF Tags, ncq
<1>2. Submitter' = Submitter
    BY <1>1 DEF Submitter
<1>3. ASSUME NEW u \in Subs
      PROVE  /\ sub'[u] \in Submitter
             /\ sub'[u].tag = sub[u].tag /\ sub'[u].op = sub[u].op
             /\ sub'[u].res = sub[u].res /\ sub'[u].buf = sub[u].buf
             /\ sub'[u].pc = IF u \in W THEN "wait" ELSE sub[u].pc
  <2>1. sub[u] \in Submitter /\ sub'[u] = IF u \in W THEN [sub[u] EXCEPT !.pc = "wait"] ELSE sub[u]
    OBVIOUS
  <2> QED
    BY <2>1, SMTT(30) DEF Submitter, Holding
<1> QED
    BY <1>1, <1>2, <1>3

\* An interrupt or a tick sends the sleepers back to their test (on_irq, poll_wake).
LEMMA WakeStep == ASSUME AhciInv, Wake PROVE AhciInv'
<1> USE DEF AhciInv, Wake, ctl, dev, rec
<1> DEFINE W == {u \in Subs : sub[u].pc = "asleep"}
<1>1. /\ sub \in [Subs -> Submitter] /\ depth' = depth
      /\ sub' = [u \in Subs |-> IF u \in W THEN [sub[u] EXCEPT !.pc = "wait"] ELSE sub[u]]
    BY SMTT(30) DEF AhciTypeOK, wake_parked, At
<1>2. W \in SUBSET Subs /\ \A u \in Subs : u \in W <=> sub[u].pc = "asleep"
    OBVIOUS
<1> HIDE DEF W
<1>3. /\ Tags' = Tags /\ ncq' = ncq /\ sub' \in [Subs -> Submitter']
      /\ \A u \in Subs :
           /\ sub'[u].tag = sub[u].tag /\ sub'[u].op = sub[u].op
           /\ sub'[u].res = sub[u].res /\ sub'[u].buf = sub[u].buf
           /\ sub'[u].pc = IF u \in W THEN "wait" ELSE sub[u].pc
    BY <1>1, <1>2, WokenFacts
<1> HIDE DEF Wake
<1>4. UNCHANGED <<ctl, dev, bounce, rec>>
    BY DEF Wake
<1>5. AhciTypeOK'
    BY <1>3, <1>4 DEF AhciTypeOK
<1>6. TagInv'
    BY <1>2, <1>3, <1>4, SMTT(30) DEF TagInv, Holding, At
<1>7. ASSUME SerialInv PROVE SerialInv'
  <2>1. ASSUME NEW u \in Subs PROVE Progress(u)'
    BY <1>2, <1>3, <1>4, <1>7 DEF Progress, SerialInv, At
  <2>2. ASSUME NEW u \in Subs, sub'[u].tag = 0 PROVE Serial(u)'
    <3>1. Serial(u)
      BY <1>3, <1>7, <2>2 DEF SerialInv
    <3> QED
      BY <1>2, <1>3, <1>4, <3>1, SMTT(30) DEF Serial, Waiting, At, Landed
  <2> QED
    BY <1>3, <1>4, <1>7, <2>1, <2>2 DEF SerialInv
<1> QED
    BY <1>3, <1>4, <1>5, <1>6, <1>7

\* Recovery gives up what it cannot re-issue: without NCQ everything (recover).
LEMMA FixStep == ASSUME AhciInv, NEW s \in Subs, Fix(s) PROVE AhciInv'
<1> USE DEF AhciInv, ctl, dev, rec
<1> DEFINE W == {u \in Subs : u = s \/ sub[u].pc = "asleep"}
           again == {t \in aborted : failed \notin {None, t} /\ pending[t] # None}
<1>1. /\ sub \in [Subs -> Submitter] /\ sub[s].pc = "fix"
      /\ sub' = [u \in Subs |-> IF u \in W THEN [sub[u] EXCEPT !.pc = "wait"] ELSE sub[u]]
    BY DEF AhciTypeOK, At, Fix
<1>2. W \in SUBSET Subs /\ \A u \in Subs : u \in W <=> u = s \/ sub[u].pc = "asleep"
    OBVIOUS
<1>3. /\ issued' = issued \cup again /\ tagErr' = tagErr \cup (aborted \ again) 
      /\ cmd' = [t \in AllTags |-> IF t \in again THEN pending[t] ELSE cmd[t]]
      /\ UNCHANGED <<depth, irqOn, free, err, cache, disk, bounce, aborted, failed, pending>>
    BY DEF Fix
<1>4. /\ again \subseteq aborted /\ (failed = None => again = {})
      /\ \A t \in again : pending[t] # None
    OBVIOUS
<1> HIDE DEF W, again
<1>5. /\ Tags' = Tags /\ ncq' = ncq /\ sub' \in [Subs -> Submitter']
      /\ \A u \in Subs :
           /\ sub'[u].tag = sub[u].tag /\ sub'[u].op = sub[u].op
           /\ sub'[u].res = sub[u].res /\ sub'[u].buf = sub[u].buf
           /\ sub'[u].pc = IF u \in W THEN "wait" ELSE sub[u].pc
    BY <1>1, <1>2, <1>3, WokenFacts
<1>6. AhciTypeOK'
  <2>1. \A t \in again : pending[t] \in Command
    BY <1>4, AhciTags DEF AhciTypeOK
  <2>2. DOMAIN cmd' = AllTags /\ \A t \in issued' : cmd'[t] \in Command
    BY <1>3, <1>4, <2>1, AhciTags DEF AhciTypeOK
  <2> QED
    BY <1>3, <1>4, <1>5, <2>2 DEF AhciTypeOK
<1>7. TagInv'
    BY <1>1, <1>2, <1>3, <1>5, SMTT(30) DEF TagInv, Holding, At
<1>8. ASSUME ~ncq PROVE SerialInv'
  <2>1. /\ sub[s].tag = 0 /\ SerialInv /\ Serial(s)
        /\ \A u \in Subs \ {s} : sub[u].tag = None
    BY <1>1, <1>8, SoleHolder DEF Holding
  <2>2. issued' = {} /\ 0 \in tagErr'
    BY <1>1, <1>3, <1>4, <2>1 DEF Serial, At
  <2>3. ASSUME NEW u \in Subs PROVE Progress(u)'
    BY <1>1, <1>2, <1>3, <1>5, <2>1, SMTT(30) DEF Progress, SerialInv, At
  <2>4. Serial(s)'
    BY <1>2, <1>5, <2>2 DEF Serial, At
  <2> QED
    BY <1>5, <2>1, <2>3, <2>4, AhciAssumption DEF SerialInv
<1> QED
    BY <1>3, <1>5, <1>6, <1>7, <1>8

\* The drive answers: without NCQ that lands the one command under way, and moves no
\* other submitter's data except from the cache to the media (the drive).
LEMMA CompleteStep == ASSUME AhciInv, NEW t \in AllTags, Complete(t) PROVE AhciInv'
<1> USE DEF AhciInv, ctl, dev, rec
<1> DEFINE c == cmd[t]
<1>1. /\ t \in issued /\ ~err /\ issued' = issued \ {t}
      /\ UNCHANGED <<ctl, cmd, err, sub, rec>>
      /\ bounce' = IF c.op = "read" THEN [bounce EXCEPT ![t] = disk[c.s]] ELSE bounce
    BY DEF Complete
<1>2. Tags' = Tags /\ ncq' = ncq /\ Submitter' = Submitter
    BY <1>1, SMTT(30) DEF Tags, ncq, Submitter
<1>3. TagInv'
    BY <1>1 DEF TagInv, At
<1>4. ASSUME ~ncq
      PROVE  /\ t = 0 /\ SerialInv
             /\ \E s \in Subs : /\ sub[s].tag = 0 /\ Serial(s) /\ Progress(s) /\ c = fis(sub[s].op, s)
                                /\ sub[s].op \in {"read", "write", "flush"} /\ sub[s].pc \in Waiting
                                /\ \A u \in Subs \ {s} : sub[u].tag = None
  <2>1. t = 0
    BY <1>1, <1>4, AhciTags DEF AhciTypeOK
  <2>2. PICK s \in Subs : sub[s].tag # None
    BY <1>1, <1>4 DEF SerialInv
  <2>3. sub[s].pc \in Holding
    BY <2>2 DEF TagInv
  <2>4. /\ sub[s].tag = 0 /\ SerialInv /\ Serial(s)
        /\ \A u \in Subs \ {s} : sub[u].tag = None
    BY <1>4, <2>3, SoleHolder
  <2>5. Progress(s) /\ sub[s] \in Submitter
    BY <2>4, SMTT(30) DEF SerialInv, AhciTypeOK
  <2>6. sub[s].pc \in Waiting
    BY <1>1, <2>1, <2>3, <2>4, SMTT(30) DEF Serial, Holding, Waiting
  <2>7. sub[s].op \in {"read", "write", "flush"}
    BY <2>5, <2>6, SMTT(30) DEF TagInv, At, Submitter, Waiting
  <2>8. c = fis(sub[s].op, s)
    BY <1>1, <2>1, <2>4, SMTT(30) DEF Serial
  <2> QED
    BY <2>1, <2>4, <2>5, <2>6, <2>7, <2>8, SMTT(30)
<1>5. AhciTypeOK'
  <2>1. c \in Command /\ c.s \in Subs /\ c.op \in {"read", "write", "flush"}
    BY <1>1 DEF AhciTypeOK, Command
  <2>2. disk[c.s] \in Sectors /\ bounce[t] \in Sectors
    BY <2>1, SMTT(30) DEF AhciTypeOK
  <2>3. bounce' \in [AllTags -> Sectors]
    BY <1>1, <2>2 DEF AhciTypeOK
  <2>4. cache' \in [Subs -> Sectors \cup {None}] /\ disk' \in [Subs -> Sectors]
    BY <2>1, <2>2 DEF AhciTypeOK, Complete
  <2> QED
    BY <1>1, <1>2, <2>3, <2>4, SMTT(30) DEF AhciTypeOK
<1>6. ASSUME ~ncq PROVE SerialInv'
  <2>1. PICK s \in Subs : /\ sub[s].tag = 0 /\ Serial(s) /\ Progress(s) /\ c = fis(sub[s].op, s)
                         /\ sub[s].op \in {"read", "write", "flush"} /\ sub[s].pc \in Waiting
                         /\ \A u \in Subs \ {s} : sub[u].tag = None
    BY <1>4, <1>6
  <2>2. t = 0 /\ SerialInv /\ 0 \in AllTags /\ issued' = {}
    BY <1>1, <1>4, <1>6, AhciTags DEF AhciTypeOK
  <2>3. c.op = sub[s].op /\ c.s = s
    BY <2>1, SMTT(30) DEF fis
  <2>4. Landed(s)' /\ Progress(s)'
    <3>1. CASE sub[s].op = "read"
      BY <1>1, <2>1, <2>2, <2>3, <3>1 DEF AhciTypeOK, Complete, Landed, Progress, At, Waiting
    <3>2. CASE sub[s].op = "write"
      <4>1. bounce[0] = Data(s)
        BY <1>1, <2>1, <2>2, <3>2 DEF Serial
      <4> QED
        BY <1>1, <1>6, <2>1, <2>2, <2>3, <3>2, <4>1, AhciAssumption DEF AhciTypeOK, Complete, Landed, Progress, At, Waiting
    <3>3. CASE sub[s].op = "flush"
      BY <1>1, <2>1, <2>2, <2>3, <3>3, AhciAssumption DEF AhciTypeOK, Complete, Landed, Progress, At, Waiting
    <3> QED
      BY <2>1, <3>1, <3>2, <3>3
  <2>5. ASSUME NEW u \in Subs \ {s} PROVE Progress(u)'
    <3>1. Progress(u)
      BY <2>2 DEF SerialInv
    <3>2. \/ cache'[u] = cache[u] /\ disk'[u] = disk[u]
          \/ cache'[u] = None /\ disk'[u] = IF cache[u] = None THEN disk[u] ELSE cache[u]
      BY <1>6, <2>1, <2>3 DEF AhciTypeOK, Complete
    <3> QED
      BY <1>1, <3>1, <3>2, AhciAssumption DEF Progress, At
  <2>6. Serial(s)'
    BY <1>1, <2>1, <2>2, <2>4, SMTT(30) DEF Serial, At, Waiting, Landed
  <2>7. sub'[s].tag # None /\ \A u \in Subs : sub'[u].tag = 0 => u = s
    BY <1>1, <2>1, AhciAssumption
  <2>8. \A u \in Subs : Progress(u)'
    BY <2>4, <2>5, Zenon
  <2> QED
    BY <2>6, <2>7, <2>8, Zenon DEF SerialInv
<1> QED
    BY <1>1, <1>2, <1>3, <1>5, <1>6

\* A command that fails stays with the drive until a reset (the drive).
LEMMA FailStep == ASSUME AhciInv, NEW t \in AllTags, Fail(t) PROVE AhciInv'
<1> USE DEF AhciInv, Fail, ctl, rec
<1>1. Tags' = Tags /\ ncq' = ncq /\ Submitter' = Submitter
    BY DEF Tags, ncq, Submitter
<1>2. AhciTypeOK' /\ TagInv'
    BY <1>1 DEF AhciTypeOK, TagInv, At
<1>3. ASSUME SerialInv PROVE SerialInv'
  <2>1. ASSUME NEW u \in Subs PROVE Progress(u)'
    BY <1>3 DEF SerialInv, Progress, At
  <2>2. ASSUME NEW u \in Subs, sub[u].tag = 0 PROVE Serial(u)'
    BY <1>3, <2>2 DEF SerialInv, Serial, Landed, At
  <2> QED
    BY <1>3, <2>1, <2>2 DEF SerialInv
<1> QED
    BY <1>1, <1>2, <1>3

\* Every step of the driver and of the drive keeps the invariant (ahci.rs).
LEMMA AhciStep == AhciInv /\ [AhciNext]_ahciVars => AhciInv'
<1> SUFFICES ASSUME AhciInv, [AhciNext]_ahciVars PROVE AhciInv'
    OBVIOUS
<1>1. CASE UNCHANGED ahciVars
    BY <1>1 DEF ahciVars, ctl, dev, rec, AhciInv, AhciTypeOK, Submitter, Tags, TagInv, SerialInv, ncq,
                Progress, Serial, Landed, At
<1>2. ASSUME NEW s \in Subs, Call(s) \/ Run(s) PROVE AhciInv'
    BY <1>2, CallStep, AllocTagStep, IssueStep, DrainAndIssueStep, WaitCheckStep, WaitPollStep, ParkStep,
       FinishStep, CaptureStep, ResetStep, ReadLogStep, FixStep DEF Run
<1>3. ASSUME NEW t \in AllTags, Complete(t) \/ Fail(t) PROVE AhciInv'
    BY <1>3, CompleteStep, FailStep
<1> QED
    BY <1>1, <1>2, <1>3, WakeStep, SMTT(30) DEF AhciNext

\* Without NCQ a transfer that returned Ok has moved its data, for any submitters and
\* any failures of the drive: a write is on the media, a read has the sector
\* (transfer, flush, wait, recover).
THEOREM AhciOkMeansDone == AhciSpec => []OkMeansDone
<1>1. AhciInv => OkMeansDone
  <2> SUFFICES ASSUME AhciInv, NEW s \in Subs, At(s, "ret"), sub[s].res = "ok", ~ncq
               PROVE  IF sub[s].op = "read" THEN sub[s].buf = disk[s] ELSE disk[s] = Data(s)
    BY DEF OkMeansDone
  <2>1. Progress(s)
    BY DEF AhciInv, SerialInv
  <2> QED
    BY <2>1 DEF Progress
<1> QED
    BY AhciStart, AhciStep, <1>1, PTL DEF AhciSpec

\* A tag has one holder at any queue depth: no two submitters use one command slot or
\* one bounce buffer, and none that holds a tag leaves it on the free list (alloc_tag,
\* free_tag).
THEOREM AhciTagsExclusive == AhciSpec => []TagInv
<1>1. AhciInv => TagInv
    BY DEF AhciInv
<1> QED
    BY AhciStart, AhciStep, <1>1, PTL DEF AhciSpec

=============================================================================
