---------------------------- MODULE WaitsProofs ----------------------------
(* Proofs about the wait objects, for any threads, objects and bounds. *)
EXTENDS Waits, WellFoundedInduction, TLAPS

Events == {"Manual", "Auto"}

\* Induction over the naturals for a set in place of a predicate: the least
\* number outside the set would have a predecessor in it.
LEMMA SetInduction ==
    ASSUME NEW S, 0 \in S, \A n \in Nat : n \in S => n + 1 \in S
    PROVE  Nat \subseteq S
<1> DEFINE Less == {p \in Nat \X Nat : p[1] < p[2]}
<1>1. IsWellFoundedOn(Less, Nat)
  BY NatLessThanWellFounded DEF OpToRel
<1> HIDE DEF Less
<1> SUFFICES ASSUME Nat \ S # {} PROVE FALSE
  OBVIOUS
<1>2. PICK m \in Nat \ S : \A n \in Nat \ S : ~(<<n, m>> \in Less)
  BY <1>1, WFMin
<1>3. m # 0 /\ m - 1 \in Nat /\ m - 1 < m
  OBVIOUS
<1>4. m - 1 \in S
  <2>1. <<m - 1, m>> \in Less
    BY <1>3 DEF Less
  <2> QED
    BY <1>2, <1>3, <2>1
<1> QED
  BY <1>3, <1>4

\* What push_back adds to the elements of a queue.
LEMMA AppendRange ==
    ASSUME NEW T, NEW k \in Seq(T), NEW x
    PROVE  Range(Append(k, x)) = Range(k) \cup {x}
<1> DEFINE a == Append(k, x)
<1>1. Len(k) \in Nat /\ DOMAIN k = 1..Len(k)
  OBVIOUS
<1>2. /\ DOMAIN a = 1..Len(k) + 1 /\ a[Len(k) + 1] = x
      /\ \A i \in 1..Len(k) : a[i] = k[i]
  OBVIOUS
<1> HIDE DEF a
<1>3. DOMAIN a = DOMAIN k \cup {Len(k) + 1}
  BY <1>1, <1>2
<1>4. \A i \in DOMAIN k : a[i] = k[i]
  BY <1>1, <1>2
<1>5. Range(a) = Range(k) \cup {x}
  BY <1>2, <1>3, <1>4 DEF Range
<1> QED
  BY <1>5 DEF a

\* retain keeps exactly the elements it is asked to keep.
LEMMA RetainFacts ==
    ASSUME NEW T, NEW q \in Seq(T), NEW S
    PROVE  /\ retain(q, S) \in Seq(T)
           /\ Range(retain(q, S)) = Range(q) \cap S
<1> DEFINE Step(f, i) == IF i = 0 THEN <<>>
                         ELSE IF q[i] \in S THEN Append(f[i - 1], q[i])
                         ELSE f[i - 1]
           Built(n) == n <= Len(q) =>
                           \E f \in [0..n -> Seq(T)] : \A i \in 0..n : f[i] = Step(f, i)
           kept == CHOOSE k : k = [i \in 0..Len(q) |-> Step(k, i)]
           Good(n) == n <= Len(q) =>
                          /\ kept[n] \in Seq(T)
                          /\ Range(kept[n]) = {q[i] : i \in 1..n} \cap S
<1>1. Built(0)
  <2> DEFINE f == [i \in 0..0 |-> <<>>]
  <2>1. f \in [0..0 -> Seq(T)] /\ \A i \in 0..0 : f[i] = Step(f, i)
    OBVIOUS
  <2> QED
    BY <2>1
<1>2. ASSUME NEW n \in Nat, Built(n) PROVE Built(n + 1)
  <2> SUFFICES ASSUME n + 1 <= Len(q)
               PROVE  \E f \in [0..n + 1 -> Seq(T)] : \A i \in 0..n + 1 : f[i] = Step(f, i)
    OBVIOUS
  <2>1. n <= Len(q)
    OBVIOUS
  <2>2. PICK f \in [0..n -> Seq(T)] : \A i \in 0..n : f[i] = Step(f, i)
    <3> HIDE DEF Step
    <3> QED BY <1>2, <2>1
  <2> DEFINE new == IF q[n + 1] \in S THEN Append(f[n], q[n + 1]) ELSE f[n]
             g == [i \in 0..n + 1 |-> IF i = n + 1 THEN new ELSE f[i]]
  <2>3. new \in Seq(T)
    BY q[n + 1] \in T, f[n] \in Seq(T)
  <2>4. g \in [0..n + 1 -> Seq(T)]
    BY <2>3
  <2>5. ASSUME NEW i \in 0..n + 1 PROVE g[i] = Step(g, i)
    <3>1. CASE i = n + 1
      BY <3>1
    <3>2. CASE i \in 0..n
      <4>1. g[i] = f[i]
        BY <3>2
      <4>2. f[i] = Step(f, i)
        <5> HIDE DEF Step
        <5> QED BY <2>2, <3>2
      <4>3. i # 0 => g[i - 1] = f[i - 1]
        BY <3>2
      <4> HIDE DEF g
      <4> QED BY <4>1, <4>2, <4>3
    <3> QED BY <3>1, <3>2
  <2> HIDE DEF g
  <2> QED
    BY <2>4, <2>5
<1>3. \A n \in Nat : Built(n)
  <2> HIDE DEF Built
  <2> DEFINE N == {n \in Nat : Built(n)}
  <2>1. 0 \in N /\ \A n \in Nat : n \in N => n + 1 \in N
    BY <1>1, <1>2
  <2> HIDE DEF N
  <2>2. Nat \subseteq N
    BY <2>1, SetInduction
  <2> QED
    BY <2>2 DEF N
<1>4. PICK f \in [0..Len(q) -> Seq(T)] : \A i \in 0..Len(q) : f[i] = Step(f, i)
  <2>1. Len(q) \in Nat /\ Len(q) <= Len(q)
    OBVIOUS
  <2>2. Built(Len(q))
    BY <1>3, <2>1
  <2> QED
    BY <2>1, <2>2
<1>5. kept = [i \in 0..Len(q) |-> Step(kept, i)]
  <2>1. f = [i \in 0..Len(q) |-> Step(f, i)]
    BY <1>4
  <2> HIDE DEF Step
  <2> QED BY <2>1
<1>6. retain(q, S) = kept[Len(q)]
  BY DEF retain
<1> HIDE DEF kept
<1>7. Good(0)
  BY <1>5 DEF Range
<1>8. ASSUME NEW n \in Nat, Good(n) PROVE Good(n + 1)
  <2> SUFFICES ASSUME n + 1 <= Len(q)
               PROVE  /\ kept[n + 1] \in Seq(T)
                      /\ Range(kept[n + 1]) = {q[i] : i \in 1..n + 1} \cap S
    OBVIOUS
  <2>1. /\ kept[n] \in Seq(T) /\ q[n + 1] \in T
        /\ Range(kept[n]) = {q[i] : i \in 1..n} \cap S
    BY <1>8
  <2>2. kept[n + 1] = IF q[n + 1] \in S THEN Append(kept[n], q[n + 1]) ELSE kept[n]
    <3>1. n + 1 \in 0..Len(q) /\ n + 1 # 0 /\ (n + 1) - 1 = n
      OBVIOUS
    <3>2. kept[n + 1] = Step(kept, n + 1)
      <4> HIDE DEF Step
      <4> QED BY <1>5, <3>1
    <3> QED BY <3>1, <3>2
  <2>3. {q[i] : i \in 1..n + 1} = {q[i] : i \in 1..n} \cup {q[n + 1]}
    <3>1. 1..n + 1 = (1..n) \cup {n + 1}
      OBVIOUS
    <3> QED BY <3>1, Zenon
  <2>4. Range(Append(kept[n], q[n + 1])) = Range(kept[n]) \cup {q[n + 1]}
    BY <2>1, AppendRange
  <2> QED
    BY <2>1, <2>2, <2>3, <2>4
<1>9. Good(Len(q))
  <2> HIDE DEF Good
  <2> DEFINE N == {n \in Nat : Good(n)}
  <2>1. 0 \in N /\ \A n \in Nat : n \in N => n + 1 \in N
    BY <1>7, <1>8
  <2> HIDE DEF N
  <2>2. Nat \subseteq N
    BY <2>1, SetInduction
  <2> QED
    BY <2>2, Len(q) \in Nat DEF N
<1>10. Range(q) = {q[i] : i \in 1..Len(q)} /\ Len(q) <= Len(q)
  BY DEF Range
<1> QED
  BY <1>6, <1>9, <1>10

\* Most steps are first-order reasoning; the ones about numbers, records and
\* sequences name SMT.
USE Zenon

\* A thread inside a call on some object has one of them in hand.
LEMMA ObjFacts ==
    ASSUME TypeOK, NEW t \in Threads, CallInv(t),
           pc[t] # "idle", req[t].form # "sleep"
    PROVE  /\ idx[t] \in 1..Len(req[t].objs)
           /\ Obj(t) \in Objects
           /\ Obj(t) \in Objs(t)
<1>1. req[t].objs \in Seq(Objects) /\ Len(req[t].objs) \in Nat
  BY SMT DEF Requests, TypeOK
<1>2. req[t].objs # <<>> /\ Len(req[t].objs) > 0
  BY SMT, <1>1 DEF TypeOK, CallInv, PcValues, AllForms
<1>3. idx[t] \in 1..Len(req[t].objs)
  BY SMT, <1>1, <1>2 DEF CallInv
<1> QED
  BY SMT, <1>1, <1>3 DEF Obj, Objs, Range

\* try_take on an event latches nothing.
LEMMA TryTakeFacts ==
    ASSUME TypeOK, NEW o \in Objects, NEW t, TryTake(o, t)
    PROVE  /\ value' \in [Objects -> Int]
           /\ \A x \in Objects : kind[x] \in Events /\ value'[x] = 1 => value[x] = 1
<1>1. TakenValue(o) \in Int /\ (kind[o] \in Events => TakenValue(o) \in {0, value[o]})
  BY SMT DEF TypeOK, AllKinds, TakenValue, Events
<1> QED
  BY SMT, <1>1 DEF TryTake, TypeOK

\* What a step of another thread, or of the timer, leaves alone in u's call:
\* u may lose entries, and may become runnable.
Bystander(u) ==
    /\ pc'[u] = pc[u] /\ req'[u] = req[u] /\ idx'[u] = idx[u] /\ bare'[u] = bare[u]
    /\ mode'[u] \in {mode[u], "runnable"}
    /\ alarm'[u] \in {alarm[u], None}
    /\ \A o \in Objects : u \in Range(queue'[o]) => u \in Range(queue[o])

\* Entries, place and deadline of a bystander keep fitting each other: also when
\* a wake makes it runnable at the end of a wait_if.
LEMMA BystanderKept ==
    ASSUME TypeOK, NEW u \in Threads, ThreadInv(u), Bystander(u)
    PROVE  ThreadInv(u)'
<1>0. /\ Scrubs(u)' <=> Scrubs(u)
      /\ Objs(u)' = Objs(u)
  BY DEF Bystander, Scrubs, Objs
<1>1. CallInv(u)'
  BY <1>0 DEF Bystander, ThreadInv, CallInv
<1>2. Objs(u) \subseteq Objects /\ \A j \in 1..Len(req[u].objs) : req[u].objs[j] \in Objects
  BY SMT DEF Requests, TypeOK, Objs, Range
<1>3. EntryInv(u)'
  <2>1. mode'[u] = "parked" => mode[u] = "parked"
    BY DEF Bystander, TypeOK
  <2>2. (pc'[u] = "block" \/ mode'[u] = "parked") /\ ~Scrubs(u)' => Objs(u)' \subseteq bare'[u]
    BY <1>0, <2>1 DEF Bystander, ThreadInv, EntryInv
  <2>3. ASSUME pc'[u] = "scrub", NEW j \in 1..idx'[u] - 1
        PROVE  u \notin Range(queue'[req'[u].objs[j]])
    <3>1. idx[u] \in 1..Len(req[u].objs) /\ Len(req[u].objs) \in Nat
      BY SMT, <2>3 DEF Bystander, ThreadInv, CallInv, TypeOK
    <3>2. j \in 1..idx[u] - 1 /\ req[u].objs[j] \in Objects
      BY SMT, <1>2, <2>3, <3>1 DEF Bystander
    <3>3. u \notin Range(queue[req[u].objs[j]])
      BY <2>3, <3>2 DEF Bystander, ThreadInv, EntryInv
    <3> QED
      BY <3>2, <3>3 DEF Bystander
  <2>4. pc'[u] = "disarm" => \A o \in Objs(u)' : u \notin Range(queue'[o])
    BY <1>0, <1>2 DEF Bystander, ThreadInv, EntryInv
  <2> QED
    BY <2>2, <2>3, <2>4 DEF EntryInv
<1>4. OwnEntries(u)'
  <2>1. CASE Enqueued(u)'
    <3>1. Enqueued(u)
      BY <2>1 DEF Enqueued, Bystander
    <3> QED
      BY <1>0, <2>1, <3>1 DEF Bystander, ThreadInv, OwnEntries
  <2>2. CASE ~Enqueued(u) /\ ~Enqueued(u)'
    BY <2>2 DEF Bystander, ThreadInv, OwnEntries
  <2>3. CASE Enqueued(u) /\ ~Enqueued(u)'
    <3>1. mode[u] = "parked" /\ pc[u] \notin {"scrub", "disarm"}
      BY <2>3 DEF Enqueued, Bystander
    <3>2. ~Scrubs(u) /\ Objs(u) \subseteq bare[u] /\ req[u].until = None
      BY <3>1 DEF ThreadInv, CallInv, EntryInv, Scrubs
    <3>3. alarm[u] = None
      BY <3>2 DEF ThreadInv, OwnEntries
    <3> QED
      BY <3>2, <3>3 DEF Bystander, ThreadInv, OwnEntries
  <2> QED
    BY <2>1, <2>2, <2>3
<1> QED
  BY <1>1, <1>3, <1>4 DEF ThreadInv

\* An object nobody is put on the queue of, and that is not signalled anew,
\* keeps its invariant while its signallers stay where they are.
LEMMA SignalKept ==
    ASSUME NEW o \in Objects, SignalInv(o), kind' = kind,
           kind[o] \in Events /\ value'[o] = 1 => value[o] = 1,
           kind[o] \in Events /\ value[o] = 1 =>
               \A t \in Threads :
                   t \in Range(queue'[o]) /\ ~AllWait(t, o)' =>
                       t \in Range(queue[o]) /\ ~AllWait(t, o),
           \A u \in Threads :
               pc[u] = "notify" /\ Obj(u) = o => pc'[u] = "notify" /\ Obj(u)' = o
    PROVE  SignalInv(o)'
BY DEF SignalInv, Events

\* A step of t alone: the other threads are bystanders.
StepOf(t) == kind' = kind /\ \A u \in Threads \ {t} : Bystander(u)

\* A step of t outside its blocking waits: it has no entry but those a wait_if
\* left, and none is added; an event it signals it goes on to notify.
LEMMA OutsideStep ==
    ASSUME IInv, TypeOK', NEW t \in Threads, StepOf(t), CallInv(t)',
           mode[t] = "runnable", UNCHANGED <<mode, queue, alarm, bare>>,
           pc[t] \in {"idle", "scan", "take", "enqueue", "woken"},
           pc'[t] \in {"idle", "scan", "take", "enqueue", "notify"},
           \A o \in Objects :
               kind[o] \in Events /\ value'[o] = 1 =>
                   \/ value[o] = 1
                   \/ kind[o] = "Manual" /\ pc'[t] = "notify" /\ Obj(t)' = o
    PROVE  IInv'
<1>1. ASSUME NEW u \in Threads PROVE ThreadInv(u)'
  <2>1. CASE u # t
    BY <2>1, BystanderKept DEF IInv, StepOf
  <2>2. CASE u = t
    <3>1. ~Enqueued(t) /\ ~Enqueued(t)' /\ OwnEntries(t)
      BY DEF Enqueued, IInv, ThreadInv
    <3>2. OwnEntries(t)'
      BY <3>1 DEF OwnEntries
    <3>3. EntryInv(t)'
      BY DEF EntryInv
    <3> QED
      BY <2>2, <3>2, <3>3 DEF ThreadInv
  <2> QED
    BY <2>1, <2>2
<1>2. ASSUME NEW o \in Objects PROVE SignalInv(o)'
  <2>1. CASE kind[o] = "Manual" /\ pc'[t] = "notify" /\ Obj(t)' = o
    BY <2>1 DEF SignalInv, StepOf
  <2>2. CASE kind[o] \in Events /\ value'[o] = 1 => value[o] = 1
    <3>1. ASSUME NEW u \in Threads PROVE AllWait(u, o) => AllWait(u, o)'
      BY DEF AllWait, StepOf, Bystander, Objs
    <3>2. ASSUME NEW u \in Threads, pc[u] = "notify", Obj(u) = o
          PROVE  pc'[u] = "notify" /\ Obj(u)' = o
      BY <3>2 DEF StepOf, Bystander, Obj
    <3>3. SignalInv(o)
      BY DEF IInv
    <3> QED
      BY <2>2, <3>1, <3>2, <3>3, SignalKept DEF StepOf
  <2> QED
    BY <2>1, <2>2
<1> QED
  BY <1>1, <1>2 DEF IInv

\* Nobody is in a call when the objects are created.
LEMMA InitIInv == Init => IInv
<1> SUFFICES ASSUME Init PROVE IInv
  OBVIOUS
<1>1. TypeOK
  <2>1. kind \in [Objects -> AllKinds]
    BY WaitsAssumption DEF Init
  <2>2. Idle \in Requests
    BY SMT DEF Idle, Requests
  <2>3. "idle" \in PcValues
    BY DEF PcValues
  <2> QED
    BY SMT, <2>1, <2>2, <2>3 DEF Init, TypeOK
<1>2. ASSUME NEW o \in Objects PROVE SignalInv(o)
  BY SMT DEF Init, SignalInv
<1>3. ASSUME NEW t \in Threads PROVE ThreadInv(t)
  <2>1. CallInv(t)
    BY DEF Init, CallInv, Idle
  <2>2. EntryInv(t)
    BY DEF Init, EntryInv
  <2>3. OwnEntries(t)
    BY SMT DEF Init, OwnEntries, Range
  <2> QED
    BY <2>1, <2>2, <2>3 DEF ThreadInv
<1> QED
  BY <1>1, <1>2, <1>3 DEF IInv

\* A request that a call puts in req has its type.
LEMMA RequestType ==
    ASSUME TypeOK, NEW t \in Threads, NEW r,
           r \in Requests,
           req' = [req EXCEPT ![t] = r]
    PROVE  /\ req' \in [Threads -> Requests]
           /\ req'[t] = r
           /\ \A u \in Threads \ {t} : req'[u] = req[u]
BY DEF TypeOK

\* Moving t to place p.
LEMMA GotoFacts ==
    ASSUME TypeOK, NEW t \in Threads, NEW p \in PcValues, Goto(t, p)
    PROVE  /\ pc' \in [Threads -> PcValues]
           /\ pc'[t] = p
           /\ \A u \in Threads \ {t} : pc'[u] = pc[u]
BY DEF TypeOK, Goto

\* A call that returns leaves its thread outside.
LEMMA FinishFacts ==
    ASSUME IInv, NEW t \in Threads, NEW G, Finish(t, G)
    PROVE  /\ pc' \in [Threads -> PcValues] /\ pc'[t] = "idle"
           /\ req' \in [Threads -> Requests]
           /\ idx' \in [Threads -> Nat]
           /\ req'[t] = Idle /\ idx'[t] = 1
           /\ \A u \in Threads \ {t} : pc'[u] = pc[u] /\ req'[u] = req[u] /\ idx'[u] = idx[u]
<1>1. TypeOK
  BY DEF IInv
<1>2. Idle \in Requests
  BY SMT DEF Idle, Requests
<1>3. req' = [req EXCEPT ![t] = Idle] /\ idx' = [idx EXCEPT ![t] = 1] /\ Goto(t, "idle")
  BY DEF Finish
<1>4. idx' \in [Threads -> Nat] /\ idx'[t] = 1 /\ \A u \in Threads \ {t} : idx'[u] = idx[u]
  BY <1>1, <1>3 DEF TypeOK
<1>5. "idle" \in PcValues
  BY DEF PcValues
<1> QED
  BY <1>1, <1>2, <1>3, <1>4, <1>5, RequestType, GotoFacts

\* The thread is idle after the call, and its place fits.
LEMMA IdleFits ==
    ASSUME NEW t \in Threads, pc'[t] = "idle", req'[t] = Idle, idx'[t] = 1,
           mode'[t] = "runnable"
    PROVE  CallInv(t)'
BY SMT DEF CallInv, Idle

\* NtWaitForSingleObject, NtWaitForMultipleObjects and NtDelayExecution begin.
LEMMA WaitCallStep ==
    ASSUME IInv, NEW t \in Threads, WaitCall(t)
    PROVE  IInv'
<1>1. PICK form \in AllForms, objs \in Seq(Objects), until \in Nat \cup {None} :
          /\ Wait(t, form, objs, until)
          /\ form = "sleep" => objs = <<>> /\ until # None
          /\ form # "sleep" => objs # <<>>
  <2>1. Untils \subseteq Nat \cup {None}
    BY SMT, WaitsAssumption DEF Untils, IInv, TypeOK
  <2>2. \A objs \in Handles : objs \in Seq(Objects) /\ objs # <<>>
    BY SMT, WaitsAssumption DEF Handles
  <2>3. CASE \E form \in Forms \cap {"one"}, o \in Objects, until \in Untils :
                Wait(t, form, <<o>>, until)
    <3>1. PICK o \in Objects, until \in Untils : Wait(t, "one", <<o>>, until)
      BY <2>3
    <3>2. <<o>> \in Seq(Objects) /\ <<o>> # <<>> /\ until \in Nat \cup {None}
      BY SMT, <2>1
    <3> QED
      BY <3>1, <3>2 DEF AllForms
  <2>4. CASE \E form \in Forms \cap {"any", "all"}, objs \in Handles, until \in Untils :
                Wait(t, form, objs, until)
    BY <2>1, <2>2, <2>4 DEF AllForms
  <2>5. CASE \E until \in Untils \ {None, 0} : Wait(t, "sleep", <<>>, until)
    <3>1. PICK until \in Untils \ {None, 0} : Wait(t, "sleep", <<>>, until)
      BY <2>5
    <3>2. <<>> \in Seq(Objects) /\ until \in Nat \cup {None} /\ until # None
      BY SMT, <2>1
    <3> QED
      BY <3>1, <3>2 DEF AllForms
  <2> QED
    BY <2>3, <2>4, <2>5 DEF WaitCall
<1> DEFINE r == [form |-> form, objs |-> objs, until |-> until]
<1>2. r \in Requests
  BY DEF Requests
<1>3. PICK p \in {"enqueue", "scan"} : Goto(t, p) /\ (form = "sleep" => p = "enqueue")
  BY <1>1 DEF Wait
<1>4. /\ req' = [req EXCEPT ![t] = r]
      /\ pc[t] = "idle" /\ mode[t] = "runnable"
      /\ UNCHANGED <<kind, value, queue, now, alarm, idx, mode, bare>>
  BY <1>1 DEF Wait, At, objVars, parkVars
<1>5. /\ req' \in [Threads -> Requests]
      /\ req'[t] = r
      /\ \A u \in Threads \ {t} : req'[u] = req[u]
  BY <1>2, <1>4, RequestType DEF IInv
<1>6. /\ pc' \in [Threads -> PcValues] /\ pc'[t] = p
      /\ \A u \in Threads \ {t} : pc'[u] = pc[u]
  BY <1>3, GotoFacts DEF IInv, PcValues
<1>7. TypeOK'
  BY <1>4, <1>5, <1>6 DEF IInv, TypeOK
<1>8. CallInv(t)'
  <2>1. idx'[t] = 1
    BY <1>4 DEF IInv, ThreadInv, CallInv
  <2>2. p = "scan" => Len(objs) > 0
    BY SMT, <1>1, <1>3
  <2> QED
    BY SMT, <1>1, <1>3, <1>4, <1>5, <1>6, <2>1, <2>2 DEF CallInv, AllForms
<1>9. StepOf(t)
  BY <1>4, <1>5, <1>6 DEF StepOf, Bystander
<1> QED
  BY <1>4, <1>6, <1>7, <1>8, <1>9, OutsideStep

\* A caller that goes on to wake is about to notify its object.
LEMMA NotifyFacts ==
    ASSUME IInv, NEW t \in Threads, NEW o \in Objects, NEW n, Notify(t, o, n)
    PROVE  /\ pc' \in [Threads -> PcValues] /\ pc'[t] = "notify"
           /\ req' \in [Threads -> Requests]
           /\ req'[t] = [form |-> "wake", objs |-> <<o>>, until |-> None]
           /\ \A u \in Threads \ {t} : pc'[u] = pc[u] /\ req'[u] = req[u]
<1> DEFINE r == [form |-> "wake", objs |-> <<o>>, until |-> None]
<1>1. r \in Requests
  BY SMT DEF Requests
<1>2. req' = [req EXCEPT ![t] = r] /\ Goto(t, "notify") /\ "notify" \in PcValues
  BY DEF Notify, PcValues
<1> HIDE DEF r
<1>3. TypeOK
  BY DEF IInv
<1>4. /\ pc' \in [Threads -> PcValues] /\ pc'[t] = "notify"
      /\ \A u \in Threads \ {t} : pc'[u] = pc[u]
  BY <1>2, <1>3, GotoFacts
<1>5. /\ req' \in [Threads -> Requests]
      /\ req'[t] = r /\ \A u \in Threads \ {t} : req'[u] = req[u]
  BY <1>1, <1>2, <1>3, RequestType
<1> QED
  BY <1>4, <1>5 DEF r

\* SetEvent, ResetEvent, ReleaseSemaphore and ReleaseMutant, up to their wakes.
LEMMA SignalCallStep ==
    ASSUME IInv, NEW t \in Threads, SignalCall(t)
    PROVE  IInv'
<1>1. PICK o \in Objects : NtSetEvent(t, o) \/ NtReleaseSemaphore(t, o) \/ NtReleaseMutant(t, o)
  BY DEF SignalCall
<1>2. /\ pc[t] = "idle" /\ mode[t] = "runnable" /\ idx[t] = 1
      /\ UNCHANGED <<kind, queue, now, alarm, idx, mode, bare>>
  BY DEF SignalCall, At, parkVars, IInv, ThreadInv, CallInv
<1>3. \/ UNCHANGED <<pc, req>>
      \/ \E n : Notify(t, o, n)
  BY <1>1 DEF NtSetEvent, NtReleaseSemaphore, NtReleaseMutant, SignalEvent, ResetEvent,
              ReleaseSemaphore, ReleaseMutant
<1>4. /\ value' \in [Objects -> Int]
      /\ \A x \in Objects :
            kind[x] \in Events /\ value'[x] = 1 =>
                \/ value[x] = 1
                \/ kind[x] = "Manual" /\ x = o /\ \E n : Notify(t, o, n)
  <2>1. CASE SignalEvent(t, o)
    BY SMT, <2>1 DEF SignalEvent, IInv, TypeOK, Events
  <2>2. CASE ResetEvent(t, o)
    BY SMT, <2>2 DEF ResetEvent, IInv, TypeOK, Events
  <2>3. CASE NtReleaseSemaphore(t, o)
    <3>1. PICK n \in 1..Limit : ReleaseSemaphore(t, o, n) /\ kind[o] = "Semaphore"
      BY <2>3 DEF NtReleaseSemaphore
    <3>2. n \in Int /\ value' = [value EXCEPT ![o] = @ + n]
      BY SMT, <3>1, WaitsAssumption DEF ReleaseSemaphore
    <3> QED
      BY SMT, <3>1, <3>2 DEF IInv, TypeOK, Events
  <2>4. CASE NtReleaseMutant(t, o)
    BY SMT, <2>4 DEF NtReleaseMutant, ReleaseMutant, IInv, TypeOK, Events
  <2> QED
    BY <1>1, <2>1, <2>2, <2>3, <2>4 DEF NtSetEvent
<1>5. CASE UNCHANGED <<pc, req>> /\ ~\E n : Notify(t, o, n)
  <2>1. TypeOK'
    BY <1>2, <1>4, <1>5 DEF IInv, TypeOK
  <2>2. CallInv(t)'
    BY <1>2, <1>5 DEF IInv, ThreadInv, CallInv, Scrubs
  <2>3. StepOf(t)
    BY <1>2, <1>5 DEF StepOf, Bystander
  <2> QED
    BY <1>2, <1>4, <1>5, <2>1, <2>2, <2>3, OutsideStep
<1>6. CASE \E n : Notify(t, o, n)
  <2>1. /\ pc' \in [Threads -> PcValues] /\ pc'[t] = "notify"
        /\ req' \in [Threads -> Requests]
        /\ req'[t] = [form |-> "wake", objs |-> <<o>>, until |-> None]
        /\ \A u \in Threads \ {t} : pc'[u] = pc[u] /\ req'[u] = req[u]
    BY <1>6, NotifyFacts
  <2>2. TypeOK'
    BY <1>2, <1>4, <2>1 DEF IInv, TypeOK
  <2>3. CallInv(t)'
    BY SMT, <1>2, <2>1 DEF CallInv
  <2>4. Obj(t)' = o
    BY SMT, <1>2, <2>1 DEF Obj
  <2>5. StepOf(t)
    BY <1>2, <2>1 DEF StepOf, Bystander
  <2> QED
    BY <1>2, <1>4, <2>1, <2>2, <2>3, <2>4, <2>5, OutsideStep
<1> QED
  BY <1>3, <1>5, <1>6

\* A call that returns from outside its blocking wait.
LEMMA FinishStep ==
    ASSUME IInv, NEW t \in Threads, NEW G, Finish(t, G),
           mode[t] = "runnable", pc[t] \in {"scan", "take", "enqueue", "woken"},
           UNCHANGED <<kind, queue, now, alarm, mode, bare>>,
           value' \in [Objects -> Int],
           \A o \in Objects : kind[o] \in Events /\ value'[o] = 1 => value[o] = 1
    PROVE  IInv'
<1>1. /\ pc' \in [Threads -> PcValues] /\ pc'[t] = "idle"
      /\ req' \in [Threads -> Requests]
      /\ idx' \in [Threads -> Nat]
      /\ req'[t] = Idle /\ idx'[t] = 1
      /\ \A u \in Threads \ {t} : pc'[u] = pc[u] /\ req'[u] = req[u] /\ idx'[u] = idx[u]
  BY FinishFacts
<1>2. TypeOK'
  BY <1>1 DEF IInv, TypeOK
<1>3. CallInv(t)'
  BY <1>1, IdleFits
<1>4. StepOf(t)
  BY <1>1 DEF StepOf, Bystander
<1> QED
  BY <1>1, <1>2, <1>3, <1>4, OutsideStep

\* A look at the objects that moves on, to the next object or to place p.
LEMMA LookStep ==
    ASSUME IInv, NEW t \in Threads, NEW p \in {"scan", "take", "enqueue"}, NEW i \in Nat,
           mode[t] = "runnable", pc[t] \in {"scan", "take", "enqueue"},
           pc' = [pc EXCEPT ![t] = p], idx' = [idx EXCEPT ![t] = i],
           p = "enqueue" => i = 1,
           p # "enqueue" => i \in 1..Len(req[t].objs),
           UNCHANGED <<kind, queue, now, alarm, mode, bare, req>>,
           value' \in [Objects -> Int],
           \A o \in Objects : kind[o] \in Events /\ value'[o] = 1 => value[o] = 1
    PROVE  IInv'
<1>1. /\ pc' \in [Threads -> PcValues] /\ pc'[t] = p
      /\ idx' \in [Threads -> Nat] /\ idx'[t] = i
      /\ \A u \in Threads \ {t} : pc'[u] = pc[u] /\ idx'[u] = idx[u]
  BY DEF IInv, TypeOK, PcValues
<1>2. TypeOK'
  BY <1>1 DEF IInv, TypeOK
<1>3. CallInv(t)'
  BY <1>1 DEF IInv, ThreadInv, CallInv
<1>4. StepOf(t)
  BY <1>1 DEF StepOf, Bystander
<1> QED
  BY <1>1, <1>2, <1>3, <1>4, OutsideStep

\* The look at the objects found nothing: the wait gives up or enqueues.
LEMMA LooksAgainStep ==
    ASSUME IInv, NEW t \in Threads, LooksAgain(t),
           mode[t] = "runnable", pc[t] = "scan",
           UNCHANGED <<kind, queue, now, alarm, mode, bare>>,
           value' \in [Objects -> Int],
           \A o \in Objects : kind[o] \in Events /\ value'[o] = 1 => value[o] = 1
    PROVE  IInv'
<1>1. CASE GivesUp(t)
  BY <1>1, FinishStep DEF LooksAgain
<1>2. CASE ~GivesUp(t)
  BY <1>2, LookStep DEF LooksAgain, Goto
<1> QED
  BY <1>1, <1>2

\* try_take, object after object.
LEMMA ScanAnyStep ==
    ASSUME IInv, NEW t \in Threads, ScanAny(t)
    PROVE  IInv'
<1>1. /\ pc[t] = "scan" /\ mode[t] = "runnable" /\ req[t].form # "sleep" /\ TypeOK
      /\ UNCHANGED <<kind, queue, now, alarm, mode, bare>>
  BY DEF ScanAny, At, parkVars, IInv
<1>2. idx[t] \in 1..Len(req[t].objs) /\ Obj(t) \in Objects
  BY <1>1, ObjFacts DEF IInv, ThreadInv
<1>3. /\ value' \in [Objects -> Int]
      /\ \A o \in Objects : kind[o] \in Events /\ value'[o] = 1 => value[o] = 1
  BY <1>1, <1>2, TryTakeFacts DEF ScanAny
<1>4. CASE IsSignaled(Obj(t), t)
  BY <1>1, <1>3, <1>4, FinishStep DEF ScanAny
<1>5. CASE ~IsSignaled(Obj(t), t) /\ AtLast(t)
  BY <1>1, <1>3, <1>5, LooksAgainStep DEF ScanAny
<1>6. CASE ~IsSignaled(Obj(t), t) /\ ~AtLast(t)
  <2>1. idx' = [idx EXCEPT ![t] = idx[t] + 1] /\ UNCHANGED <<pc, req>>
    BY <1>6 DEF ScanAny, Advance
  <2>2. pc' = [pc EXCEPT ![t] = "scan"]
    BY <1>1, <2>1 DEF TypeOK
  <2>3. Len(req[t].objs) \in Nat /\ idx[t] \in Nat /\ idx[t] + 1 \in Nat
        /\ idx[t] + 1 \in 1..Len(req[t].objs)
    BY SMT, <1>1, <1>2, <1>6 DEF AtLast, TypeOK
  <2> QED
    BY <1>1, <1>3, <2>1, <2>2, <2>3, LookStep
<1> QED
  BY <1>4, <1>5, <1>6

\* WaitAll looks at every object.
LEMMA ScanAllStep ==
    ASSUME IInv, NEW t \in Threads, ScanAll(t)
    PROVE  IInv'
<1>1. /\ pc[t] = "scan" /\ mode[t] = "runnable" /\ req[t].form # "sleep" /\ TypeOK
      /\ UNCHANGED <<kind, value, queue, now, alarm, mode, bare>>
  BY DEF ScanAll, At, parkVars, IInv
<1>2. idx[t] \in 1..Len(req[t].objs) /\ Obj(t) \in Objects
  BY <1>1, ObjFacts DEF IInv, ThreadInv
<1>3. value' \in [Objects -> Int]
  BY <1>1 DEF TypeOK
<1>4. CASE ~IsSignaled(Obj(t), t)
  BY <1>1, <1>3, <1>4, LooksAgainStep DEF ScanAll
<1>5. CASE IsSignaled(Obj(t), t)
  <2> DEFINE p == IF AtLast(t) THEN "take" ELSE "scan"
             i == IF AtLast(t) THEN 1 ELSE idx[t] + 1
  <2>1. idx' = [idx EXCEPT ![t] = i] /\ pc' = [pc EXCEPT ![t] = p] /\ UNCHANGED req
    BY <1>5 DEF ScanAll, Advance, Goto
  <2>2. i \in Nat /\ i \in 1..Len(req[t].objs)
    BY SMT, <1>1, <1>2 DEF AtLast, TypeOK
  <2>3. p \in {"scan", "take", "enqueue"} /\ p # "enqueue"
    OBVIOUS
  <2> HIDE DEF p, i
  <2> QED
    BY <1>1, <1>3, <2>1, <2>2, <2>3, LookStep
<1> QED
  BY <1>4, <1>5

\* WaitAll takes every object.
LEMMA TakeAllStep ==
    ASSUME IInv, NEW t \in Threads, TakeAll(t)
    PROVE  IInv'
<1>1. /\ pc[t] = "take" /\ mode[t] = "runnable" /\ TypeOK
      /\ UNCHANGED <<kind, queue, now, alarm, mode, bare>>
  BY DEF TakeAll, At, parkVars, IInv
<1>2. idx[t] \in 1..Len(req[t].objs) /\ Obj(t) \in Objects
  BY SMT, <1>1 DEF Requests, IInv, ThreadInv, CallInv, TypeOK, Obj
<1>3. /\ value' \in [Objects -> Int]
      /\ \A o \in Objects : kind[o] \in Events /\ value'[o] = 1 => value[o] = 1
  BY <1>1, <1>2, TryTakeFacts DEF TakeAll
<1>4. CASE AtLast(t)
  BY <1>1, <1>3, <1>4, FinishStep DEF TakeAll
<1>5. CASE ~AtLast(t)
  <2>1. idx' = [idx EXCEPT ![t] = idx[t] + 1] /\ UNCHANGED <<pc, req>>
    BY <1>5 DEF TakeAll, Advance
  <2>2. pc' = [pc EXCEPT ![t] = "take"]
    BY <1>1, <2>1 DEF TypeOK
  <2>3. idx[t] + 1 \in Nat /\ idx[t] + 1 \in 1..Len(req[t].objs)
    BY SMT, <1>1, <1>2, <1>5 DEF AtLast, TypeOK
  <2> QED
    BY <1>1, <1>3, <2>1, <2>2, <2>3, LookStep
<1> QED
  BY <1>4, <1>5

\* The untimed wait of an Auto event returns.
LEMMA WokenStep ==
    ASSUME IInv, NEW t \in Threads, Woken(t)
    PROVE  IInv'
<1>1. /\ pc[t] = "woken" /\ mode[t] = "runnable" /\ value' \in [Objects -> Int]
      /\ UNCHANGED <<kind, value, queue, now, alarm, mode, bare>>
  BY DEF Woken, At, parkVars, IInv, TypeOK
<1> QED
  BY <1>1, FinishStep DEF Woken

\* A step of t inside its blocking wait, which signals nothing: an entry of t
\* that WaitAll does not answer for is an old one, or of an object not signalled.
LEMMA InsideStep ==
    ASSUME IInv, TypeOK', NEW t \in Threads, StepOf(t), ThreadInv(t)',
           value' = value, pc[t] # "notify",
           \A o \in Objects :
               /\ kind[o] \in Events /\ value[o] = 1
               /\ t \in Range(queue'[o]) /\ ~AllWait(t, o)'
               => t \in Range(queue[o]) /\ ~AllWait(t, o)
    PROVE  IInv'
<1>1. ASSUME NEW u \in Threads PROVE ThreadInv(u)'
  <2>1. CASE u # t
    BY <2>1, BystanderKept DEF IInv, StepOf
  <2> QED
    BY <2>1
<1>2. ASSUME NEW o \in Objects PROVE SignalInv(o)'
  <2>1. ASSUME kind[o] \in Events, value[o] = 1, NEW u \in Threads,
               u \in Range(queue'[o]), ~AllWait(u, o)'
        PROVE  u \in Range(queue[o]) /\ ~AllWait(u, o)
    <3>1. CASE u = t
      BY <2>1, <3>1
    <3>2. CASE u # t
      <4>1. Bystander(u)
        BY <3>2 DEF StepOf
      <4> QED
        BY <2>1, <4>1 DEF Bystander, AllWait, Objs
    <3> QED
      BY <3>1, <3>2
  <2>2. ASSUME NEW u \in Threads, pc[u] = "notify", Obj(u) = o
        PROVE  pc'[u] = "notify" /\ Obj(u)' = o
    BY <2>2 DEF StepOf, Bystander, Obj
  <2>3. SignalInv(o)
    BY DEF IInv
  <2> QED
    BY <2>1, <2>2, <2>3, SignalKept DEF StepOf
<1> QED
  BY <1>1, <1>2 DEF IInv

\* The critical section of wait_if, wait_if_until and wait_any_until that ends
\* with the caller on the queues.
LEMMA EnqueueBlocks ==
    ASSUME IInv, NEW t \in Threads, Enqueue(t), ShouldBlock(t)
    PROVE  IInv'
<1> DEFINE p == IF req[t].until = None THEN "block" ELSE "arm"
<1>1. /\ pc[t] = "enqueue" /\ mode[t] = "runnable" /\ TypeOK /\ ThreadInv(t)
      /\ queue' = [o \in Objects |-> IF o \in Objs(t) THEN Append(queue[o], t) ELSE queue[o]]
      /\ bare' = IF Scrubs(t) THEN bare ELSE [bare EXCEPT ![t] = @ \cup Objs(t)]
      /\ Goto(t, p)
      /\ UNCHANGED <<kind, value, req, idx, mode, now, alarm>>
  BY DEF Enqueue, At, IInv, P!Arm
<1>2. /\ pc' \in [Threads -> PcValues] /\ pc'[t] = p
      /\ \A u \in Threads \ {t} : pc'[u] = pc[u]
  BY <1>1, GotoFacts DEF PcValues
<1>3. Objs(t) \subseteq Objects /\ Objs(t)' = Objs(t) /\ (Scrubs(t)' <=> Scrubs(t))
  BY SMT, <1>1 DEF Requests, TypeOK, Objs, Range, Scrubs
<1>4. /\ queue' \in [Objects -> Seq(Threads)]
      /\ \A o \in Objects : Range(queue'[o]) = IF o \in Objs(t) THEN Range(queue[o]) \cup {t}
                                                ELSE Range(queue[o])
  <2>1. queue \in [Objects -> Seq(Threads)]
    BY <1>1 DEF TypeOK
  <2>2. queue' \in [Objects -> Seq(Threads)]
    BY SMT, <1>1, <2>1
  <2>3. ASSUME NEW o \in Objects
        PROVE  Range(queue'[o]) = IF o \in Objs(t) THEN Range(queue[o]) \cup {t} ELSE Range(queue[o])
    <3>1. Range(Append(queue[o], t)) = Range(queue[o]) \cup {t}
      BY <2>1, AppendRange
    <3>2. queue'[o] = IF o \in Objs(t) THEN Append(queue[o], t) ELSE queue[o]
      BY <1>1
    <3> QED
      BY <3>1, <3>2
  <2> QED
    BY <2>2, <2>3
<1>5. /\ bare' \in [Threads -> SUBSET Objects]
      /\ bare[t] \subseteq bare'[t]
      /\ ~Scrubs(t) => Objs(t) \subseteq bare'[t]
      /\ \A u \in Threads \ {t} : bare'[u] = bare[u]
  BY <1>1, <1>3 DEF TypeOK
<1>6. TypeOK'
  BY <1>1, <1>2, <1>4, <1>5 DEF TypeOK
<1>7. StepOf(t)
  BY <1>1, <1>2, <1>4, <1>5 DEF StepOf, Bystander
<1>8. ThreadInv(t)'
  <2>1. CallInv(t)'
    BY <1>1, <1>2 DEF ThreadInv, CallInv
  <2>2. EntryInv(t)'
    BY <1>1, <1>2, <1>3, <1>5 DEF EntryInv
  <2>3. ~Enqueued(t) /\ Enqueued(t)'
    BY <1>1, <1>2 DEF Enqueued
  <2>4. OwnEntries(t)'
    BY <1>1, <1>3, <1>4, <1>5, <2>3 DEF ThreadInv, OwnEntries
  <2> QED
    BY <2>1, <2>2, <2>4 DEF ThreadInv
<1>9. ASSUME NEW o \in Objects, kind[o] \in Events, value[o] = 1,
             t \in Range(queue'[o]), ~AllWait(t, o)'
      PROVE  t \in Range(queue[o]) /\ ~AllWait(t, o)
  <2>1. ~AllWait(t, o)
    BY <1>1 DEF AllWait
  <2>2. o \notin Objs(t)
    <3>1. SUFFICES ASSUME o \in Objs(t) PROVE FALSE
      OBVIOUS
    <3>2. IsSignaled(o, t)
      BY SMT, <1>9 DEF IsSignaled, Events
    <3>3. req[t].form \in AllForms
      BY <1>1, ZenonT(30) DEF ThreadInv, CallInv
    <3>4. req[t].form # "sleep"
      BY SMT, <1>1, <3>1 DEF ThreadInv, CallInv, Objs, Range
    <3>5. req[t].form = "all"
      BY <3>1, <3>2, <3>3, <3>4 DEF ShouldBlock, AllForms
    <3> QED
      BY <1>1, <1>2, <1>3, <1>9, <3>1, <3>5 DEF AllWait
  <2> QED
    BY <1>4, <1>9, <2>1, <2>2
<1> QED
  BY <1>1, <1>6, <1>7, <1>8, <1>9, InsideStep

\* The same critical section, when the condition has become true.
LEMMA EnqueueStep ==
    ASSUME IInv, NEW t \in Threads, Enqueue(t)
    PROVE  IInv'
<1>1. /\ pc[t] = "enqueue" /\ mode[t] = "runnable" /\ TypeOK /\ CallInv(t)
      /\ UNCHANGED <<kind, now, alarm>>
  BY DEF Enqueue, At, IInv, ThreadInv
<1>2. CASE ShouldBlock(t)
  BY <1>2, EnqueueBlocks
<1>3. CASE ~ShouldBlock(t) /\ WakeIsSignal(t)
  <2>1. Obj(t) \in Objects
    BY <1>1, <1>3, ObjFacts DEF WakeIsSignal
  <2>2. TryTake(Obj(t), t) /\ Finish(t, {Obj(t)}) /\ UNCHANGED <<queue, bare, mode>>
    BY <1>3 DEF Enqueue, parkVars
  <2>3. /\ value' \in [Objects -> Int]
        /\ \A o \in Objects : kind[o] \in Events /\ value'[o] = 1 => value[o] = 1
    BY <1>1, <2>1, <2>2, TryTakeFacts
  <2> QED
    BY <1>1, <2>2, <2>3, FinishStep
<1>4. CASE ~ShouldBlock(t) /\ ~WakeIsSignal(t)
  <2>1. Goto(t, "scan") /\ UNCHANGED <<bare, value, queue, req, idx, mode>>
    BY <1>4 DEF Enqueue, parkVars
  <2>2. req[t].form # "sleep"
    BY <1>4 DEF ShouldBlock
  <2>3. idx[t] \in 1..Len(req[t].objs) /\ idx[t] \in Nat
    BY <1>1, <2>2, ObjFacts DEF TypeOK
  <2>4. /\ pc' = [pc EXCEPT ![t] = "scan"] /\ idx' = [idx EXCEPT ![t] = idx[t]]
        /\ value' \in [Objects -> Int]
    BY <1>1, <2>1 DEF Goto, TypeOK
  <2> QED
    BY <1>1, <2>1, <2>3, <2>4, LookStep
<1> QED
  BY <1>2, <1>3, <1>4

\* timer::arm: the wheel holds the deadline of the wait the thread is in.
LEMMA ArmStep ==
    ASSUME IInv, NEW t \in Threads, Arm(t)
    PROVE  IInv'
<1>1. /\ pc[t] = "arm" /\ mode[t] = "runnable" /\ TypeOK /\ ThreadInv(t)
      /\ Goto(t, "block")
      /\ alarm' = [alarm EXCEPT ![t] = req[t].until]
      /\ UNCHANGED <<kind, value, queue, now, req, idx, mode, bare>>
  BY DEF Arm, At, IInv, objVars, parkVars
<1>2. /\ pc' \in [Threads -> PcValues] /\ pc'[t] = "block"
      /\ \A u \in Threads \ {t} : pc'[u] = pc[u]
  BY <1>1, GotoFacts DEF PcValues
<1>3. /\ alarm' \in [Threads -> Nat \cup {None}] /\ alarm'[t] = req[t].until
      /\ \A u \in Threads \ {t} : alarm'[u] = alarm[u]
  BY SMT, <1>1 DEF Requests, TypeOK
<1>4. TypeOK'
  BY <1>1, <1>2, <1>3 DEF TypeOK
<1>5. StepOf(t)
  BY <1>1, <1>2, <1>3 DEF StepOf, Bystander
<1>6. Objs(t)' = Objs(t) /\ (Scrubs(t)' <=> Scrubs(t)) /\ Scrubs(t)
  BY <1>1 DEF Objs, Scrubs, ThreadInv, CallInv
<1>7. ThreadInv(t)'
  <2>1. CallInv(t)'
    BY <1>1, <1>2 DEF ThreadInv, CallInv
  <2>2. EntryInv(t)'
    BY <1>2, <1>6 DEF EntryInv
  <2>3. OwnEntries(t)'
    BY <1>1, <1>2, <1>3, <1>6 DEF ThreadInv, OwnEntries, Enqueued
  <2> QED
    BY <2>1, <2>2, <2>3 DEF ThreadInv
<1>8. \A o \in Objects : AllWait(t, o)' <=> AllWait(t, o)
  BY <1>1, <1>2, <1>6 DEF AllWait
<1> QED
  BY <1>1, <1>4, <1>5, <1>7, <1>8, InsideStep

\* block_current: the thread sleeps, or goes on at once when it was woken.
LEMMA BlockStep ==
    ASSUME IInv, NEW t \in Threads, Block(t)
    PROVE  IInv'
<1>1. /\ pc[t] = "block" /\ mode[t] = "runnable" /\ TypeOK /\ ThreadInv(t)
      /\ Goto(t, AfterBlock(t))
      /\ UNCHANGED <<kind, value, queue, now, alarm, req, idx, bare>>
  BY DEF Block, At, IInv, objVars
<1>2. /\ mode' \in [Threads -> {"runnable", "parked"}]
      /\ \A u \in Threads \ {t} : mode'[u] = mode[u]
  BY <1>1 DEF Block, parkVars, P!Sleep, P!Become, TypeOK
<1>3. req[t].form \in AllForms /\ idx[t] = 1 /\ req[t].objs \in Seq(Objects)
  BY SMT, <1>1 DEF Requests, ThreadInv, CallInv, TypeOK
<1>4. \/ AfterBlock(t) = "disarm" /\ req[t].form = "sleep" /\ req[t].objs = <<>>
      \/ AfterBlock(t) = "scrub" /\ req[t].form # "sleep" /\ Scrubs(t)
      \/ AfterBlock(t) \in {"woken", "scan"} /\ req[t].form # "sleep" /\ ~Scrubs(t)
  BY <1>1, <1>3 DEF AfterBlock, Scrubs, ThreadInv, CallInv
<1>5. /\ pc' \in [Threads -> PcValues] /\ pc'[t] = AfterBlock(t)
      /\ \A u \in Threads \ {t} : pc'[u] = pc[u]
  BY <1>1, <1>4, GotoFacts DEF PcValues
<1>6. TypeOK'
  BY <1>1, <1>2, <1>5 DEF TypeOK
<1>7. StepOf(t)
  BY <1>1, <1>2, <1>5 DEF StepOf, Bystander
<1>8. Objs(t)' = Objs(t) /\ (Scrubs(t)' <=> Scrubs(t)) /\ Objs(t) \subseteq Objects
  BY SMTT(30), <1>1, <1>3 DEF Objs, Scrubs, Range
<1>9. req[t].form # "sleep" => Len(req[t].objs) >= 1
  BY SMTT(30), <1>1, <1>3 DEF ThreadInv, CallInv, AllForms
<1>10. CallInv(t)'
  BY SMT, <1>1, <1>3, <1>4, <1>5, <1>8, <1>9 DEF ThreadInv, CallInv
<1>11. EntryInv(t)'
  <2>1. ~Scrubs(t) => Objs(t) \subseteq bare[t]
    BY <1>1 DEF ThreadInv, EntryInv
  <2>2. req[t].objs = <<>> => Objs(t) = {}
    BY SMT DEF Objs, Range
  <2>3. idx'[t] - 1 = 0
    BY SMT, <1>1, <1>3
  <2> QED
    BY SMT, <1>1, <1>4, <1>5, <1>8, <2>1, <2>2, <2>3 DEF EntryInv
<1>12. OwnEntries(t)'
  <2>1. CASE Enqueued(t)'
    BY <1>1, <1>8, <2>1 DEF ThreadInv, OwnEntries
  <2>2. CASE ~Enqueued(t)'
    <3>1. ~Scrubs(t) /\ req[t].until = None
      BY <1>4, <1>5, <2>2 DEF Enqueued, Scrubs
    <3>2. alarm[t] = None /\ Objs(t) \subseteq bare[t]
      BY <1>1, <3>1 DEF ThreadInv, OwnEntries, EntryInv
    <3> QED
      BY <1>1, <3>2 DEF ThreadInv, OwnEntries
  <2> QED
    BY <2>1, <2>2
<1>13. ThreadInv(t)'
  BY <1>10, <1>11, <1>12 DEF ThreadInv
<1>14. ASSUME NEW o \in Objects, AllWait(t, o) PROVE AllWait(t, o)'
  BY <1>1, <1>4, <1>5, <1>8, <1>14 DEF AllWait, Scrubs
<1> QED
  BY <1>1, <1>6, <1>7, <1>13, <1>14, InsideStep

\* WaitQueue::remove: after the last queue, no entry of the wait is left.
LEMMA ScrubStep ==
    ASSUME IInv, NEW t \in Threads, Scrub(t)
    PROVE  IInv'
<1> DEFINE o == Obj(t)
           p == IF ~AtLast(t) THEN "scrub" ELSE IF req[t].until # None THEN "disarm" ELSE "scan"
           i == IF AtLast(t) THEN 1 ELSE idx[t] + 1
<1>1. /\ pc[t] = "scrub" /\ mode[t] = "runnable" /\ TypeOK /\ ThreadInv(t)
      /\ queue' = [queue EXCEPT ![o] = retain(@, Threads \ {t})]
      /\ idx' = [idx EXCEPT ![t] = i]
      /\ Goto(t, p)
      /\ bare' = [bare EXCEPT ![t] = @ \ {o}]
      /\ UNCHANGED <<kind, value, now, alarm, req, mode>>
  BY DEF Scrub, Advance, At, IInv, objVars, parkVars
<1>2. /\ req[t].form # "sleep" /\ req[t].form \in AllForms
      /\ idx[t] \in 1..Len(req[t].objs)
      /\ Len(req[t].objs) \in Nat /\ req[t].objs \in Seq(Objects)
  BY SMT, <1>1 DEF Requests, ThreadInv, CallInv, TypeOK
<1>3. o \in Objects /\ o = req[t].objs[idx[t]]
  BY SMT, <1>2 DEF Obj
<1>4. p \in {"scrub", "disarm", "scan"} /\ i \in 1..Len(req[t].objs) /\ i \in Nat
  BY SMT, <1>2 DEF AtLast
<1>5. /\ pc' \in [Threads -> PcValues] /\ pc'[t] = p
      /\ \A u \in Threads \ {t} : pc'[u] = pc[u]
  BY <1>1, <1>4, GotoFacts DEF PcValues
<1>6. /\ queue' \in [Objects -> Seq(Threads)]
      /\ Range(queue'[o]) = Range(queue[o]) \ {t}
      /\ \A x \in Objects \ {o} : queue'[x] = queue[x]
  <2>1. queue \in [Objects -> Seq(Threads)]
    BY <1>1 DEF TypeOK
  <2>2. /\ retain(queue[o], Threads \ {t}) \in Seq(Threads)
        /\ Range(retain(queue[o], Threads \ {t})) = Range(queue[o]) \cap (Threads \ {t})
    BY <1>3, <2>1, RetainFacts
  <2>3. Range(queue[o]) \subseteq Threads
    BY SMT, <1>3, <2>1 DEF Range
  <2>4. queue'[o] = retain(queue[o], Threads \ {t}) /\ \A x \in Objects \ {o} : queue'[x] = queue[x]
    BY <1>1, <1>3, <2>1
  <2>5. queue' \in [Objects -> Seq(Threads)]
    BY <1>1, <1>3, <2>1, <2>2
  <2> QED
    BY <2>2, <2>3, <2>4, <2>5
<1>7. /\ bare' \in [Threads -> SUBSET Objects] /\ bare'[t] = bare[t] \ {o}
      /\ idx' \in [Threads -> Nat] /\ idx'[t] = i
      /\ \A u \in Threads \ {t} : bare'[u] = bare[u] /\ idx'[u] = idx[u]
  BY <1>1, <1>4 DEF TypeOK
<1>8. TypeOK'
  BY <1>1, <1>5, <1>6, <1>7 DEF TypeOK
<1>9. StepOf(t)
  BY <1>1, <1>3, <1>5, <1>6, <1>7 DEF StepOf, Bystander
<1>10. /\ Objs(t)' = Objs(t) /\ (Scrubs(t)' <=> Scrubs(t))
       /\ Objs(t) = {req[t].objs[j] : j \in 1..Len(req[t].objs)}
  BY SMT, <1>1, <1>2 DEF Objs, Scrubs, Range
<1>11. \A j \in 1..idx[t] : t \notin Range(queue'[req[t].objs[j]])
  <2> SUFFICES ASSUME NEW j \in 1..idx[t] PROVE t \notin Range(queue'[req[t].objs[j]])
    OBVIOUS
  <2>1. CASE req[t].objs[j] = o
    BY <1>6, <2>1
  <2>2. CASE req[t].objs[j] # o
    <3>1. j \in 1..idx[t] - 1 /\ req[t].objs[j] \in Objects
      BY SMT, <1>2, <1>3, <2>2
    <3>2. t \notin Range(queue[req[t].objs[j]])
      BY <1>1, <3>1 DEF ThreadInv, EntryInv
    <3> QED
      BY <1>6, <2>2, <3>1, <3>2
  <2> QED
    BY <2>1, <2>2
<1>12. p # "scrub" => \A x \in Objs(t) : t \notin Range(queue'[x])
  BY <1>2, <1>10, <1>11 DEF AtLast
<1> HIDE DEF o, p, i
<1>13. CallInv(t)'
  <2>1. p \in {"scrub", "scan"} \/ (p = "disarm" /\ i = 1)
    BY DEF p, i
  <2>2. mode'[t] = "runnable" /\ pc'[t] = p /\ idx'[t] = i /\ req'[t] = req[t]
    BY <1>1, <1>5, <1>7
  <2>3. req[t].objs # <<>>
    BY <1>1, <1>2 DEF ThreadInv, CallInv, AllForms
  <2> QED
    BY <1>2, <1>4, <2>1, <2>2, <2>3 DEF CallInv
<1>14. EntryInv(t)'
  <2>1. p = "scrub" => i = idx[t] + 1
    BY DEF p, i
  <2>2. p = "scrub" => \A j \in 1..i - 1 : t \notin Range(queue'[req[t].objs[j]])
    BY SMT, <1>2, <1>11, <2>1
  <2> QED
    BY <1>1, <1>4, <1>5, <1>7, <1>10, <1>12, <2>2 DEF EntryInv
<1>15. OwnEntries(t)'
  <2>1. ASSUME NEW x \in Objects, t \in Range(queue'[x]), x \notin bare'[t]
        PROVE  Enqueued(t)' /\ x \in Objs(t)'
    <3>1. x # o /\ t \in Range(queue[x]) /\ x \notin bare[t]
      BY <1>6, <1>7, <2>1
    <3>2. x \in Objs(t)
      BY <1>1, <3>1 DEF ThreadInv, OwnEntries
    <3>3. p = "scrub"
      BY <1>12, <2>1, <3>2
    <3> QED
      BY <1>5, <1>10, <3>2, <3>3 DEF Enqueued
  <2>2. ASSUME alarm'[t] # None PROVE Enqueued(t)' /\ req'[t].until = alarm'[t]
    <3>1. alarm[t] # None /\ req[t].until = alarm[t]
      BY <1>1, <2>2 DEF ThreadInv, OwnEntries
    <3>2. p \in {"scrub", "disarm"}
      BY <3>1 DEF p
    <3> QED
      BY <1>1, <1>5, <3>1, <3>2 DEF Enqueued
  <2> QED
    BY <2>1, <2>2 DEF OwnEntries
<1>16. ThreadInv(t)'
  BY <1>13, <1>14, <1>15 DEF ThreadInv
<1>17. ASSUME NEW x \in Objects, t \in Range(queue'[x]), ~AllWait(t, x)'
       PROVE  t \in Range(queue[x]) /\ ~AllWait(t, x)
  <2>1. t \in Range(queue[x])
    BY <1>6, <1>17
  <2>2. ~AllWait(t, x)
    BY <1>1, <1>5, <1>10, <1>12, <1>17 DEF AllWait
  <2> QED
    BY <2>1, <2>2
<1> QED
  BY <1>1, <1>8, <1>9, <1>16, <1>17, InsideStep

\* timer::disarm: the wait is over and nothing of it is left.
LEMMA DisarmStep ==
    ASSUME IInv, NEW t \in Threads, Disarm(t)
    PROVE  IInv'
<1>1. /\ pc[t] = "disarm" /\ mode[t] = "runnable" /\ TypeOK /\ ThreadInv(t)
      /\ alarm' = [alarm EXCEPT ![t] = None]
      /\ UNCHANGED <<kind, value, queue, now, mode, bare>>
      /\ \/ \E G : Finish(t, G)
         \/ Goto(t, "scan") /\ UNCHANGED <<req, idx>> /\ req[t].form # "sleep"
  BY DEF Disarm, At, IInv, parkVars
<1>2. /\ alarm' \in [Threads -> Nat \cup {None}] /\ alarm'[t] = None
      /\ \A u \in Threads \ {t} : alarm'[u] = alarm[u]
  BY <1>1 DEF TypeOK
<1>3. /\ pc' \in [Threads -> PcValues] /\ pc'[t] \in {"idle", "scan"}
      /\ req' \in [Threads -> Requests]
      /\ idx' \in [Threads -> Nat]
      /\ \A u \in Threads \ {t} : pc'[u] = pc[u] /\ req'[u] = req[u] /\ idx'[u] = idx[u]
      /\ CallInv(t)'
  <2>1. CASE \E G : Finish(t, G)
    BY <1>1, <2>1, FinishFacts, IdleFits
  <2>2. CASE Goto(t, "scan") /\ UNCHANGED <<req, idx>> /\ req[t].form # "sleep"
    <3>1. /\ pc' \in [Threads -> PcValues] /\ pc'[t] = "scan"
          /\ \A u \in Threads \ {t} : pc'[u] = pc[u]
      BY <1>1, <2>2, GotoFacts DEF PcValues
    <3>2. req[t].form \in AllForms /\ idx[t] \in 1..Len(req[t].objs)
      BY <1>1, <2>2, ObjFacts DEF ThreadInv, CallInv
    <3>3. CallInv(t)'
      BY <1>1, <2>2, <3>1, <3>2 DEF ThreadInv, CallInv
    <3> QED
      BY <1>1, <2>2, <3>1, <3>3 DEF TypeOK
  <2> QED
    BY <1>1, <2>1, <2>2
<1>4. TypeOK'
  BY <1>1, <1>2, <1>3 DEF TypeOK
<1>5. StepOf(t)
  BY <1>1, <1>2, <1>3 DEF StepOf, Bystander
<1>6. EntryInv(t)'
  BY <1>1, <1>3 DEF EntryInv
<1>7. OwnEntries(t)'
  BY <1>1, <1>2 DEF ThreadInv, OwnEntries, EntryInv
<1>8. ThreadInv(t)'
  BY <1>3, <1>6, <1>7 DEF ThreadInv
<1>9. \A o \in Objects : ~AllWait(t, o)
  BY <1>1 DEF AllWait
<1> QED
  BY <1>1, <1>4, <1>5, <1>8, <1>9, InsideStep

\* What the two halves of a queue hold, it held.
LEMMA SubSeqRange ==
    ASSUME NEW T, NEW q \in Seq(T), NEW n \in 0..Len(q)
    PROVE  /\ SubSeq(q, n + 1, Len(q)) \in Seq(T)
           /\ Range(SubSeq(q, n + 1, Len(q))) \subseteq Range(q)
           /\ n = Len(q) => Range(SubSeq(q, n + 1, Len(q))) = {}
<1> DEFINE r == SubSeq(q, n + 1, Len(q))
<1>1. Len(q) \in Nat /\ n \in Nat /\ DOMAIN q = 1..Len(q)
  BY SMT
<1>2. /\ r \in Seq(T) /\ DOMAIN r = 1..Len(q) - n
      /\ \A i \in 1..Len(q) - n : r[i] = q[n + i] /\ n + i \in 1..Len(q)
  BY SMT, <1>1
<1> HIDE DEF r
<1>3. Range(r) \subseteq Range(q)
  BY <1>1, <1>2 DEF Range
<1>4. n = Len(q) => Range(r) = {}
  BY SMT, <1>1, <1>2 DEF Range
<1> QED
  BY <1>2, <1>3, <1>4 DEF r

\* wake_all, wake_one_or and wake_one take threads off the queue; wake_all, which
\* a Manual event calls, takes them all.
LEMMA TakeStep ==
    ASSUME IInv, NEW t \in Threads, Take(t)
    PROVE  IInv'
<1> DEFINE o == Obj(t)
           n == IF kind[o] = "Manual" \/ queue[o] = <<>> THEN Len(queue[o]) ELSE 1
           woken == SubSeq(queue[o], 1, n)
<1>1. /\ pc[t] = "notify" /\ mode[t] = "runnable" /\ TypeOK /\ ThreadInv(t)
      /\ queue' = [queue EXCEPT ![o] = SubSeq(@, n + 1, Len(@))]
      /\ IF woken = <<>> THEN Done(t) ELSE Goto(t, "unblock") /\ UNCHANGED req
      /\ value' = IF kind[o] = "Auto" /\ woken = <<>> THEN [value EXCEPT ![o] = 1] ELSE value
      /\ UNCHANGED <<kind, now, alarm, idx, mode, bare>>
  BY DEF Take, At, IInv, parkVars
<1>2. req[t].form = "wake" /\ idx[t] = 1
  BY <1>1 DEF ThreadInv, CallInv
<1>3. o \in Objects
  BY <1>1, <1>2, ObjFacts DEF ThreadInv
<1>4. queue[o] \in Seq(Threads) /\ Len(queue[o]) \in Nat /\ n \in 0..Len(queue[o])
      /\ (kind[o] = "Manual" => n = Len(queue[o]))
      /\ (woken = <<>> => queue[o] = <<>> /\ n = Len(queue[o]))
  <2>1. queue[o] \in Seq(Threads) /\ Len(queue[o]) \in Nat
    BY SMT, <1>1, <1>3 DEF TypeOK
  <2>2. queue[o] # <<>> => Len(queue[o]) > 0
    BY SMT, <2>1
  <2>3. n \in 0..Len(queue[o]) /\ (kind[o] = "Manual" => n = Len(queue[o]))
        /\ (n = 0 => queue[o] = <<>>)
    BY SMT, <2>1, <2>2
  <2> HIDE DEF n
  <2>4. Len(woken) = n
    BY SMT, <2>1, <2>3
  <2>5. woken = <<>> => n = 0
    BY <2>4
  <2> QED
    BY <2>1, <2>3, <2>5
<1>5. /\ queue' \in [Objects -> Seq(Threads)]
      /\ Range(queue'[o]) \subseteq Range(queue[o])
      /\ kind[o] = "Manual" \/ woken = <<>> => Range(queue'[o]) = {}
      /\ \A x \in Objects \ {o} : queue'[x] = queue[x]
  <2>1. queue \in [Objects -> Seq(Threads)]
    BY <1>1 DEF TypeOK
  <2> DEFINE rest == SubSeq(queue[o], n + 1, Len(queue[o]))
  <2>2. /\ rest \in Seq(Threads) /\ Range(rest) \subseteq Range(queue[o])
        /\ n = Len(queue[o]) => Range(rest) = {}
    <3>1. queue[o] \in Seq(Threads) /\ n \in 0..Len(queue[o])
      BY <1>4
    <3> HIDE DEF n, o
    <3> QED
      BY <3>1, SubSeqRange
  <2>3. queue' = [queue EXCEPT ![o] = rest]
    BY <1>1
  <2> HIDE DEF rest, n, woken
  <2> QED
    BY <1>3, <1>4, <2>1, <2>2, <2>3
<1>6. value' \in [Objects -> Int] /\ \A x \in Objects \ {o} : value'[x] = value[x]
  BY SMT, <1>1, <1>3 DEF TypeOK
<1>7. kind[o] \in Events /\ value'[o] = 1 => value[o] = 1 \/ Range(queue'[o]) = {}
  BY <1>1, <1>5, <1>6
<1> HIDE DEF n, woken
<1>8. /\ pc' \in [Threads -> PcValues] /\ pc'[t] \in {"idle", "unblock"}
      /\ req' \in [Threads -> Requests]
      /\ \A u \in Threads \ {t} : pc'[u] = pc[u] /\ req'[u] = req[u]
      /\ CallInv(t)'
  <2>1. CASE Done(t)
    <3>1. Goto(t, "idle") /\ "idle" \in PcValues /\ req' = [req EXCEPT ![t] = Idle]
      BY <2>1 DEF Done, PcValues
    <3>2. /\ pc' \in [Threads -> PcValues] /\ pc'[t] = "idle"
          /\ \A u \in Threads \ {t} : pc'[u] = pc[u]
      BY <1>1, <3>1, GotoFacts
    <3>3. Idle \in Requests
      BY SMT DEF Idle, Requests
    <3>4. /\ req' \in [Threads -> Requests]
          /\ req'[t] = Idle /\ \A u \in Threads \ {t} : req'[u] = req[u]
      BY <1>1, <3>1, <3>3, RequestType
    <3>5. CallInv(t)'
      BY <1>1, <1>2, <3>2, <3>4, IdleFits
    <3> QED
      BY <3>2, <3>4, <3>5
  <2>2. CASE Goto(t, "unblock") /\ UNCHANGED req
    <3>1. /\ pc' \in [Threads -> PcValues] /\ pc'[t] = "unblock"
          /\ \A u \in Threads \ {t} : pc'[u] = pc[u]
      BY <1>1, <2>2, GotoFacts DEF PcValues
    <3>2. CallInv(t)'
      BY <1>1, <1>2, <2>2, <3>1 DEF ThreadInv, CallInv
    <3> QED
      BY <1>1, <2>2, <3>1, <3>2 DEF TypeOK
  <2> QED
    BY <1>1, <2>1, <2>2
<1>9. TypeOK'
  BY <1>1, <1>5, <1>6, <1>8 DEF TypeOK
<1>10. \A x \in Objects : Range(queue'[x]) \subseteq Range(queue[x])
  <2> HIDE DEF o
  <2> SUFFICES ASSUME NEW x \in Objects PROVE Range(queue'[x]) \subseteq Range(queue[x])
    OBVIOUS
  <2>1. CASE x = o
    BY <1>5, <2>1
  <2>2. CASE x # o
    <3>1. queue'[x] = queue[x]
      BY <1>5, <2>2
    <3> QED BY <3>1
  <2> QED
    BY <2>1, <2>2
<1>11. StepOf(t)
  BY <1>1, <1>8, <1>10 DEF StepOf, Bystander
<1>12. ThreadInv(t)'
  <2>1. ~Enqueued(t)
    BY <1>1 DEF Enqueued
  <2>2. OwnEntries(t)'
    BY <1>1, <1>10, <2>1 DEF ThreadInv, OwnEntries
  <2>3. EntryInv(t)'
    BY <1>1, <1>8 DEF EntryInv
  <2> QED
    BY <1>8, <2>2, <2>3 DEF ThreadInv
<1>13. ASSUME NEW u \in Threads PROVE ThreadInv(u)'
  <2>1. CASE u # t
    BY <1>11, <2>1, BystanderKept DEF IInv, StepOf
  <2> QED
    BY <1>12, <2>1
<1>14. ASSUME NEW x \in Objects PROVE SignalInv(x)'
  <2>1. ASSUME NEW u \in Threads, u \in Range(queue'[x]), ~AllWait(u, x)'
        PROVE  u \in Range(queue[x]) /\ ~AllWait(u, x)
    <3>1. u \in Range(queue[x])
      BY <1>10, <2>1
    <3>2. u # t => pc'[u] = pc[u] /\ req'[u] = req[u]
      BY <1>8
    <3> QED
      BY <1>1, <2>1, <3>1, <3>2 DEF AllWait, Objs
  <2>2. SignalInv(x)
    BY DEF IInv
  <2>3. CASE x # o
    <3>1. ASSUME NEW u \in Threads, pc[u] = "notify", Obj(u) = x
          PROVE  pc'[u] = "notify" /\ Obj(u)' = x
      BY <1>1, <1>8, <2>3, <3>1 DEF Obj
    <3>2. value'[x] = value[x]
      BY <1>6, <2>3
    <3> QED
      BY <1>1, <2>1, <2>2, <3>1, <3>2, SignalKept
  <2>4. CASE x = o
    <3>1. CASE Range(queue'[o]) = {}
      BY <2>4, <3>1 DEF SignalInv
    <3>2. CASE Range(queue'[o]) # {} /\ kind[o] \in Events
      <4>1. kind[o] = "Auto"
        BY <1>5, <3>2 DEF Events
      <4>2. value'[o] = 1 => value[o] = 1
        BY <1>7, <3>2
      <4> QED
        BY <1>1, <2>1, <2>2, <2>4, <4>1, <4>2 DEF SignalInv
    <3>3. CASE kind[o] \notin Events
      BY <1>1, <2>4, <3>3 DEF SignalInv, Events
    <3> QED
      BY <3>1, <3>2, <3>3
  <2> QED
    BY <2>3, <2>4
<1> QED
  BY <1>9, <1>13, <1>14 DEF IInv

\* A step that moves no thread: the wakes, and the clock.
LEMMA WakeStep ==
    ASSUME IInv, TypeOK', UNCHANGED <<kind, value, queue, pc, req, idx, bare>>,
           \A u \in Threads : mode'[u] \in {mode[u], "runnable"} /\ alarm'[u] \in {alarm[u], None}
    PROVE  IInv'
<1>1. ASSUME NEW u \in Threads PROVE ThreadInv(u)'
  BY BystanderKept DEF Bystander, IInv
<1>2. ASSUME NEW o \in Objects PROVE SignalInv(o)'
  BY DEF IInv, SignalInv, AllWait, Objs, Obj
<1> QED
  BY <1>1, <1>2 DEF IInv

\* What Park does to the modes when a wake is over, or a sleeper resumes.
LEMMA BecomeRunnable ==
    ASSUME TypeOK, NEW x, UNCHANGED mode \/ P!Become(x, "parked", "runnable")
    PROVE  /\ mode' \in [Threads -> {"runnable", "parked"}]
           /\ \A u \in Threads : mode'[u] \in {mode[u], "runnable"}
BY DEF TypeOK, P!Become

\* The two halves of unblock.
LEMMA UnblockNextStep ==
    ASSUME IInv, NEW t \in Threads, UnblockNext(t)
    PROVE  IInv'
<1>1. UNCHANGED <<kind, value, queue, now, alarm, pc, req, idx, mode, bare>>
  BY DEF UnblockNext, objVars, P!Wake
<1>2. TypeOK'
  BY <1>1 DEF IInv, TypeOK
<1> QED
  BY <1>1, <1>2, WakeStep

\* The waker returns: to its next wake, or out of its call.
LEMMA UnblockedStep ==
    ASSUME IInv, NEW t \in Threads, Unblocked(t)
    PROVE  IInv'
<1>1. /\ pc[t] = "unblock" /\ mode[t] = "runnable" /\ TypeOK /\ ThreadInv(t)
      /\ UNCHANGED mode \/ P!Become(call[t], "parked", "runnable")
      /\ \/ UNCHANGED <<pc, req>>
         \/ Goto(t, "notify") /\ UNCHANGED req
         \/ Done(t)
      /\ UNCHANGED <<kind, value, queue, now, alarm, idx, bare>>
  BY DEF Unblocked, At, IInv, objVars, P!Return
<1>2. /\ mode' \in [Threads -> {"runnable", "parked"}]
      /\ \A u \in Threads : mode'[u] \in {mode[u], "runnable"}
  BY <1>1, BecomeRunnable
<1>3. /\ req[t].form = "wake" /\ idx[t] = 1 /\ mode'[t] = "runnable"
      /\ ~Enqueued(t) /\ \A o \in Objects : ~AllWait(t, o)
  BY <1>1, <1>2 DEF ThreadInv, CallInv, Enqueued, AllWait
<1>4. /\ pc' \in [Threads -> PcValues] /\ pc'[t] \in {"idle", "notify", "unblock"}
      /\ req' \in [Threads -> Requests]
      /\ \A u \in Threads \ {t} : pc'[u] = pc[u] /\ req'[u] = req[u]
      /\ CallInv(t)'
  <2>1. CASE Done(t)
    <3>1. Goto(t, "idle") /\ "idle" \in PcValues /\ req' = [req EXCEPT ![t] = Idle]
      BY <2>1 DEF Done, PcValues
    <3>2. /\ pc' \in [Threads -> PcValues] /\ pc'[t] = "idle"
          /\ \A u \in Threads \ {t} : pc'[u] = pc[u]
      BY <1>1, <3>1, GotoFacts
    <3>3. Idle \in Requests
      BY SMT DEF Idle, Requests
    <3>4. /\ req' \in [Threads -> Requests]
          /\ req'[t] = Idle /\ \A u \in Threads \ {t} : req'[u] = req[u]
      BY <1>1, <3>1, <3>3, RequestType
    <3>5. CallInv(t)'
      BY <1>1, <1>3, <3>2, <3>4, IdleFits
    <3> QED
      BY <3>2, <3>4, <3>5
  <2>2. CASE Goto(t, "notify") /\ UNCHANGED req
    <3>1. /\ pc' \in [Threads -> PcValues] /\ pc'[t] = "notify"
          /\ \A u \in Threads \ {t} : pc'[u] = pc[u]
      BY <1>1, <2>2, GotoFacts DEF PcValues
    <3>2. CallInv(t)'
      BY <1>1, <1>3, <2>2, <3>1 DEF ThreadInv, CallInv
    <3> QED
      BY <1>1, <2>2, <3>1, <3>2 DEF TypeOK
  <2>3. CASE UNCHANGED <<pc, req>>
    <3>1. CallInv(t)'
      BY <1>1, <1>3, <2>3 DEF ThreadInv, CallInv
    <3> QED
      BY <1>1, <2>3, <3>1 DEF TypeOK
  <2> QED
    BY <1>1, <2>1, <2>2, <2>3
<1>5. TypeOK'
  BY <1>1, <1>2, <1>4 DEF TypeOK
<1>6. StepOf(t)
  BY <1>1, <1>2, <1>4 DEF StepOf, Bystander
<1>7. ThreadInv(t)'
  <2>1. OwnEntries(t)'
    BY <1>1, <1>3 DEF ThreadInv, OwnEntries
  <2>2. EntryInv(t)'
    BY <1>3, <1>4 DEF EntryInv
  <2> QED
    BY <1>4, <2>1, <2>2 DEF ThreadInv
<1> QED
  BY <1>1, <1>3, <1>5, <1>6, <1>7, InsideStep

\* timer::tick takes what is due off the wheel, and its unblocks; Resume.
LEMMA ClockStep ==
    ASSUME IInv, Tick \/ Fire \/ Fired \/ \E t \in Threads : Resume(t)
    PROVE  IInv'
<1>1. CASE Tick
  <2> DEFINE next == IF now < MaxTick THEN now + 1 ELSE now
             due == {t \in Threads : alarm[t] # None /\ alarm[t] <= next}
  <2>1. /\ now' = next
        /\ alarm' = [t \in Threads |-> IF t \in due THEN None ELSE alarm[t]]
        /\ UNCHANGED <<kind, value, queue, pc, req, idx, mode, bare>>
    BY <1>1 DEF Tick, objVars, parkVars
  <2>2. next \in Nat
    BY SMT DEF IInv, TypeOK
  <2> HIDE DEF next, due
  <2>3. /\ alarm' \in [Threads -> Nat \cup {None}]
        /\ \A u \in Threads : alarm'[u] \in {alarm[u], None}
    BY <2>1 DEF IInv, TypeOK
  <2>4. TypeOK'
    BY <2>1, <2>2, <2>3 DEF IInv, TypeOK
  <2> QED
    BY <2>1, <2>3, <2>4, WakeStep
<1>2. CASE Fire
  <2>1. UNCHANGED <<kind, value, queue, now, alarm, pc, req, idx, mode, bare>>
    BY <1>2 DEF Fire, objVars, P!Wake
  <2>2. TypeOK'
    BY <2>1 DEF IInv, TypeOK
  <2> QED
    BY <2>1, <2>2, WakeStep
<1>3. CASE Fired \/ \E t \in Threads : Resume(t)
  <2>1. /\ UNCHANGED <<kind, value, queue, now, alarm, pc, req, idx, bare>>
        /\ \E x : UNCHANGED mode \/ P!Become(x, "parked", "runnable")
    BY <1>3 DEF Fired, Resume, objVars, P!Return, P!Resume
  <2>2. /\ mode' \in [Threads -> {"runnable", "parked"}]
        /\ \A u \in Threads : mode'[u] \in {mode[u], "runnable"}
    BY <2>1, BecomeRunnable DEF IInv
  <2>3. TypeOK'
    BY <2>1, <2>2 DEF IInv, TypeOK
  <2> QED
    BY <2>1, <2>2, <2>3, WakeStep
<1> QED
  BY <1>1, <1>2, <1>3

\* Every step of the waits keeps the inductive invariant.
LEMMA NextIInv == IInv /\ [Next]_vars => IInv'
<1> SUFFICES ASSUME IInv, [Next]_vars PROVE IInv'
  OBVIOUS
<1>1. CASE UNCHANGED vars
  <2>1. UNCHANGED <<kind, value, queue, now, alarm, pc, req, idx, mode, bare>>
    BY <1>1 DEF vars
  <2>2. TypeOK'
    BY <2>1 DEF IInv, TypeOK
  <2> QED
    BY <2>1, <2>2, WakeStep
<1>2. ASSUME NEW t \in Threads, WaitCall(t) PROVE IInv'
  BY <1>2, WaitCallStep
<1>3. ASSUME NEW t \in Threads, SignalCall(t) PROVE IInv'
  BY <1>3, SignalCallStep
<1>4. ASSUME NEW t \in Threads, Proceed(t) PROVE IInv'
  BY <1>4, ScanAnyStep, ScanAllStep, TakeAllStep, EnqueueStep, ArmStep, BlockStep, WokenStep,
     ScrubStep, DisarmStep, TakeStep, UnblockNextStep, UnblockedStep DEF Proceed
<1>5. CASE Tick \/ Fire \/ Fired \/ \E t \in Threads : Resume(t)
  BY <1>5, ClockStep
<1> QED
  BY <1>1, <1>2, <1>3, <1>4, <1>5 DEF Next

\* The inductive invariant of the wait objects holds in every reachable state.
THEOREM WaitsInvariance == Spec => []IInv
<1> QED
  BY InitIInv, NextIInv, PTL DEF Spec

\* NoSleepOverSignal for any threads, objects, kinds, handles and deadlines: the
\* check under the queue lock and the wake after the signal leave no window.
THEOREM WaitsSignalSafety == Spec => []NoSleepOverSignal
<1>1. IInv => NoSleepOverSignal
  BY DEF IInv, SignalInv, NoSleepOverSignal, AllWait
<1> QED
  BY <1>1, WaitsInvariance, PTL

\* NoStaleEntry for any threads, objects and interleaving of wakes with timeouts:
\* the clean-up of wait_if_until, wait_any_until and sleep_until is complete.
THEOREM WaitsCleanUp == Spec => []NoStaleEntry
<1>1. IInv => NoStaleEntry
  BY DEF IInv, ThreadInv, OwnEntries, NoStaleEntry
<1> QED
  BY <1>1, WaitsInvariance, PTL
============================================================================
