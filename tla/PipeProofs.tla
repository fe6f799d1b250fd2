----------------------------- MODULE PipeProofs -----------------------------
(* Proofs about the pipe, for any threads, capacity and bounds. *)
EXTENDS Pipe, TLAPS

\* No thread, no end: what None is not.
LEMMA NoneApart == None \notin Threads /\ None # "r" /\ None # "w"
BY PipeAssumption

\* What read and write transfer fits the caller's buffer and the pipe's.
LEMMA MinFacts ==
    ASSUME NEW a \in Nat, NEW b \in Nat
    PROVE  /\ Min2(a, b) \in Nat
           /\ Min2(a, b) <= a
           /\ Min2(a, b) <= b
           /\ a > 0 /\ b > 0 => Min2(a, b) > 0
BY DEF Min2

\* A step outside wait_if and wake_all, which leaves the queue and the recorded
\* wakes alone, keeps every sleeper reachable, provided that whoever changes
\* the buffer or drops an end goes on to wake_all.
LEMMA WakeKept ==
    ASSUME IInv,
           UNCHANGED <<queue, waking, token>>,
           \A t \in Threads : Waiting(t)' => Waiting(t) /\ end'[t] = end[t],
           \A t \in Threads : pc[t] = "wake" => pc'[t] = "wake",
           UNCHANGED <<len, alive>> \/ \E u \in Threads : pc'[u] = "wake"
    PROVE  WakeInv'
<1> SUFFICES ASSUME NEW t \in Threads, Waiting(t)'
             PROVE  /\ token'[t] \/ In(t, queue)' \/ \E u \in Threads : In(t, waking[u])'
                    /\ ~ShouldBlock(t)' => WakeComing(t)'
  BY DEF WakeInv
<1>1. Waiting(t) /\ end'[t] = end[t]
  OBVIOUS
<1>2. /\ token[t] \/ In(t, queue) \/ \E u \in Threads : In(t, waking[u])
      /\ ~ShouldBlock(t) => WakeComing(t)
  BY <1>1 DEF IInv, WakeInv
<1>3. /\ In(t, queue)' <=> In(t, queue)
      /\ \A u \in Threads : In(t, waking[u])' <=> In(t, waking[u])
  BY DEF In
<1>4. CASE UNCHANGED <<len, alive>>
  <2>1. ShouldBlock(t)' <=> ShouldBlock(t)
    BY <1>1, <1>4 DEF ShouldBlock
  <2> QED
    BY <1>2, <1>3, <2>1 DEF WakeComing
<1>5. CASE \E u \in Threads : pc'[u] = "wake"
  BY <1>2, <1>3, <1>5 DEF WakeComing
<1> QED
  BY <1>4, <1>5

\* The initial state: nobody is in a call and both ends are open.
LEMMA InitIInv == Init => IInv
<1> SUFFICES ASSUME Init PROVE IInv
  OBVIOUS
<1>0. token \in [Threads -> BOOLEAN] /\ ended \in BOOLEAN
  BY Zenon DEF Init
<1>1. TypeOK
  BY <1>0, PipeAssumption DEF Init, TypeOK, PcValues, Ends
<1>2. PlaceInv /\ EndInv
  BY DEF Init, PlaceInv, EndInv, Ends
<1>3. WakeInv
  BY DEF Init, WakeInv, Waiting
<1> QED
  BY <1>1, <1>2, <1>3 DEF IInv

\* A step of t inside a call: only t moves, and an end it drops has no
\* references left and is announced by a wake_all.
CallStep(t) ==
    /\ alive' \subseteq alive
    /\ pc' \in [Threads -> PcValues]
    /\ end' \in [Threads -> Ends \cup {None}]
    /\ todo' \in [Threads -> 0..MaxLen]
    /\ PlaceInv'
    /\ \A d \in Ends : d \notin alive' => fds'[d] = 0 /\ \A u \in Threads : end'[u] # d
    /\ alive' = alive \/ pc'[t] = "wake"
    /\ pc'[t] # "block"
    /\ \A u \in Threads \ {t} : pc'[u] = pc[u] /\ end'[u] = end[u]

\* Giving up a reference keeps the types, and an end whose last reference it
\* was is dropped with nobody left in a call on it.
LEMMA ReleaseFacts ==
    ASSUME IInv, NEW t \in Threads, NEW e \in Ends, NEW left \in 0..MaxFds,
           e \in alive, end[t] \in {e, None},
           Release(t, e, left), fds'[e] = left,
           \A d \in Ends \ {e} : fds'[d] = fds[d],
           waking'[t] = <<>>, \A u \in Threads \ {t} : waking'[u] = waking[u]
    PROVE  CallStep(t)
<1>1. /\ alive \subseteq Ends
      /\ pc \in [Threads -> PcValues]
      /\ end \in [Threads -> Ends \cup {None}]
      /\ todo \in [Threads -> 0..MaxLen]
      /\ MaxLen \in Nat
  BY PipeAssumption DEF IInv, TypeOK
<1>2. /\ end' = [end EXCEPT ![t] = None]
      /\ todo' = [todo EXCEPT ![t] = 0]
      /\ \/ /\ LastReference(t, e, left)
            /\ alive' = alive \ {e}
            /\ pc' = [pc EXCEPT ![t] = "wake"]
         \/ alive' = alive /\ pc' = [pc EXCEPT ![t] = "idle"]
  BY DEF Release, Goto
<1>3. /\ alive' \subseteq alive
      /\ pc' \in [Threads -> PcValues]
      /\ end' \in [Threads -> Ends \cup {None}]
      /\ todo' \in [Threads -> 0..MaxLen]
      /\ alive' = alive \/ pc'[t] = "wake"
      /\ pc'[t] \in {"wake", "idle"} /\ end'[t] = None
      /\ \A u \in Threads \ {t} : pc'[u] = pc[u] /\ end'[u] = end[u]
  BY <1>1, <1>2 DEF PcValues
<1>4. PlaceInv'
  <2> SUFFICES ASSUME NEW u \in Threads
               PROVE  /\ pc'[u] = "idle" => end'[u] = None
                      /\ pc'[u] = "read" => end'[u] = "r"
                      /\ pc'[u] \in {"check", "put"} => end'[u] = "w"
                      /\ pc'[u] \in {"queue", "block"} => end'[u] \in Ends
                      /\ pc'[u] # "unblock" => waking'[u] = <<>>
    BY DEF PlaceInv
  <2>1. CASE u = t
    BY <2>1, <1>3
  <2>2. CASE u # t
    BY <2>2, <1>3 DEF IInv, PlaceInv
  <2> QED
    BY <2>1, <2>2
<1>5. ASSUME NEW d \in Ends, d \notin alive'
      PROVE  fds'[d] = 0 /\ \A u \in Threads : end'[u] # d
  <2>1. None # d
    BY NoneApart DEF Ends
  <2>2. CASE d = e
    BY <1>1, <1>2, <1>3, <1>5, <2>1, <2>2 DEF LastReference
  <2>3. CASE d # e
    <3>1. d \notin alive
      BY <1>1, <1>2, <1>5, <2>3
    <3>2. fds[d] = 0 /\ \A u \in Threads : end[u] # d
      BY <3>1 DEF IInv, EndInv
    <3> QED
      BY <1>3, <2>1, <2>3, <3>2
  <2> QED
    BY <2>2, <2>3
<1> QED
  BY <1>3, <1>4, <1>5 DEF CallStep

\* dup and fork.
LEMMA DupPreserves ==
    ASSUME IInv, NEW t \in Threads, Dup(t)
    PROVE  IInv'
<1> USE DEF IInv
<1>1. PICK e \in Ends : fds[e] \in 1..(MaxFds - 1) /\ fds' = [fds EXCEPT ![e] = @ + 1]
  BY Zenon DEF Dup
<1>2. fds \in [Ends -> 0..MaxFds] /\ MaxFds \in Nat /\ calls \in Nat /\ MaxCalls \in Nat
  BY PipeAssumption DEF TypeOK
<1>3. fds' \in [Ends -> 0..MaxFds] /\ \A d \in Ends : fds[d] = 0 => fds'[d] = 0
  BY <1>1, <1>2
<1>4. calls' \in 0..MaxCalls
  BY <1>2 DEF Dup, Begin
<1>5. TypeOK'
  BY <1>3, <1>4 DEF Dup, TypeOK, parkVars
<1>6. PlaceInv' /\ EndInv'
  BY <1>3 DEF Dup, PlaceInv, EndInv
<1>7. WakeInv'
  <2>1. UNCHANGED <<len, alive, queue, pc, end, waking, token, mode>>
    BY DEF Dup, parkVars
  <2> QED
    BY <2>1, WakeKept DEF Waiting
<1> QED
  BY <1>5, <1>6, <1>7

\* Closing a descriptor, with the drop of the end when it was the last.
LEMMA ClosePreserves ==
    ASSUME IInv, NEW t \in Threads, Close(t)
    PROVE  IInv'
<1>1. PICK e \in Ends : /\ fds[e] > 0
                        /\ fds' = [fds EXCEPT ![e] = @ - 1]
                        /\ Release(t, e, fds[e] - 1)
  BY Zenon DEF Close
<1>2. fds \in [Ends -> 0..MaxFds] /\ MaxFds \in Nat
  BY PipeAssumption DEF IInv, TypeOK
<1>3. /\ pc[t] = "idle" /\ mode[t] = "runnable"
      /\ UNCHANGED <<len, queue, waking, calls, ended, mode, token, call>>
  BY DEF Close, At, parkVars
<1>4. e \in alive /\ end[t] = None /\ waking[t] = <<>>
  BY <1>1, <1>3 DEF IInv, EndInv, PlaceInv, TypeOK
<1>5. /\ fds' \in [Ends -> 0..MaxFds] /\ fds[e] - 1 \in 0..MaxFds
      /\ fds'[e] = fds[e] - 1 /\ \A d \in Ends \ {e} : fds'[d] = fds[d]
  BY <1>1, <1>2
<1> DEFINE left == fds[e] - 1
<1>6. CallStep(t)
  <2>1. Release(t, e, left) /\ left \in 0..MaxFds /\ fds'[e] = left
    BY <1>1, <1>5
  <2> HIDE DEF left
  <2> QED
    BY <1>3, <1>4, <1>5, <2>1, ReleaseFacts
<1>7. TypeOK' /\ EndInv'
  BY <1>3, <1>5, <1>6 DEF IInv, TypeOK, EndInv, CallStep
<1>8. WakeInv'
  BY <1>3, <1>6, WakeKept DEF Waiting, CallStep
<1> QED
  BY <1>6, <1>7, <1>8 DEF IInv, CallStep

\* read and write take a reference to an end that has descriptors.
LEMMA EnterPreserves ==
    ASSUME IInv, NEW t \in Threads, Enter(t)
    PROVE  IInv'
<1>1. PICK e \in Ends, n \in 0..MaxLen :
        /\ fds[e] > 0
        /\ end' = [end EXCEPT ![t] = e]
        /\ todo' = [todo EXCEPT ![t] = n]
        /\ pc' = [pc EXCEPT ![t] = IF e = "r" THEN "read" ELSE "check"]
  BY Zenon DEF Enter, Goto
<1>2. /\ pc[t] = "idle" /\ mode[t] = "runnable"
      /\ calls' = calls + 1 /\ calls < MaxCalls
      /\ UNCHANGED <<len, alive, fds, queue, waking, ended, mode, token, call>>
  BY DEF Enter, Begin, At, parkVars
<1>3. /\ pc \in [Threads -> PcValues] /\ end \in [Threads -> Ends \cup {None}]
      /\ todo \in [Threads -> 0..MaxLen] /\ fds \in [Ends -> 0..MaxFds]
      /\ calls \in 0..MaxCalls /\ MaxCalls \in Nat
  BY PipeAssumption DEF IInv, TypeOK
<1>4. e \in alive
  BY <1>1, <1>3 DEF IInv, EndInv
<1>5. TypeOK'
  BY <1>1, <1>2, <1>3 DEF IInv, TypeOK, PcValues
<1>6. PlaceInv'
  BY <1>1, <1>2, <1>3 DEF IInv, PlaceInv, Ends
<1>7. EndInv'
  BY <1>1, <1>2, <1>3, <1>4 DEF IInv, EndInv
<1>8. WakeInv'
  BY <1>1, <1>2, <1>3, WakeKept DEF Waiting
<1> QED
  BY <1>5, <1>6, <1>7, <1>8 DEF IInv

\* read's critical section: a read that takes data goes on to wake the writers,
\* and end-of-file is only reported for an empty buffer and a dropped end.
LEMMA ReadPreserves ==
    ASSUME IInv, NEW t \in Threads, Read(t)
    PROVE  IInv'
<1>1. /\ pc[t] = "read" /\ mode[t] = "runnable"
      /\ UNCHANGED <<fds, queue, waking, calls, mode, token, call>>
  BY DEF Read, At, parkVars
<1>2. /\ pc \in [Threads -> PcValues] /\ end \in [Threads -> Ends \cup {None}]
      /\ todo \in [Threads -> 0..MaxLen] /\ fds \in [Ends -> 0..MaxFds]
      /\ len \in 0..Cap /\ Cap \in Nat /\ MaxLen \in Nat
      /\ ended \in BOOLEAN
  BY PipeAssumption DEF IInv, TypeOK
<1>3. end[t] = "r" /\ "r" \in Ends /\ waking[t] = <<>>
  BY <1>1 DEF IInv, PlaceInv, Ends
<1>4. "r" \in alive
  BY <1>3 DEF IInv, EndInv
<1>5. CASE len > 0
  <2>1. /\ len' = len - Min2(todo[t], len)
        /\ pc' = [pc EXCEPT ![t] = "wake"]
        /\ todo' = [todo EXCEPT ![t] = 0]
        /\ UNCHANGED <<alive, end, ended>>
    BY <1>5 DEF Read, Goto
  <2>2. len' \in 0..Cap
    <3>1. todo[t] \in Nat /\ len \in Nat
      BY <1>2
    <3>2. Min2(todo[t], len) \in Nat /\ Min2(todo[t], len) <= len
      BY <3>1, MinFacts
    <3> QED
      BY <1>2, <2>1, <3>2
  <2>3. TypeOK'
    BY <1>1, <1>2, <2>1, <2>2 DEF IInv, TypeOK, PcValues
  <2>4. PlaceInv' /\ EndInv'
    BY <1>1, <1>2, <1>5, <2>1 DEF IInv, PlaceInv, EndInv
  <2>5. WakeInv'
    BY <1>1, <1>2, <2>1, WakeKept DEF Waiting
  <2> QED
    BY <2>3, <2>4, <2>5 DEF IInv
<1>6. CASE ~(len > 0) /\ "w" \notin alive
  <2>1. Release(t, "r", fds["r"]) /\ len' = len /\ ended' = TRUE /\ len = 0
    BY <1>2, <1>6 DEF Read
  <2>2. CallStep(t)
    <3>1. fds["r"] \in 0..MaxFds /\ fds'["r"] = fds["r"]
      BY <1>1, <1>2, <1>3
    <3> QED
      BY <1>1, <1>3, <1>4, <2>1, <3>1, ReleaseFacts
  <2>3. TypeOK' /\ EndInv'
    BY <1>1, <1>6, <2>1, <2>2 DEF IInv, TypeOK, EndInv, CallStep
  <2>4. WakeInv'
    BY <1>1, <2>1, <2>2, WakeKept DEF Waiting, CallStep
  <2> QED
    BY <2>2, <2>3, <2>4 DEF IInv, CallStep
<1>7. CASE ~(len > 0) /\ "w" \in alive
  <2>1. pc' = [pc EXCEPT ![t] = "queue"] /\ UNCHANGED <<len, alive, end, todo, ended>>
    BY <1>7 DEF Read, Goto
  <2>2. TypeOK'
    BY <1>1, <1>2, <2>1 DEF IInv, TypeOK, PcValues
  <2>3. PlaceInv' /\ EndInv'
    BY <1>1, <1>2, <1>3, <2>1 DEF IInv, PlaceInv, EndInv
  <2>4. WakeInv'
    BY <1>1, <1>2, <2>1, WakeKept DEF Waiting
  <2> QED
    BY <2>2, <2>3, <2>4 DEF IInv
<1> QED
  BY <1>5, <1>6, <1>7

\* write's look at the read end.
LEMMA CheckPreserves ==
    ASSUME IInv, NEW t \in Threads, Check(t)
    PROVE  IInv'
<1>1. /\ pc[t] = "check" /\ mode[t] = "runnable"
      /\ UNCHANGED <<len, fds, queue, waking, calls, ended, mode, token, call>>
  BY DEF Check, At, parkVars
<1>2. /\ pc \in [Threads -> PcValues] /\ end \in [Threads -> Ends \cup {None}]
      /\ fds \in [Ends -> 0..MaxFds]
  BY DEF IInv, TypeOK
<1>3. end[t] = "w" /\ "w" \in Ends /\ waking[t] = <<>>
  BY <1>1 DEF IInv, PlaceInv, Ends
<1>4. "w" \in alive
  BY <1>3 DEF IInv, EndInv
<1>5. CASE "r" \in alive
  <2>1. pc' = [pc EXCEPT ![t] = "put"] /\ UNCHANGED <<alive, end, todo>>
    BY <1>5 DEF Check, Goto
  <2>2. TypeOK'
    BY <1>1, <1>2, <2>1 DEF IInv, TypeOK, PcValues
  <2>3. PlaceInv' /\ EndInv'
    BY <1>1, <1>2, <1>3, <2>1 DEF IInv, PlaceInv, EndInv
  <2>4. WakeInv'
    BY <1>1, <1>2, <2>1, WakeKept DEF Waiting
  <2> QED
    BY <2>2, <2>3, <2>4 DEF IInv
<1>6. CASE "r" \notin alive
  <2>1. Release(t, "w", fds["w"])
    BY <1>6 DEF Check
  <2>2. CallStep(t)
    <3>1. fds["w"] \in 0..MaxFds /\ fds'["w"] = fds["w"]
      BY <1>1, <1>2, <1>3
    <3> QED
      BY <1>1, <1>3, <1>4, <2>1, <3>1, ReleaseFacts
  <2>3. TypeOK' /\ EndInv'
    BY <1>1, <2>2 DEF IInv, TypeOK, EndInv, CallStep
  <2>4. WakeInv'
    BY <1>1, <2>2, WakeKept DEF Waiting, CallStep
  <2> QED
    BY <2>2, <2>3, <2>4 DEF IInv, CallStep
<1> QED
  BY <1>5, <1>6

\* write's critical section: it fits the buffer, and whatever it adds is
\* followed by a wake_all.
LEMMA PutPreserves ==
    ASSUME IInv, NEW t \in Threads, Put(t)
    PROVE  IInv'
<1> DEFINE n == Min2(Cap - len, todo[t])
<1>1. /\ pc[t] = "put" /\ mode[t] = "runnable"
      /\ len' = len + n
      /\ todo' = [todo EXCEPT ![t] = @ - n]
      /\ pc' = [pc EXCEPT ![t] = IF n = 0 THEN "queue" ELSE "wake"]
      /\ UNCHANGED <<alive, fds, queue, end, waking, calls, ended, mode, token, call>>
  BY DEF Put, At, Goto, parkVars
<1>2. /\ pc \in [Threads -> PcValues] /\ todo \in [Threads -> 0..MaxLen]
      /\ len \in 0..Cap /\ Cap \in Nat /\ MaxLen \in Nat
  BY PipeAssumption DEF IInv, TypeOK
<1>3. end[t] = "w" /\ "w" \in Ends /\ waking[t] = <<>>
  BY <1>1 DEF IInv, PlaceInv, Ends
<1>4. ~ended
  BY <1>3 DEF IInv, EndInv
<1>5. n \in Nat /\ n <= Cap - len /\ n <= todo[t]
  <2>1. Cap - len \in Nat /\ todo[t] \in Nat
    BY <1>2
  <2> QED
    BY <2>1, MinFacts, Zenon
<1> HIDE DEF n
<1>6. TypeOK'
  <2>1. len' \in 0..Cap /\ todo' \in [Threads -> 0..MaxLen]
    BY <1>1, <1>2, <1>5
  <2>2. pc' \in [Threads -> PcValues]
    BY <1>1, <1>2 DEF PcValues
  <2> QED
    BY <1>1, <2>1, <2>2 DEF IInv, TypeOK
<1>7. PlaceInv' /\ EndInv'
  BY <1>1, <1>2, <1>3, <1>4 DEF IInv, PlaceInv, EndInv
<1>8. WakeInv'
  <2>1. /\ \A u \in Threads : Waiting(u)' => Waiting(u)
        /\ \A u \in Threads : pc[u] = "wake" => pc'[u] = "wake"
    BY <1>1, <1>2 DEF Waiting
  <2>2. len' = len \/ pc'[t] = "wake"
    BY <1>1, <1>2
  <2> QED
    BY <1>1, <2>1, <2>2, WakeKept
<1> QED
  BY <1>6, <1>7, <1>8 DEF IInv

\* An appended element is in a sequence, and what was in it stays.
LEMMA InAppend ==
    ASSUME NEW s \in Seq(Threads), NEW t \in Threads, NEW u
    PROVE  In(u, Append(s, t)) <=> In(u, s) \/ u = t
BY DEF In

\* What is in a sequence is its head or in its tail.
LEMMA InTail ==
    ASSUME NEW s \in Seq(Threads), s # <<>>, NEW u, In(u, s)
    PROVE  u = Head(s) \/ In(u, Tail(s))
<1>1. PICK i \in 1..Len(s) : s[i] = u
  BY DEF In
<1>2. CASE i = 1
  BY <1>1, <1>2
<1>3. CASE i # 1
  <2>1. i - 1 \in 1..Len(Tail(s)) /\ Tail(s)[i - 1] = s[i]
    BY <1>3
  <2> QED
    BY <1>1, <2>1 DEF In
<1> QED
  BY <1>2, <1>3

\* The critical section of wait_if: the condition is tested and the thread
\* enqueued with no waker in between.
LEMMA EnqueuePreserves ==
    ASSUME IInv, NEW t \in Threads, Enqueue(t)
    PROVE  IInv'
<1>1. /\ pc[t] = "queue" /\ mode[t] = "runnable"
      /\ UNCHANGED <<len, alive, fds, end, todo, waking, calls, ended>>
  BY DEF Enqueue, At
<1>2. /\ pc \in [Threads -> PcValues] /\ token \in [Threads -> BOOLEAN]
      /\ queue \in Seq(Threads)
  BY DEF IInv, TypeOK
<1>3. end[t] \in Ends /\ waking[t] = <<>>
  BY <1>1 DEF IInv, PlaceInv
<1>4. CASE ShouldBlock(t)
  <2>1. /\ token' = [token EXCEPT ![t] = FALSE] /\ UNCHANGED <<mode, call>>
        /\ queue' = Append(queue, t)
        /\ pc' = [pc EXCEPT ![t] = "block"]
    BY <1>4 DEF Enqueue, Goto, P!Arm
  <2>2. token' \in [Threads -> BOOLEAN]
    BY <1>2, <2>1
  <2>3. TypeOK'
    BY <1>1, <1>2, <2>1, <2>2 DEF IInv, TypeOK, PcValues
  <2>4. PlaceInv' /\ EndInv'
    BY <1>1, <1>2, <1>3, <2>1 DEF IInv, PlaceInv, EndInv
  <2>5. \A u \in Threads : In(u, queue)' <=> In(u, queue) \/ u = t
    BY <1>2, <2>1, InAppend
  <2>6. /\ \A u \in Threads : ShouldBlock(u)' <=> ShouldBlock(u)
        /\ \A u, v \in Threads : In(u, waking[v])' <=> In(u, waking[v])
    BY <1>1 DEF ShouldBlock, In
  <2>7. WakeInv'
    <3> SUFFICES ASSUME NEW u \in Threads, Waiting(u)'
                 PROVE  /\ token'[u] \/ In(u, queue)' \/ \E v \in Threads : In(u, waking[v])'
                        /\ ~ShouldBlock(u)' => WakeComing(u)'
      BY DEF WakeInv
    <3>1. CASE u = t
      BY <1>4, <2>5, <2>6, <3>1
    <3>2. CASE u # t
      <4>1. Waiting(u) /\ token'[u] = token[u]
        BY <1>2, <2>1, <3>2 DEF Waiting
      <4>2. /\ token[u] \/ In(u, queue) \/ \E v \in Threads : In(u, waking[v])
            /\ ~ShouldBlock(u) => WakeComing(u)
        BY <4>1 DEF IInv, WakeInv
      <4>3. \A v \in Threads : pc[v] = "wake" => pc'[v] = "wake"
        BY <1>1, <1>2, <2>1
      <4> QED
        BY <2>5, <2>6, <4>1, <4>2, <4>3 DEF WakeComing
    <3> QED
      BY <3>1, <3>2
  <2> QED
    BY <2>3, <2>4, <2>7 DEF IInv
<1>5. CASE ~ShouldBlock(t)
  <2>1. /\ UNCHANGED <<queue, mode, token, call>>
        /\ pc' = [pc EXCEPT ![t] = Again(t)]
    BY <1>5 DEF Enqueue, Goto, parkVars
  <2>2. TypeOK'
    BY <1>1, <1>2, <2>1 DEF IInv, TypeOK, PcValues, Again
  <2>3. PlaceInv' /\ EndInv'
    BY <1>1, <1>2, <1>3, <2>1 DEF IInv, PlaceInv, EndInv, Again, Ends
  <2>4. WakeInv'
    BY <1>1, <1>2, <2>1, WakeKept DEF Waiting, Again
  <2> QED
    BY <2>2, <2>3, <2>4 DEF IInv
<1> QED
  BY <1>4, <1>5

\* block_current parks the thread it was enqueued for, or returns at once.
LEMMA BlockPreserves ==
    ASSUME IInv, NEW t \in Threads, Block(t)
    PROVE  IInv'
<1>1. /\ pc[t] = "block" /\ mode[t] = "runnable"
      /\ pc' = [pc EXCEPT ![t] = Again(t)]
      /\ UNCHANGED <<len, alive, fds, queue, end, todo, waking, calls, ended>>
  BY DEF Block, At, Goto
<1>2. /\ UNCHANGED <<token, call>>
      /\ UNCHANGED mode \/ mode' = [mode EXCEPT ![t] = "parked"]
  BY DEF Block, parkVars, P!Sleep, P!Become
<1>3. /\ pc \in [Threads -> PcValues] /\ mode \in [Threads -> {"runnable", "parked"}]
      /\ end[t] \in Ends
  BY <1>1 DEF IInv, TypeOK, PlaceInv
<1>4. TypeOK'
  <2>1. mode' \in [Threads -> {"runnable", "parked"}]
    BY <1>2, <1>3
  <2>2. pc' \in [Threads -> PcValues]
    BY <1>1, <1>3 DEF PcValues, Again
  <2> QED
    BY <1>1, <1>2, <2>1, <2>2 DEF IInv, TypeOK
<1>5. PlaceInv' /\ EndInv'
  BY <1>1, <1>3 DEF IInv, PlaceInv, EndInv, Again, Ends
<1>6. WakeInv'
  <2>1. /\ \A u \in Threads : Waiting(u)' => Waiting(u)
        /\ \A u \in Threads : pc[u] = "wake" => pc'[u] = "wake"
    BY <1>1, <1>2, <1>3 DEF Waiting
  <2> QED
    BY <1>1, <1>2, <2>1, WakeKept
<1> QED
  BY <1>4, <1>5, <1>6 DEF IInv

\* After wake_all a call ends or goes on with the rest of a write.
LEMMA WokeFacts ==
    ASSUME IInv, NEW t \in Threads, pc[t] \in {"wake", "unblock"},
           Woke(t), fds' = fds,
           waking'[t] = <<>>, \A u \in Threads \ {t} : waking'[u] = waking[u]
    PROVE  CallStep(t)
<1>1. /\ pc \in [Threads -> PcValues] /\ end \in [Threads -> Ends \cup {None}]
      /\ todo \in [Threads -> 0..MaxLen] /\ fds \in [Ends -> 0..MaxFds]
  BY DEF IInv, TypeOK
<1>2. CASE end[t] = None \/ todo[t] # 0
  <2>1. /\ UNCHANGED <<alive, end, todo>>
        /\ \/ end[t] = None /\ pc' = [pc EXCEPT ![t] = "idle"]
           \/ end[t] # None /\ pc' = [pc EXCEPT ![t] = Again(t)]
    BY <1>2 DEF Woke, Goto
  <2>2. pc' \in [Threads -> PcValues]
    BY <1>1, <2>1 DEF PcValues, Again
  <2>3. /\ pc'[t] \in {"idle", "read", "check"}
        /\ pc'[t] = "idle" => end[t] = None
        /\ pc'[t] = "read" => end[t] = "r"
        /\ pc'[t] = "check" => end[t] = "w"
    BY <1>1, <2>1 DEF Again, Ends
  <2>4. \A u \in Threads \ {t} : pc'[u] = pc[u]
    BY <1>1, <2>1
  <2>5. PlaceInv'
    BY <2>1, <2>3, <2>4 DEF IInv, PlaceInv
  <2>6. \A d \in Ends : d \notin alive => fds[d] = 0 /\ \A u \in Threads : end[u] # d
    BY DEF IInv, EndInv
  <2> QED
    BY <1>1, <2>1, <2>2, <2>3, <2>4, <2>5, <2>6 DEF CallStep
<1>3. CASE end[t] # None /\ todo[t] = 0
  <2>1. Release(t, end[t], fds[end[t]]) /\ end[t] \in Ends
    BY <1>1, <1>3 DEF Woke
  <2>2. end[t] \in alive
    BY <2>1 DEF IInv, EndInv
  <2> QED
    BY <1>1, <2>1, <2>2, ReleaseFacts
<1> QED
  BY <1>2, <1>3

\* wake_all drains the queue: every entry is now in the waker's hands.
LEMMA WakeAllPreserves ==
    ASSUME IInv, NEW t \in Threads, WakeAll(t)
    PROVE  IInv'
<1>1. /\ pc[t] = "wake" /\ mode[t] = "runnable"
      /\ waking' = [waking EXCEPT ![t] = queue]
      /\ queue' = <<>>
      /\ UNCHANGED <<fds, len, calls, ended, mode, token, call>>
  BY DEF WakeAll, At, parkVars
<1>2. /\ pc \in [Threads -> PcValues] /\ end \in [Threads -> Ends \cup {None}]
      /\ waking \in [Threads -> Seq(Threads)] /\ queue \in Seq(Threads)
  BY DEF IInv, TypeOK
<1>3. waking[t] = <<>>
  BY <1>1 DEF IInv, PlaceInv
<1>4. waking'[t] = queue /\ \A u \in Threads \ {t} : waking'[u] = waking[u]
  BY <1>1, <1>2
<1>5. CallStep(t)
  <2>1. CASE queue = <<>>
    BY <1>1, <1>4, <2>1, WokeFacts DEF WakeAll
  <2>2. CASE queue # <<>>
    <3>1. pc' = [pc EXCEPT ![t] = "unblock"] /\ UNCHANGED <<alive, end, todo>>
      BY <2>2 DEF WakeAll, Goto
    <3>2. PlaceInv'
      BY <1>2, <1>4, <3>1 DEF IInv, PlaceInv
    <3>3. pc' \in [Threads -> PcValues]
      BY <1>2, <3>1 DEF PcValues
    <3> QED
      BY <1>1, <1>2, <3>1, <3>2, <3>3 DEF IInv, TypeOK, EndInv, CallStep
  <2> QED
    BY <2>1, <2>2
<1>6. TypeOK' /\ EndInv'
  <2>1. waking' \in [Threads -> Seq(Threads)] /\ queue' \in Seq(Threads)
    BY <1>1, <1>2
  <2> QED
    BY <1>1, <1>5, <2>1 DEF IInv, TypeOK, EndInv, CallStep
<1>7. WakeInv'
  <2> SUFFICES ASSUME NEW u \in Threads, Waiting(u)'
               PROVE  token'[u] \/ \E v \in Threads : In(u, waking[v])'
    BY DEF WakeInv, WakeComing
  <2>1. u # t /\ Waiting(u)
    BY <1>1, <1>5 DEF Waiting, CallStep
  <2>2. token[u] \/ In(u, queue) \/ \E v \in Threads : In(u, waking[v])
    BY <2>1 DEF IInv, WakeInv
  <2>3. In(u, queue) => In(u, waking[t])'
    BY <1>4 DEF In
  <2>4. ASSUME NEW v \in Threads, In(u, waking[v]) PROVE In(u, waking[v])'
    <3>1. v # t
      BY <1>3, <2>4 DEF In
    <3> QED
      BY <1>4, <2>4, <3>1 DEF In
  <2> QED
    BY <1>1, <2>2, <2>3, <2>4
<1> QED
  BY <1>5, <1>6, <1>7 DEF IInv, CallStep

\* unblock records the wake before the waker forgets the thread.
LEMMA UnblockNextPreserves ==
    ASSUME IInv, NEW t \in Threads, UnblockNext(t)
    PROVE  IInv'
<1>1. /\ pc[t] = "unblock" /\ waking[t] # <<>>
      /\ token' = [token EXCEPT ![Head(waking[t])] = TRUE]
      /\ call' = [call EXCEPT ![t] = Head(waking[t])]
      /\ waking' = [waking EXCEPT ![t] = Tail(@)]
      /\ UNCHANGED <<len, alive, fds, queue, pc, end, todo, calls, ended, mode>>
  BY DEF UnblockNext, At, P!Wake
<1>2. /\ waking \in [Threads -> Seq(Threads)] /\ token \in [Threads -> BOOLEAN]
      /\ call \in [Threads -> Threads \cup {None}]
  BY DEF IInv, TypeOK
<1>3. waking[t] \in Seq(Threads) /\ Head(waking[t]) \in Threads /\ Tail(waking[t]) \in Seq(Threads)
  BY <1>1, <1>2
<1>4. TypeOK'
  <2>1. token' \in [Threads -> BOOLEAN]
    BY <1>1, <1>2, <1>3
  <2>2. call' \in [Threads -> Threads \cup {None}] /\ waking' \in [Threads -> Seq(Threads)]
    BY <1>1, <1>2, <1>3
  <2> QED
    BY <1>1, <2>1, <2>2, SMTT(30) DEF IInv, TypeOK
<1>5. PlaceInv' /\ EndInv'
  BY <1>1, <1>2 DEF IInv, PlaceInv, EndInv
<1>6. WakeInv'
  <2> SUFFICES ASSUME NEW u \in Threads, Waiting(u)'
               PROVE  /\ token'[u] \/ In(u, queue)' \/ \E v \in Threads : In(u, waking[v])'
                      /\ ~ShouldBlock(u)' => WakeComing(u)'
    BY DEF WakeInv
  <2>1. CASE u = Head(waking[t])
    <3>1. token'[u] = TRUE
      BY <1>1, <1>2, <1>3, <2>1
    <3> QED
      BY <3>1 DEF WakeComing
  <2>2. CASE u # Head(waking[t])
    <3>1. token'[u] = token[u]
      BY <1>1, <1>2, <1>3, <2>2
    <3>2. ASSUME NEW v \in Threads, In(u, waking[v]) PROVE In(u, waking[v])'
      <4>1. CASE v = t
        <5>1. In(u, Tail(waking[t]))
          BY <1>1, <1>3, <2>2, <3>2, <4>1, InTail
        <5>2. waking'[t] = Tail(waking[t])
          BY <1>1, <1>2
        <5> QED
          BY <4>1, <5>1, <5>2 DEF In
      <4>2. CASE v # t
        <5>1. waking'[v] = waking[v]
          BY <1>1, <1>2, <4>2
        <5> QED
          BY <3>2, <5>1 DEF In
      <4> QED
        BY <4>1, <4>2
    <3>3. /\ In(u, queue)' <=> In(u, queue)
          /\ ShouldBlock(u)' <=> ShouldBlock(u)
          /\ Waiting(u)
      BY <1>1 DEF In, ShouldBlock, Waiting
    <3>4. /\ token[u] \/ In(u, queue) \/ \E v \in Threads : In(u, waking[v])
          /\ ~ShouldBlock(u) => WakeComing(u)
      BY <3>3 DEF IInv, WakeInv
    <3> QED
      BY <1>1, <3>1, <3>2, <3>3, <3>4 DEF WakeComing
  <2> QED
    BY <2>1, <2>2
<1> QED
  BY <1>4, <1>5, <1>6 DEF IInv

\* The rest of unblock, and of the call after the last of them.
LEMMA UnblockedPreserves ==
    ASSUME IInv, NEW t \in Threads, Unblocked(t)
    PROVE  IInv'
<1>1. /\ pc[t] = "unblock" /\ mode[t] = "runnable" /\ call[t] # None
      /\ call' = [call EXCEPT ![t] = None]
      /\ \/ mode' = mode
         \/ mode' = [mode EXCEPT ![call[t]] = "runnable"]
      /\ UNCHANGED <<fds, len, queue, waking, calls, ended, token>>
  BY DEF Unblocked, At, P!Return, P!Become
<1>2. /\ pc \in [Threads -> PcValues] /\ end \in [Threads -> Ends \cup {None}]
      /\ mode \in [Threads -> {"runnable", "parked"}]
      /\ call \in [Threads -> Threads \cup {None}]
  BY DEF IInv, TypeOK
<1>3. CallStep(t)
  <2>1. CASE waking[t] = <<>>
    BY <1>1, <2>1, WokeFacts DEF Unblocked
  <2>2. CASE waking[t] # <<>>
    <3>1. UNCHANGED <<pc, alive, end, todo>>
      BY <2>2 DEF Unblocked
    <3> QED
      BY <1>1, <3>1 DEF IInv, TypeOK, PlaceInv, EndInv, CallStep
  <2> QED
    BY <2>1, <2>2
<1>4. TypeOK' /\ EndInv'
  <2>1. mode' \in [Threads -> {"runnable", "parked"}] /\ call' \in [Threads -> Threads \cup {None}]
    BY <1>1, <1>2
  <2> QED
    BY <1>1, <1>3, <2>1, SMTT(30) DEF IInv, TypeOK, EndInv, CallStep
<1>5. WakeInv'
  <2>1. /\ \A u \in Threads : Waiting(u)' => Waiting(u) /\ end'[u] = end[u]
        /\ \A u \in Threads : pc[u] = "wake" => pc'[u] = "wake"
    <3>1. \A u \in Threads : mode'[u] = "parked" => mode[u] = "parked"
      BY <1>1, <1>2
    <3> QED
      BY <1>1, <1>3, <3>1 DEF Waiting, CallStep
  <2>2. UNCHANGED alive \/ pc'[t] = "wake"
    BY <1>3 DEF CallStep
  <2> QED
    BY <1>1, <2>1, <2>2, WakeKept
<1> QED
  BY <1>3, <1>4, <1>5 DEF IInv, CallStep

\* The scheduler resumes a thread whose wake was recorded.
LEMMA ResumePreserves ==
    ASSUME IInv, NEW t \in Threads, Resume(t)
    PROVE  IInv'
<1>1. /\ mode' = [mode EXCEPT ![t] = "runnable"]
      /\ UNCHANGED <<len, alive, fds, queue, pc, end, todo, waking, calls, ended, token, call>>
  BY DEF Resume, P!Resume, P!Become
<1>2. mode \in [Threads -> {"runnable", "parked"}]
  BY DEF IInv, TypeOK
<1>3. /\ mode' \in [Threads -> {"runnable", "parked"}]
      /\ \A u \in Threads : mode'[u] = "parked" => mode[u] = "parked"
  BY <1>1, <1>2
<1>4. TypeOK' /\ PlaceInv' /\ EndInv'
  BY <1>1, <1>3, SMTT(30) DEF IInv, TypeOK, PlaceInv, EndInv
<1>5. WakeInv'
  BY <1>1, <1>3, WakeKept DEF Waiting
<1> QED
  BY <1>4, <1>5 DEF IInv

\* Every step of every call keeps the invariant.
LEMMA NextIInv == IInv /\ [Next]_vars => IInv'
<1> SUFFICES ASSUME IInv, [Next]_vars PROVE IInv'
  OBVIOUS
<1>1. ASSUME NEW t \in Threads, Dup(t) \/ Close(t) \/ Enter(t) \/ Proceed(t) \/ Resume(t)
      PROVE  IInv'
  BY <1>1, DupPreserves, ClosePreserves, EnterPreserves, ReadPreserves, CheckPreserves,
     PutPreserves, EnqueuePreserves, BlockPreserves, WakeAllPreserves,
     UnblockNextPreserves, UnblockedPreserves, ResumePreserves DEF Proceed
<1>2. CASE UNCHANGED vars
  BY <1>2 DEF vars, IInv, TypeOK, PlaceInv, EndInv, WakeInv, Waiting, WakeComing,
     ShouldBlock, In
<1> QED
  BY <1>1, <1>2 DEF Next

\* The pipe's state stays consistent, whoever calls what and when.
THEOREM PipeInvariance == Spec => []IInv
BY InitIInv, NextIInv, PTL DEF Spec

\* No reader and no writer of a pipe sleeps over data, space or a closed end
\* that nobody is about to wake it for.
THEOREM PipeWakeSafety == Spec => []NoSleepOverChange
<1>1. IInv => NoSleepOverChange
  BY DEF IInv, WakeInv, Waiting, NoSleepOverChange
<1> QED
  BY <1>1, PipeInvariance, PTL

\* End-of-file is the end: no data is left behind and no write is under way.
THEOREM PipeEofSafety == Spec => []EofIsFinal
<1>1. IInv => EofIsFinal
  BY DEF IInv, EndInv, EofIsFinal, Ends
<1> QED
  BY <1>1, PipeInvariance, PTL

=============================================================================
