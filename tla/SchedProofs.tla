---------------------------- MODULE SchedProofs ----------------------------
(* The scheduler's invariant and what follows from it, for any number of *)
(* CPUs and threads. *)
EXTENDS Sched, TLAPS

(* The ready queue, the choice of the next thread, the switch of a CPU to it *)
(* and the boot of the CPUs: what they keep of the invariant. *)

\* The range of a sequence is what its positions hold.
LEMMA RangeOfSeq ==
    ASSUME NEW S, NEW s \in Seq(S)
    PROVE  /\ Range(s) = {s[i] : i \in 1..Len(s)}
           /\ Len(s) \in Nat
           /\ \A i \in 1..Len(s) : s[i] \in S
<1>1. DOMAIN s = 1..Len(s) /\ Len(s) \in Nat /\ \A i \in 1..Len(s) : s[i] \in S
  OBVIOUS
<1> QED
  BY <1>1, Zenon DEF Range

\* Appending adds exactly the new element to a sequence's range.
LEMMA AppendRange ==
    ASSUME NEW S, NEW s \in Seq(S), NEW e \in S
    PROVE  Range(Append(s, e)) = Range(s) \cup {e}
<1>1. /\ Append(s, e) \in Seq(S)
      /\ Len(Append(s, e)) = Len(s) + 1
      /\ \A i \in 1..Len(s) : Append(s, e)[i] = s[i]
      /\ Append(s, e)[Len(s) + 1] = e
  OBVIOUS
<1>2. /\ Range(s) = {s[i] : i \in 1..Len(s)}
      /\ Range(Append(s, e)) = {Append(s, e)[i] : i \in 1..Len(Append(s, e))}
  BY <1>1, RangeOfSeq, Zenon
<1>3. Len(s) \in Nat
  OBVIOUS
<1> QED
  BY <1>1, <1>2, <1>3

\* Appending a new element keeps a sequence free of duplicates.
LEMMA AppendNoDup ==
    ASSUME NEW S, NEW s \in Seq(S), NEW e \in S, e \notin Range(s),
           \A i, j \in 1..Len(s) : s[i] = s[j] => i = j
    PROVE  \A i, j \in 1..Len(Append(s, e)) :
               Append(s, e)[i] = Append(s, e)[j] => i = j
<1>1. /\ Len(Append(s, e)) = Len(s) + 1
      /\ \A i \in 1..Len(s) : Append(s, e)[i] = s[i]
      /\ Append(s, e)[Len(s) + 1] = e
  OBVIOUS
<1>2. \A i \in 1..Len(s) : s[i] # e
  BY RangeOfSeq
<1>3. Len(s) \in Nat
  OBVIOUS
<1> QED
  BY <1>1, <1>2, <1>3

\* The ready queue of a state that satisfies the invariant holds no phantom.
LEMMA InvNoPhantoms ==
    ASSUME IInv
    PROVE  NoPhantoms
<1> SUFFICES ASSUME NEW i \in 1..Len(ready)
             PROVE  ~Stale(ready[i])
  BY DEF NoPhantoms
<1> DEFINE t == ready[i]
<1>1. t \in Threads /\ t \in Range(ready)
  BY RangeOfSeq DEF IInv, TypeOK
<1>2. state[t] = "Ready" /\ \A c \in Cpus : handoff[c] # t
  BY <1>1 DEF IInv, ReadyInv
<1>3. \A c \in Cpus : current[c] # t
  BY <1>1, <1>2, SchedAssumption DEF IInv, CurrentInv, AllThreads
<1>4. ~running[t]
  BY <1>1, <1>2, <1>3 DEF IInv, OffInv, Off, AllThreads
<1> QED
  BY <1>2, <1>3, <1>4 DEF Stale

\* What is left of a duplicate-free sequence once its head is popped.
LEMMA PopFront ==
    ASSUME NEW S, NEW s \in Seq(S), Len(s) # 0,
           \A i, j \in 1..Len(s) : s[i] = s[j] => i = j,
           NEW rest \in Seq(S), Len(rest) = Len(s) - 1,
           \A i \in 1..(Len(s) - 1) : rest[i] = s[i + 1]
    PROVE  /\ Range(rest) = Range(s) \ {s[1]}
           /\ \A i, j \in 1..Len(rest) : rest[i] = rest[j] => i = j
           /\ s[1] \in S /\ s[1] \in Range(s)
<1>1. Len(s) \in Nat /\ Range(s) = {s[i] : i \in 1..Len(s)}
  BY RangeOfSeq
<1>2. \A i \in 1..Len(s) : s[i] \in S
  BY RangeOfSeq
<1>4. Len(rest) = Len(s) - 1
  OBVIOUS
<1>5. \A i \in 1..Len(rest) : rest[i] = s[i + 1] /\ i + 1 \in 1..Len(s)
  BY <1>1, <1>4
<1>6. Range(rest) = {rest[i] : i \in 1..Len(rest)}
  BY RangeOfSeq
<1>7. ASSUME NEW x \in Range(rest) PROVE x \in Range(s) /\ x # s[1]
  <2>1. PICK i \in 1..Len(rest) : x = rest[i]
    BY <1>6
  <2>2. x = s[i + 1] /\ i + 1 \in 1..Len(s) /\ 1 \in 1..Len(s) /\ i + 1 # 1
    BY <2>1, <1>5, <1>4, <1>1
  <2> QED
    BY <2>2, <1>1
<1>8. ASSUME NEW x \in Range(s), x # s[1] PROVE x \in Range(rest)
  <2>1. PICK i \in 1..Len(s) : x = s[i]
    BY <1>1
  <2>2. i - 1 \in 1..Len(rest) /\ i - 1 + 1 = i
    BY <2>1, <1>8, <1>4, <1>1
  <2>3. rest[i - 1] = x
    BY <2>1, <2>2, <1>5
  <2> QED
    BY <2>2, <2>3, <1>6
<1>9. \A i, j \in 1..Len(rest) : rest[i] = rest[j] => i = j
  <2> SUFFICES ASSUME NEW i \in 1..Len(rest), NEW j \in 1..Len(rest),
                      rest[i] = rest[j]
               PROVE  i = j
    OBVIOUS
  <2>1. i + 1 = j + 1
    BY <1>5
  <2> QED
    BY <2>1, <1>4, <1>1
<1>10. s[1] \in S /\ s[1] \in Range(s)
  BY <1>1, <1>2
<1> QED
  BY <1>7, <1>8, <1>9, <1>10

\* pick_next takes the head of the queue, or the idle thread of the CPU when
\* the queue is empty; nothing else leaves the queue.
LEMMA PickFacts ==
    ASSUME IInv, NEW c \in Cpus
    PROVE  /\ AfterPick \in Seq(Threads)
           /\ Range(AfterPick) = Range(ready) \ {PickNext(c)}
           /\ \A i, j \in 1..Len(AfterPick) : AfterPick[i] = AfterPick[j] => i = j
           /\ \/ PickNext(c) \in Range(ready) /\ PickNext(c) \in Threads
              \/ PickNext(c) = IdleOf[c] /\ Range(ready) = {}
<1>1. ready \in Seq(Threads) /\ Len(ready) \in Nat
  BY DEF IInv, TypeOK
<1>2. Live = 1..Len(ready)
  BY InvNoPhantoms DEF NoPhantoms, Live
<1>3. \A i, j \in 1..Len(ready) : ready[i] = ready[j] => i = j
  BY DEF IInv, ReadyInv
<1>4. Range(ready) = {ready[i] : i \in 1..Len(ready)}
  BY <1>1, RangeOfSeq
<1>5. CASE Len(ready) = 0
  <2>1. Live = {} /\ AfterPick = <<>> /\ PickNext(c) = IdleOf[c]
    BY <1>2, <1>5 DEF AfterPick, PickNext
  <2>2. Range(ready) = {} /\ ready = <<>>
    BY <1>1, <1>4, <1>5
  <2> QED
    BY <2>1, <2>2, <1>1, <1>3
<1>6. CASE Len(ready) # 0
  <2>1. 1 \in Live /\ \A j \in Live : 1 <= j
    BY <1>1, <1>2, <1>6
  <2>2. FirstLive \in Live /\ \A j \in Live : FirstLive <= j
    BY <2>1 DEF FirstLive
  <2>3. FirstLive = 1
    BY <1>1, <1>2, <2>1, <2>2
  <2>4. PickNext(c) = ready[1] /\ AfterPick = SubSeq(ready, 2, Len(ready))
    BY <2>1, <2>3 DEF PickNext, AfterPick
  <2>5. 2 \in Int /\ Len(ready) \in Int /\ \A i \in 2..Len(ready) : ready[i] \in Threads
    BY <1>1, RangeOfSeq
  <2>6. /\ SubSeq(ready, 2, Len(ready)) \in Seq(Threads)
        /\ Len(SubSeq(ready, 2, Len(ready))) =
              IF 2 <= Len(ready) THEN Len(ready) - 2 + 1 ELSE 0
        /\ \A i \in 1..(Len(ready) - 2 + 1) :
              SubSeq(ready, 2, Len(ready))[i] = ready[2 + i - 1]
    BY <1>1, <2>5
  <2>7. AfterPick \in Seq(Threads)
    BY <2>4, <2>6
  <2>8. Len(AfterPick) = Len(ready) - 1
    <3>1. Len(AfterPick) = IF 2 <= Len(ready) THEN Len(ready) - 2 + 1 ELSE 0
      BY <2>4, <2>6, Zenon
    <3> QED
      BY <3>1, <1>1, <1>6
  <2>9. \A i \in 1..(Len(ready) - 1) : AfterPick[i] = ready[i + 1]
    BY <2>4, <2>6, <1>1, <1>6
  <2>10. /\ Range(AfterPick) = Range(ready) \ {ready[1]}
         /\ \A i, j \in 1..Len(AfterPick) : AfterPick[i] = AfterPick[j] => i = j
         /\ ready[1] \in Threads /\ ready[1] \in Range(ready)
    BY <2>7, <2>8, <2>9, <1>1, <1>3, <1>6, PopFront, SMTT(30)
  <2> QED
    BY <2>4, <2>7, <2>10
<1> QED
  BY <1>5, <1>6

----------------------------------------------------------------------------
\* Idle threads are threads of their own.
LEMMA IdleType ==
    ASSUME NEW c \in Cpus
    PROVE  /\ IdleOf[c] \in AllThreads /\ IdleOf[c] \in Idles
           /\ IdleOf[c] \notin Threads /\ IdleOf[c] # None
BY SchedAssumption DEF Idles, AllThreads

\* A CPU's idle thread is never in another CPU's slots, nor in the queue.
LEMMA IdleApart ==
    ASSUME IInv, NEW c \in Cpus
    PROVE  /\ IdleOf[c] \in AllThreads /\ IdleOf[c] \in Idles
           /\ IdleOf[c] \notin Threads /\ IdleOf[c] # None
           /\ \A d \in Cpus : d # c =>
                current[d] # IdleOf[c] /\ handoff[d] # IdleOf[c]
<1>1. IdleOf[c] \in Idles /\ IdleOf[c] \notin Threads /\ IdleOf[c] # None
  BY SchedAssumption DEF Idles, AllThreads
<1>2. ASSUME NEW d \in Cpus, d # c
      PROVE  current[d] # IdleOf[c] /\ handoff[d] # IdleOf[c]
  <2>1. IdleOf[d] # IdleOf[c]
    BY <1>2, SchedAssumption
  <2> QED
    BY <2>1, <1>1 DEF IInv, SlotInv
<1> QED
  BY <1>1, <1>2 DEF AllThreads

\* The thread pick_next chooses, unless it is the one running already, is off
\* every CPU with its context saved.
LEMMA PickedIsOff ==
    ASSUME IInv, NEW c \in Cpus, handoff[c] = None, current[c] # None,
           PickNext(c) # current[c]
    PROVE  /\ PickNext(c) \in AllThreads
           /\ Off(PickNext(c))
           /\ saved[PickNext(c)]
           /\ ~running[PickNext(c)]
           /\ PickNext(c) \in Threads => state[PickNext(c)] = "Ready"
           /\ PickNext(c) \in Threads \cup {IdleOf[c]}
<1> DEFINE n == PickNext(c)
<1>1. CASE n \in Threads /\ n \in Range(ready)
  <2>1. state[n] = "Ready" /\ \A d \in Cpus : handoff[d] # n
    BY <1>1 DEF IInv, ReadyInv
  <2>2. \A d \in Cpus : current[d] # n
    BY <1>1, <2>1, SchedAssumption DEF IInv, CurrentInv, AllThreads
  <2>3. Off(n)
    BY <2>1, <2>2 DEF Off
  <2> QED
    BY <1>1, <2>1, <2>3 DEF IInv, OffInv, AllThreads
<1>2. CASE n = IdleOf[c]
  <2>1. Off(n) /\ n \in AllThreads /\ n \notin Threads
    BY <1>2, IdleApart DEF Off
  <2> QED
    BY <1>2, <2>1 DEF IInv, OffInv, IdleInv
<1> QED
  BY <1>1, <1>2, PickFacts

\* The SCHED section that publishes a switch preserves the invariant.
LEMMA SwitchPreserves ==
    ASSUME IInv, NEW c \in Cpus, NEW s \in ThreadStates, NEW b \in BOOLEAN,
           pc[c] \in {"run", "armed"}, current[c] # None,
           PickNext(c) # current[c],
           \/ /\ current[c] \in Threads
              /\ \/ s = "Ready" /\ ~b
                 \/ s = "Blocked" /\ b /\ ~wakePending[current[c]]
                 \/ s = "Exited" /\ b
           \/ current[c] \in Idles /\ s = "Running" /\ ~b,
           SwitchFrom(c, s, b)
    PROVE  IInv'
<1> DEFINE p == current[c]
<1> DEFINE n == PickNext(c)
<1>1. /\ handoff[c] = None /\ target[c] = None
      /\ p \in AllThreads /\ p \in Threads \cup {IdleOf[c]}
      /\ running[p] /\ state[p] = "Running"
      /\ \A d \in Cpus : d # c => p # current[d] /\ p # handoff[d]
  BY SchedAssumption DEF IInv, SlotInv, DistinctInv, CurrentInv, TypeOK, Switching
<1>2. /\ n \in AllThreads /\ n \in Threads \cup {IdleOf[c]}
      /\ \A d \in Cpus : n # current[d] /\ n # handoff[d]
      /\ saved[n] /\ ~running[n]
      /\ n \in Threads => state[n] = "Ready"
      /\ n # p
  BY <1>1, PickedIsOff DEF Off
<1>3. s \in ThreadStates /\ b \in BOOLEAN
  OBVIOUS
<1>4. /\ state' = [state EXCEPT ![p] = s, ![n] = "Running"]
      /\ ready' = AfterPick
      /\ handoff' = [handoff EXCEPT ![c] = p]
      /\ blocking' = [blocking EXCEPT ![c] = b]
      /\ current' = [current EXCEPT ![c] = n]
      /\ pc' = [pc EXCEPT ![c] = "claim"]
      /\ UNCHANGED <<running, wakePending, saved, target>>
  BY DEF SwitchFrom
<1>5. TypeOK
  BY DEF IInv
<1>6. TypeOK'
  BY <1>1, <1>2, <1>3, <1>4, <1>5, PickFacts
  DEF TypeOK, PcValues, ThreadStates
<1>7. /\ \A t \in AllThreads : state'[t] = IF t = n THEN "Running"
                                         ELSE IF t = p THEN s ELSE state[t]
      /\ current'[c] = n /\ handoff'[c] = p /\ pc'[c] = "claim" /\ blocking'[c] = b
      /\ \A d \in Cpus : d # c =>
            /\ current'[d] = current[d] /\ handoff'[d] = handoff[d]
            /\ pc'[d] = pc[d] /\ blocking'[d] = blocking[d]
      /\ UNCHANGED <<running, wakePending, saved, target>>
  BY <1>1, <1>2, <1>4, <1>5 DEF TypeOK
<1>8. None \notin AllThreads /\ None \notin Threads /\ Boot \in Threads /\ Bsp \in Cpus
      /\ Threads \subseteq AllThreads
  BY SchedAssumption DEF AllThreads
<1>9. SlotInv'
  <2>1. SlotInv
    BY DEF IInv
  <2>2. p # None /\ n # None
    BY <1>1, <1>2, <1>8
  <2>3. ASSUME NEW d \in Cpus
        PROVE  /\ pc'[d] = "offline" <=> current'[d] = None
               /\ Switching(d)' <=> handoff'[d] # None
               /\ pc'[d] = "unblock" <=> target'[d] # None
               /\ pc'[d] = "armed" => current'[d] \in Threads
               /\ current'[d] \in Threads \cup {IdleOf[d], None}
               /\ handoff'[d] \in Threads \cup {IdleOf[d], None}
               /\ handoff'[d] # None => handoff'[d] # current'[d]
    BY <1>1, <1>2, <1>7, <2>1, <2>2 DEF SlotInv, Switching
  <2>4. pc'[Bsp] = "offline" => state'[Boot] = "Unborn"
    <3>1. pc'[Bsp] = "offline" => pc[Bsp] = "offline"
      BY <1>7, <1>8
    <3>2. state[Boot] = "Unborn" => Boot # p /\ Boot # n
      BY <1>1, <1>2, <1>8
    <3> QED
      BY <3>1, <3>2, <2>1, <1>7, <1>8 DEF SlotInv
  <2> QED
    BY <2>3, <2>4 DEF SlotInv
<1>10. DistinctInv'
  BY <1>1, <1>2, <1>7 DEF IInv, DistinctInv
<1>11. CurrentInv'
  <2> SUFFICES ASSUME NEW d \in Cpus, current'[d] # None
               PROVE  /\ state'[current'[d]] = "Running"
                      /\ running'[current'[d]] <=> pc'[d] # "claim"
                      /\ pc'[d] \in {"claim", "switch"} => saved'[current'[d]]
    BY DEF CurrentInv
  <2>1. CASE d = c
    BY <2>1, <1>2, <1>7
  <2>2. CASE d # c
    <3>1. current[d] \in AllThreads /\ current[d] # p /\ current[d] # n
      BY <2>2, <1>1, <1>2, <1>5, <1>7 DEF TypeOK
    <3> QED
      BY <2>2, <3>1, <1>7 DEF IInv, CurrentInv
  <2> QED
    BY <2>1, <2>2
<1>12. HandoffInv'
  <2> SUFFICES ASSUME NEW d \in Cpus, handoff'[d] # None
               PROVE  /\ running'[handoff'[d]]
                      /\ handoff'[d] \in Threads =>
                            IF blocking'[d] THEN state'[handoff'[d]] \in {"Blocked", "Exited"}
                                            ELSE state'[handoff'[d]] = "Ready"
                      /\ pc'[d] = "finish" =>
                            saved'[handoff'[d]] \/ state'[handoff'[d]] = "Exited"
    BY DEF HandoffInv
  <2>1. CASE d = c
    BY <2>1, <1>1, <1>2, <1>7, SchedAssumption
  <2>2. CASE d # c
    <3>1. handoff[d] \in AllThreads /\ handoff[d] # p /\ handoff[d] # n
      BY <2>2, <1>1, <1>2, <1>5, <1>7 DEF TypeOK
    <3> QED
      BY <2>2, <3>1, <1>7 DEF IInv, HandoffInv
  <2> QED
    BY <2>1, <2>2
<1>13. OffInv'
  <2> SUFFICES ASSUME NEW t \in AllThreads, Off(t)'
               PROVE  /\ ~running'[t]
                      /\ t \in Threads /\ state'[t] \in {"Ready", "Blocked"} => saved'[t]
                      /\ t \in Threads => state'[t] # "Running"
    BY DEF OffInv
  <2>1. t # p /\ t # n /\ Off(t)
    <3>1. \A d \in Cpus : t # current'[d] /\ t # handoff'[d]
      BY DEF Off
    <3>2. t # p /\ t # n /\ t # None
      BY <3>1, <1>7, <1>8
    <3>3. \A d \in Cpus : t # current[d] /\ t # handoff[d]
      BY <3>1, <3>2, <1>1, <1>7
    <3> QED
      BY <3>2, <3>3 DEF Off
  <2> QED
    BY <2>1, <1>7 DEF IInv, OffInv
<1>14. IdleInv'
  <2> SUFFICES ASSUME NEW d \in Cpus
               PROVE  /\ current'[d] # None /\ Off(IdleOf[d])' => saved'[IdleOf[d]]
                      /\ state'[IdleOf[d]] \notin {"Exited", "Freed"}
    BY DEF IdleInv
  <2>1. IdleOf[d] \in AllThreads /\ IdleOf[d] \notin Threads
    BY IdleApart
  <2>2. current'[d] # None /\ Off(IdleOf[d])' => current[d] # None /\ Off(IdleOf[d])
    <3> SUFFICES ASSUME current'[d] # None, Off(IdleOf[d])'
                 PROVE  current[d] # None /\ Off(IdleOf[d])
      OBVIOUS
    <3>1. \A e \in Cpus : IdleOf[d] # current'[e] /\ IdleOf[d] # handoff'[e]
      BY DEF Off
    <3>2. IdleOf[d] # p /\ IdleOf[d] # n /\ IdleOf[d] # None
      BY <3>1, <2>1, <1>7, <1>8
    <3>3. \A e \in Cpus : IdleOf[d] # current[e] /\ IdleOf[d] # handoff[e]
      BY <3>1, <3>2, <1>1, <1>7
    <3>4. current[d] # None
      BY <1>1, <1>7, <1>8
    <3> QED
      BY <3>3, <3>4 DEF Off
  <2>3. IdleOf[d] = p => s = "Running"
    BY <2>1
  <2> QED
    BY <2>1, <2>2, <2>3, <1>7 DEF IInv, IdleInv
<1>15. ReadyInv'
  <2>1. ASSUME NEW t \in Threads
        PROVE  t \in Range(ready)' <=>
                  state'[t] = "Ready" /\ \A d \in Cpus : handoff'[d] # t
    <3>1. Range(ready)' = Range(ready) \ {n}
      BY <1>4, PickFacts
    <3>2. t \in Range(ready) <=> state[t] = "Ready" /\ \A d \in Cpus : handoff[d] # t
      BY DEF IInv, ReadyInv
    <3>3. t \in AllThreads
      BY <1>8
    <3>4. CASE t = n
      BY <3>1, <3>3, <3>4, <1>7
    <3>5. CASE t = p
      <4>1. t \notin Range(ready)
        BY <3>2, <3>5, <1>1
      <4> QED
        BY <3>1, <3>5, <4>1, <1>7
    <3>6. CASE t # p /\ t # n
      <4>1. state'[t] = state[t]
        BY <3>3, <3>6, <1>7
      <4>2. (\A d \in Cpus : handoff'[d] # t) <=> (\A d \in Cpus : handoff[d] # t)
        BY <3>6, <1>1, <1>7, <1>8
      <4> QED
        BY <3>1, <3>2, <3>6, <4>1, <4>2
    <3> QED
      BY <3>4, <3>5, <3>6
  <2>2. \A i, j \in 1..Len(ready') : ready'[i] = ready'[j] => i = j
    BY <1>4, PickFacts
  <2> QED
    BY <2>1, <2>2 DEF ReadyInv
<1>16. NoLostWakeup'
  <2> SUFFICES ASSUME NEW t \in Threads, state'[t] = "Blocked", wakePending'[t]
               PROVE  \E d \in Cpus : handoff'[d] = t \/ target'[d] = t
    BY DEF NoLostWakeup
  <2>1. t \in AllThreads /\ t # n
    BY <1>7, <1>8
  <2>2. t # p
    <3> SUFFICES ASSUME t = p PROVE FALSE
      OBVIOUS
    <3>1. s = "Blocked"
      BY <2>1, <1>7
    <3>2. ~wakePending[t]
      BY <3>1
    <3> QED
      BY <3>2, <1>7
  <2>3. state[t] = "Blocked" /\ wakePending[t]
    BY <2>1, <2>2, <1>7
  <2>4. PICK d \in Cpus : handoff[d] = t \/ target[d] = t
    BY <2>3 DEF IInv, NoLostWakeup
  <2>5. handoff'[d] = t \/ target'[d] = t
    BY <2>4, <1>1, <1>7, <1>8
  <2> QED
    BY <2>5
<1> QED
  BY <1>6, <1>9, <1>10, <1>11, <1>12, <1>13, <1>14, <1>15, <1>16 DEF IInv

\* pick_next never returns the ordinary thread that is running.
LEMMA PickedIsNotCurrent ==
    ASSUME IInv, NEW c \in Cpus, current[c] # None,
           PickNext(c) = current[c]
    PROVE  current[c] = IdleOf[c] /\ Range(ready) = {}
<1>1. ASSUME PickNext(c) \in Range(ready), PickNext(c) \in Threads
      PROVE  FALSE
  <2>1. state[PickNext(c)] = "Ready"
    BY <1>1 DEF IInv, ReadyInv
  <2>2. state[current[c]] = "Running"
    BY DEF IInv, CurrentInv
  <2> QED
    BY <2>1, <2>2
<1> QED
  BY <1>1, PickFacts

\* The initial states satisfy the invariant.
LEMMA InitIInv == Init => IInv
<1> SUFFICES ASSUME Init PROVE IInv
  OBVIOUS
<1>1. None \notin AllThreads /\ Boot \in Threads /\ Bsp \in Cpus /\ Threads \subseteq AllThreads
  BY SchedAssumption DEF AllThreads
<1>2. <<>> \in Seq(Threads) /\ Len(<<>>) = 0
  OBVIOUS
<1>3. Range(ready) = {}
  BY DEF Init, Range
<1>4. TypeOK
  BY <1>2 DEF Init, TypeOK, ThreadStates, PcValues
<1>5. SlotInv /\ DistinctInv /\ CurrentInv /\ HandoffInv
  BY <1>1 DEF Init, SlotInv, DistinctInv, CurrentInv, HandoffInv, Switching
<1>6. OffInv
  BY DEF Init, OffInv
<1>7. IdleInv
  BY IdleType DEF Init, IdleInv
<1>8. ReadyInv
  BY <1>1, <1>2, <1>3 DEF Init, ReadyInv
<1>9. NoLostWakeup
  BY <1>1 DEF Init, NoLostWakeup
<1> QED
  BY <1>4, <1>5, <1>6, <1>7, <1>8, <1>9 DEF IInv

\* init_bsp preserves the invariant.
LEMMA InitBspPreserves ==
    ASSUME IInv, InitBsp
    PROVE  IInv'
<1> DEFINE i == IdleOf[Bsp]
<1>1. /\ Bsp \in Cpus /\ Boot \in Threads /\ Threads \subseteq AllThreads
      /\ None \notin AllThreads /\ i \in AllThreads /\ i \notin Threads /\ i # Boot
      /\ IdleOf[Bsp] \in Idles
  BY SchedAssumption, IdleApart DEF AllThreads
<1>2. /\ current[Bsp] = None /\ handoff[Bsp] = None /\ target[Bsp] = None
      /\ pc[Bsp] = "offline" /\ state[Boot] = "Unborn"
  BY <1>1 DEF IInv, SlotInv, Switching, InitBsp
<1>3. TypeOK
  BY DEF IInv
<1>4. TypeOK'
  BY <1>1, <1>3 DEF TypeOK, InitBsp, ThreadStates, PcValues
<1>5. /\ \A t \in AllThreads : state'[t] = IF t = Boot THEN "Running"
                                          ELSE IF t = i THEN "Ready" ELSE state[t]
      /\ \A t \in AllThreads : running'[t] = IF t = Boot THEN TRUE ELSE running[t]
      /\ \A t \in AllThreads : saved'[t] = IF t = i THEN TRUE ELSE saved[t]
      /\ \A d \in Cpus : current'[d] = IF d = Bsp THEN Boot ELSE current[d]
      /\ \A d \in Cpus : pc'[d] = IF d = Bsp THEN "run" ELSE pc[d]
      /\ UNCHANGED <<wakePending, ready, handoff, blocking, target>>
  BY <1>1, <1>3 DEF TypeOK, InitBsp
<1>6. \A d \in Cpus : current[d] # Boot /\ handoff[d] # Boot
  BY <1>1, <1>2 DEF IInv, CurrentInv, HandoffInv
<1>7. \A d \in Cpus : current[d] # i /\ handoff[d] # i
  BY <1>1, <1>2, IdleApart
<1>8. SlotInv'
  BY <1>1, <1>2, <1>5 DEF IInv, SlotInv, Switching
<1>9. DistinctInv'
  <2> SUFFICES ASSUME NEW c \in Cpus, NEW d \in Cpus, c # d
               PROVE  /\ current'[c] # None => current'[c] # current'[d] /\ current'[c] # handoff'[d]
                      /\ handoff'[c] # None => handoff'[c] # handoff'[d]
    BY DEF DistinctInv
  <2>1. /\ current[c] # None => current[c] # current[d] /\ current[c] # handoff[d]
        /\ handoff[c] # None => handoff[c] # handoff[d]
    BY DEF IInv, DistinctInv
  <2>2. handoff' = handoff
    BY <1>5
  <2>3. CASE c = Bsp
    <3>1. current'[c] = Boot /\ current'[d] = current[d]
      BY <2>3, <1>5
    <3> QED
      BY <3>1, <2>1, <2>2, <1>6
  <2>4. CASE c # Bsp
    <3>1. current'[c] = current[c] /\ current'[d] \in {Boot, current[d]}
      BY <2>4, <1>5
    <3> QED
      BY <3>1, <2>1, <2>2, <1>6
  <2> QED
    BY <2>3, <2>4
<1>10. CurrentInv'
  <2> SUFFICES ASSUME NEW d \in Cpus, current'[d] # None
               PROVE  /\ state'[current'[d]] = "Running"
                      /\ running'[current'[d]] <=> pc'[d] # "claim"
                      /\ pc'[d] \in {"claim", "switch"} => saved'[current'[d]]
    BY DEF CurrentInv
  <2>1. CASE d = Bsp
    BY <2>1, <1>1, <1>5, Zenon
  <2>2. CASE d # Bsp
    <3>1. current[d] \in AllThreads /\ current[d] # Boot /\ current[d] # i /\ current[d] # None
      BY <2>2, <1>3, <1>5, <1>6, <1>7 DEF TypeOK
    <3>2. /\ current'[d] = current[d] /\ pc'[d] = pc[d]
          /\ state'[current[d]] = state[current[d]]
          /\ running'[current[d]] = running[current[d]]
          /\ saved'[current[d]] = saved[current[d]]
      BY <2>2, <3>1, <1>5, Zenon
    <3> QED
      BY <3>1, <3>2 DEF IInv, CurrentInv
  <2> QED
    BY <2>1, <2>2
<1>11. HandoffInv'
  <2> SUFFICES ASSUME NEW d \in Cpus, handoff[d] # None
               PROVE  /\ running'[handoff[d]]
                      /\ handoff[d] \in Threads =>
                            IF blocking[d] THEN state'[handoff[d]] \in {"Blocked", "Exited"}
                                           ELSE state'[handoff[d]] = "Ready"
                      /\ pc'[d] = "finish" =>
                            saved'[handoff[d]] \/ state'[handoff[d]] = "Exited"
    BY <1>5 DEF HandoffInv
  <2>1. handoff[d] \in AllThreads /\ handoff[d] # Boot /\ handoff[d] # i
    BY <1>3, <1>6, <1>7 DEF TypeOK
  <2>2. d # Bsp
    BY <1>2
  <2> QED
    BY <2>1, <2>2, <1>5, Zenon DEF IInv, HandoffInv
<1>12. OffInv'
  <2> SUFFICES ASSUME NEW t \in AllThreads, Off(t)'
               PROVE  /\ ~running'[t]
                      /\ t \in Threads /\ state'[t] \in {"Ready", "Blocked"} => saved'[t]
                      /\ t \in Threads => state'[t] # "Running"
    BY DEF OffInv
  <2>1. \A d \in Cpus : t # current'[d] /\ t # handoff'[d]
    BY DEF Off
  <2>2. t # Boot
    BY <2>1, <1>1, <1>5
  <2>3. Off(t)
    BY <2>1, <1>1, <1>2, <1>5 DEF Off
  <2> QED
    BY <2>2, <2>3, <1>1, <1>5, Zenon DEF IInv, OffInv
<1>13. IdleInv'
  <2> SUFFICES ASSUME NEW d \in Cpus
               PROVE  /\ current'[d] # None /\ Off(IdleOf[d])' => saved'[IdleOf[d]]
                      /\ state'[IdleOf[d]] \notin {"Exited", "Freed"}
    BY DEF IdleInv
  <2>1. IdleOf[d] \in AllThreads /\ IdleOf[d] # Boot /\ IdleOf[d] # None
    BY <1>1, IdleApart
  <2>2. CASE d = Bsp
    BY <2>1, <2>2, <1>1, <1>5, Zenon
  <2>3. CASE d # Bsp
    <3>1. Off(IdleOf[d])' => Off(IdleOf[d])
      BY <1>2, <1>5, <2>1 DEF Off
    <3> QED
      BY <3>1, <2>1, <2>3, <1>5, Zenon DEF IInv, IdleInv
  <2> QED
    BY <2>2, <2>3
<1>14. ReadyInv'
  <2>1. Boot \notin Range(ready)
    BY <1>1, <1>2 DEF IInv, ReadyInv
  <2>2. \A t \in Threads : t # i /\ t \in AllThreads
    BY <1>1
  <2> QED
    BY <2>1, <2>2, <1>5 DEF IInv, ReadyInv
<1>15. NoLostWakeup'
  BY <1>1, <1>5 DEF IInv, NoLostWakeup
<1> QED
  BY <1>4, <1>8, <1>9, <1>10, <1>11, <1>12, <1>13, <1>14, <1>15 DEF IInv

\* cpu_enter preserves the invariant.
LEMMA CpuEnterPreserves ==
    ASSUME IInv, NEW c \in Cpus, CpuEnter(c)
    PROVE  IInv'
<1> DEFINE i == IdleOf[c]
<1>1. /\ c # Bsp /\ Bsp \in Cpus /\ Boot \in Threads /\ Threads \subseteq AllThreads
      /\ None \notin AllThreads /\ i \in AllThreads /\ i \notin Threads
  BY SchedAssumption, IdleType DEF AllThreads, CpuEnter
<1>2. /\ current[c] = None /\ handoff[c] = None /\ target[c] = None
      /\ pc[c] = "offline"
  BY DEF IInv, SlotInv, Switching, CpuEnter
<1>3. TypeOK
  BY DEF IInv
<1>4. TypeOK'
  BY <1>1, <1>3 DEF TypeOK, CpuEnter, ThreadStates, PcValues
<1>5. /\ \A t \in AllThreads : t # i => state'[t] = state[t] /\ running'[t] = running[t]
      /\ state'[i] = "Running" /\ running'[i] = TRUE
      /\ \A d \in Cpus : d # c => current'[d] = current[d] /\ pc'[d] = pc[d]
      /\ current'[c] = i /\ pc'[c] = "run"
      /\ UNCHANGED <<wakePending, saved, ready, handoff, blocking, target>>
  BY <1>1, <1>3 DEF TypeOK, CpuEnter
<1>6. \A d \in Cpus : current[d] # i /\ handoff[d] # i
  BY <1>1, <1>2, IdleApart
<1>7. SlotInv'
  <2>1. \A d \in Cpus : d # c => (Switching(d)' <=> Switching(d))
    BY <1>5 DEF Switching
  <2>2. ~Switching(c)'
    BY <1>5 DEF Switching
  <2>3. pc'[Bsp] = pc[Bsp] /\ state'[Boot] = state[Boot]
    BY <1>1, <1>5
  <2>4. ASSUME NEW d \in Cpus
        PROVE  /\ pc'[d] = "offline" <=> current'[d] = None
               /\ Switching(d)' <=> handoff'[d] # None
               /\ pc'[d] = "unblock" <=> target'[d] # None
               /\ pc'[d] = "armed" => current'[d] \in Threads
               /\ current'[d] \in Threads \cup {IdleOf[d], None}
               /\ handoff'[d] \in Threads \cup {IdleOf[d], None}
               /\ handoff'[d] # None => handoff'[d] # current'[d]
    <3>1. CASE d = c
      BY <1>1, <1>2, <1>5, <2>2, <3>1
    <3>2. CASE d # c
      BY <1>5, <2>1, <3>2, SMTT(30) DEF IInv, SlotInv
    <3> QED
      BY <3>1, <3>2
  <2> QED
    BY <2>3, <2>4 DEF IInv, SlotInv
<1>8. DistinctInv'
  BY <1>1, <1>2, <1>5, <1>6 DEF IInv, DistinctInv
<1>9. CurrentInv'
  <2> SUFFICES ASSUME NEW d \in Cpus, current'[d] # None
               PROVE  /\ state'[current'[d]] = "Running"
                      /\ running'[current'[d]] <=> pc'[d] # "claim"
                      /\ pc'[d] \in {"claim", "switch"} => saved'[current'[d]]
    BY DEF CurrentInv
  <2>1. CASE d = c
    BY <2>1, <1>1, <1>5
  <2>2. CASE d # c
    <3>1. current[d] \in AllThreads /\ current[d] # i /\ current[d] # None
      BY <2>2, <1>3, <1>5, <1>6 DEF TypeOK
    <3> QED
      BY <2>2, <3>1, <1>5 DEF IInv, CurrentInv
  <2> QED
    BY <2>1, <2>2
<1>10. HandoffInv'
  <2> SUFFICES ASSUME NEW d \in Cpus, handoff[d] # None
               PROVE  /\ running'[handoff[d]]
                      /\ handoff[d] \in Threads =>
                            IF blocking[d] THEN state'[handoff[d]] \in {"Blocked", "Exited"}
                                           ELSE state'[handoff[d]] = "Ready"
                      /\ pc'[d] = "finish" =>
                            saved[handoff[d]] \/ state'[handoff[d]] = "Exited"
    BY <1>5 DEF HandoffInv
  <2>1. handoff[d] \in AllThreads /\ handoff[d] # i /\ d # c
    BY <1>2, <1>3, <1>6 DEF TypeOK
  <2> QED
    BY <2>1, <1>5 DEF IInv, HandoffInv
<1>11. OffInv'
  <2> SUFFICES ASSUME NEW t \in AllThreads, Off(t)'
               PROVE  /\ ~running'[t]
                      /\ t \in Threads /\ state'[t] \in {"Ready", "Blocked"} => saved[t]
                      /\ t \in Threads => state'[t] # "Running"
    BY <1>5 DEF OffInv
  <2>1. \A d \in Cpus : t # current'[d] /\ t # handoff'[d]
    BY DEF Off
  <2>2. t # i
    BY <2>1, <1>1, <1>5
  <2>3. Off(t)
    BY <2>1, <1>1, <1>2, <1>5, SMTT(30) DEF Off
  <2> QED
    BY <2>2, <2>3, <1>5 DEF IInv, OffInv
<1>12. IdleInv'
  <2> SUFFICES ASSUME NEW d \in Cpus
               PROVE  /\ current'[d] # None /\ Off(IdleOf[d])' => saved[IdleOf[d]]
                      /\ state'[IdleOf[d]] \notin {"Exited", "Freed"}
    BY <1>5 DEF IdleInv
  <2>1. IdleOf[d] \in AllThreads /\ IdleOf[d] # None
    BY IdleType
  <2>2. Off(IdleOf[d])' => Off(IdleOf[d])
    BY <1>2, <1>5, <2>1 DEF Off
  <2>3. ~Off(i)'
    BY <1>5 DEF Off
  <2>4. d # c => IdleOf[d] # i
    BY SchedAssumption, SMTT(30)
  <2> QED
    BY <2>1, <2>2, <2>3, <2>4, <1>5, SMTT(30) DEF IInv, IdleInv
<1>13. ReadyInv'
  BY <1>1, <1>5, SMTT(30) DEF IInv, ReadyInv
<1>14. NoLostWakeup'
  <2>1. \A t \in Threads : state'[t] = state[t] /\ running'[t] = running[t]
    BY <1>1, <1>5
  <2> QED
    BY <1>5, <2>1 DEF IInv, NoLostWakeup
<1> QED
  BY <1>4, <1>7, <1>8, <1>9, <1>10, <1>11, <1>12, <1>13, <1>14 DEF IInv

----------------------------------------------------------------------------

\* Most steps are first-order reasoning; the ones about numbers and sequences
\* name SMT.
USE Zenon

\* Making an off-CPU thread that is not queued Ready, and queueing it,
\* preserves the invariant: the common part of spawn and unblock.
LEMMA EnqueuePreserves ==
    ASSUME IInv, NEW t \in Threads, Off(t), t \notin Range(ready),
           t # Boot \/ state[t] # "Unborn",
           state' = [state EXCEPT ![t] = "Ready"],
           ready' = Append(ready, t),
           saved' = [saved EXCEPT ![t] = TRUE],
           NEW c \in Cpus,
           \/ UNCHANGED <<pc, target>>
           \/ /\ pc[c] = "unblock" /\ target[c] = t
              /\ pc' = [pc EXCEPT ![c] = "run"]
              /\ target' = [target EXCEPT ![c] = None],
           UNCHANGED <<running, wakePending, current, handoff, blocking>>
    PROVE  IInv'
<1>1. /\ t \in AllThreads /\ Threads \subseteq AllThreads /\ None \notin AllThreads
      /\ Bsp \in Cpus /\ Boot \in Threads
  BY SchedAssumption DEF AllThreads
<1>2. TypeOK
  BY DEF IInv
<1>3. /\ ready' \in Seq(Threads)
      /\ Range(ready)' = Range(ready) \cup {t}
      /\ \A i, j \in 1..Len(ready') : ready'[i] = ready'[j] => i = j
  <2>1. ready \in Seq(Threads) /\ \A i, j \in 1..Len(ready) : ready[i] = ready[j] => i = j
    BY DEF IInv, TypeOK, ReadyInv
  <2>2. Append(ready, t) \in Seq(Threads)
    BY SMT, <2>1
  <2> QED
    BY SMT, <2>1, <2>2, AppendRange, AppendNoDup
<1>4. TypeOK'
  BY <1>1, <1>2, <1>3, Zenon DEF TypeOK, ThreadStates, PcValues
<1>5. /\ \A u \in AllThreads : u # t => state'[u] = state[u] /\ saved'[u] = saved[u]
      /\ state'[t] = "Ready" /\ saved'[t] = TRUE
      /\ \A d \in Cpus : t # current[d] /\ t # handoff[d]
      /\ UNCHANGED <<running, wakePending, current, handoff, blocking>>
  BY <1>1, <1>2 DEF TypeOK, Off
<1>6. \A d \in Cpus : \/ pc'[d] = pc[d] /\ target'[d] = target[d]
                      \/ /\ pc[d] = "unblock" /\ target[d] = t
                         /\ pc'[d] = "run" /\ target'[d] = None
  BY <1>2 DEF TypeOK
<1>7. SlotInv'
  <2>1. ASSUME NEW d \in Cpus
        PROVE  /\ pc'[d] = "offline" <=> current'[d] = None
               /\ Switching(d)' <=> handoff'[d] # None
               /\ pc'[d] = "unblock" <=> target'[d] # None
               /\ pc'[d] = "armed" => current'[d] \in Threads
               /\ current'[d] \in Threads \cup {IdleOf[d], None}
               /\ handoff'[d] \in Threads \cup {IdleOf[d], None}
               /\ handoff'[d] # None => handoff'[d] # current'[d]
    BY SMT, <1>5, <1>6 DEF IInv, SlotInv, Switching
  <2>2. pc'[Bsp] = "offline" => state'[Boot] = "Unborn"
    BY <1>1, <1>5, <1>6 DEF IInv, SlotInv
  <2> QED
    BY <2>1, <2>2 DEF SlotInv
<1>8. DistinctInv'
  BY SMT, <1>5 DEF IInv, DistinctInv
<1>9. CurrentInv'
  <2> SUFFICES ASSUME NEW d \in Cpus, current[d] # None
               PROVE  /\ state'[current[d]] = "Running"
                      /\ running[current[d]] <=> pc'[d] # "claim"
                      /\ pc'[d] \in {"claim", "switch"} => saved'[current[d]]
    BY <1>5 DEF CurrentInv
  <2>1. current[d] \in AllThreads /\ current[d] # t
    BY SMT, <1>2, <1>5 DEF TypeOK
  <2>2. pc'[d] = pc[d] \/ (pc[d] = "unblock" /\ pc'[d] = "run")
    BY <1>6
  <2>3. /\ state[current[d]] = "Running"
        /\ running[current[d]] <=> pc[d] # "claim"
        /\ pc[d] \in {"claim", "switch"} => saved[current[d]]
    BY DEF IInv, CurrentInv
  <2> QED
    BY <2>1, <2>2, <2>3, <1>5
<1>10. HandoffInv'
  <2> SUFFICES ASSUME NEW d \in Cpus, handoff[d] # None
               PROVE  /\ running[handoff[d]]
                      /\ handoff[d] \in Threads =>
                            IF blocking[d] THEN state'[handoff[d]] \in {"Blocked", "Exited"}
                                           ELSE state'[handoff[d]] = "Ready"
                      /\ pc'[d] = "finish" =>
                            saved'[handoff[d]] \/ state'[handoff[d]] = "Exited"
    BY SMT, <1>5 DEF HandoffInv
  <2>1. handoff[d] \in AllThreads /\ handoff[d] # t
    BY SMT, <1>2, <1>5 DEF TypeOK
  <2>2. pc'[d] = "finish" => pc[d] = "finish"
    BY <1>6
  <2> QED
    BY <2>1, <2>2, <1>5 DEF IInv, HandoffInv
<1>11. OffInv'
  <2> SUFFICES ASSUME NEW u \in AllThreads, Off(u)
               PROVE  /\ ~running[u]
                      /\ u \in Threads /\ state'[u] \in {"Ready", "Blocked"} => saved'[u]
                      /\ u \in Threads => state'[u] # "Running"
    BY SMT, <1>5 DEF OffInv, Off
  <2> QED
    BY <1>5 DEF IInv, OffInv
<1>12. IdleInv'
  <2>1. \A d \in Cpus : IdleOf[d] \in AllThreads /\ IdleOf[d] # t
    BY IdleType
  <2> QED
    BY SMT, <2>1, <1>5 DEF IInv, IdleInv, Off
<1>13. ReadyInv'
  <2>1. ASSUME NEW u \in Threads
        PROVE  u \in Range(ready)' <=>
                    state'[u] = "Ready" /\ \A d \in Cpus : handoff'[d] # u
    BY SMTT(30), <1>1, <1>3, <1>5 DEF IInv, ReadyInv
  <2> QED
    BY <2>1, <1>3 DEF ReadyInv
<1>14. NoLostWakeup'
  <2> SUFFICES ASSUME NEW u \in Threads, state'[u] = "Blocked", wakePending'[u]
               PROVE  \E d \in Cpus : handoff'[d] = u \/ target'[d] = u
    BY DEF NoLostWakeup
  <2>1. u # t /\ state[u] = "Blocked" /\ wakePending[u]
    BY <1>1, <1>5
  <2>2. PICK d \in Cpus : handoff[d] = u \/ target[d] = u
    BY <2>1 DEF IInv, NoLostWakeup
  <2> QED
    BY SMT, <2>1, <2>2, <1>5, <1>6
<1> QED
  BY <1>4, <1>7, <1>8, <1>9, <1>10, <1>11, <1>12, <1>13, <1>14 DEF IInv

\* Taking the next thread's kernel stack preserves the invariant.
LEMMA ClaimPreserves ==
    ASSUME IInv, NEW c \in Cpus, Claim(c)
    PROVE  IInv'
<1> DEFINE n == current[c]
<1>1. /\ pc[c] = "claim" /\ handoff[c] # None /\ n # None /\ n \in AllThreads
      /\ None \notin AllThreads /\ Bsp \in Cpus
  BY SchedAssumption DEF IInv, SlotInv, Switching, TypeOK, Claim
<1>2. TypeOK
  BY DEF IInv
<1>3. TypeOK'
  BY <1>2, Zenon DEF TypeOK, Claim, PcValues
<1>4. /\ \A t \in AllThreads : t # n => running'[t] = running[t]
      /\ running'[n] = TRUE
      /\ \A d \in Cpus : d # c => pc'[d] = pc[d]
      /\ pc'[c] = "switch"
      /\ UNCHANGED <<state, wakePending, saved, ready, current, handoff, blocking, target>>
  BY <1>1, <1>2 DEF TypeOK, Claim
<1>5. \A d \in Cpus : n # handoff[d] /\ (d # c => n # current[d])
  BY <1>1 DEF IInv, SlotInv, DistinctInv
<1>6. SlotInv'
  <2>0. SlotInv
    BY DEF IInv
  <2>1. \A d \in Cpus : pc'[d] = pc[d] \/ (pc[d] = "claim" /\ pc'[d] = "switch")
    BY <1>1, <1>4
  <2>2. \A d \in Cpus : /\ pc'[d] = "offline" <=> pc[d] = "offline"
                        /\ pc'[d] = "unblock" <=> pc[d] = "unblock"
                        /\ pc'[d] = "armed" <=> pc[d] = "armed"
    BY <2>1
  <2>3. \A d \in Cpus : Switching(d)' <=> Switching(d)
    BY <2>1 DEF Switching
  <2> QED
    BY <1>1, <1>4, <2>0, <2>2, <2>3 DEF SlotInv
<1>7. CurrentInv'
  <2> SUFFICES ASSUME NEW d \in Cpus, current[d] # None
               PROVE  /\ state[current[d]] = "Running"
                      /\ running'[current[d]] <=> pc'[d] # "claim"
                      /\ pc'[d] \in {"claim", "switch"} => saved[current[d]]
    BY <1>4 DEF CurrentInv
  <2>1. CASE d = c
    BY <2>1, <1>1, <1>4 DEF IInv, CurrentInv
  <2>2. CASE d # c
    <3>1. running'[current[d]] = running[current[d]] /\ pc'[d] = pc[d]
      BY <2>2, <1>2, <1>4, <1>5 DEF TypeOK
    <3> QED
      BY <3>1 DEF IInv, CurrentInv
  <2> QED
    BY <2>1, <2>2
<1>8. HandoffInv'
  <2> SUFFICES ASSUME NEW d \in Cpus, handoff[d] # None
               PROVE  /\ running'[handoff[d]]
                      /\ pc'[d] = "finish" =>
                            saved[handoff[d]] \/ state[handoff[d]] = "Exited"
    BY <1>4 DEF IInv, HandoffInv
  <2>1. running'[handoff[d]] = running[handoff[d]]
    BY <1>2, <1>4, <1>5 DEF TypeOK
  <2>2. pc'[d] = "finish" => pc[d] = "finish"
    BY <1>4
  <2> QED
    BY <2>1, <2>2 DEF IInv, HandoffInv
<1>9. OffInv'
  <2>1. \A t \in AllThreads : Off(t)' => Off(t) /\ t # n
    BY <1>4 DEF Off
  <2> QED
    BY <2>1, <1>4 DEF IInv, OffInv
<1>10. DistinctInv' /\ ReadyInv' /\ NoLostWakeup'
  BY SMT, <1>4 DEF IInv, DistinctInv, ReadyInv, NoLostWakeup
<1>11. IdleInv'
  BY <1>4 DEF IInv, IdleInv, Off
<1> QED
  BY <1>3, <1>6, <1>7, <1>8, <1>9, <1>10, <1>11 DEF IInv

\* thos_ctx_switch preserves the invariant.
LEMMA CtxSwitchPreserves ==
    ASSUME IInv, NEW c \in Cpus, Switch(c)
    PROVE  IInv'
<1> DEFINE n == current[c]
<1> DEFINE p == handoff[c]
<1>1. /\ pc[c] = "switch" /\ p # None /\ n # None /\ p # n
      /\ n \in AllThreads /\ p \in AllThreads /\ Bsp \in Cpus
  BY SchedAssumption DEF IInv, SlotInv, Switching, TypeOK, Switch
<1>2. TypeOK
  BY DEF IInv
<1>3. /\ saved' = [saved EXCEPT ![p] = (state[p] # "Exited"), ![n] = FALSE]
      /\ pc' = [pc EXCEPT ![c] = "finish"]
      /\ UNCHANGED <<state, running, wakePending, ready, current, handoff, blocking, target>>
  BY DEF Switch
<1>4. TypeOK'
  BY <1>1, <1>2, <1>3, Zenon DEF TypeOK, PcValues
<1>5. /\ \A t \in AllThreads : t # n /\ t # p => saved'[t] = saved[t]
      /\ state[p] # "Exited" => saved'[p]
      /\ \A d \in Cpus : d # c => pc'[d] = pc[d]
      /\ pc'[c] = "finish"
  BY <1>1, <1>2, <1>3, Zenon DEF TypeOK
<1>6. \A d \in Cpus : d # c => /\ n # handoff[d] /\ n # current[d]
                               /\ p # handoff[d] /\ p # current[d]
  <2>1. \A d \in Cpus : d # c => n # handoff[d] /\ n # current[d] /\ p # handoff[d]
    BY <1>1 DEF IInv, DistinctInv
  <2>2. \A d \in Cpus : d # c => p # current[d]
    BY <1>1 DEF IInv, DistinctInv
  <2> QED
    BY <2>1, <2>2
<1>7. SlotInv'
  BY SMT, <1>1, <1>3, <1>5 DEF IInv, SlotInv, Switching
<1>8. CurrentInv'
  <2> SUFFICES ASSUME NEW d \in Cpus, current[d] # None
               PROVE  /\ state[current[d]] = "Running"
                      /\ running[current[d]] <=> pc'[d] # "claim"
                      /\ pc'[d] \in {"claim", "switch"} => saved'[current[d]]
    BY <1>3, Zenon DEF CurrentInv
  <2>1. CASE d = c
    BY <2>1, <1>1, <1>5 DEF IInv, CurrentInv
  <2>2. CASE d # c
    <3>1. saved'[current[d]] = saved[current[d]] /\ pc'[d] = pc[d]
      BY <2>2, <1>2, <1>5, <1>6 DEF TypeOK
    <3> QED
      BY <3>1 DEF IInv, CurrentInv
  <2> QED
    BY <2>1, <2>2
<1>9. HandoffInv'
  <2> SUFFICES ASSUME NEW d \in Cpus, handoff[d] # None, pc'[d] = "finish"
               PROVE  saved'[handoff[d]] \/ state[handoff[d]] = "Exited"
    BY <1>3, Zenon DEF IInv, HandoffInv
  <2>1. CASE d = c
    BY <2>1, <1>5
  <2>2. CASE d # c
    <3>1. saved'[handoff[d]] = saved[handoff[d]] /\ pc'[d] = pc[d]
      BY <2>2, <1>2, <1>5, <1>6 DEF TypeOK
    <3> QED
      BY <3>1 DEF IInv, HandoffInv
  <2> QED
    BY <2>1, <2>2
<1>10. \A t \in AllThreads : Off(t)' => Off(t) /\ t # n /\ t # p
  BY <1>3 DEF Off
<1>11. OffInv'
  BY <1>3, <1>5, <1>10, Zenon DEF IInv, OffInv
<1>12. IdleInv'
  BY <1>3, <1>5, <1>10, IdleType, ZenonT(40) DEF IInv, IdleInv
<1>13. DistinctInv' /\ ReadyInv' /\ NoLostWakeup'
  BY <1>3 DEF IInv, DistinctInv, ReadyInv, NoLostWakeup
<1> QED
  BY <1>4, <1>7, <1>8, <1>9, <1>11, <1>12, <1>13 DEF IInv

\* finish_switch preserves the invariant.
LEMMA FinishSwitchPreserves ==
    ASSUME IInv, NEW c \in Cpus, FinishSwitch(c)
    PROVE  IInv'
<1> DEFINE p == handoff[c]
<1> DEFINE rq == Requeues(c)
<1>1. /\ pc[c] = "finish" /\ p # None /\ p \in AllThreads /\ current[c] # None
      /\ p # current[c] /\ target[c] = None /\ Bsp \in Cpus /\ Boot \in Threads
      /\ None \notin AllThreads /\ Threads \subseteq AllThreads
      /\ p \in Threads \cup {IdleOf[c]}
  BY SchedAssumption DEF IInv, SlotInv, Switching, TypeOK, FinishSwitch, AllThreads
<1>2. TypeOK
  BY DEF IInv
<1>3. rq => p \in Threads /\ p \notin Range(ready)
  BY <1>1 DEF Requeues, AllThreads
<1>4. /\ rq => state' = [state EXCEPT ![p] = "Ready"] /\ ready' = Append(ready, p)
      /\ ~rq => state' = state /\ ready' = ready
      /\ running' = [running EXCEPT ![p] = FALSE]
      /\ handoff' = [handoff EXCEPT ![c] = None]
      /\ blocking' = [blocking EXCEPT ![c] = FALSE]
      /\ pc' = [pc EXCEPT ![c] = "run"]
      /\ UNCHANGED <<wakePending, saved, current, target>>
  BY DEF FinishSwitch
<1>5. /\ ready' \in Seq(Threads)
      /\ rq => Range(ready)' = Range(ready) \cup {p}
      /\ ~rq => Range(ready)' = Range(ready)
      /\ \A i, j \in 1..Len(ready') : ready'[i] = ready'[j] => i = j
  <2>1. ready \in Seq(Threads) /\ \A i, j \in 1..Len(ready) : ready[i] = ready[j] => i = j
    BY DEF IInv, TypeOK, ReadyInv
  <2>2. CASE rq
    <3>1. p \in Threads /\ p \notin Range(ready) /\ ready' = Append(ready, p)
      BY <2>2, <1>3, <1>4
    <3>2. Append(ready, p) \in Seq(Threads)
      BY SMT, <2>1, <3>1
    <3>3. Range(Append(ready, p)) = Range(ready) \cup {p}
      BY SMT, <2>1, <3>1, AppendRange
    <3>4. \A i, j \in 1..Len(Append(ready, p)) :
                Append(ready, p)[i] = Append(ready, p)[j] => i = j
      BY <2>1, <3>1, AppendNoDup
    <3> QED
      BY <2>2, <3>1, <3>2, <3>3, <3>4, Zenon
  <2>3. CASE ~rq
    BY <2>1, <2>3, <1>4
  <2> QED
    BY <2>2, <2>3
<1>6. TypeOK'
  BY <1>1, <1>2, <1>4, <1>5 DEF TypeOK, ThreadStates, PcValues
<1>7. /\ \A t \in AllThreads : t # p => state'[t] = state[t] /\ running'[t] = running[t]
      /\ ~running'[p]
      /\ state'[p] = IF rq THEN "Ready" ELSE state[p]
      /\ \A d \in Cpus : d # c => /\ handoff'[d] = handoff[d] /\ blocking'[d] = blocking[d]
                                  /\ pc'[d] = pc[d]
      /\ handoff'[c] = None /\ pc'[c] = "run"
      /\ UNCHANGED <<wakePending, saved, current, target>>
  BY <1>1, <1>2, <1>4 DEF TypeOK
<1>8. \A d \in Cpus : p # current[d] /\ (d # c => p # handoff[d])
  BY <1>1 DEF IInv, SlotInv, DistinctInv
<1>9. /\ p \in Threads => IF blocking[c] THEN state[p] \in {"Blocked", "Exited"}
                                        ELSE state[p] = "Ready"
      /\ saved[p] \/ state[p] = "Exited"
  BY <1>1 DEF IInv, HandoffInv
<1>10. SlotInv'
  <2>1. ASSUME NEW d \in Cpus
        PROVE  /\ pc'[d] = "offline" <=> current'[d] = None
               /\ Switching(d)' <=> handoff'[d] # None
               /\ pc'[d] = "unblock" <=> target'[d] # None
               /\ pc'[d] = "armed" => current'[d] \in Threads
               /\ current'[d] \in Threads \cup {IdleOf[d], None}
               /\ handoff'[d] \in Threads \cup {IdleOf[d], None}
               /\ handoff'[d] # None => handoff'[d] # current'[d]
    BY SMT, <1>1, <1>7 DEF IInv, SlotInv, Switching
  <2>2. pc'[Bsp] = "offline" => state'[Boot] = "Unborn"
    <3>1. pc'[Bsp] = "offline" => state[Boot] = "Unborn"
      BY <1>1, <1>7 DEF IInv, SlotInv
    <3>2. state[Boot] = "Unborn" => Boot # p
      BY <1>1, <1>9
    <3> QED
      BY <3>1, <3>2, <1>1, <1>7
  <2> QED
    BY <2>1, <2>2 DEF SlotInv
<1>11. DistinctInv'
  BY SMT, <1>7 DEF IInv, DistinctInv
<1>12. CurrentInv'
  <2> SUFFICES ASSUME NEW d \in Cpus, current[d] # None
               PROVE  /\ state'[current[d]] = "Running"
                      /\ running'[current[d]] <=> pc'[d] # "claim"
                      /\ pc'[d] \in {"claim", "switch"} => saved[current[d]]
    BY <1>7 DEF CurrentInv
  <2>1. state'[current[d]] = state[current[d]] /\ running'[current[d]] = running[current[d]]
    BY SMT, <1>2, <1>7, <1>8 DEF TypeOK
  <2>2. pc'[d] = pc[d] \/ (pc[d] = "finish" /\ pc'[d] = "run")
    BY <1>1, <1>7
  <2> QED
    BY <2>1, <2>2 DEF IInv, CurrentInv
<1>13. HandoffInv'
  <2> SUFFICES ASSUME NEW d \in Cpus, handoff'[d] # None
               PROVE  /\ running'[handoff'[d]]
                      /\ handoff'[d] \in Threads =>
                            IF blocking'[d] THEN state'[handoff'[d]] \in {"Blocked", "Exited"}
                                            ELSE state'[handoff'[d]] = "Ready"
                      /\ pc'[d] = "finish" =>
                            saved'[handoff'[d]] \/ state'[handoff'[d]] = "Exited"
    BY DEF HandoffInv
  <2>1. d # c /\ handoff'[d] = handoff[d] /\ handoff[d] \in AllThreads /\ handoff[d] # p
    BY SMT, <1>2, <1>7, <1>8 DEF TypeOK
  <2> QED
    BY SMT, <2>1, <1>7 DEF IInv, HandoffInv
<1>14. \A t \in AllThreads : Off(t)' => t = p \/ Off(t)
  BY <1>7 DEF Off
<1>15. OffInv'
  <2> SUFFICES ASSUME NEW t \in AllThreads, Off(t)'
               PROVE  /\ ~running'[t]
                      /\ t \in Threads /\ state'[t] \in {"Ready", "Blocked"} => saved[t]
                      /\ t \in Threads => state'[t] # "Running"
    BY <1>7 DEF OffInv
  <2>1. CASE t = p
    <3>1. rq => state[p] # "Exited"
      BY DEF Requeues
    <3> QED
      BY <2>1, <3>1, <1>7, <1>9
  <2>2. CASE t # p
    BY <2>2, <1>7, <1>14 DEF IInv, OffInv
  <2> QED
    BY <2>1, <2>2
<1>16. IdleInv'
  <2> SUFFICES ASSUME NEW d \in Cpus
               PROVE  /\ current[d] # None /\ Off(IdleOf[d])' => saved[IdleOf[d]]
                      /\ state'[IdleOf[d]] \notin {"Exited", "Freed"}
    BY <1>7 DEF IdleInv
  <2>1. IdleOf[d] \in AllThreads /\ IdleOf[d] \notin Threads
    BY IdleType
  <2>2. state'[IdleOf[d]] = state[IdleOf[d]]
    BY <2>1, <1>3, <1>7
  <2>3. state[IdleOf[d]] \notin {"Exited", "Freed"}
    BY DEF IInv, IdleInv
  <2>4. CASE IdleOf[d] = p
    BY <2>2, <2>3, <2>4, <1>9
  <2>5. CASE IdleOf[d] # p
    BY <2>1, <2>2, <2>3, <2>5, <1>14 DEF IInv, IdleInv
  <2> QED
    BY <2>4, <2>5
<1>17. ReadyInv'
  <2>1. ASSUME NEW t \in Threads
        PROVE  t \in Range(ready)' <=>
                    state'[t] = "Ready" /\ \A d \in Cpus : handoff'[d] # t
    <3>1. t \in Range(ready) <=> state[t] = "Ready" /\ \A d \in Cpus : handoff[d] # t
      BY DEF IInv, ReadyInv
    <3>2. CASE t = p
      <4>1. \A d \in Cpus : handoff'[d] # t
        BY <3>2, <1>1, <1>7, <1>8
      <4>2. p \notin Range(ready)
        BY <3>1, <3>2
      <4>3. state[p] = "Ready" => rq
        BY <3>2, <4>2, <1>9, SchedAssumption DEF Requeues
      <4> QED
        BY <3>2, <4>1, <4>2, <4>3, <1>5, <1>7
    <3>3. CASE t # p
      <4>1. t \in Range(ready)' <=> t \in Range(ready)
        BY <3>3, <1>5
      <4>2. (\A d \in Cpus : handoff'[d] # t) <=> (\A d \in Cpus : handoff[d] # t)
        BY <3>3, <1>1, <1>7
      <4>3. state'[t] = state[t]
        BY <3>3, <1>1, <1>7
      <4> QED
        BY <3>1, <4>1, <4>2, <4>3
    <3> QED
      BY <3>2, <3>3
  <2> QED
    BY <2>1, <1>5 DEF ReadyInv
<1>18. NoLostWakeup'
  <2> SUFFICES ASSUME NEW t \in Threads, state'[t] = "Blocked", wakePending[t]
               PROVE  \E d \in Cpus : handoff'[d] = t \/ target[d] = t
    BY <1>7 DEF NoLostWakeup
  <2>1. CASE t = p
    <3>1. ~rq /\ state[p] = "Blocked"
      BY <2>1, <1>7
    <3>2. p \notin Range(ready)
      BY <2>1, <3>1 DEF IInv, ReadyInv
    <3>3. rq
      BY <2>1, <3>1, <3>2, SchedAssumption DEF Requeues
    <3> QED
      BY <3>1, <3>3
  <2>2. CASE t # p
    <3>1. state[t] = "Blocked"
      BY <2>2, <1>1, <1>7
    <3>2. PICK d \in Cpus : handoff[d] = t \/ target[d] = t
      BY <3>1 DEF IInv, NoLostWakeup
    <3> QED
      BY <2>2, <3>2, <1>7
  <2> QED
    BY <2>1, <2>2
<1> QED
  BY <1>6, <1>10, <1>11, <1>12, <1>13, <1>15, <1>16, <1>17, <1>18 DEF IInv

\* unblock's SCHED section preserves the invariant.
LEMMA UnblockPreserves ==
    ASSUME IInv, NEW c \in Cpus, Unblock(c)
    PROVE  IInv'
<1> DEFINE t == target[c]
<1>1. /\ pc[c] = "unblock" /\ t # None /\ t \in Threads /\ t \in AllThreads
      /\ None \notin AllThreads /\ Bsp \in Cpus
  BY SchedAssumption DEF IInv, SlotInv, TypeOK, Unblock, AllThreads
<1>2. TypeOK
  BY DEF IInv
<1>3. CASE Parked(t)
  <2>1. state[t] = "Blocked" /\ ~running[t]
    BY <1>3 DEF Parked
  <2>2. Off(t)
    <3>1. \A d \in Cpus : t # current[d]
      BY <1>1, <2>1 DEF IInv, CurrentInv
    <3>2. \A d \in Cpus : t # handoff[d]
      BY <1>1, <2>1 DEF IInv, HandoffInv
    <3> QED
      BY <3>1, <3>2 DEF Off
  <2>3. t \notin Range(ready) /\ saved[t]
    BY <1>1, <2>1, <2>2 DEF IInv, ReadyInv, OffInv
  <2>4. saved' = [saved EXCEPT ![t] = TRUE]
    BY <1>1, <1>2, <2>3 DEF Unblock, TypeOK
  <2>5. /\ state' = [state EXCEPT ![t] = "Ready"]
        /\ ready' = Append(ready, t)
        /\ pc' = [pc EXCEPT ![c] = "run"]
        /\ target' = [target EXCEPT ![c] = None]
        /\ UNCHANGED <<running, wakePending, current, handoff, blocking>>
    BY <1>3, <2>3 DEF Unblock
  <2> QED
    BY <1>1, <2>1, <2>2, <2>3, <2>4, <2>5, EnqueuePreserves, Zenon
<1>4. CASE ~Parked(t)
  <2>1. /\ \A d \in Cpus : d # c => pc'[d] = pc[d] /\ target'[d] = target[d]
        /\ pc'[c] = "run" /\ target'[c] = None
        /\ UNCHANGED <<state, ready, running, wakePending, saved, current, handoff, blocking>>
    BY <1>2, <1>4 DEF Unblock, TypeOK
  <2>2. TypeOK'
    BY <1>2, <1>4 DEF Unblock, TypeOK, PcValues
  <2>3. SlotInv'
    <3>0. SlotInv
      BY DEF IInv
    <3>1. \A d \in Cpus : /\ pc'[d] = "offline" <=> pc[d] = "offline"
                          /\ pc'[d] = "armed" <=> pc[d] = "armed"
                          /\ Switching(d)' <=> Switching(d)
                          /\ pc'[d] = "unblock" <=> (pc[d] = "unblock" /\ d # c)
      BY SMT, <1>1, <2>1 DEF Switching
    <3>2. \A d \in Cpus : pc'[d] = "unblock" <=> target'[d] # None
      BY <2>1, <3>0, <3>1, ZenonT(30) DEF SlotInv
    <3> QED
      BY <1>1, <2>1, <3>0, <3>1, <3>2, ZenonT(30) DEF SlotInv
  <2>4. DistinctInv' /\ ReadyInv'
    BY SMT, <2>1 DEF IInv, DistinctInv, ReadyInv
  <2>5. CurrentInv' /\ HandoffInv'
    BY SMT, <1>1, <2>1 DEF IInv, CurrentInv, HandoffInv
  <2>6. OffInv' /\ IdleInv'
    BY <2>1 DEF IInv, OffInv, IdleInv, Off
  <2>7. NoLostWakeup'
    <3> SUFFICES ASSUME NEW u \in Threads, state[u] = "Blocked", wakePending[u]
                 PROVE  \E d \in Cpus : handoff[d] = u \/ target'[d] = u
      BY <2>1 DEF NoLostWakeup
    <3>1. CASE u = t
      <4>1. running[u]
        BY <3>1, <1>4 DEF Parked
      <4>2. PICK d \in Cpus : u = current[d] \/ u = handoff[d]
        BY <4>1, <3>1, <1>1 DEF IInv, OffInv, Off
      <4>3. u # current[d]
        BY <3>1, <1>1 DEF IInv, CurrentInv
      <4> QED
        BY <4>2, <4>3
    <3>2. CASE u # t
      BY <3>2, <2>1 DEF IInv, NoLostWakeup
    <3> QED
      BY <3>1, <3>2
  <2> QED
    BY <2>2, <2>3, <2>4, <2>5, <2>6, <2>7 DEF IInv
<1> QED
  BY <1>3, <1>4

\* reap preserves the invariant: what it drops is off every CPU.
LEMMA ReapPreserves ==
    ASSUME IInv, NEW c \in Cpus, Reap(c)
    PROVE  IInv'
<1>1. PICK dead \in SUBSET Droppable :
            state' = [t \in AllThreads |-> IF t \in dead THEN "Freed" ELSE state[t]]
  BY DEF Reap
<1>2. UNCHANGED <<running, wakePending, saved, ready, current, handoff, blocking, pc, target>>
  BY DEF Reap
<1>3. /\ Threads \subseteq AllThreads /\ None \notin AllThreads
      /\ Boot \in Threads /\ Bsp \in Cpus
  BY SchedAssumption DEF AllThreads
<1>4. TypeOK
  BY DEF IInv
<1>5. TypeOK'
  BY <1>1, <1>2, <1>4 DEF TypeOK, ThreadStates
<1>6. \A t \in dead : /\ t \in Threads /\ state[t] = "Exited"
                      /\ \A d \in Cpus : t # current[d] /\ t # handoff[d]
                      /\ t \notin Range(ready)
  BY <1>1 DEF Droppable, Graveyard, Referenced
<1>7. /\ \A t \in AllThreads : t \notin dead => state'[t] = state[t]
      /\ \A t \in dead : state'[t] = "Freed"
  BY <1>1, <1>3, <1>6
<1>8. SlotInv'
  <2>1. pc[Bsp] = "offline" => state'[Boot] = "Unborn"
    BY <1>3, <1>6, <1>7 DEF IInv, SlotInv
  <2> QED
    BY <2>1, <1>2 DEF IInv, SlotInv, Switching
<1>9. DistinctInv'
  BY <1>2 DEF IInv, DistinctInv
<1>10. CurrentInv'
  <2>1. \A d \in Cpus : current[d] # None => state'[current[d]] = state[current[d]]
    BY SMT, <1>4, <1>6, <1>7 DEF TypeOK
  <2> QED
    BY <2>1, <1>2 DEF IInv, CurrentInv
<1>11. HandoffInv'
  <2>1. \A d \in Cpus : handoff[d] # None => state'[handoff[d]] = state[handoff[d]]
    BY SMT, <1>4, <1>6, <1>7 DEF TypeOK
  <2> QED
    BY <2>1, <1>2 DEF IInv, HandoffInv
<1>12. OffInv'
  <2>1. \A t \in AllThreads : Off(t)' => Off(t)
    BY <1>2 DEF Off
  <2> QED
    BY <2>1, <1>2, <1>7 DEF IInv, OffInv
<1>13. IdleInv'
  <2>1. \A d \in Cpus : IdleOf[d] \in AllThreads /\ IdleOf[d] \notin dead
    BY <1>6, IdleType
  <2> QED
    BY <2>1, <1>2, <1>7 DEF IInv, IdleInv, Off
<1>14. ReadyInv'
  BY SMT, <1>2, <1>3, <1>6, <1>7 DEF IInv, ReadyInv
<1>15. NoLostWakeup'
  <2>1. \A t \in Threads : state'[t] = "Blocked" => state[t] = "Blocked"
    BY <1>3, <1>7
  <2> QED
    BY <2>1, <1>2 DEF IInv, NoLostWakeup
<1> QED
  BY <1>5, <1>8, <1>9, <1>10, <1>11, <1>12, <1>13, <1>14, <1>15 DEF IInv

\* mark_blocking and the first half of unblock touch wake_pending and the
\* CPU's own position only.
LEMMA MarkPreserves ==
    ASSUME IInv, NEW c \in Cpus,
           MarkBlocking(c) \/ \E t \in Threads : UnblockMark(c, t)
    PROVE  IInv'
<1>1. TypeOK
  BY DEF IInv
<1>2. /\ pc[c] = "run" /\ target[c] = None /\ current[c] # None
      /\ UNCHANGED <<state, running, saved, ready, current, handoff, blocking>>
      /\ None \notin AllThreads /\ Threads \subseteq AllThreads
  BY SchedAssumption DEF IInv, SlotInv, MarkBlocking, UnblockMark, AtWork, AllThreads
<1>3. \/ /\ current[c] \in Threads
         /\ wakePending' = [wakePending EXCEPT ![current[c]] = FALSE]
         /\ pc' = [pc EXCEPT ![c] = "armed"] /\ target' = target
      \/ \E t \in Threads :
            /\ wakePending' = [wakePending EXCEPT ![t] = TRUE]
            /\ pc' = [pc EXCEPT ![c] = "unblock"]
            /\ target' = [target EXCEPT ![c] = t]
  BY DEF MarkBlocking, UnblockMark, AtWork
<1>4. TypeOK'
  <2>1. /\ wakePending' \in [AllThreads -> BOOLEAN]
        /\ pc' \in [Cpus -> PcValues]
        /\ target' \in [Cpus -> Threads \cup {None}]
    <3>1. CASE MarkBlocking(c)
      BY <3>1, <1>1, Zenon DEF TypeOK, PcValues, MarkBlocking
    <3>2. ASSUME NEW t \in Threads, UnblockMark(c, t)
          PROVE  /\ wakePending' \in [AllThreads -> BOOLEAN]
                 /\ pc' \in [Cpus -> PcValues]
                 /\ target' \in [Cpus -> Threads \cup {None}]
      BY <3>2, <1>1, Zenon DEF TypeOK, PcValues, UnblockMark
    <3> QED
      BY <3>1, <3>2
  <2> QED
    BY <2>1, <1>1, <1>2 DEF TypeOK
<1>5. SlotInv'
  <2>1. \A d \in Cpus : d # c => pc'[d] = pc[d] /\ target'[d] = target[d]
    BY <1>1, <1>3 DEF TypeOK
  <2>2. \/ pc'[c] = "armed" /\ target'[c] = None /\ current[c] \in Threads
        \/ pc'[c] = "unblock" /\ target'[c] # None
    BY <1>1, <1>2, <1>3 DEF TypeOK
  <2>3. pc'[Bsp] = "offline" => pc[Bsp] = "offline"
    BY <2>1, <2>2, SchedAssumption
  <2>4. ASSUME NEW d \in Cpus
        PROVE  /\ pc'[d] = "offline" <=> current'[d] = None
               /\ Switching(d)' <=> handoff'[d] # None
               /\ pc'[d] = "unblock" <=> target'[d] # None
               /\ pc'[d] = "armed" => current'[d] \in Threads
    BY <2>1, <2>2, <1>2 DEF IInv, SlotInv, Switching
  <2> QED
    BY <2>3, <2>4, <1>2 DEF IInv, SlotInv
<1>6. \A d \in Cpus : pc'[d] = pc[d] \/ (pc[d] = "run" /\ pc'[d] \in {"armed", "unblock"})
  BY <1>1, <1>2, <1>3 DEF TypeOK
<1>7. DistinctInv' /\ ReadyInv'
  BY SMT, <1>2 DEF IInv, DistinctInv, ReadyInv
<1>8. CurrentInv'
  BY <1>2, <1>6 DEF IInv, CurrentInv
<1>9. HandoffInv'
  BY <1>2, <1>6 DEF IInv, HandoffInv
<1>10. OffInv' /\ IdleInv'
  BY <1>2 DEF IInv, OffInv, IdleInv, Off
<1>11. NoLostWakeup'
  <2> SUFFICES ASSUME NEW u \in Threads, state[u] = "Blocked", wakePending'[u]
               PROVE  \E d \in Cpus : handoff[d] = u \/ target'[d] = u
    BY <1>2 DEF NoLostWakeup
  <2>1. target'[c] = u \/ wakePending[u]
    BY SMT, <1>1, <1>2, <1>3 DEF TypeOK
  <2>2. ASSUME wakePending[u] PROVE \E d \in Cpus : handoff[d] = u \/ target'[d] = u
    <3>1. PICK d \in Cpus : handoff[d] = u \/ target[d] = u
      BY <2>2 DEF IInv, NoLostWakeup
    <3>2. handoff[d] = u \/ target'[d] = u
      BY <3>1, <1>1, <1>2, <1>3 DEF TypeOK
    <3> QED
      BY <3>2
  <2> QED
    BY <2>1, <2>2
<1> QED
  BY <1>4, <1>5, <1>7, <1>8, <1>9, <1>10, <1>11 DEF IInv

\* spawn and its kin preserve the invariant.
LEMMA SpawnPreserves ==
    ASSUME IInv, NEW c \in Cpus, NEW t \in Threads, Spawn(c, t)
    PROVE  IInv'
<1>1. state[t] = "Unborn" /\ t # Boot /\ t # None /\ t \in AllThreads
  BY SchedAssumption DEF Spawn, AllThreads
<1>2. \A d \in Cpus : t # current[d]
  BY <1>1 DEF IInv, CurrentInv
<1>3. \A d \in Cpus : t # handoff[d]
  BY <1>1 DEF IInv, HandoffInv
<1>4. Off(t) /\ t \notin Range(ready)
  BY <1>1, <1>2, <1>3 DEF IInv, ReadyInv, Off
<1> QED
  BY <1>1, <1>4, EnqueuePreserves, Zenon DEF Spawn

\* yield_now and on_tick preserve the invariant.
LEMMA YieldPreserves ==
    ASSUME IInv, NEW c \in Cpus, Yield(c)
    PROVE  IInv'
<1>1. /\ pc[c] = "run" /\ current[c] # None /\ current[c] \in AllThreads
      /\ state[current[c]] = "Running"
  BY DEF IInv, SlotInv, CurrentInv, TypeOK, Yield
<1>2. CASE PickNext(c) # current[c]
  <2> DEFINE s == IF current[c] \in Idles THEN state[current[c]] ELSE "Ready"
  <2>1. SwitchFrom(c, s, FALSE)
    BY <1>2, Zenon DEF Yield
  <2>2. \/ current[c] \in Threads /\ s = "Ready"
        \/ current[c] \in Idles /\ s = "Running"
    BY <1>1 DEF AllThreads
  <2>3. s \in ThreadStates /\ FALSE \in BOOLEAN
    BY <2>2 DEF ThreadStates
  <2> HIDE DEF s
  <2> QED
    BY <1>1, <1>2, <2>1, <2>2, <2>3, SwitchPreserves, Zenon
<1>3. CASE PickNext(c) = current[c]
  <2>1. /\ ready' = AfterPick
        /\ UNCHANGED <<state, running, wakePending, saved, current, handoff,
                       blocking, pc, target>>
    BY <1>3 DEF Yield
  <2>2. /\ AfterPick \in Seq(Threads)
        /\ Range(ready)' = Range(ready)
        /\ \A i, j \in 1..Len(ready') : ready'[i] = ready'[j] => i = j
    BY <1>1, <1>3, <2>1, PickFacts, PickedIsNotCurrent, Zenon
  <2>3. TypeOK'
    BY <2>1, <2>2 DEF IInv, TypeOK
  <2>4. ReadyInv'
    BY <2>1, <2>2 DEF IInv, ReadyInv
  <2>5. SlotInv' /\ DistinctInv' /\ CurrentInv' /\ HandoffInv'
    BY <2>1 DEF IInv, SlotInv, DistinctInv, CurrentInv, HandoffInv, Switching
  <2>6. OffInv' /\ IdleInv' /\ NoLostWakeup'
    BY <2>1 DEF IInv, OffInv, IdleInv, NoLostWakeup, Off
  <2> QED
    BY <2>3, <2>4, <2>5, <2>6 DEF IInv
<1> QED
  BY <1>2, <1>3

\* block_current preserves the invariant.
LEMMA BlockPreserves ==
    ASSUME IInv, NEW c \in Cpus, Block(c)
    PROVE  IInv'
<1>1. pc[c] = "armed" /\ current[c] # None /\ current[c] \in Threads /\ Bsp \in Cpus
  BY SchedAssumption DEF IInv, SlotInv, Block
<1>2. CASE ~AbortsBlock(c)
  <2>1. SwitchFrom(c, "Blocked", TRUE) /\ ~wakePending[current[c]]
    BY <1>2, Zenon DEF Block, AbortsBlock
  <2>2. PickNext(c) # current[c]
    BY <1>1, PickedIsNotCurrent, IdleType
  <2>3. "Blocked" \in ThreadStates /\ TRUE \in BOOLEAN
    BY DEF ThreadStates
  <2> QED
    BY <1>1, <2>1, <2>2, <2>3, SwitchPreserves, Zenon
<1>3. CASE AbortsBlock(c)
  <2>1. /\ pc' = [pc EXCEPT ![c] = "run"]
        /\ UNCHANGED <<state, running, wakePending, saved, ready, current,
                       handoff, blocking, target>>
    BY <1>3 DEF Block
  <2>2. TypeOK /\ TypeOK'
    BY <2>1 DEF IInv, TypeOK, PcValues
  <2>3. \A d \in Cpus : pc'[d] = pc[d] \/ (pc[d] = "armed" /\ pc'[d] = "run")
    BY <1>1, <2>1, <2>2 DEF TypeOK
  <2>4. SlotInv'
    BY <1>1, <2>1, <2>3 DEF IInv, SlotInv, Switching
  <2>5. CurrentInv'
    BY SMT, <2>1, <2>3 DEF IInv, CurrentInv
  <2>6. HandoffInv'
    BY <2>1, <2>3, ZenonT(30) DEF IInv, HandoffInv
  <2>7. DistinctInv' /\ OffInv'
    BY <2>1 DEF IInv, DistinctInv, OffInv, Off
  <2>8. IdleInv' /\ ReadyInv'
    BY SMTT(30), <2>1 DEF IInv, IdleInv, ReadyInv, Off
  <2>9. NoLostWakeup'
    BY SMT, <2>1 DEF IInv, NoLostWakeup
  <2> QED
    BY <2>2, <2>4, <2>5, <2>6, <2>7, <2>8, <2>9 DEF IInv
<1> QED
  BY <1>2, <1>3

\* exit preserves the invariant.
LEMMA ExitPreserves ==
    ASSUME IInv, NEW c \in Cpus, Exit(c)
    PROVE  IInv'
<1>1. /\ pc[c] = "run" /\ current[c] \in Threads /\ current[c] # None
      /\ SwitchFrom(c, "Exited", TRUE)
  BY SchedAssumption, Zenon DEF Exit, AtWork, AllThreads
<1>2. PickNext(c) # current[c]
  BY <1>1, PickedIsNotCurrent, IdleType
<1>3. "Exited" \in ThreadStates /\ TRUE \in BOOLEAN
  BY DEF ThreadStates
<1> QED
  BY <1>1, <1>2, <1>3, SwitchPreserves, Zenon

\* Every step of the scheduler preserves the invariant.
LEMMA NextIInv == IInv /\ [Next]_vars => IInv'
<1> SUFFICES ASSUME IInv, [Next]_vars PROVE IInv'
  OBVIOUS
<1>1. CASE InitBsp
  BY <1>1, InitBspPreserves
<1>2. ASSUME NEW c \in Cpus, CpuEnter(c) PROVE IInv'
  BY <1>2, CpuEnterPreserves
<1>3. ASSUME NEW c \in Cpus, NEW t \in Threads, Spawn(c, t) PROVE IInv'
  BY <1>3, SpawnPreserves
<1>4. ASSUME NEW c \in Cpus, NEW t \in Threads, UnblockMark(c, t) PROVE IInv'
  BY <1>4, MarkPreserves
<1>5. ASSUME NEW c \in Cpus, Yield(c) PROVE IInv'
  BY <1>5, YieldPreserves
<1>6. ASSUME NEW c \in Cpus, MarkBlocking(c) PROVE IInv'
  BY <1>6, MarkPreserves
<1>7. ASSUME NEW c \in Cpus, Block(c) PROVE IInv'
  BY <1>7, BlockPreserves
<1>8. ASSUME NEW c \in Cpus, Exit(c) PROVE IInv'
  BY <1>8, ExitPreserves
<1>9. ASSUME NEW c \in Cpus, Claim(c) PROVE IInv'
  BY <1>9, ClaimPreserves
<1>10. ASSUME NEW c \in Cpus, Switch(c) PROVE IInv'
  BY <1>10, CtxSwitchPreserves
<1>11. ASSUME NEW c \in Cpus, FinishSwitch(c) PROVE IInv'
  BY <1>11, FinishSwitchPreserves
<1>12. ASSUME NEW c \in Cpus, Unblock(c) PROVE IInv'
  BY <1>12, UnblockPreserves
<1>13. ASSUME NEW c \in Cpus, Reap(c) PROVE IInv'
  BY <1>13, ReapPreserves
<1>14. CASE UNCHANGED vars
  BY SMT, <1>14 DEF vars, IInv, TypeOK, SlotInv, DistinctInv, CurrentInv, HandoffInv,
     OffInv, IdleInv, ReadyInv, NoLostWakeup, Off, Switching
<1> QED
  BY <1>1, <1>2, <1>3, <1>4, <1>5, <1>6, <1>7, <1>8, <1>9, <1>10, <1>11,
     <1>12, <1>13, <1>14 DEF Next

\* The invariant holds in every reachable state of the scheduler.
THEOREM Invariance == Spec => []IInv
BY InitIInv, NextIInv, PTL DEF Spec

----------------------------------------------------------------------------
(* What the invariant says of the properties of the scheduler. *)

\* The invariant leaves no two CPUs executing on one stack.
LEMMA InvStackExclusion == IInv => StackExclusion
<1> SUFFICES ASSUME IInv, NEW c \in Cpus, NEW d \in Cpus, c # d,
                    StackOf(c) # None
             PROVE  StackOf(c) # StackOf(d)
  BY DEF StackExclusion
<1>1. StackOf(c) \in {current[c], handoff[c]} /\ StackOf(d) \in {current[d], handoff[d]}
  BY DEF StackOf
<1> QED
  BY <1>1 DEF IInv, DistinctInv

\* The invariant makes every switch resume a saved context, unclaimed by others.
LEMMA InvSwitches == IInv => ResumesSavedContext /\ ClaimUncontended
<1> SUFFICES ASSUME IInv, NEW c \in Cpus, pc[c] \in {"claim", "switch"}
             PROVE  saved[current[c]] /\ (pc[c] = "claim" => ~running[current[c]])
  BY DEF ResumesSavedContext, ClaimUncontended
<1>1. current[c] # None
  BY DEF IInv, SlotInv
<1> QED
  BY <1>1 DEF IInv, CurrentInv

\* The invariant gives every Ready thread a queue entry or a CPU on its way to it.
LEMMA InvNoStranded == IInv => NoStrandedThread
<1> SUFFICES ASSUME IInv, NEW t \in Threads, state[t] = "Ready"
             PROVE  LET places == {i \in 1..Len(ready) : ready[i] = t}
                        leaving == {c \in Cpus : handoff[c] = t}
                    IN  \/ leaving = {} /\ \E i \in places : places = {i}
                        \/ places = {} /\ \E c \in leaving : leaving = {c} /\ ~blocking[c]
  BY DEF NoStrandedThread
<1> DEFINE places == {i \in 1..Len(ready) : ready[i] = t}
<1> DEFINE leaving == {c \in Cpus : handoff[c] = t}
<1>1. /\ t \in Range(ready) <=> \A c \in Cpus : handoff[c] # t
      /\ \A i, j \in 1..Len(ready) : ready[i] = ready[j] => i = j
  BY DEF IInv, ReadyInv
<1>2. Range(ready) = {ready[i] : i \in 1..Len(ready)}
  BY RangeOfSeq DEF IInv, TypeOK
<1>3. CASE t \in Range(ready)
  <2>1. PICK i \in 1..Len(ready) : ready[i] = t
    BY <1>2, <1>3
  <2>2. places = {i}
    BY <2>1, <1>1
  <2>3. leaving = {}
    BY <1>1, <1>3
  <2> QED
    BY <2>2, <2>3
<1>4. CASE t \notin Range(ready)
  <2>1. PICK c \in Cpus : handoff[c] = t
    BY <1>1, <1>4
  <2>2. t # None
    BY SchedAssumption DEF AllThreads
  <2>3. leaving = {c}
    BY <2>1, <2>2 DEF IInv, DistinctInv
  <2>4. ~blocking[c]
    BY <2>1, <2>2 DEF IInv, HandoffInv
  <2>5. places = {}
    BY <1>2, <1>4
  <2> QED
    BY <2>3, <2>4, <2>5
<1> QED
  BY <1>3, <1>4

\* The invariant keeps the stacks that some CPU uses out of the freed ones.
LEMMA InvNoFreed == IInv => NoFreedStackInUse
<1> SUFFICES ASSUME IInv, NEW c \in Cpus,
                    NEW t \in {StackOf(c), current[c], handoff[c]}, t # None
             PROVE  state[t] # "Freed"
  BY DEF NoFreedStackInUse
<1>1. t = current[c] \/ t = handoff[c]
  BY DEF StackOf
<1>2. CASE t = current[c]
  BY <1>2 DEF IInv, CurrentInv
<1>3. CASE t = handoff[c]
  <2>1. t \in Threads \/ t = IdleOf[c]
    BY <1>3 DEF IInv, SlotInv
  <2> QED
    BY <2>1, <1>3 DEF IInv, HandoffInv, IdleInv
<1> QED
  BY <1>1, <1>2, <1>3

\* The variables of the scheduler keep their types.
THEOREM TypeCorrect == Spec => []TypeOK
<1>1. IInv => TypeOK
  BY DEF IInv
<1> QED
  BY <1>1, Invariance, PTL

\* No two CPUs ever execute on one kernel stack, and a switch only loads a
\* context that was saved when its thread was last left.
THEOREM StackSafety ==
    Spec => []StackExclusion /\ []ResumesSavedContext /\ []ClaimUncontended
BY InvStackExclusion, InvSwitches, Invariance, PTL

\* pick_next never meets a phantom, and no runnable thread is lost or queued
\* twice.
THEOREM QueueSafety == Spec => []NoPhantoms /\ []NoStrandedThread
<1>1. IInv => NoPhantoms
  BY InvNoPhantoms
<1> QED
  BY <1>1, InvNoStranded, Invariance, PTL

\* No wake-up is lost between a waiter's decision to sleep and its sleep.
THEOREM WakeSafety == Spec => []NoLostWakeup
<1>1. IInv => NoLostWakeup
  BY DEF IInv
<1> QED
  BY <1>1, Invariance, PTL

\* reap never frees a stack that is in use.
THEOREM ReapSafety == Spec => []NoFreedStackInUse
BY InvNoFreed, Invariance, PTL

----------------------------------------------------------------------------
(* What every step of the scheduler respects: an exit is final, and a step *)
(* is one of the contract Park or leaves it alone. *)


\* A step moves a thread from Exited to Freed or not at all.
LEMMA ExitStep ==
    ASSUME IInv, [Next]_vars, NEW t \in Threads, state[t] \in {"Exited", "Freed"}
    PROVE  state'[t] = state[t] \/ (state[t] = "Exited" /\ state'[t] = "Freed")
<1>1. t \in AllThreads /\ t # None
  BY SchedAssumption DEF AllThreads
<1>2. state \in [AllThreads -> ThreadStates] /\ Boot \in Threads /\ Bsp \in Cpus
  BY SchedAssumption DEF IInv, TypeOK
<1>3. ASSUME NEW c \in Cpus, NEW s, NEW b, handoff[c] = None, current[c] # None,
             PickNext(c) # current[c], SwitchFrom(c, s, b)
      PROVE  state'[t] = state[t]
  <2>1. state[current[c]] = "Running"
    BY <1>3 DEF IInv, CurrentInv
  <2>2. t # current[c]
    BY <2>1
  <2>3. t # PickNext(c)
    BY <1>3, PickedIsOff
  <2>4. state' = [state EXCEPT ![current[c]] = s, ![PickNext(c)] = "Running"]
    BY <1>3 DEF SwitchFrom
  <2> QED
    BY <2>2, <2>3, <2>4, <1>1, <1>2
<1>4. CASE InitBsp
  <2>1. state[Boot] = "Unborn"
    BY <1>4 DEF IInv, SlotInv, InitBsp
  <2>2. t # Boot /\ t # IdleOf[Bsp]
    BY <2>1, <1>2, IdleType
  <2> QED
    BY <1>1, <1>2, <1>4, <2>2 DEF InitBsp
<1>5. ASSUME NEW c \in Cpus, CpuEnter(c) PROVE state'[t] = state[t]
  BY <1>1, <1>2, <1>5, IdleType DEF CpuEnter
<1>6. ASSUME NEW c \in Cpus, NEW u \in Threads, Spawn(c, u) \/ UnblockMark(c, u)
      PROVE  state'[t] = state[t]
  BY <1>1, <1>2, <1>6 DEF Spawn, UnblockMark
<1>7. ASSUME NEW c \in Cpus, Yield(c) PROVE state'[t] = state[t]
  <2>1. handoff[c] = None /\ current[c] # None
    BY <1>7 DEF IInv, SlotInv, Switching, Yield
  <2>2. CASE PickNext(c) = current[c]
    BY <1>7, <2>2 DEF Yield
  <2>3. CASE PickNext(c) # current[c]
    <3> DEFINE s == IF current[c] \in Idles THEN state[current[c]] ELSE "Ready"
    <3>1. SwitchFrom(c, s, FALSE)
      BY <1>7, <2>3, Zenon DEF Yield
    <3> HIDE DEF s
    <3> QED
      BY <2>1, <2>3, <3>1, <1>3, Zenon
  <2> QED
    BY <2>2, <2>3
<1>8. ASSUME NEW c \in Cpus, Block(c) PROVE state'[t] = state[t]
  <2>1. handoff[c] = None /\ current[c] # None /\ current[c] \in Threads
    BY <1>8, SchedAssumption DEF IInv, SlotInv, Switching, Block, AllThreads
  <2>2. PickNext(c) # current[c]
    BY <2>1, PickedIsNotCurrent, IdleType
  <2>3. state' = state \/ SwitchFrom(c, "Blocked", TRUE)
    BY <1>8, Zenon DEF Block
  <2> QED
    BY <2>1, <2>2, <2>3, <1>3, Zenon
<1>9. ASSUME NEW c \in Cpus, Exit(c) PROVE state'[t] = state[t]
  <2>1. handoff[c] = None /\ current[c] # None /\ current[c] \in Threads
    BY <1>9, SchedAssumption DEF IInv, SlotInv, Switching, Exit, AtWork, AllThreads
  <2>2. PickNext(c) # current[c]
    BY <2>1, PickedIsNotCurrent, IdleType
  <2>3. SwitchFrom(c, "Exited", TRUE)
    BY <1>9, Zenon DEF Exit
  <2> QED
    BY <2>1, <2>2, <2>3, <1>3, Zenon
<1>10. ASSUME NEW c \in Cpus, MarkBlocking(c) \/ Claim(c) \/ Switch(c)
       PROVE  state'[t] = state[t]
  BY <1>10, Zenon DEF MarkBlocking, Claim, Switch
<1>11. ASSUME NEW c \in Cpus, FinishSwitch(c) PROVE state'[t] = state[t]
  <2>1. handoff[c] # None
    BY <1>11 DEF IInv, SlotInv, Switching, FinishSwitch
  <2>2. Requeues(c) => handoff[c] # t
    BY <2>1, <1>1 DEF IInv, HandoffInv, Requeues
  <2> QED
    BY <2>2, <1>1, <1>2, <1>11 DEF FinishSwitch
<1>12. ASSUME NEW c \in Cpus, Unblock(c) PROVE state'[t] = state[t]
  BY <1>1, <1>2, <1>12 DEF Unblock, Parked
<1>13. ASSUME NEW c \in Cpus, Reap(c)
       PROVE  state'[t] = state[t] \/ (state[t] = "Exited" /\ state'[t] = "Freed")
  <2>1. PICK dead \in SUBSET Droppable :
            state' = [u \in AllThreads |-> IF u \in dead THEN "Freed" ELSE state[u]]
    BY <1>13 DEF Reap
  <2> QED
    BY <2>1, <1>1 DEF Droppable, Graveyard
<1>14. CASE UNCHANGED vars
  BY <1>14 DEF vars
<1> QED
  BY <1>4, <1>5, <1>6, <1>7, <1>8, <1>9, <1>10, <1>11, <1>12, <1>13, <1>14 DEF Next

\* A thread that exited is never scheduled again, whoever still wakes it.
THEOREM ExitSafety == Spec => ExitIsFinal
<1>1. IInv /\ [Next]_vars =>
        [\A t \in Threads :
            state[t] \in {"Exited", "Freed"} =>
                \/ state'[t] = state[t]
                \/ state[t] = "Exited" /\ state'[t] = "Freed"]_vars
  BY ExitStep
<1> QED
  BY <1>1, Invariance, PTL DEF Spec, ExitIsFinal

----------------------------------------------------------------------------
(* The scheduler keeps the contract of Park. *)

\* What a wait object sees of the states of a thread.
LEMMA ModeValues ==
    /\ ModeOf("Unborn") = "absent"
    /\ ModeOf("Ready") = "runnable" /\ ModeOf("Running") = "runnable"
    /\ ModeOf("Blocked") = "parked"
    /\ ModeOf("Exited") = "gone" /\ ModeOf("Freed") = "gone"
BY DEF ModeOf

\* Changing the state of one thread changes one entry of ParkMode.
LEMMA ModeUpdate ==
    ASSUME state \in [AllThreads -> ThreadStates], NEW t \in Threads,
           \A u \in Threads \ {t} : ModeOf(state'[u]) = ModeOf(state[u])
    PROVE  ParkMode' = [ParkMode EXCEPT ![t] = ModeOf(state'[t])]
BY Zenon DEF ParkMode

\* A thread whose state is left alone keeps its mode in the contract.
LEMMA ModeSame ==
    ASSUME \A u \in Threads : ModeOf(state'[u]) = ModeOf(state[u])
    PROVE  ParkMode' = ParkMode
BY DEF ParkMode

\* Updating one entry of the wake tokens, read through the refinement mapping.
LEMMA TokenUpdate ==
    ASSUME wakePending \in [AllThreads -> BOOLEAN], NEW t \in Threads, NEW b \in BOOLEAN,
           wakePending' = [wakePending EXCEPT ![t] = b]
    PROVE  ParkToken' = [ParkToken EXCEPT ![t] = b]
<1>1. t \in AllThreads
  BY DEF AllThreads
<1>2. \A u \in Threads : u \in AllThreads /\ wakePending'[u] = IF u = t THEN b ELSE wakePending[u]
  BY <1>1 DEF AllThreads
<1> QED
  BY <1>2, Zenon DEF ParkToken

\* A switch leaves every thread but the previous one as its wakers saw it.
LEMMA SwitchModes ==
    ASSUME IInv, NEW c \in Cpus, handoff[c] = None, current[c] # None,
           PickNext(c) # current[c], NEW s, NEW b, SwitchFrom(c, s, b)
    PROVE  /\ \A u \in Threads \ {current[c]} : ModeOf(state'[u]) = ModeOf(state[u])
           /\ state'[current[c]] = s
<1>1. state' = [state EXCEPT ![current[c]] = s, ![PickNext(c)] = "Running"]
  BY DEF SwitchFrom
<1>2. state \in [AllThreads -> ThreadStates] /\ current[c] \in AllThreads
  BY DEF IInv, TypeOK
<1>3. PickNext(c) \in AllThreads /\ (PickNext(c) \in Threads => state[PickNext(c)] = "Ready")
  BY PickedIsOff
<1>4. state'[current[c]] = s
  BY <1>1, <1>2, <1>3
<1>5. ASSUME NEW u \in Threads \ {current[c]}
      PROVE  ModeOf(state'[u]) = ModeOf(state[u])
  <2>1. CASE u = PickNext(c)
    <3>1. state[u] = "Ready" /\ state'[u] = "Running"
      BY <1>1, <1>2, <1>3, <2>1, <1>5
    <3> QED
      BY <3>1, ModeValues
  <2>2. CASE u # PickNext(c)
    <3>1. state'[u] = state[u]
      BY <1>1, <1>2, <2>2, <1>5 DEF AllThreads
    <3> QED
      BY <3>1
  <2> QED
    BY <2>1, <2>2
<1> QED
  BY <1>4, <1>5

\* Every step of the scheduler is a step of Park, or none.
LEMMA ParkStep == IInv /\ [Next]_vars => [P!Next]_P!vars
<1> SUFFICES ASSUME IInv, [Next]_vars PROVE P!Next \/ UNCHANGED P!vars
  OBVIOUS
<1> USE SchedAssumption
<1>a. /\ state \in [AllThreads -> ThreadStates]
      /\ wakePending \in [AllThreads -> BOOLEAN]
      /\ target \in [Cpus -> Threads \cup {None}]
      /\ \A t \in Threads : t \in AllThreads /\ t # None /\ t \notin Idles
      /\ \A t \in Threads : ParkMode[t] = ModeOf(state[t]) /\ ParkToken[t] = wakePending[t]
  BY DEF IInv, TypeOK, AllThreads, ParkMode, ParkToken
<1>b. ASSUME UNCHANGED <<wakePending, target>>,
             \A u \in Threads : ModeOf(state'[u]) = ModeOf(state[u])
      PROVE  UNCHANGED P!vars
  <2>1. ParkMode' = ParkMode
    BY <1>b, ModeSame
  <2>2. ParkToken' = ParkToken
    BY <1>b DEF ParkToken
  <2> QED
    BY <1>b, <2>1, <2>2 DEF P!vars
<1>c. ASSUME NEW t \in Threads, state[t] = "Unborn", state'[t] \in {"Ready", "Running"},
             \A u \in Threads \ {t} : state'[u] = state[u],
             UNCHANGED <<wakePending, target>>
      PROVE  P!Next
  <2>a. ModeOf(state'[t]) = "runnable"
    BY <1>c, ModeValues
  <2>b. \A u \in Threads \ {t} : ModeOf(state'[u]) = ModeOf(state[u])
    BY <1>c
  <2>c. ParkMode[t] = "absent"
    BY <1>a, <1>c, ModeValues
  <2>d. ParkMode' = [ParkMode EXCEPT ![t] = "runnable"]
    BY <1>a, <2>a, <2>b, ModeUpdate
  <2>1. ParkMode' = [ParkMode EXCEPT ![t] = "runnable"] /\ ParkMode[t] = "absent"
    BY <2>c, <2>d
  <2>2. ParkToken' = ParkToken
    BY <1>c DEF ParkToken
  <2>3. P!Start(t)
    BY <2>1, <2>2, <1>c DEF P!Start, P!Become
  <2> QED
    BY <2>3 DEF P!Next
<1>1. CASE InitBsp
  <2>1. state[Boot] = "Unborn"
    BY <1>1 DEF IInv, SlotInv, InitBsp
  <2>2. Boot # IdleOf[Bsp] /\ IdleOf[Bsp] \in AllThreads /\ IdleOf[Bsp] \notin Threads
    BY <1>a, IdleType
  <2>3. state'[Boot] = "Running" /\ \A u \in Threads \ {Boot} : state'[u] = state[u]
    BY <1>1, <1>a, <2>2 DEF InitBsp
  <2> QED
    BY <2>1, <2>3, <1>1, <1>c, Zenon DEF InitBsp
<1>2. ASSUME NEW c \in Cpus, CpuEnter(c) PROVE UNCHANGED P!vars
  <2>1. \A u \in Threads : state'[u] = state[u]
    BY <1>2, <1>a, IdleType DEF CpuEnter
  <2> QED
    BY <2>1, <1>2, <1>b DEF CpuEnter
<1>3. ASSUME NEW c \in Cpus, NEW t \in Threads, Spawn(c, t) PROVE P!Next
  <2>1. state'[t] = "Ready" /\ \A u \in Threads \ {t} : state'[u] = state[u]
    BY <1>3, <1>a DEF Spawn
  <2> QED
    BY <2>1, <1>3, <1>c DEF Spawn
<1>4. ASSUME NEW c \in Cpus, NEW t \in Threads, UnblockMark(c, t) PROVE P!Next
  <2>1. target[c] = None
    BY <1>4 DEF IInv, SlotInv, UnblockMark
  <2>2. ParkMode[t] # "absent"
    <3>1. state[t] \in ThreadStates \ {"Unborn", "Freed"}
      BY <1>4, <1>a DEF UnblockMark
    <3> QED
      BY <3>1, <1>a, ModeValues DEF ThreadStates
  <2>3. ParkToken' = [ParkToken EXCEPT ![t] = TRUE]
    BY <1>4, <1>a, TokenUpdate, Zenon DEF UnblockMark
  <2>4. ParkMode' = ParkMode
    BY <1>4 DEF UnblockMark, ParkMode
  <2>5. P!Wake(c, t)
    BY <1>4, <2>1, <2>2, <2>3, <2>4 DEF P!Wake, UnblockMark
  <2> QED
    BY <2>5 DEF P!Next
<1>5. ASSUME NEW c \in Cpus, Yield(c) PROVE UNCHANGED P!vars
  <2>1. handoff[c] = None /\ current[c] # None /\ state[current[c]] = "Running"
    BY <1>5 DEF IInv, SlotInv, Switching, CurrentInv, Yield
  <2>2. CASE PickNext(c) = current[c]
    BY <1>5, <2>2, <1>b DEF Yield
  <2>3. CASE PickNext(c) # current[c]
    <3> DEFINE s == IF current[c] \in Idles THEN state[current[c]] ELSE "Ready"
    <3>1. SwitchFrom(c, s, FALSE)
      BY <1>5, <2>3, Zenon DEF Yield
    <3>2. current[c] \in Threads => s = "Ready"
      BY <1>a
    <3> HIDE DEF s
    <3>3. /\ \A u \in Threads \ {current[c]} : ModeOf(state'[u]) = ModeOf(state[u])
          /\ state'[current[c]] = s
      BY <2>1, <2>3, <3>1, SwitchModes, Zenon
    <3>4. \A u \in Threads : ModeOf(state'[u]) = ModeOf(state[u])
      BY <3>2, <3>3, <2>1, ModeValues
    <3>5. UNCHANGED <<wakePending, target>>
      BY <3>1 DEF SwitchFrom
    <3> QED
      BY <3>4, <3>5, <1>b
  <2> QED
    BY <2>2, <2>3
<1>6. ASSUME NEW c \in Cpus, MarkBlocking(c) PROVE P!Next
  <2>1. current[c] \in Threads /\ state[current[c]] = "Running"
    BY <1>6, <1>a DEF IInv, CurrentInv, MarkBlocking, AtWork
  <2>2. ParkMode[current[c]] = "runnable"
    BY <2>1, <1>a, ModeValues
  <2>3. ParkToken' = [ParkToken EXCEPT ![current[c]] = FALSE]
    BY <1>6, <1>a, <2>1, TokenUpdate, Zenon DEF MarkBlocking
  <2>4. ParkMode' = ParkMode
    BY <1>6 DEF MarkBlocking, ParkMode
  <2>5. P!Arm(current[c])
    BY <1>6, <2>2, <2>3, <2>4 DEF P!Arm, MarkBlocking
  <2> QED
    BY <2>1, <2>5 DEF P!Next
<1>7. ASSUME NEW c \in Cpus, Block(c) PROVE P!Next \/ UNCHANGED P!vars
  <2>1. /\ handoff[c] = None /\ current[c] \in Threads /\ current[c] # None
        /\ state[current[c]] = "Running"
    BY <1>7, <1>a DEF IInv, SlotInv, Switching, CurrentInv, Block
  <2>2. CASE AbortsBlock(c)
    BY <1>7, <2>2, <1>b DEF Block
  <2>3. CASE ~AbortsBlock(c)
    <3>1. SwitchFrom(c, "Blocked", TRUE)
      BY <1>7, <2>3, Zenon DEF Block
    <3>2. PickNext(c) # current[c]
      BY <2>1, <1>a, PickedIsNotCurrent, IdleType
    <3>3. /\ \A u \in Threads \ {current[c]} : ModeOf(state'[u]) = ModeOf(state[u])
          /\ state'[current[c]] = "Blocked"
      BY <2>1, <3>1, <3>2, SwitchModes, ZenonT(30)
    <3>4. ParkMode' = [ParkMode EXCEPT ![current[c]] = "parked"]
      BY SMT, <3>3, <2>1, <1>a, ModeUpdate, ModeValues
    <3>5. ParkMode[current[c]] = "runnable" /\ ~ParkToken[current[c]]
      BY <2>1, <2>3, <1>a, ModeValues DEF AbortsBlock
    <3>6. ParkToken' = ParkToken /\ target' = target
      BY <3>1 DEF SwitchFrom, ParkToken
    <3>7. P!Sleep(current[c])
      BY <3>4, <3>5, <3>6 DEF P!Sleep, P!Become
    <3> QED
      BY <2>1, <3>7 DEF P!Next
  <2> QED
    BY <2>2, <2>3
<1>8. ASSUME NEW c \in Cpus, Exit(c) PROVE P!Next
  <2>1. /\ handoff[c] = None /\ current[c] \in Threads /\ current[c] # None
        /\ state[current[c]] = "Running"
    BY <1>8, <1>a DEF IInv, SlotInv, Switching, CurrentInv, Exit, AtWork
  <2>2. SwitchFrom(c, "Exited", TRUE)
    BY <1>8, Zenon DEF Exit
  <2>3. PickNext(c) # current[c]
    BY <2>1, <1>a, PickedIsNotCurrent, IdleType
  <2>4. /\ \A u \in Threads \ {current[c]} : ModeOf(state'[u]) = ModeOf(state[u])
        /\ state'[current[c]] = "Exited"
    BY <2>1, <2>2, <2>3, SwitchModes, Zenon
  <2>5. ParkMode' = [ParkMode EXCEPT ![current[c]] = "gone"]
    BY SMT, <2>4, <2>1, <1>a, ModeUpdate, ModeValues
  <2>6. ParkMode[current[c]] = "runnable"
    BY <2>1, <1>a, ModeValues
  <2>7. ParkToken' = ParkToken /\ target' = target
    BY <2>2 DEF SwitchFrom, ParkToken
  <2>8. P!Finish(current[c])
    BY <2>5, <2>6, <2>7 DEF P!Finish, P!Become
  <2> QED
    BY <2>1, <2>8 DEF P!Next
<1>9. ASSUME NEW c \in Cpus, Claim(c) \/ Switch(c) PROVE UNCHANGED P!vars
  BY <1>9, <1>b, Zenon DEF Claim, Switch
<1>10. ASSUME NEW c \in Cpus, FinishSwitch(c) PROVE P!Next \/ UNCHANGED P!vars
  <2> DEFINE p == handoff[c]
  <2>1. p # None /\ p \in AllThreads /\ UNCHANGED <<wakePending, target>>
    BY <1>10 DEF IInv, TypeOK, SlotInv, Switching, FinishSwitch
  <2>2. CASE ~Requeues(c)
    <3>1. state' = state
      BY <2>2, <1>10 DEF FinishSwitch
    <3> QED
      BY <3>1, <2>1, <1>b
  <2>3. CASE Requeues(c)
    <3>1. p \in Threads /\ state' = [state EXCEPT ![p] = "Ready"]
      BY <2>1, <2>3, <1>10 DEF FinishSwitch, Requeues, AllThreads
    <3>2. state'[p] = "Ready" /\ \A u \in Threads \ {p} : state'[u] = state[u]
      BY <3>1, <1>a
    <3>3. CASE blocking[c]
      <4>1. wakePending[p] /\ state[p] = "Blocked"
        BY <2>1, <2>3, <3>1, <3>3 DEF Requeues, IInv, HandoffInv
      <4>2. ParkMode' = [ParkMode EXCEPT ![p] = "runnable"]
        BY <3>1, <3>2, <1>a, ModeUpdate, ModeValues
      <4>3. ParkMode[p] = "parked" /\ ParkToken[p]
        BY <3>1, <4>1, <1>a, ModeValues
      <4>4. ParkToken' = ParkToken /\ target' = target
        BY <2>1 DEF ParkToken
      <4>5. P!Resume(p)
        BY <4>2, <4>3, <4>4 DEF P!Resume, P!Become
      <4> QED
        BY <3>1, <4>5 DEF P!Next
    <3>4. CASE ~blocking[c]
      <4>1. state[p] = "Ready"
        BY <2>1, <3>1, <3>4 DEF IInv, HandoffInv
      <4>2. \A u \in Threads : ModeOf(state'[u]) = ModeOf(state[u])
        BY <3>2, <4>1
      <4> QED
        BY <4>2, <2>1, <1>b
    <3> QED
      BY <3>3, <3>4
  <2> QED
    BY <2>2, <2>3
<1>11. ASSUME NEW c \in Cpus, Unblock(c) PROVE P!Next
  <2>1. target[c] # None /\ target[c] \in Threads
    BY <1>11, <1>a DEF IInv, SlotInv, Unblock
  <2>2. ParkToken' = ParkToken /\ target' = [target EXCEPT ![c] = None]
    BY <1>11 DEF Unblock, ParkToken
  <2>3. CASE Parked(target[c])
    <3>1. state' = [state EXCEPT ![target[c]] = "Ready"] /\ state[target[c]] = "Blocked"
      BY <1>11, <2>3 DEF Unblock, Parked
    <3>2. /\ state'[target[c]] = "Ready"
          /\ \A u \in Threads \ {target[c]} : state'[u] = state[u]
      BY <3>1, <2>1, <1>a
    <3>3. ParkMode' = [ParkMode EXCEPT ![target[c]] = "runnable"]
      BY SMT, <3>2, <2>1, <1>a, ModeUpdate, ModeValues
    <3>4. ParkMode[target[c]] = "parked"
      BY <3>1, <2>1, <1>a, ModeValues
    <3>5. P!Return(c)
      BY <2>1, <2>2, <3>3, <3>4 DEF P!Return, P!Become
    <3> QED
      BY <3>5 DEF P!Next
  <2>4. CASE ~Parked(target[c])
    <3>1. ParkMode' = ParkMode
      BY <1>11, <2>4 DEF Unblock, ParkMode
    <3>2. P!Return(c)
      BY <2>1, <2>2, <3>1 DEF P!Return
    <3> QED
      BY <3>2 DEF P!Next
  <2> QED
    BY <2>3, <2>4
<1>12. ASSUME NEW c \in Cpus, Reap(c) PROVE UNCHANGED P!vars
  <2>1. PICK dead \in SUBSET Droppable :
            state' = [u \in AllThreads |-> IF u \in dead THEN "Freed" ELSE state[u]]
    BY <1>12 DEF Reap
  <2>2. \A u \in dead : state[u] = "Exited"
    BY <2>1 DEF Droppable, Graveyard
  <2>3. \A u \in Threads : ModeOf(state'[u]) = ModeOf(state[u])
    BY <2>1, <2>2, <1>a, ModeValues
  <2> QED
    BY <2>3, <1>12, <1>b DEF Reap
<1>13. CASE UNCHANGED vars
  BY <1>13, <1>b DEF vars
<1> QED
  BY <1>1, <1>2, <1>3, <1>4, <1>5, <1>6, <1>7, <1>8, <1>9, <1>10, <1>11, <1>12, <1>13
  DEF Next

\* mark_blocking, block_current and unblock, as reschedule, finish_switch and
\* unblock implement them across CPUs, keep the contract the wait objects use.
THEOREM ParkRefined == Spec => ImplementsPark
<1>1. Init => P!Init
  <2> SUFFICES ASSUME Init PROVE P!Init
    OBVIOUS
  <2>1. \A t \in Threads : state[t] = "Unborn" /\ wakePending[t] = FALSE
    BY DEF Init, AllThreads
  <2>2. ParkMode = [t \in Threads |-> "absent"]
    BY <2>1, ModeValues DEF ParkMode
  <2>3. ParkToken = [t \in Threads |-> FALSE]
    BY <2>1, Zenon DEF ParkToken
  <2> QED
    BY <2>2, <2>3 DEF Init, P!Init
<1> QED
  BY <1>1, ParkStep, Invariance, PTL DEF Spec, ImplementsPark, P!Spec

============================================================================
