--------------------------- MODULE ServicesProofs ---------------------------
(***************************************************************************)
(* Proofs about Win32 and Session, for any number of threads, windows and  *)
(* nested activations, and any names, passwords and salts.                 *)
(***************************************************************************)
EXTENDS Win32, Session, SequenceTheorems, FiniteSetTheorems, TLAPS

----------------------------------------------------------------------------
(* Win32: control transfers. *)

\* The callbacks of a stack can be counted; a callback is among those from its own
\* depth up.
LEMMA InnerCount ==
    ASSUME NEW s, Len(s) \in Nat, NEW d \in Callbacks(s)
    PROVE  /\ IsFiniteSet(Inner(s, d)) /\ Cardinality(Inner(s, d)) \in Nat
           /\ d \in Inner(s, d) /\ Cardinality(Inner(s, d)) >= 1
<1>1. IsFiniteSet(2..Len(s))
    BY FS_Interval
<1>2. Inner(s, d) \in SUBSET (2..Len(s))
    BY DEF Inner, Callbacks
<1>3. IsFiniteSet(Inner(s, d))
    BY <1>1, <1>2, FS_Subset, Zenon
<1>4. d \in Inner(s, d)
    BY DEF Inner, Callbacks
<1>5. Cardinality(Inner(s, d)) \in Nat
    BY <1>3, FS_CardinalityType, Zenon
<1>6. Cardinality(Inner(s, d)) # 0
    BY <1>3, <1>4, FS_EmptySet, Zenon
<1> QED
    BY <1>3, <1>4, <1>5, <1>6

\* A stack that is cut back, its innermost activation then somewhere else, still fits
\* the saved frames when the cut left all its callbacks or none (Unwind, NtContinue).
LEMMA CutFits ==
    ASSUME NEW s, NEW u, NEW f, ReturnsFit(s, f),
           Len(s) \in Nat, Len(u) \in 0..Len(s),
           \A e \in 1..Len(u) : u[e].why = s[e].why /\ u[e].ctx = s[e].ctx,
           \A e \in 1..Len(u) : e < Len(u) => u[e].at = s[e].at,
           \/ \A e \in 2..Len(u) : s[e].why # "callback"
           \/ \A e \in Len(u) + 1..Len(s) : s[e].why # "callback"
    PROVE  ReturnsFit(u, f)
<1>1. \A d \in 2..Len(u) : Interrupted(u, d) = Interrupted(s, d) /\ u[d].ctx = s[d].ctx /\ d \in 2..Len(s)
  <2> SUFFICES ASSUME NEW d \in 2..Len(u)
               PROVE  u[d - 1].at = s[d - 1].at /\ u[d].ctx = s[d].ctx /\ d \in 2..Len(s)
    BY DEF Interrupted
  <2> QED
    OBVIOUS
<1>2. \A d \in 2..Len(u) : u[d].ctx = Interrupted(u, d)
    BY <1>1 DEF ReturnsFit
<1>3. CASE \A e \in 2..Len(u) : s[e].why # "callback"
  <2>1. Callbacks(u) = {}
    BY <1>3 DEF Callbacks
  <2> QED
    BY <1>2, <2>1 DEF ReturnsFit
<1>4. CASE \A e \in Len(u) + 1..Len(s) : s[e].why # "callback"
  <2>1. Callbacks(u) = Callbacks(s)
    BY <1>4 DEF Callbacks
  <2>2. \A d : Inner(u, d) = Inner(s, d)
    BY <2>1 DEF Inner
  <2>3. \A d \in Callbacks(u) : Interrupted(u, d) = Interrupted(s, d)
    BY <1>1 DEF Callbacks
  <2> QED
    BY <1>2, <2>1, <2>2, <2>3, Zenon DEF ReturnsFit
<1> QED
    BY <1>3, <1>4

\* What entering an activation does to the stack below it: nothing.
LEMMA EnterFacts ==
    ASSUME NEW s \in Seq(Activation), NEW why \in Reasons,
           NEW r \in SavedState
    PROVE  LET u == Enters(s, why, r) IN
           /\ u \in Seq(Activation) /\ Len(u) = Len(s) + 1 /\ u # <<>>
           /\ u[Len(s) + 1].why = why /\ u[Len(s) + 1].ctx = r
           /\ \A e \in 1..Len(s) : u[e] = s[e]
<1> DEFINE a == [why |-> why, at |-> 0, ctx |-> r]
           u == Append(s, a)
<1>1. a \in Activation
    BY DEF Activation
<1> HIDE DEF a
<1>2. /\ u \in Seq(Activation) /\ Len(u) = Len(s) + 1 /\ u # <<>>
      /\ u[Len(s) + 1] = a /\ \A e \in 1..Len(s) : u[e] = s[e]
    BY <1>1
<1>3. a.why = why /\ a.ctx = r
    BY DEF a
<1> HIDE DEF u
<1> QED
    BY <1>2, <1>3, Zenon DEF Enters, u, a

\* An activation over the state the kernel entry captured keeps every return fitting;
\* a callback with that state pushed on the saved frames (invoke_ring3_callback,
\* push_callback_frame, apc::stage, seh::deliver).
LEMMA EnterFits ==
    ASSUME NEW s, NEW f, StackInv(s, f), s # <<>>,
           NEW why \in {"callback", "apc", "exception"},
           NEW r, r = [depth |-> Len(s), at |-> last(s).at]
    PROVE  /\ r \in SavedState
           /\ StackInv(Enters(s, why, r), IF why = "callback" THEN Append(f, r) ELSE f)
<1> DEFINE L == Len(s)
           u == Enters(s, why, r)
           g == IF why = "callback" THEN Append(f, r) ELSE f
<1>1. s \in Seq(Activation) /\ f \in Seq(SavedState) /\ L \in Nat /\ L >= 1 /\ Len(f) \in Nat
      /\ s[1].why = "main" /\ ReturnsFit(s, f)
    BY DEF StackInv
<1>2. last(s) = s[L] /\ s[L] \in Activation
    BY <1>1 DEF last
<1>3. r \in SavedState
    BY <1>1, <1>2 DEF Activation, SavedState
<1>4. /\ u \in Seq(Activation) /\ Len(u) = L + 1 /\ u # <<>>
      /\ u[L + 1].why = why /\ u[L + 1].ctx = r
      /\ \A e \in 1..L : u[e] = s[e]
  <2>1. why \in Reasons
    BY DEF Reasons
  <2> QED
    BY <1>1, <1>3, <2>1, EnterFacts, SMTT(20)
<1> HIDE DEF u
<1>5. u[L + 1].why = why /\ u[L + 1].ctx = r
    BY <1>4
<1>6. Interrupted(u, L + 1) = r
  <2>1. (L + 1) - 1 = L /\ u[L] = s[L]
    BY <1>1, <1>4
  <2> QED
    BY <1>2, <2>1, Zenon DEF Interrupted
<1>7. \A d \in 2..L : Interrupted(u, d) = Interrupted(s, d) /\ u[d] = s[d]
  <2>1. \A d \in 2..L : u[d - 1] = s[d - 1] /\ u[d] = s[d]
    BY <1>1, <1>4
  <2> QED
    BY <2>1, Zenon DEF Interrupted
<1>8. \A d \in 2..Len(u) : u[d].ctx = Interrupted(u, d)
  <2>1. \A d \in 2..Len(u) : d \in 2..L \/ d = L + 1
    BY <1>1, <1>4
  <2> QED
    BY <1>1, <1>5, <1>6, <1>7, <2>1, Zenon DEF ReturnsFit
<1>9. ReturnsFit(u, g)
  <2>1. CASE why # "callback"
    <3>1. Callbacks(u) = Callbacks(s)
      BY <1>1, <1>4, <1>5, <1>7, <2>1 DEF Callbacks
    <3>2. \A d : Inner(u, d) = Inner(s, d)
      BY <3>1, Zenon DEF Inner
    <3>3. \A d \in Callbacks(u) : Interrupted(u, d) = Interrupted(s, d)
      BY <1>7, <3>1, Zenon DEF Callbacks
    <3>4. g = f
      BY <2>1
    <3> QED
      BY <1>1, <1>8, <3>1, <3>2, <3>3, <3>4, Zenon DEF ReturnsFit
  <2>2. CASE why = "callback"
    <3>1. Callbacks(u) = Callbacks(s) \cup {L + 1}
      BY <1>1, <1>4, <1>5, <1>7, <2>2 DEF Callbacks
    <3>2. g = Append(f, r) /\ Len(g) = Len(f) + 1 /\ g[Len(f) + 1] = r
          /\ \A i \in 1..Len(f) : g[i] = f[i]
      BY <1>1, <1>3, <2>2
    <3> HIDE DEF g
    <3>3. ASSUME NEW d \in Callbacks(u)
          PROVE  /\ Cardinality(Inner(u, d)) <= Len(g)
                 /\ g[Len(g) - Cardinality(Inner(u, d)) + 1] = Interrupted(u, d)
      <4>1. CASE d = L + 1
        <5>1. Inner(u, d) = {d}
          BY <1>1, <3>1, <4>1 DEF Inner, Callbacks
        <5>2. Cardinality(Inner(u, d)) = 1
          BY <5>1, FS_Singleton, Zenon
        <5> QED
          BY <1>1, <1>6, <3>2, <4>1, <5>2
      <4>2. CASE d \in Callbacks(s)
        <5>0. d \in 2..L
          BY <4>2 DEF Callbacks
        <5>1. Inner(u, d) = Inner(s, d) \cup {L + 1} /\ L + 1 \notin Inner(s, d)
          BY <1>1, <3>1, <5>0 DEF Inner, Callbacks
        <5>2. /\ IsFiniteSet(Inner(s, d)) /\ Cardinality(Inner(s, d)) \in Nat
              /\ Cardinality(Inner(s, d)) >= 1
          BY <1>1, <4>2, InnerCount, Zenon
        <5>3. Cardinality(Inner(u, d)) = Cardinality(Inner(s, d)) + 1
          BY <5>1, <5>2, FS_AddElement, Zenon
        <5>4. /\ Cardinality(Inner(s, d)) <= Len(f)
              /\ f[Len(f) - Cardinality(Inner(s, d)) + 1] = Interrupted(s, d)
          BY <1>1, <4>2, Zenon DEF ReturnsFit
        <5>5. Interrupted(u, d) = Interrupted(s, d)
          BY <1>7, <5>0, Zenon
        <5> DEFINE n == Cardinality(Inner(s, d))
        <5>6. Len(g) - (n + 1) + 1 = Len(f) - n + 1 /\ Len(f) - n + 1 \in 1..Len(f) /\ n + 1 <= Len(g)
          <6> HIDE DEF n
          <6> QED BY <1>1, <3>2, <5>2, <5>4 DEF n
        <5> QED
          BY <3>2, <5>3, <5>4, <5>5, <5>6, Zenon
      <4> QED
        BY <3>1, <4>1, <4>2
    <3> QED
      BY <1>8, <3>3, Zenon DEF ReturnsFit
  <2> QED
    BY <2>1, <2>2
<1>10. g \in Seq(SavedState)
    BY <1>1, <1>3
<1>11. u[1].why = "main"
    BY <1>1, <1>4
<1> QED
    BY <1>3, <1>4, <1>9, <1>10, <1>11, Zenon DEF StackInv, u

\* What is left of a stack that ring 3 cuts back to activation d.
LEMMA CutFacts ==
    ASSUME NEW s \in Seq(Activation), NEW d \in 1..Len(s), NEW n \in Nat
    PROVE  LET u == Cut(s, d, n) IN
           /\ u \in Seq(Activation) /\ Len(u) = d /\ u # <<>>
           /\ \A e \in 1..Len(u) : u[e].why = s[e].why /\ u[e].ctx = s[e].ctx
           /\ \A e \in 1..Len(u) : e < Len(u) => u[e].at = s[e].at
<1> DEFINE v == SubSeq(s, 1, d)
           a == [v[d] EXCEPT !.at = n]
           u == [v EXCEPT ![d] = a]
<1>1. v \in Seq(Activation) /\ Len(v) = d /\ \A e \in 1..d : v[e] = s[e]
    OBVIOUS
<1> HIDE DEF v
<1>2. v[d] \in Activation
    BY <1>1
<1>3. a \in Activation /\ a.why = v[d].why /\ a.ctx = v[d].ctx
    BY <1>2 DEF Activation
<1> HIDE DEF a
<1>4. u \in Seq(Activation) /\ Len(u) = d /\ u # <<>> /\ u[d] = a
      /\ \A e \in 1..d : e # d => u[e] = v[e]
    BY <1>1, <1>3
<1>5. u = Cut(s, d, n)
    BY DEF u, a, v, Cut
<1> HIDE DEF u
<1>6. \A e \in 1..d : u[e].why = s[e].why /\ u[e].ctx = s[e].ctx
    BY <1>1, <1>3, <1>4
<1>7. \A e \in 1..d : e < d => u[e].at = s[e].at
    BY <1>1, <1>4
<1> QED
    BY <1>4, <1>5, <1>6, <1>7, Zenon

\* A stack that is cut back, leaving all its callbacks or none (Unwind, NtContinue).
LEMMA CutStack ==
    ASSUME NEW s, NEW f, StackInv(s, f), NEW d \in 1..Len(s), NEW n \in Nat,
           \/ \A e \in 2..d : s[e].why # "callback"
           \/ \A e \in d + 1..Len(s) : s[e].why # "callback"
    PROVE  StackInv(Cut(s, d, n), f)
<1> DEFINE u == Cut(s, d, n)
<1>1. s \in Seq(Activation) /\ f \in Seq(SavedState) /\ Len(s) \in Nat /\ ReturnsFit(s, f)
      /\ s[1].why = "main"
    BY DEF StackInv
<1>2. /\ u \in Seq(Activation) /\ Len(u) = d /\ u # <<>>
      /\ \A e \in 1..Len(u) : u[e].why = s[e].why /\ u[e].ctx = s[e].ctx
      /\ \A e \in 1..Len(u) : e < Len(u) => u[e].at = s[e].at
    BY <1>1, CutFacts, SMTT(20)
<1> HIDE DEF u
<1>3. Len(u) \in 0..Len(s)
    BY <1>1, <1>2
<1>4. ReturnsFit(u, f)
    BY <1>1, <1>2, <1>3, CutFits, Zenon
<1>5. u[1].why = "main"
    BY <1>1, <1>2
<1> QED
    BY <1>1, <1>2, <1>4, <1>5, Zenon DEF StackInv, u

\* The state a CONTEXT holds is that of the activation below its own, and an APC or
\* exception activation is never the bottom of a stack.
LEMMA ContextFacts ==
    ASSUME NEW s, NEW f, StackInv(s, f), s # <<>>, last(s).why # "main"
    PROVE  /\ Len(s) \in Nat /\ Len(s) >= 2 /\ last(s) = s[Len(s)]
           /\ last(s).ctx \in SavedState
           /\ last(s).ctx = Interrupted(s, Len(s))
           /\ last(s).ctx.depth = Len(s) - 1
           /\ last(s).ctx.at = s[Len(s) - 1].at
<1>1. s \in Seq(Activation) /\ Len(s) \in Nat /\ Len(s) >= 1 /\ s[1].why = "main" /\ ReturnsFit(s, f)
    BY DEF StackInv
<1>2. last(s) = s[Len(s)] /\ s[Len(s)] \in Activation
    BY <1>1 DEF last
<1>3. Len(s) # 1
    BY <1>1, <1>2
<1>4. Len(s) >= 2 /\ Len(s) \in 2..Len(s)
  <2> DEFINE n == Len(s)
  <2>1. n \in Nat /\ n >= 1 /\ n # 1
    BY <1>1, <1>3
  <2> HIDE DEF n
  <2>2. n >= 2 /\ n \in 2..n
    BY <2>1
  <2> QED
    BY <2>2 DEF n
<1>5. s[Len(s)].ctx = Interrupted(s, Len(s))
    BY <1>1, <1>4, Zenon DEF ReturnsFit
<1>6. s[Len(s)].ctx \in SavedState
    BY <1>2 DEF Activation
<1> QED
    BY <1>1, <1>2, <1>4, <1>5, <1>6 DEF Interrupted

\* A callback returns to the newest saved frame, which is the state it interrupted,
\* and what stays fits the frames that stay (NtCallbackReturn).
LEMMA ReturnFits ==
    ASSUME NEW s, NEW f, StackInv(s, f), s # <<>>, last(s).why = "callback"
    PROVE  /\ last(f) = last(s).ctx
           /\ StackInv(Cut(s, last(f).depth, last(f).at + 1), pop(f))
<1> DEFINE L == Len(s)
           r == last(s).ctx
           u == Cut(s, L - 1, r.at + 1)
           g == pop(f)
<1>1. s \in Seq(Activation) /\ f \in Seq(SavedState) /\ L \in Nat /\ ReturnsFit(s, f)
      /\ s[1].why = "main" /\ Len(f) \in Nat
    BY DEF StackInv
<1>2. L >= 2 /\ last(s) = s[L] /\ r \in SavedState /\ r = Interrupted(s, L) /\ r.depth = L - 1
    BY ContextFacts
<1>3. L \in Callbacks(s) /\ L \in 2..L
    BY <1>1, <1>2 DEF Callbacks
<1>4. Inner(s, L) = {L}
    BY <1>1, <1>3 DEF Inner, Callbacks
<1>5. Cardinality(Inner(s, L)) = 1
    BY <1>4, FS_Singleton, Zenon
<1>6. 1 <= Len(f) /\ f[Len(f) - 1 + 1] = r
    BY <1>1, <1>2, <1>3, <1>5, Zenon DEF ReturnsFit
<1>7. last(f) = r
    BY <1>1, <1>6 DEF last
<1>8. g \in Seq(SavedState) /\ Len(g) = Len(f) - 1 /\ \A i \in 1..Len(f) - 1 : g[i] = f[i]
  <2>1. f \in Seq(SavedState) /\ Len(f) \in Nat /\ Len(f) >= 1
    BY <1>1, <1>6
  <2>2. CASE Len(f) = 1
    BY <2>1, <2>2 DEF pop
  <2>3. CASE Len(f) > 1
    BY <2>1, <2>3 DEF pop
  <2>4. \A n \in Nat : n >= 1 => n = 1 \/ n > 1
    OBVIOUS
  <2> QED
    BY <2>1, <2>2, <2>3, <2>4, Zenon
<1>9. L - 1 \in 1..Len(s) /\ r.at + 1 \in Nat
    BY <1>1, <1>2 DEF SavedState
<1>10. /\ u \in Seq(Activation) /\ Len(u) = L - 1 /\ u # <<>>
       /\ \A e \in 1..Len(u) : u[e].why = s[e].why /\ u[e].ctx = s[e].ctx
       /\ \A e \in 1..Len(u) : e < Len(u) => u[e].at = s[e].at
    BY <1>1, <1>9, CutFacts, SMTT(20)
<1> HIDE DEF u, g
<1>11. \A d \in 2..Len(u) : Interrupted(u, d) = Interrupted(s, d) /\ u[d].ctx = s[d].ctx /\ d \in 2..L
  <2> SUFFICES ASSUME NEW d \in 2..Len(u)
               PROVE  u[d - 1].at = s[d - 1].at /\ u[d].ctx = s[d].ctx /\ d \in 2..L
    BY Zenon DEF Interrupted
  <2> QED
    BY <1>1, <1>10
<1>12. \A d \in 2..Len(u) : u[d].ctx = Interrupted(u, d)
    BY <1>1, <1>11, Zenon DEF ReturnsFit
<1>13. Callbacks(u) = Callbacks(s) \ {L}
  <2>1. \A d \in 2..Len(u) : u[d].why = s[d].why /\ d \in 2..L /\ d # L
    BY <1>1, <1>2, <1>10
  <2>2. \A d \in 2..L : d # L => d \in 2..Len(u)
    BY <1>1, <1>10
  <2> QED
    BY <2>1, <2>2, Zenon DEF Callbacks
<1>14. ASSUME NEW d \in Callbacks(u)
       PROVE  /\ Cardinality(Inner(u, d)) <= Len(g)
              /\ g[Len(g) - Cardinality(Inner(u, d)) + 1] = Interrupted(u, d)
  <2> DEFINE n == Cardinality(Inner(s, d))
             m == Cardinality(Inner(u, d))
  <2>1. d \in Callbacks(s) /\ d \in 2..Len(u)
    BY <1>13 DEF Callbacks
  <2>2. Inner(u, d) = Inner(s, d) \ {L} /\ L \in Inner(s, d)
    BY <1>1, <1>3, <1>10, <1>13, <2>1 DEF Inner
  <2>3. IsFiniteSet(Inner(s, d)) /\ n \in Nat
    BY <1>1, <2>1, InnerCount, Zenon
  <2>4. m = n - 1
    BY <2>2, <2>3, FS_RemoveElement, Zenon
  <2>5. m \in Nat /\ m >= 1
    BY <1>1, <1>9, <1>10, InnerCount
  <2>6. n <= Len(f) /\ f[Len(f) - n + 1] = Interrupted(s, d)
    BY <1>1, <2>1, Zenon DEF ReturnsFit
  <2>7. Interrupted(u, d) = Interrupted(s, d)
    BY <1>11, <2>1, Zenon
  <2> HIDE DEF n, m
  <2>8. m <= Len(g) /\ Len(g) - m + 1 = Len(f) - n + 1 /\ Len(f) - n + 1 \in 1..Len(f) - 1
    BY <1>1, <1>8, <2>3, <2>4, <2>5, <2>6
  <2>9. g[Len(g) - m + 1] = Interrupted(u, d)
    BY <1>8, <2>6, <2>7, <2>8, Zenon
  <2> QED
    BY <2>8, <2>9, Zenon DEF m
<1>15. ReturnsFit(u, g)
    BY <1>12, <1>14, Zenon DEF ReturnsFit
<1>16. u[1].why = "main"
    BY <1>1, <1>2, <1>10
<1>17. StackInv(u, g)
    BY <1>8, <1>10, <1>15, <1>16, Zenon DEF StackInv
<1> QED
    BY <1>2, <1>7, <1>17, Zenon DEF u, g

\* The next APC over the same CONTEXT (NtContinue with TestAlert, apc::stage).
LEMMA RestageFits ==
    ASSUME NEW s, NEW f, StackInv(s, f), s # <<>>, last(s).why = "apc"
    PROVE  StackInv(stage(pop(s), last(s).ctx), f)
<1> DEFINE L == Len(s)
           v == pop(s)
           u == Enters(v, "apc", last(s).ctx)
<1>1. s \in Seq(Activation) /\ f \in Seq(SavedState) /\ ReturnsFit(s, f) /\ s[1].why = "main"
    BY DEF StackInv
<1>2. L \in Nat /\ L >= 2 /\ last(s) = s[L] /\ last(s).ctx \in SavedState
    BY ContextFacts
<1>3. v \in Seq(Activation) /\ Len(v) = L - 1 /\ \A e \in 1..L - 1 : v[e] = s[e]
    BY <1>1, <1>2 DEF pop
<1> HIDE DEF v
<1>4. "apc" \in Reasons
    BY DEF Reasons
<1>5. /\ u \in Seq(Activation) /\ Len(u) = Len(v) + 1 /\ u # <<>>
      /\ u[Len(v) + 1].why = "apc" /\ u[Len(v) + 1].ctx = last(s).ctx
      /\ \A e \in 1..Len(v) : u[e] = v[e]
    BY <1>2, <1>3, <1>4, EnterFacts, SMTT(20)
<1> HIDE DEF u
<1>6. Len(u) = L /\ Len(u) \in 0..L /\ u[L].why = s[L].why /\ u[L].ctx = s[L].ctx
      /\ \A e \in 1..L - 1 : u[e] = s[e]
    BY <1>2, <1>3, <1>5
<1>7. \A e \in 1..Len(u) : u[e].why = s[e].why /\ u[e].ctx = s[e].ctx
    BY <1>2, <1>6
<1>8. \A e \in 1..Len(u) : e < Len(u) => u[e].at = s[e].at
    BY <1>2, <1>6
<1>9. \A e \in Len(u) + 1..Len(s) : s[e].why # "callback"
    BY <1>2, <1>6
<1>10. ReturnsFit(u, f)
    BY <1>1, <1>2, <1>6, <1>7, <1>8, <1>9, CutFits, Zenon
<1>11. u[1].why = "main"
    BY <1>1, <1>2, <1>6
<1> QED
    BY <1>1, <1>5, <1>10, <1>11, Zenon DEF StackInv, stage, u, v

\* One thread's stack and saved frames change, and no other's.
LEMMA OneThread ==
    ASSUME StacksInv, NEW t \in Threads, NEW s, NEW f, StackInv(s, f),
           user' = [user EXCEPT ![t] = s],
           frames' = [frames EXCEPT ![t] = f]
    PROVE  StacksInv'
<1>1. s \in Seq(Activation) /\ f \in Seq(SavedState)
    BY Zenon DEF StackInv
<1>2. user \in [Threads -> Seq(Activation)] /\ frames \in [Threads -> Seq(SavedState)]
    BY Zenon DEF StacksInv
<1>3. user' \in [Threads -> Seq(Activation)] /\ frames' \in [Threads -> Seq(SavedState)]
    BY <1>1, <1>2, Zenon
<1>4. \A u \in Threads : user'[u] = (IF u = t THEN s ELSE user[u])
                       /\ frames'[u] = (IF u = t THEN f ELSE frames[u])
    BY <1>2, Zenon
<1>5. \A u \in Threads : StackInv(user'[u], frames'[u])
    BY <1>4, Zenon DEF StacksInv
<1> QED
    BY <1>3, <1>5, Zenon DEF StacksInv

\* The stack alone changes.
LEMMA OneStack ==
    ASSUME StacksInv, NEW t \in Threads, NEW s, StackInv(s, frames[t]),
           user' = [user EXCEPT ![t] = s], UNCHANGED frames
    PROVE  StacksInv'
<1>1. frames' = [frames EXCEPT ![t] = frames[t]]
    BY Zenon DEF StacksInv
<1> QED
    BY <1>1, OneThread, Zenon

\* Every control transfer leaves every stack with returns that fit (nt.rs, process.rs,
\* apc.rs, seh.rs).
LEMMA StacksStep == StacksInv /\ [Win32Next]_win32Vars => StacksInv'
<1> SUFFICES ASSUME StacksInv, [Win32Next]_win32Vars PROVE StacksInv'
    OBVIOUS
<1>0. ASSUME UNCHANGED <<user, frames>> PROVE StacksInv'
    BY <1>0, Zenon DEF StacksInv
<1>1. ASSUME UNCHANGED win32Vars PROVE StacksInv'
    BY <1>0, <1>1, Zenon DEF win32Vars
<1> SUFFICES ASSUME NEW t \in Threads,
        \/ CallWindowProcA(t) \/ UpdateWindow(t) \/ DispatchMessageA(t) \/ NtCallbackReturn(t)
        \/ Unwind(t) \/ NtQueueApcThread(t) \/ TestAlert(t) \/ NtContinueApc(t)
        \/ SetHandler(t) \/ Fault(t) \/ KiUserExceptionDispatcher(t)
        \/ RegisterClassA(t) \/ CreateWindowExA(t) \/ ShowWindow(t) \/ PostMessageA(t)
        \/ PostQuitMessage(t) \/ GetMessage(t) \/ Woken(t)
             PROVE  StacksInv'
    BY <1>1, Zenon DEF Win32Next
<1> DEFINE s == user[t]
           f == frames[t]
<1>2. StackInv(s, f) /\ Len(s) \in Nat /\ s \in Seq(Activation)
    BY SMTT(30) DEF StacksInv, StackInv
<1>3. StackInv(<<>>, f)
    BY <1>2 DEF StackInv, ReturnsFit, Callbacks
<1>4. ASSUME InRing3(t), NEW why \in {"callback", "apc", "exception"}
      PROVE  StackInv(Enters(s, why, Regs(t)), IF why = "callback" THEN Append(f, Regs(t)) ELSE f)
    BY <1>2, <1>4, EnterFits, Zenon DEF InRing3, Regs
<1>5. ASSUME InRing3(t), last(s).why \in {"apc", "exception"}
      PROVE  StackInv(Cut(s, last(s).ctx.depth, last(s).ctx.at + 1), f)
  <2> DEFINE c == last(s).ctx
             d == Len(s) - 1
  <2>1. s # <<>> /\ last(s).why # "main" /\ last(s).why # "callback"
    BY <1>5 DEF InRing3
  <2>2. Len(s) >= 2 /\ last(s) = s[Len(s)] /\ c \in SavedState /\ c.depth = d
    BY <1>2, <2>1, ContextFacts, Zenon
  <2>3. d \in 1..Len(s) /\ \A e \in d + 1..Len(s) : e = Len(s)
    BY <1>2, <2>2
  <2>4. c.at + 1 \in Nat
    BY <2>2 DEF SavedState
  <2>5. \A e \in d + 1..Len(s) : s[e].why # "callback"
    BY <2>1, <2>2, <2>3, Zenon
  <2>6. StackInv(Cut(s, d, c.at + 1), f)
    BY <1>2, <2>3, <2>4, <2>5, CutStack, Zenon
  <2> QED
    BY <2>2, <2>6, Zenon
<1>6. ASSUME invoke_ring3_callback(t) PROVE StacksInv'
  <2>1. /\ InRing3(t)
        /\ frames' = [frames EXCEPT ![t] = Append(f, Regs(t))]
        /\ user' = [user EXCEPT ![t] = Enters(s, "callback", Regs(t))]
    BY <1>6, Zenon DEF invoke_ring3_callback, push_callback_frame
  <2>2. StackInv(Enters(s, "callback", Regs(t)), Append(f, Regs(t)))
    BY <1>4, <2>1
  <2> QED
    BY <2>1, <2>2, OneThread, Zenon
<1>7. CASE NtCallbackReturn(t)
  <2>1. /\ s # <<>> /\ last(s).why = "callback"
        /\ user' = [user EXCEPT ![t] = Cut(s, last(f).depth, last(f).at + 1)]
        /\ frames' = [frames EXCEPT ![t] = pop(f)]
    BY <1>7, Zenon DEF NtCallbackReturn, CallbackReturns, InRing3, Resume
  <2>2. StackInv(Cut(s, last(f).depth, last(f).at + 1), pop(f))
    BY <1>2, <2>1, ReturnFits, Zenon
  <2> QED
    BY <2>1, <2>2, OneThread, Zenon
<1>8. CASE Unwind(t)
  <2>1. UNCHANGED frames
    BY <1>8, Zenon DEF Unwind
  <2>2. PICK d \in 1..Len(s) - 1 :
          /\ \/ \A e \in 2..d : s[e].why # "callback"
             \/ \A e \in d + 1..Len(s) : s[e].why # "callback"
          /\ user' = [user EXCEPT ![t] = Cut(s, d, s[d].at + 1)]
    BY <1>8, Zenon DEF Unwind
  <2>3. d \in 1..Len(s) /\ s[d].at + 1 \in Nat
    <3>1. d \in 1..Len(s)
      BY <1>2
    <3>2. s[d] \in Activation
      BY <1>2, <3>1
    <3>3. s[d].at + 1 \in Nat
      BY <3>2 DEF Activation
    <3> QED
      BY <3>1, <3>3
  <2>4. StackInv(Cut(s, d, s[d].at + 1), f)
    BY <1>2, <2>2, <2>3, CutStack, Zenon
  <2> QED
    BY <2>1, <2>2, <2>4, OneStack, Zenon
<1>9. CASE TestAlert(t)
  <2>1. InRing3(t) /\ user' = [user EXCEPT ![t] = Enters(s, "apc", Regs(t))] /\ UNCHANGED frames
    BY <1>9, Zenon DEF TestAlert, stage
  <2>2. StackInv(Enters(s, "apc", Regs(t)), f)
    BY <1>4, <2>1
  <2> QED
    BY <2>1, <2>2, OneStack, Zenon
<1>10. CASE NtContinueApc(t)
  <2>1. InRing3(t) /\ s # <<>> /\ last(s).why = "apc" /\ UNCHANGED frames
    BY <1>10, Zenon DEF NtContinueApc, KiUserApcDispatcher, InRing3
  <2>2. \/ user' = [user EXCEPT ![t] = stage(pop(s), last(s).ctx)]
        \/ user' = [user EXCEPT ![t] = Cut(s, last(s).ctx.depth, last(s).ctx.at + 1)]
    BY <1>10, Zenon DEF NtContinueApc, Resume
  <2>3. StackInv(stage(pop(s), last(s).ctx), f)
    BY <1>2, <2>1, RestageFits, Zenon
  <2>4. StackInv(Cut(s, last(s).ctx.depth, last(s).ctx.at + 1), f)
    BY <1>5, <2>1
  <2> QED
    BY <2>1, <2>2, <2>3, <2>4, OneStack, Zenon
<1>11. CASE Fault(t)
  <2>1. /\ InRing3(t) /\ UNCHANGED frames
        /\ user' = [user EXCEPT ![t] = IF veh THEN Enters(s, "exception", Regs(t)) ELSE <<>>]
    BY <1>11, Zenon DEF Fault, deliver
  <2>2. StackInv(Enters(s, "exception", Regs(t)), f)
    BY <1>4, <2>1
  <2>3. StackInv(IF veh THEN Enters(s, "exception", Regs(t)) ELSE <<>>, f)
    BY <1>3, <2>2, Zenon
  <2> QED
    BY <2>1, <2>3, OneStack, Zenon
<1>12. CASE KiUserExceptionDispatcher(t)
  <2>1. InRing3(t) /\ last(s).why = "exception" /\ UNCHANGED frames
    BY <1>12, Zenon DEF KiUserExceptionDispatcher
  <2>2. \/ user' = [user EXCEPT ![t] = <<>>]
        \/ user' = [user EXCEPT ![t] = Cut(s, last(s).ctx.depth, last(s).ctx.at + 1)]
    BY <1>12, Zenon DEF KiUserExceptionDispatcher, Resume
  <2>3. StackInv(Cut(s, last(s).ctx.depth, last(s).ctx.at + 1), f)
    BY <1>5, <2>1
  <2> QED
    BY <1>3, <2>1, <2>2, <2>3, OneStack, Zenon
<1>13. ASSUME \/ NtQueueApcThread(t) \/ SetHandler(t) \/ RegisterClassA(t) \/ CreateWindowExA(t)
              \/ ShowWindow(t) \/ PostMessageA(t) \/ PostQuitMessage(t) \/ GetMessage(t) \/ Woken(t)
       PROVE  StacksInv'
  <2>1. UNCHANGED <<user, frames>>
    BY <1>13, Zenon DEF NtQueueApcThread, SetHandler, RegisterClassA, CreateWindowExA, ShowWindow,
       PostMessageA, PostQuitMessage, GetMessage, Woken, post, post_message
  <2> QED
    BY <1>0, <2>1
<1> QED
    BY <1>6, <1>7, <1>8, <1>9, <1>10, <1>11, <1>12, <1>13, Zenon
       DEF CallWindowProcA, UpdateWindow, DispatchMessageA

\* Callbacks, APCs and exception handlers nest to any depth on any number of threads,
\* and every return goes to the state it interrupted (CALLBACK_FRAMES, apc::stage,
\* seh::deliver, NtContinue, NtCallbackReturn).
THEOREM Win32ResumesInterrupted == Win32Spec => []ResumesInterrupted
<1>1. Win32Init => StacksInv
  <2> SUFFICES ASSUME Win32Init PROVE StacksInv
    OBVIOUS
  <2> DEFINE s == Enters(<<>>, "main", Nowhere)
  <2>1. Nowhere \in SavedState /\ "main" \in Reasons /\ <<>> \in Seq(Activation) /\ Len(<<>>) = 0
        /\ <<>> \in Seq(SavedState)
    BY DEF Nowhere, SavedState, Reasons
  <2>2. s \in Seq(Activation) /\ Len(s) = Len(<<>>) + 1 /\ s # <<>> /\ s[Len(<<>>) + 1].why = "main"
    <3> DEFINE e == <<>>
               w == "main"
    <3>1. e \in Seq(Activation) /\ w \in Reasons
      BY <2>1
    <3> HIDE DEF e, w
    <3>2. LET u == Enters(e, w, Nowhere) IN
          u \in Seq(Activation) /\ Len(u) = Len(e) + 1 /\ u # <<>> /\ u[Len(e) + 1].why = w
      BY <2>1, <3>1, EnterFacts, SMTT(20)
    <3> QED
      BY <3>2, Zenon DEF e, w
  <2> HIDE DEF s
  <2>3. Len(s) = 1 /\ s[1].why = "main"
    BY <2>1, <2>2
  <2>4. ReturnsFit(s, <<>>)
    BY <2>3 DEF ReturnsFit, Callbacks
  <2>5. StackInv(s, <<>>)
    BY <2>1, <2>2, <2>3, <2>4, Zenon DEF StackInv
  <2>6. user = [t \in Threads |-> s] /\ frames = [t \in Threads |-> <<>>]
    BY Zenon DEF Win32Init, s
  <2>7. \A t \in Threads : user[t] = s /\ frames[t] = <<>>
    BY <2>6, Zenon
  <2>8. user \in [Threads -> Seq(Activation)] /\ frames \in [Threads -> Seq(SavedState)]
    BY <2>1, <2>2, <2>6
  <2> QED
    BY <2>5, <2>7, <2>8, Zenon DEF StacksInv
<1>2. StacksInv => ResumesInterrupted
    BY Zenon DEF StacksInv, StackInv, ResumesInterrupted
<1> QED
    BY <1>1, <1>2, StacksStep, PTL DEF Win32Spec

----------------------------------------------------------------------------
(* Win32: messages. *)

\* A message at the end of a queue is after everything posted before; one taken from
\* its front is after everything received before (push_back, pop_front).
LEMMA QueueOrder ==
    ASSUME NEW g \in Seq(Message), NEW q \in Seq(Message)
    PROVE  /\ \A m \in Message : Append(g \o q, m) = g \o Append(q, m)
           /\ q # <<>> => /\ Tail(q) \in Seq(Message) /\ Append(g, Head(q)) \in Seq(Message)
                         /\ g \o q = Append(g, Head(q)) \o Tail(q)
<1>1. ASSUME NEW m \in Message PROVE Append(g \o q, m) = g \o Append(q, m)
  <2> DEFINE w == <<m>>
  <2>1. g \o q \in Seq(Message) /\ w \in Seq(Message)
    OBVIOUS
  <2>2. Append(q, m) = q \o w /\ Append(g \o q, m) = (g \o q) \o w
    BY <2>1, AppendIsConcat, Zenon
  <2> HIDE DEF w
  <2>3. (g \o q) \o w = g \o (q \o w)
    BY <2>1, ConcatAssociative, SMTT(20)
  <2> QED
    BY <2>2, <2>3, Zenon
<1>2. ASSUME q # <<>>
      PROVE  /\ Tail(q) \in Seq(Message) /\ Append(g, Head(q)) \in Seq(Message)
             /\ g \o q = Append(g, Head(q)) \o Tail(q)
  <2> DEFINE w == <<Head(q)>>
  <2>1. Head(q) \in Message /\ Tail(q) \in Seq(Message) /\ q = w \o Tail(q)
        /\ w \in Seq(Message) /\ Append(g, Head(q)) \in Seq(Message)
    BY <1>2
  <2>2. Append(g, Head(q)) = g \o w
    BY <2>1, AppendIsConcat, Zenon
  <2> HIDE DEF w
  <2>3. (g \o w) \o Tail(q) = g \o (w \o Tail(q))
    BY <2>1, ConcatAssociative, SMTT(20)
  <2> QED
    BY <2>1, <2>2, <2>3, Zenon
<1> QED
    BY <1>1, <1>2, Zenon

\* A message posted to the owner of its window (post, post_message, create_window).
LEMMA PostStep ==
    ASSUME QueuesInv, NEW to \in Threads, NEW m \in Message,
           windows' \in Seq(Threads), Len(windows) <= Len(windows'),
           \A h \in 1..Len(windows) : windows'[h] = windows[h],
           m.hwnd <= Len(windows'), m.hwnd # 0 => windows'[m.hwnd] = to,
           queue' = [queue EXCEPT ![to] = Append(queue[to], m)],
           posted' = [posted EXCEPT ![to] = Append(posted[to], m)],
           UNCHANGED got
    PROVE  QueuesInv'
<1>1. /\ queue \in [Threads -> Seq(Message)] /\ posted \in [Threads -> Seq(Message)]
      /\ got \in [Threads -> Seq(Message)] /\ windows \in Seq(Threads) /\ MessagesInOrder
    BY DEF QueuesInv
<1>2. Len(windows) \in Nat /\ Len(windows') \in Nat
    BY <1>1
<1>3. /\ queue' \in [Threads -> Seq(Message)] /\ posted' \in [Threads -> Seq(Message)]
      /\ got' \in [Threads -> Seq(Message)]
    BY <1>1, SMTT(30)
<1>4. ASSUME NEW t \in Threads
      PROVE  /\ posted'[t] = got'[t] \o queue'[t]
             /\ \A n \in DOMAIN posted'[t] :
                  /\ posted'[t][n].hwnd <= Len(windows')
                  /\ posted'[t][n].hwnd # 0 => windows'[posted'[t][n].hwnd] = t
  <2> DEFINE p == posted[t]
  <2>0. p \in Seq(Message) /\ got[t] \in Seq(Message) /\ queue[t] \in Seq(Message)
    BY <1>1, Zenon
  <2>1. p = got[t] \o queue[t]
    BY <1>1, Zenon DEF MessagesInOrder
  <2>2. \A n \in DOMAIN p : p[n].hwnd <= Len(windows) /\ (p[n].hwnd # 0 => windows[p[n].hwnd] = t)
    BY <1>1, Zenon DEF QueuesInv, MessagesInOrder
  <2>3. \A n \in DOMAIN p : p[n].hwnd \in Nat
    <3>1. \A n \in DOMAIN p : p[n] \in Message
      BY <2>0
    <3> QED
      BY <3>1 DEF Message
  <2>4. \A h \in Nat : h <= Len(windows) => h <= Len(windows') /\ (h # 0 => windows'[h] = windows[h])
    BY <1>2
  <2>5. \A n \in DOMAIN p : p[n].hwnd <= Len(windows') /\ (p[n].hwnd # 0 => windows'[p[n].hwnd] = t)
    BY <2>2, <2>3, <2>4, Zenon
  <2>6. CASE t # to
    <3>1. posted'[t] = p /\ queue'[t] = queue[t] /\ got'[t] = got[t]
      BY <1>1, <2>6, Zenon
    <3> QED
      BY <2>1, <2>5, <3>1, Zenon
  <2>7. CASE t = to
    <3>1. posted'[t] = Append(p, m) /\ queue'[t] = Append(queue[t], m) /\ got'[t] = got[t]
      BY <1>1, <2>7, Zenon
    <3>2. Append(p, m) = got[t] \o Append(queue[t], m)
      <4>1. \A x \in Message : Append(got[t] \o queue[t], x) = got[t] \o Append(queue[t], x)
        BY <2>0, QueueOrder, Zenon
      <4> QED
        BY <2>1, <4>1, Zenon
    <3>3. \A n \in DOMAIN Append(p, m) : Append(p, m)[n] = m \/ (n \in DOMAIN p /\ Append(p, m)[n] = p[n])
      <4>1. p \in Seq(Message)
        BY <2>0
      <4> HIDE DEF p
      <4>2. DOMAIN p = 1..Len(p) /\ DOMAIN Append(p, m) = 1..Len(p) + 1 /\ Len(p) \in Nat
        BY <4>1
      <4>3. Append(p, m)[Len(p) + 1] = m /\ \A n \in 1..Len(p) : Append(p, m)[n] = p[n]
        BY <4>1
      <4>4. \A n \in 1..Len(p) + 1 : n # Len(p) + 1 => n \in 1..Len(p)
        BY <4>2
      <4>5. ASSUME NEW n \in 1..Len(p) + 1
            PROVE  Append(p, m)[n] = m \/ (n \in 1..Len(p) /\ Append(p, m)[n] = p[n])
        <5>1. CASE n = Len(p) + 1
          BY <4>3, <5>1, Zenon
        <5>2. CASE n # Len(p) + 1
          BY <4>3, <4>4, <5>2, Zenon
        <5> QED
          BY <5>1, <5>2
      <4> QED
        BY <4>2, <4>5, Zenon
    <3>4. \A n \in DOMAIN Append(p, m) :
            /\ Append(p, m)[n].hwnd <= Len(windows')
            /\ Append(p, m)[n].hwnd # 0 => windows'[Append(p, m)[n].hwnd] = t
      BY <2>5, <2>7, <3>3, Zenon
    <3> QED
      BY <3>1, <3>2, <3>4, Zenon
  <2> QED
    BY <2>6, <2>7
<1> QED
  <2>1. MessagesInOrder'
    BY <1>4, Zenon DEF MessagesInOrder
  <2>2. {queue', posted', got'} \subseteq [Threads -> Seq(Message)]
    BY <1>3, Zenon
  <2> QED
    BY <1>4, <2>1, <2>2, Zenon DEF QueuesInv

\* A thread takes the front of its queue, or is told to quit (get_message).
LEMMA TakeStep ==
    ASSUME QueuesInv, NEW t \in Threads, Take(t), UNCHANGED <<windows, posted>>
    PROVE  QueuesInv'
<1>1. /\ queue \in [Threads -> Seq(Message)] /\ posted \in [Threads -> Seq(Message)]
      /\ got \in [Threads -> Seq(Message)] /\ MessagesInOrder
    BY DEF QueuesInv
<1>2. \A u \in Threads : posted[u] = got[u] \o queue[u]
    BY <1>1, Zenon DEF MessagesInOrder
<1>3. /\ queue' \in [Threads -> Seq(Message)] /\ got' \in [Threads -> Seq(Message)]
      /\ \A u \in Threads : posted[u] = got'[u] \o queue'[u]
  <2>1. CASE queue[t] = <<>>
    <3>1. queue' = [queue EXCEPT ![t] = queue[t]] /\ got' = [got EXCEPT ![t] = got[t]]
      BY <2>1, Zenon DEF Take
    <3>2. queue' = queue /\ got' = got
      BY <1>1, <3>1, Zenon
    <3> QED
      BY <1>1, <1>2, <3>2, Zenon
  <2>2. CASE queue[t] # <<>>
    <3>1. queue' = [queue EXCEPT ![t] = Tail(queue[t])] /\ got' = [got EXCEPT ![t] = Append(got[t], Head(queue[t]))]
      BY <2>2, Zenon DEF Take
    <3>2. /\ Tail(queue[t]) \in Seq(Message) /\ Append(got[t], Head(queue[t])) \in Seq(Message)
          /\ posted[t] = Append(got[t], Head(queue[t])) \o Tail(queue[t])
      <4>1. got[t] \in Seq(Message) /\ queue[t] \in Seq(Message) /\ posted[t] = got[t] \o queue[t]
        BY <1>1, <1>2, Zenon
      <4> QED
        BY <2>2, <4>1, QueueOrder, Zenon
    <3>3. \A u \in Threads :
            /\ queue'[u] = IF u = t THEN Tail(queue[t]) ELSE queue[u]
            /\ got'[u] = IF u = t THEN Append(got[t], Head(queue[t])) ELSE got[u]
      BY <1>1, <3>1, Zenon
    <3>4. queue' \in [Threads -> Seq(Message)] /\ got' \in [Threads -> Seq(Message)]
      BY <1>1, <3>1, <3>2, Zenon
    <3> QED
      BY <1>2, <3>2, <3>3, <3>4, Zenon
  <2> QED
    BY <2>1, <2>2
<1>4. MessagesInOrder'
    BY <1>1, <1>3, Zenon DEF MessagesInOrder
<1>5. {queue', posted', got'} \subseteq [Threads -> Seq(Message)]
    BY <1>1, <1>3, Zenon
<1> QED
    BY <1>4, <1>5, Zenon DEF QueuesInv

\* A thread receives what was posted to it, once each and in order, and only the
\* messages of its own windows, for any number of threads, windows and messages
\* (post, post_message, get_message).
THEOREM Win32MessagesInOrder == Win32Spec => []MessagesInOrder
<1>1. Win32Init => QueuesInv
  <2> SUFFICES ASSUME Win32Init PROVE QueuesInv
    OBVIOUS
  <2> DEFINE z == [t \in Threads |-> <<>>]
  <2>1. z \in [Threads -> Seq(Message)] /\ <<>> \in Seq(Threads) /\ \A t \in Threads : z[t] = <<>>
    OBVIOUS
  <2>2. windows = <<>> /\ queue = z /\ posted = z /\ got = z
    BY Zenon DEF Win32Init
  <2> HIDE DEF z
  <2>3. <<>> = <<>> \o <<>> /\ DOMAIN <<>> = {}
    OBVIOUS
  <2>4. MessagesInOrder
    BY <2>1, <2>2, <2>3, Zenon DEF MessagesInOrder
  <2>5. {queue, posted, got} \subseteq [Threads -> Seq(Message)]
    BY <2>1, <2>2, Zenon
  <2> QED
    BY <2>1, <2>2, <2>3, <2>4, <2>5, Zenon DEF QueuesInv
<1>2. QueuesInv /\ [Win32Next]_win32Vars => QueuesInv'
  <2> SUFFICES ASSUME QueuesInv, [Win32Next]_win32Vars PROVE QueuesInv'
    OBVIOUS
  <2>0. ASSUME UNCHANGED <<windows, queue, posted, got>> PROVE QueuesInv'
    BY <2>0, Zenon DEF QueuesInv, MessagesInOrder
  <2>1. ASSUME UNCHANGED win32Vars PROVE QueuesInv'
    BY <2>0, <2>1, Zenon DEF win32Vars
  <2> SUFFICES ASSUME NEW t \in Threads,
        \/ CallWindowProcA(t) \/ UpdateWindow(t) \/ DispatchMessageA(t) \/ NtCallbackReturn(t)
        \/ Unwind(t) \/ NtQueueApcThread(t) \/ TestAlert(t) \/ NtContinueApc(t)
        \/ SetHandler(t) \/ Fault(t) \/ KiUserExceptionDispatcher(t)
        \/ RegisterClassA(t) \/ CreateWindowExA(t) \/ ShowWindow(t) \/ PostMessageA(t)
        \/ PostQuitMessage(t) \/ GetMessage(t) \/ Woken(t)
               PROVE  QueuesInv'
    BY <2>1, Zenon DEF Win32Next
  <2>2. windows \in Seq(Threads) /\ Len(windows) \in Nat /\ DOMAIN windows = 1..Len(windows)
    BY DEF QueuesInv
  <2>3. ASSUME NEW to \in Threads, NEW m \in Message, post(t, to, m), UNCHANGED windows,
               m.hwnd <= Len(windows), m.hwnd # 0 => windows[m.hwnd] = to
        PROVE  QueuesInv'
    <3>1. /\ queue' = [queue EXCEPT ![to] = Append(queue[to], m)]
          /\ posted' = [posted EXCEPT ![to] = Append(posted[to], m)] /\ UNCHANGED got
      BY <2>3, Zenon DEF post, PushBack
    <3>2. windows' = windows /\ Len(windows) <= Len(windows)
      BY <2>2, <2>3
    <3>3. /\ windows' \in Seq(Threads) /\ Len(windows) <= Len(windows') /\ m.hwnd <= Len(windows')
          /\ m.hwnd # 0 => windows'[m.hwnd] = to
          /\ \A h \in 1..Len(windows) : windows'[h] = windows[h]
      BY <2>2, <2>3, <3>2, Zenon
    <3> QED
      BY <3>1, <3>3, PostStep, Zenon
  <2>4. ASSUME NEW h \in DOMAIN windows, NEW w \in {"WM_PAINT", "WM_USER"}, post_message(t, h, w)
        PROVE  QueuesInv'
    <3> DEFINE m == [hwnd |-> h, message |-> w]
    <3>1. m \in Message /\ m.hwnd = h /\ h <= Len(windows) /\ windows[h] \in Threads
      BY <2>2 DEF Message
    <3>2. post(t, windows[h], m) /\ UNCHANGED windows
      BY <2>4, Zenon DEF post_message
    <3> HIDE DEF m
    <3> QED
      BY <2>3, <3>1, <3>2, Zenon
  <2>5. CASE CreateWindowExA(t)
    <3> DEFINE m == [hwnd |-> Len(windows) + 1, message |-> "WM_CREATE"]
    <3>1. m \in Message /\ m.hwnd = Len(windows) + 1
      BY <2>2 DEF Message
    <3>2. windows' = Append(windows, t) /\ post(t, t, m)
      BY <2>5, Zenon DEF CreateWindowExA
    <3> HIDE DEF m
    <3>3. /\ queue' = [queue EXCEPT ![t] = Append(queue[t], m)]
          /\ posted' = [posted EXCEPT ![t] = Append(posted[t], m)] /\ UNCHANGED got
      BY <3>2, Zenon DEF post, PushBack
    <3>4. /\ windows' \in Seq(Threads) /\ Len(windows') = Len(windows) + 1
          /\ windows'[Len(windows) + 1] = t
          /\ \A h \in 1..Len(windows) : windows'[h] = windows[h]
      BY <2>2, <3>2, SMTT(30)
    <3>5. Len(windows) <= Len(windows') /\ m.hwnd <= Len(windows') /\ windows'[m.hwnd] = t
      BY <2>2, <3>1, <3>4
    <3> QED
      BY <3>1, <3>3, <3>4, <3>5, PostStep, Zenon
  <2>6. CASE ShowWindow(t)
    BY <2>4, <2>6 DEF ShowWindow
  <2>7. CASE PostMessageA(t)
    BY <2>4, <2>7 DEF PostMessageA
  <2>8. CASE PostQuitMessage(t)
    <3> DEFINE m == [hwnd |-> 0, message |-> "WM_QUIT"]
    <3>1. m \in Message /\ m.hwnd = 0 /\ m.hwnd <= Len(windows)
      BY <2>2 DEF Message
    <3>2. post(t, t, m) /\ UNCHANGED windows
      BY <2>8, Zenon DEF PostQuitMessage
    <3> HIDE DEF m
    <3> QED
      BY <2>3, <3>1, <3>2, Zenon
  <2>9. CASE GetMessage(t)
    BY <2>0, <2>9, TakeStep, Zenon DEF GetMessage
  <2>10. CASE Woken(t)
    BY <2>10, TakeStep, Zenon DEF Woken
  <2>11. ASSUME \/ CallWindowProcA(t) \/ UpdateWindow(t) \/ DispatchMessageA(t) \/ NtCallbackReturn(t)
                \/ Unwind(t) \/ NtQueueApcThread(t) \/ TestAlert(t) \/ NtContinueApc(t)
                \/ SetHandler(t) \/ Fault(t) \/ KiUserExceptionDispatcher(t) \/ RegisterClassA(t)
         PROVE  QueuesInv'
    <3>1. UNCHANGED <<windows, queue, posted, got>>
      BY <2>11, Zenon DEF CallWindowProcA, UpdateWindow, DispatchMessageA, invoke_ring3_callback,
         NtCallbackReturn, Unwind, NtQueueApcThread, TestAlert, NtContinueApc, SetHandler, Fault,
         KiUserExceptionDispatcher, RegisterClassA, messages
    <3> QED
      BY <2>0, <3>1
  <2> QED
    BY <2>5, <2>6, <2>7, <2>8, <2>9, <2>10, <2>11, Zenon
<1>3. QueuesInv => MessagesInOrder
    BY Zenon DEF QueuesInv
<1> QED
    BY <1>1, <1>2, <1>3, PTL DEF Win32Spec

----------------------------------------------------------------------------
(* Session: the credential store and who may log in. *)

----------------------------------------------------------------------------
(* The account. *)

\* A sequence of one element.
LEMMA OneElement == ASSUME NEW T, NEW s \in Seq(T), Len(s) = 1 PROVE s = <<s[1]>>
OBVIOUS

\* What split_once('=') makes of a key without "=" and any value (cred.rs parse).
LEMMA SplitLine ==
    ASSUME NEW k \in Tokens, k # "=", NEW v \in Seq(Tokens)
    PROVE  /\ split_once(<<k, "=">> \o v) = <<<<k>>, v>>
           /\ split_once(<<k, "=">> \o v) # None
<1> DEFINE l == <<k, "=">> \o v
           at == {i \in 1..Len(l) : l[i] = "="}
           first == CHOOSE i \in at : \A j \in at : i <= j
<1>0. "=" \in Tokens
    BY SessionAssumption
<1>1. <<k, "=">> \in Seq(Tokens) /\ Len(<<k, "=">>) = 2 /\ <<k, "=">>[1] = k /\ <<k, "=">>[2] = "="
    BY <1>0
<1>2. /\ Len(l) = 2 + Len(v) /\ Len(v) \in Nat /\ l[1] = k /\ l[2] = "="
      /\ \A i \in 1..Len(v) : l[2 + i] = v[i]
      /\ l \in Seq(Tokens)
    BY <1>1
<1> HIDE DEF l
<1>3. 2 \in at /\ \A j \in at : 2 <= j
    BY <1>2
<1>4. first = 2
  <2>1. first \in at /\ \A j \in at : first <= j
    BY <1>3
  <2> QED
    BY <1>2, <1>3, <2>1
<1> HIDE DEF first
<1>5. SubSeq(l, 1, first - 1) = <<k>>
  <2>1. SubSeq(l, 1, 1) \in Seq(Tokens) /\ Len(SubSeq(l, 1, 1)) = 1 /\ SubSeq(l, 1, 1)[1] = k
    BY <1>2
  <2>2. SubSeq(l, 1, 1) = <<SubSeq(l, 1, 1)[1]>>
    BY <2>1, OneElement
  <2>3. first - 1 = 1
    BY <1>4
  <2> QED
    BY <2>1, <2>2, <2>3, Zenon
<1>6. SubSeq(l, first + 1, Len(l)) = v
    BY <1>2, <1>4
<1>7. split_once(l) = <<SubSeq(l, 1, first - 1), SubSeq(l, first + 1, Len(l))>>
    BY <1>3 DEF split_once, first
<1>8. <<k>> \in Seq(Tokens)
    OBVIOUS
<1>9. <<<<k>>, v>> \in Seq(Tokens) \X Seq(Tokens)
    BY <1>8
<1>10. None \notin Seq(Tokens) \X Seq(Tokens)
    BY SessionAssumption
<1>11. split_once(l) = <<<<k>>, v>>
    BY <1>5, <1>6, <1>7
<1>12. split_once(l) # None
    BY <1>9, <1>10, <1>11, Zenon
<1> QED
    BY <1>11, <1>12 DEF l

\* A line that is the key alone has no value (the header).
LEMMA SplitHeader == split_once(<<"thos_cred_v1">>) = None
<1> DEFINE l == <<"thos_cred_v1">>
<1>1. \A i \in 1..Len(l) : l[i] # "="
    BY SMT
<1> HIDE DEF l
<1>2. {i \in 1..Len(l) : l[i] = "="} = {}
    BY <1>1
<1>3. split_once(l) = None
    BY <1>2, Zenon DEF split_once
<1> QED
    BY <1>3 DEF l

\* unhex undoes hex, for every byte.
LEMMA HexFacts ==
    ASSUME NEW b \in 0..15
    PROVE  /\ hex(b) \in Seq(Tokens) /\ Len(hex(b)) = 2
           /\ unhex(hex(b)) = b
<1>1. b \div 4 \in 0..3 /\ b % 4 \in 0..3
    BY SMT
<1>2. /\ \A i \in 0..3 : Digits[i + 1] \in Tokens /\ Digits[i + 1] \in Range(Digits)
      /\ \A i, j \in 0..3 : Digits[i + 1] = Digits[j + 1] => i = j
  <2>1. /\ Len(Digits) = 4 /\ DOMAIN Digits = 1..4
        /\ Digits[1] = "0" /\ Digits[2] = "1" /\ Digits[3] = "2" /\ Digits[4] = "3"
    BY SMT DEF Digits
  <2>2. {"0", "1", "2", "3"} \subseteq Tokens
    BY SessionAssumption
  <2>3. \A i \in 0..3 : i = 0 \/ i = 1 \/ i = 2 \/ i = 3
    OBVIOUS
  <2> QED
    BY <2>1, <2>2, <2>3, SMT DEF Range
<1>3. hex(b) \in Seq(Tokens) /\ Len(hex(b)) = 2 /\ Range(hex(b)) \subseteq Range(Digits)
    BY <1>1, <1>2 DEF hex, Range
<1>4. ASSUME NEW c \in 0..15, hex(c) = hex(b) PROVE c = b
  <2>1. c \div 4 \in 0..3 /\ c % 4 \in 0..3
    BY SMT
  <2>2. Digits[(c \div 4) + 1] = Digits[(b \div 4) + 1] /\ Digits[(c % 4) + 1] = Digits[(b % 4) + 1]
    BY <1>4 DEF hex
  <2>3. c \div 4 = b \div 4 /\ c % 4 = b % 4
    BY <1>1, <1>2, <2>1, <2>2
  <2> QED
    BY <2>3, SMT
<1> QED
    BY <1>3, <1>4 DEF unhex

\* The value of the one line that has a key (parse).
LEMMA ValueOfLine ==
    ASSUME NEW lines, NEW i \in 1..Len(lines), NEW k, NEW v,
           split_once(lines[i])[1] = <<k>>, split_once(lines[i])[2] = v, split_once(lines[i]) # None,
           \A j \in 1..Len(lines) : j # i => split_once(lines[j]) = None \/ split_once(lines[j])[1] # <<k>>
    PROVE  Value(lines, k) = v
<1> DEFINE vs == {j \in 1..Len(lines) : split_once(lines[j]) # None /\ split_once(lines[j])[1] = <<k>>}
<1>2. vs = {i}
    BY Zenon
<1>3. i <= i
    OBVIOUS
<1> HIDE DEF vs
<1>4. (CHOOSE j \in vs : \A m \in vs : m <= j) = i
    BY <1>2, <1>3, Zenon
<1>5. vs # {}
    BY <1>2, Zenon
<1>6. Value(lines, k) = IF vs = {} THEN None ELSE split_once(lines[CHOOSE j \in vs : \A m \in vs : m <= j])[2]
    BY Zenon DEF Value, vs
<1> QED
    BY <1>4, <1>5, <1>6, Zenon

\* The store reads back as what was written, whatever characters the name has
\* (Cred::serialize, Cred::parse).
LEMMA ParseSerialize == ASSUME NEW c \in Creds PROVE parse(serialize(c)) = c
<1> DEFINE n == c.name
           p == c.hash[1]
           s == c.salt
           l == serialize(c)
<1>1. /\ n \in Seq(Tokens) /\ p \in Tokens /\ s \in 0..15 /\ c.hash[2] \in 0..15
      /\ c.hash = <<p, c.hash[2]>> /\ c = [name |-> n, salt |-> s, hash |-> c.hash]
  <2>1. /\ n \in Names /\ s \in Salts /\ c.hash \in Passwords \X Salts
        /\ c = [name |-> n, salt |-> s, hash |-> c.hash]
    BY DEF Creds
  <2>2. c.hash[1] \in Passwords /\ c.hash[2] \in Salts /\ c.hash = <<c.hash[1], c.hash[2]>>
    BY <2>1
  <2>3. Names \subseteq Seq(Tokens) /\ Passwords \subseteq Tokens /\ Salts \subseteq 0..15
    BY SessionAssumption
  <2> QED
    BY <2>1, <2>2, <2>3, Zenon
<1> DEFINE x == hex(c.hash[2])
           h == <<p>> \o x
<1>2. x \in Seq(Tokens) /\ Len(x) = 2 /\ unhex(x) = c.hash[2]
    BY <1>1, HexFacts
<1>3. "60000" \in Tokens /\ "hash" \in Tokens /\ "=" \in Tokens
    BY SessionAssumption
<1>4. /\ h \in Seq(Tokens) /\ Len(h) = 3 /\ h[1] = p /\ Tail(h) = x
      /\ <<"hash", "=", p>> \o x = <<"hash", "=">> \o h
      /\ <<"60000">> \in Seq(Tokens)
      /\ <<"rounds", "=", "60000">> = <<"rounds", "=">> \o <<"60000">>
  <2> HIDE DEF x, p
  <2>0. <<p>> \in Seq(Tokens) /\ Len(<<p>>) = 1 /\ <<p>>[1] = p
    BY <1>1
  <2>1. h \in Seq(Tokens) /\ Len(h) = 3 /\ h[1] = p /\ h[2] = x[1] /\ h[3] = x[2]
    <3> DEFINE w == <<p>>
    <3>1. w \in Seq(Tokens) /\ Len(w) = 1 /\ w[1] = p
      BY <2>0
    <3> HIDE DEF w
    <3>2. /\ w \o x \in Seq(Tokens) /\ Len(w \o x) = Len(w) + Len(x)
          /\ \A i \in 1..Len(w) + Len(x) : (w \o x)[i] = IF i <= Len(w) THEN w[i] ELSE x[i - Len(w)]
      BY <1>2, <3>1, ConcatProperties, Zenon
    <3> DEFINE q == w \o x
    <3>3. /\ q \in Seq(Tokens) /\ Len(q) = 3
          /\ \A i \in 1..3 : q[i] = IF i <= 1 THEN w[i] ELSE x[i - 1]
      BY <1>2, <3>1, <3>2
    <3> HIDE DEF q
    <3>4. q[1] = p /\ q[2] = x[1] /\ q[3] = x[2]
      BY <3>1, <3>3
    <3> QED
      BY <3>3, <3>4, Zenon DEF q, w, h
  <2>2. Tail(h) = x
    BY <1>2, <2>1, SeqEqual
  <2>3. <<"60000">> \in Seq(Tokens)
    BY <1>3
  <2>4. <<"rounds", "=", "60000">> = <<"rounds", "=">> \o <<"60000">>
    OBVIOUS
  <2>5. <<"hash", "=", p>> \o x = <<"hash", "=">> \o h
    OBVIOUS
  <2> QED
    BY <2>1, <2>2, <2>3, <2>4, <2>5
<1> HIDE DEF h
<1>5. /\ Len(l) = 5
      /\ l[1] = <<"thos_cred_v1">>
      /\ l[2] = <<"name", "=">> \o n
      /\ l[3] = <<"rounds", "=">> \o <<"60000">>
      /\ l[4] = <<"salt", "=">> \o hex(s)
      /\ l[5] = <<"hash", "=">> \o h
    BY <1>4 DEF serialize
<1>6. hex(s) \in Seq(Tokens) /\ Len(hex(s)) = 2 /\ unhex(hex(s)) = s
    BY <1>1, HexFacts
<1> HIDE DEF n, p, s, x, l
<1>7. /\ "name" \in Tokens /\ "rounds" \in Tokens /\ "salt" \in Tokens
      /\ "name" # "=" /\ "rounds" # "=" /\ "salt" # "=" /\ "hash" # "="
    BY SessionAssumption
<1>8. /\ split_once(l[1]) = None
      /\ split_once(l[2]) = <<<<"name">>, n>> /\ split_once(l[2]) # None
      /\ split_once(l[3]) = <<<<"rounds">>, <<"60000">>>>
      /\ split_once(l[4]) = <<<<"salt">>, hex(s)>> /\ split_once(l[4]) # None
      /\ split_once(l[5]) = <<<<"hash">>, h>> /\ split_once(l[5]) # None
  <2>1. split_once(l[2]) = <<<<"name">>, n>> /\ split_once(l[2]) # None
    BY <1>1, <1>5, <1>7, SplitLine
  <2>2. split_once(l[3]) = <<<<"rounds">>, <<"60000">>>>
    BY <1>4, <1>5, <1>7, SplitLine
  <2>3. split_once(l[4]) = <<<<"salt">>, hex(s)>> /\ split_once(l[4]) # None
    BY <1>5, <1>6, <1>7, SplitLine
  <2>4. split_once(l[5]) = <<<<"hash">>, h>> /\ split_once(l[5]) # None
    BY <1>3, <1>4, <1>5, <1>7, SplitLine
  <2> QED
    BY <1>5, <2>1, <2>2, <2>3, <2>4, SplitHeader, Zenon
<1>9. /\ split_once(l[2])[1] = <<"name">> /\ split_once(l[3])[1] = <<"rounds">>
      /\ split_once(l[4])[1] = <<"salt">> /\ split_once(l[5])[1] = <<"hash">>
      /\ split_once(l[2])[2] = n /\ split_once(l[4])[2] = hex(s) /\ split_once(l[5])[2] = h
    BY <1>8
<1>10. /\ <<"name">> # <<"rounds">> /\ <<"name">> # <<"salt">> /\ <<"name">> # <<"hash">>
       /\ <<"salt">> # <<"rounds">> /\ <<"salt">> # <<"hash">> /\ <<"hash">> # <<"rounds">>
    OBVIOUS
<1>11. 1..Len(l) = {1, 2, 3, 4, 5}
    BY <1>5
<1>12. Value(l, "name") = n
  <2>1. PICK i \in 1..Len(l) : i = 2
    BY <1>11
  <2>2. \A j \in 1..Len(l) : j # i => split_once(l[j]) = None \/ split_once(l[j])[1] # <<"name">>
    BY <1>8, <1>9, <1>10, <1>11, <2>1, Zenon
  <2>3. split_once(l[i])[1] = <<"name">> /\ split_once(l[i])[2] = n /\ split_once(l[i]) # None
    BY <1>8, <1>9, <2>1, Zenon
  <2> QED
    BY <2>2, <2>3, ValueOfLine, Zenon
<1>13. Value(l, "salt") = hex(s)
  <2>1. PICK i \in 1..Len(l) : i = 4
    BY <1>11
  <2>2. \A j \in 1..Len(l) : j # i => split_once(l[j]) = None \/ split_once(l[j])[1] # <<"salt">>
    BY <1>8, <1>9, <1>10, <1>11, <2>1, Zenon
  <2>3. split_once(l[i])[1] = <<"salt">> /\ split_once(l[i])[2] = hex(s) /\ split_once(l[i]) # None
    BY <1>8, <1>9, <2>1, Zenon
  <2> QED
    BY <2>2, <2>3, ValueOfLine, Zenon
<1>14. Value(l, "hash") = h
  <2>1. PICK i \in 1..Len(l) : i = 5
    BY <1>11
  <2>2. \A j \in 1..Len(l) : j # i => split_once(l[j]) = None \/ split_once(l[j])[1] # <<"hash">>
    BY <1>8, <1>9, <1>10, <1>11, <2>1, Zenon
  <2>3. split_once(l[i])[1] = <<"hash">> /\ split_once(l[i])[2] = h /\ split_once(l[i]) # None
    BY <1>8, <1>9, <2>1, Zenon
  <2> QED
    BY <2>2, <2>3, ValueOfLine, Zenon
<1>15. n # None /\ hex(s) # None /\ h # None /\ s # None
    BY <1>1, <1>4, <1>6, SessionAssumption
<1>16. parse(l) = [name |-> n, salt |-> s, hash |-> <<p, c.hash[2]>>]
    BY <1>2, <1>4, <1>6, <1>12, <1>13, <1>14, <1>15 DEF parse
<1> QED
    BY <1>1, <1>16 DEF l

\* What a Cred made of an account verifies: that account and no other (Cred::create,
\* Cred::verify).
LEMMA VerifyFacts ==
    ASSUME NEW c, NEW a, MadeBySetup(c, a)
    PROVE  /\ c \in Creds /\ a \in Names \X Passwords
           /\ verify(c, a[1], a[2])
           /\ \A n \in Names, p \in Passwords : verify(c, n, p) <=> a = <<n, p>>
           /\ \A p \in Passwords : verify(c, c.name, p) <=> p = a[2]
<1>1. PICK n \in Names, p \in Passwords, s \in Salts : c = create(n, p, s) /\ a = <<n, p>>
    BY DEF MadeBySetup
<1>2. c.name = n /\ c.salt = s /\ c.hash = <<p, s>> /\ c \in Creds
    BY <1>1 DEF create, Creds
<1>3. a[1] = n /\ a[2] = p /\ a \in Names \X Passwords
    BY <1>1
<1>4. \A q : <<q, s>> = <<p, s>> <=> q = p
    OBVIOUS
<1>5. \A m, q : a = <<m, q>> <=> n = m /\ p = q
    BY <1>1
<1> QED
    BY <1>2, <1>3, <1>4, <1>5, Zenon DEF verify

\* The store, once it exists, loads as the account's Cred (cred::load).
LEMMA LoadFacts ==
    ASSUME SessionInv, exists
    PROVE  load # None /\ MadeBySetup(load, account)
<1>1. PICK c \in Creds : store = serialize(c) /\ MadeBySetup(c, account)
    BY DEF SessionInv
<1>2. load = c
    BY <1>1, ParseSerialize, Zenon DEF load
<1> QED
    BY <1>1, <1>2, SessionAssumption

\* Every step keeps the store and the session those of the account (login.rs, cred.rs,
\* syscall.rs, console.rs).
LEMMA SessionStep == SessionInv /\ [SessionNext]_sessionVars => SessionInv'
<1> SUFFICES ASSUME SessionInv, [SessionNext]_sessionVars PROVE SessionInv'
    OBVIOUS
<1>0. ASSUME UNCHANGED <<store, account>>
      PROVE  /\ exists' = exists /\ load' = load
             /\ exists' => \E c \in Creds : store' = serialize(c) /\ MadeBySetup(c, account')
  <2>1. store' = store /\ account' = account
    BY <1>0
  <2>2. exists' = exists /\ load' = load
    BY <2>1 DEF exists, load
  <2> QED
    BY <2>1, <2>2, Zenon DEF SessionInv
<1>1. CASE UNCHANGED sessionVars
    BY <1>0, <1>1 DEF sessionVars, SessionInv
<1>2. CASE Establish
  <2>1. UNCHANGED <<store, dirs, typed, session, roots, account, tries, boots>> /\ pc = "establish"
    BY <1>2 DEF Establish
  <2>2. CASE exists
    <3>1. cred' = load /\ pc' = "login"
      BY <1>2, <2>2, LoadFacts DEF Establish
    <3> QED
      BY <1>0, <2>1, <2>2, <3>1 DEF SessionInv
  <2>3. CASE ~exists
    <3>1. pc' = "setup"
      BY <1>2, <2>3 DEF Establish
    <3> QED
      BY <1>0, <2>1, <3>1 DEF SessionInv
  <2> QED
    BY <2>2, <2>3
<1>3. CASE FirstRunSetup
  <2>1. UNCHANGED <<store, session, roots, account>> /\ pc = "setup"
    BY <1>3 DEF FirstRunSetup
  <2>2. \/ pc' = "setup"
        \/ pc' = "save" /\ MadeBySetup(cred', typed')
    BY <1>3 DEF FirstRunSetup, MadeBySetup
  <2> QED
    BY <1>0, <2>1, <2>2 DEF SessionInv
<1>4. CASE SaveDirs
  <2>1. UNCHANGED <<store, cred, typed, session, roots, account>>
    BY <1>4 DEF SaveDirs
  <2>2. /\ pc \in {"save", "save_dir", "save_home", "save_user"}
        /\ pc' \in {"save_dir", "save_store", "save_user", "establish", "panic"}
        /\ pc' \in {"save_dir", "save_store"} => pc \in {"save", "save_dir"}
    BY <1>4 DEF SaveDirs, mkdir_path
  <2> QED
    BY <1>0, <2>1, <2>2 DEF SessionInv
<1>5. CASE SaveStore
  <2>1. /\ UNCHANGED <<session, roots>> /\ pc = "save_store" /\ pc' = "save_home"
        /\ store' = serialize(cred) /\ account' = typed
    BY <1>5 DEF SaveStore
  <2>2. MadeBySetup(cred, typed) /\ cred \in Creds
    BY <2>1, VerifyFacts DEF SessionInv
  <2>3. exists' => \E c \in Creds : store' = serialize(c) /\ MadeBySetup(c, account')
    BY <2>1, <2>2
  <2> QED
    BY <2>1, <2>3 DEF SessionInv
<1>6. CASE Login
  <2>1. UNCHANGED <<store, cred, roots, account>> /\ pc = "login" /\ exists /\ cred = load
    BY <1>6 DEF Login, SessionInv
  <2>2. MadeBySetup(cred, account)
    BY <2>1, LoadFacts
  <2>3. \/ UNCHANGED <<session, pc>>
        \/ pc' = "shell" /\ session' = account
    BY <1>6, <2>2, VerifyFacts DEF Login
  <2> QED
    BY <1>0, <2>1, <2>3 DEF SessionInv
<1>7. CASE Elevate
  <2>1. UNCHANGED <<store, pc, cred, session, account>> /\ pc = "shell" /\ exists
    BY <1>7 DEF Elevate, SessionInv
  <2>2. MadeBySetup(load, account)
    BY <2>1, LoadFacts
  <2>3. roots' \subseteq roots \cup {account[2]}
    BY <1>7, <2>2, VerifyFacts DEF Elevate
  <2> QED
    BY <1>0, <2>1, <2>3 DEF SessionInv
<1>8. CASE Reboot
    BY <1>0, <1>8 DEF Reboot, SessionInv
<1> QED
    BY <1>1, <1>2, <1>3, <1>4, <1>5, <1>6, <1>7, <1>8 DEF SessionNext

\* The account that setup stored is the one that works, on every boot, for any names
\* and passwords and wherever a crash falls (cred.rs, login.rs, sys_elevate,
\* sak_finish).
THEOREM SessionAccountSurvives == SessionSpec => []AccountSurvives
<1>1. SessionInit => SessionInv
    BY DEF SessionInit, SessionInv, exists
<1>2. SessionInv => AccountSurvives
  <2> SUFFICES ASSUME SessionInv PROVE AccountSurvives
    OBVIOUS
  <2>1. exists => load # None /\ verify(load, account[1], account[2])
    BY LoadFacts, VerifyFacts
  <2>2. pc = "login" => \A n \in Names, p \in Passwords : verify(cred, n, p) <=> account = <<n, p>>
    BY LoadFacts, VerifyFacts DEF SessionInv
  <2>3. (session # None => session = account) /\ \A p \in roots : p = account[2]
    BY DEF SessionInv
  <2> QED
    BY <2>1, <2>2, <2>3, Zenon DEF AccountSurvives
<1> QED
    BY <1>1, <1>2, SessionStep, PTL DEF SessionSpec

=============================================================================
