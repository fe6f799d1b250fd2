--------------------------- MODULE ProcessProofs ---------------------------
(* Proofs about tasks, threads and descriptor tables, for any bounds. *)
EXTENDS Process, WellFoundedInduction, TLAPS

\* Replacing an element of a sequence.
LEMMA ReplaceFacts ==
    ASSUME NEW T, NEW q \in Seq(T), NEW i \in DOMAIN q, NEW x \in T
    PROVE  /\ [q EXCEPT ![i] = x] \in Seq(T)
           /\ DOMAIN [q EXCEPT ![i] = x] = DOMAIN q
           /\ Len([q EXCEPT ![i] = x]) = Len(q)
           /\ [q EXCEPT ![i] = x][i] = x
           /\ \A j \in DOMAIN q : j # i => [q EXCEPT ![i] = x][j] = q[j]
OBVIOUS

\* Appending an element to a sequence.
LEMMA AppendFacts ==
    ASSUME NEW T, NEW q \in Seq(T), NEW x \in T
    PROVE  /\ Append(q, x) \in Seq(T)
           /\ Len(q) \in Nat
           /\ Len(Append(q, x)) = Len(q) + 1
           /\ DOMAIN Append(q, x) = DOMAIN q \cup {Len(q) + 1}
           /\ Len(q) + 1 \notin DOMAIN q
           /\ Append(q, x)[Len(q) + 1] = x
           /\ \A j \in DOMAIN q : Append(q, x)[j] = q[j]
OBVIOUS

\* Most steps are first-order reasoning; the ones about numbers, records and
\* sequences name SMT.
USE Zenon

\* The lowest of some numbers, as the scans of a table and of TASKS find it.
LEMMA LowestFacts ==
    ASSUME NEW S \in SUBSET Nat, S # {}
    PROVE  Lowest(S) \in S /\ \A n \in S : Lowest(S) <= n
<1> DEFINE Less == {p \in Nat \X Nat : p[1] < p[2]}
<1>1. IsWellFoundedOn(Less, Nat)
  BY NatLessThanWellFounded DEF OpToRel
<1> HIDE DEF Less
<1>2. PICK m \in S : \A n \in S : ~(<<n, m>> \in Less)
  BY <1>1, WFMin
<1>3. ASSUME NEW n \in S PROVE m <= n
  <2>1. n \in Nat /\ m \in Nat /\ ~(<<n, m>> \in Less)
    BY <1>2
  <2>2. <<n, m>> \in Nat \X Nat /\ <<n, m>>[1] = n /\ <<n, m>>[2] = m
    BY <2>1
  <2>3. ~(n < m)
    BY <2>1, <2>2 DEF Less
  <2> QED
    BY SMT, <2>1, <2>3
<1> QED
  BY <1>3 DEF Lowest

----------------------------------------------------------------------------
(* Descriptor tables. *)

\* A table grown with closed slots is a table.
LEMMA PadFacts ==
    ASSUME NEW fds \in Tables, NEW n \in Nat
    PROVE  /\ PadTo(fds, n) \in Tables
           /\ Len(PadTo(fds, n)) = IF n > Len(fds) THEN n ELSE Len(fds)
           /\ \A i \in 1..Len(PadTo(fds, n)) :
                  PadTo(fds, n)[i] = IF i <= Len(fds) THEN fds[i] ELSE NoEntry
<1> DEFINE k == IF n > Len(fds) THEN n - Len(fds) ELSE 0
           pad == [i \in 1..k |-> NoEntry]
<1>1. k \in Nat /\ Len(fds) \in Nat /\ fds \in Seq(Entries)
  BY SMT DEF Tables
<1>2. pad \in Seq(Entries) /\ Len(pad) = k
  BY SMT, <1>1 DEF Entries
<1>3. PadTo(fds, n) = fds \o pad
  BY DEF PadTo
<1>4. \A i \in 1..k : pad[i] = NoEntry
  OBVIOUS
<1> HIDE DEF pad
<1>5. /\ fds \o pad \in Seq(Entries)
      /\ Len(fds \o pad) = Len(fds) + k
      /\ \A i \in 1..Len(fds) + k : (fds \o pad)[i] = IF i <= Len(fds) THEN fds[i] ELSE pad[i - Len(fds)]
  BY SMT, <1>1, <1>2
<1>6. \A i \in 1..Len(fds) + k : (fds \o pad)[i] = IF i <= Len(fds) THEN fds[i] ELSE NoEntry
  BY SMT, <1>1, <1>4, <1>5
<1>7. Len(fds) + k = IF n > Len(fds) THEN n ELSE Len(fds)
  BY SMT, <1>1
<1> QED
  BY <1>1, <1>3, <1>5, <1>6, <1>7 DEF Tables

\* handle_alloc and fd_dup install the entry at the lowest descriptor from min
\* on that is free, return it, and leave every other open descriptor alone.
LEMMA PlaceFacts ==
    ASSUME NEW fds \in Tables, NEW e \in Entries, NEW min \in Nat
    PROVE  LET r == Place(fds, e, min)
           IN /\ r.tab \in Tables
              /\ r.ret \in Nat /\ r.ret >= min
              /\ ~Open(fds, r.ret)
              /\ r.ret + 1 \in DOMAIN r.tab /\ r.tab[r.ret + 1] = e
              /\ \A fd \in Nat : min <= fd /\ fd < r.ret => Open(fds, fd)
              /\ \A fd \in Nat \ {r.ret} :
                    /\ Open(r.tab, fd) <=> Open(fds, fd)
                    /\ Open(fds, fd) => r.tab[fd + 1] = fds[fd + 1]
<1> DEFINE free == {i \in DOMAIN fds : i > min /\ fds[i] = NoEntry}
           p == PadTo(fds, min)
<1>0. fds \in Seq(Entries) /\ Len(fds) \in Nat /\ DOMAIN fds = 1..Len(fds) /\ free \subseteq Nat
  BY SMT DEF Tables
<1>1. CASE free # {}
  <2>1. Lowest(free) \in free /\ \A i \in free : Lowest(free) <= i
    BY <1>0, <1>1, LowestFacts
  <2> DEFINE m == Lowest(free)
  <2>2. Place(fds, e, min) = [tab |-> [fds EXCEPT ![m] = e], ret |-> m - 1]
    BY <1>1 DEF Place
  <2>3. m \in 1..Len(fds) /\ m > min /\ fds[m] = NoEntry
    BY <1>0, <2>1
  <2>9. ASSUME NEW i \in 1..Len(fds), i > min, i < m PROVE fds[i] # NoEntry
    <3>1. fds[i] = NoEntry => i \in free
      BY <1>0, <2>9
    <3>2. i \in free => m <= i
      BY <2>1
    <3> HIDE DEF free, m
    <3> QED
      BY SMT, <1>0, <2>3, <2>9, <3>1, <3>2
  <2> HIDE DEF m
  <2> DEFINE tab == [fds EXCEPT ![m] = e]
  <2>4. /\ tab \in Seq(Entries) /\ DOMAIN tab = 1..Len(fds) /\ tab[m] = e
        /\ \A i \in 1..Len(fds) : i # m => tab[i] = fds[i]
    BY SMT, <1>0, <2>3
  <2> HIDE DEF tab
  <2>5. Place(fds, e, min).tab = tab /\ Place(fds, e, min).ret = m - 1
    BY SMT, <2>2 DEF tab
  <2>6. m - 1 \in Nat /\ m - 1 >= min /\ (m - 1) + 1 = m
    BY SMT, <1>0, <2>3
  <2>7. \A fd \in Nat : min <= fd /\ fd < m - 1 => fd + 1 \in 1..Len(fds) /\ fds[fd + 1] # NoEntry
    BY SMT, <1>0, <2>3, <2>9
  <2>8. \A fd \in Nat \ {m - 1} : fd + 1 # m /\ (fd + 1 \in 1..Len(fds) => tab[fd + 1] = fds[fd + 1])
    BY SMT, <1>0, <2>3, <2>4
  <2> QED
    BY <1>0, <2>3, <2>4, <2>5, <2>6, <2>7, <2>8 DEF Open, Tables
<1>2. CASE free = {}
  <2> DEFINE n == Len(fds)
             l == Len(p)
             tab == Append(p, e)
  <2>1. p \in Seq(Entries) /\ l \in Nat /\ DOMAIN p = 1..l /\ n \in Nat
    BY SMT, <1>0, PadFacts DEF Tables
  <2>2. l = (IF min > n THEN min ELSE n) /\ \A i \in 1..l : p[i] = IF i <= n THEN fds[i] ELSE NoEntry
    BY PadFacts
  <2>3. Place(fds, e, min).tab = tab /\ Place(fds, e, min).ret = l
    BY <1>2 DEF Place
  <2>4. \A i \in 1..n : i > min => fds[i] # NoEntry
    BY <1>0, <1>2
  <2>5. /\ tab \in Seq(Entries) /\ DOMAIN tab = 1..l + 1 /\ tab[l + 1] = e
        /\ \A i \in 1..l : tab[i] = p[i]
    BY SMT, <2>1
  <2>6. DOMAIN fds = 1..n /\ l \in Nat /\ n \in Nat
    BY <1>0, <2>1
  <2> HIDE DEF n, l, tab, p, free
  <2>7. l >= min /\ l + 1 \in 1..l + 1 /\ ~(l + 1 \in 1..n)
    BY SMT, <2>2, <2>6
  <2>8. ASSUME NEW fd \in Nat, min <= fd, fd < l
        PROVE  fd + 1 \in 1..n /\ fds[fd + 1] # NoEntry
    <3>1. fd + 1 \in 1..n /\ fd + 1 > min
      BY SMT, <2>2, <2>6, <2>8
    <3> QED
      BY <2>4, <3>1
  <2>9. ASSUME NEW fd \in Nat \ {l}
        PROVE  /\ Open(tab, fd) <=> Open(fds, fd)
               /\ Open(fds, fd) => tab[fd + 1] = fds[fd + 1]
    <3>1. CASE fd + 1 \in 1..n
      <4>1. fd + 1 \in 1..l /\ fd + 1 \in 1..l + 1 /\ fd + 1 <= n
        BY SMT, <2>2, <2>6, <3>1
      <4>2. tab[fd + 1] = fds[fd + 1]
        BY <2>2, <2>5, <4>1
      <4> QED
        BY <2>5, <2>6, <3>1, <4>1, <4>2 DEF Open
    <3>2. CASE fd + 1 \in 1..l /\ ~(fd + 1 \in 1..n)
      <4>1. ~(fd + 1 <= n)
        BY SMT, <2>6, <3>2
      <4>2. tab[fd + 1] = NoEntry
        BY <2>2, <2>5, <3>2, <4>1
      <4> QED
        BY <2>6, <3>2, <4>2 DEF Open
    <3>3. CASE ~(fd + 1 \in 1..l)
      <4>1. ~(fd + 1 \in 1..l + 1) /\ ~(fd + 1 \in 1..n)
        BY SMT, <2>2, <2>6, <3>3
      <4> QED
        BY <2>5, <2>6, <4>1 DEF Open
    <3> QED
      BY <3>1, <3>2, <3>3
  <2>10. ~Open(fds, l) /\ \A fd \in Nat : min <= fd /\ fd < l => Open(fds, fd)
    BY <2>6, <2>7, <2>8 DEF Open
  <2> QED
    BY <2>1, <2>3, <2>5, <2>7, <2>9, <2>10 DEF Tables
<1> QED
  BY <1>1, <1>2

\* The table operations map tables to tables.
LEMMA TableFacts ==
    ASSUME NEW fds \in Tables, NEW a \in Nat, NEW b \in Nat, NEW c \in BOOLEAN,
           NEW x \in HandleObject, NEW y \in HandleObject
    PROVE  /\ handle_alloc(fds, x, c).tab \in Tables
           /\ sys_pipe(fds, x, y, c) \in Tables
           /\ fd_close(fds, a).tab \in Tables
           /\ fd_set_cloexec(fds, a, c).tab \in Tables
           /\ fd_dup(fds, a, b).tab \in Tables
           /\ fd_dup_cloexec(fds, a, b).tab \in Tables
           /\ sys_dup3(fds, a, b, c).tab \in Tables
           /\ close_on_exec(fds) \in Tables
<1>1. ASSUME NEW f \in Tables, NEW z \in HandleObject PROVE handle_alloc(f, z, c).tab \in Tables
  <2>1. [obj |-> z, cloexec |-> c] \in Entries
    BY DEF Entries, Descriptions
  <2> QED
    BY <2>1, PlaceFacts DEF handle_alloc
<1>2. sys_pipe(fds, x, y, c) \in Tables
  BY <1>1 DEF sys_pipe
<1>3. NoEntry \in Entries
  BY DEF Entries
<1>4. fd_close(fds, a).tab \in Tables
  <2>1. CASE Open(fds, a)
    <3>1. [fds EXCEPT ![a + 1] = NoEntry] \in Tables
      BY <1>3, <2>1, ReplaceFacts DEF Open, Tables
    <3> QED
      BY <2>1, <3>1 DEF fd_close
  <2>2. CASE ~Open(fds, a)
    BY <2>2 DEF fd_close
  <2> QED
    BY <2>1, <2>2
<1>5. ASSUME NEW f \in Tables, NEW d, Open(f, d)
      PROVE  f[d + 1] \in Descriptions
  BY SMT, <1>5 DEF Open, Tables, Entries
<1>6. ASSUME NEW f \in Tables, NEW d, NEW on \in BOOLEAN
      PROVE  fd_set_cloexec(f, d, on).tab \in Tables
  <2>1. CASE Open(f, d)
    <3>1. f[d + 1] \in Descriptions
      BY <1>5, <2>1
    <3>2. [f[d + 1] EXCEPT !.cloexec = on] \in Entries
      BY <3>1 DEF Descriptions, Entries
    <3>3. [f EXCEPT ![d + 1] = [f[d + 1] EXCEPT !.cloexec = on]] \in Tables
      BY <2>1, <3>2, ReplaceFacts DEF Open, Tables
    <3> QED
      BY <2>1, <3>3 DEF fd_set_cloexec
  <2>2. CASE ~Open(f, d)
    BY <2>2 DEF fd_set_cloexec
  <2> QED
    BY <2>1, <2>2
<1>7. fd_dup(fds, a, b).tab \in Tables
  <2>1. CASE Open(fds, a)
    <3>1. [fds[a + 1] EXCEPT !.cloexec = FALSE] \in Entries
      BY <1>5, <2>1 DEF Descriptions, Entries
    <3>2. fd_dup(fds, a, b) = Place(fds, [fds[a + 1] EXCEPT !.cloexec = FALSE], b)
      BY SMT, <2>1 DEF fd_dup
    <3> QED
      BY SMT, <3>1, <3>2, PlaceFacts
  <2>2. CASE ~Open(fds, a)
    BY <2>2 DEF fd_dup
  <2> QED
    BY <2>1, <2>2
<1>8. fd_dup_cloexec(fds, a, b).tab \in Tables
  <2> DEFINE d == fd_dup(fds, a, b)
  <2>0. "tab" \in DOMAIN d
    BY DEF fd_dup, Place
  <2> HIDE DEF d
  <2>1. CASE d.ret >= 0
    <3>1. fd_set_cloexec(d.tab, d.ret, TRUE).tab \in Tables
      BY <1>6, <1>7 DEF d
    <3>2. fd_dup_cloexec(fds, a, b).tab = fd_set_cloexec(d.tab, d.ret, TRUE).tab
      BY <2>0, <2>1 DEF fd_dup_cloexec, d
    <3> QED
      BY <3>1, <3>2
  <2>2. CASE ~(d.ret >= 0)
    BY <1>7, <2>2 DEF fd_dup_cloexec, d
  <2> QED
    BY <2>1, <2>2
<1>9. sys_dup3(fds, a, b, c).tab \in Tables
  <2>1. CASE Open(fds, a) /\ a # b
    <3>1. [fds[a + 1] EXCEPT !.cloexec = c] \in Entries
      BY <1>5, <2>1 DEF Descriptions, Entries
    <3>2. PadTo(fds, b + 1) \in Seq(Entries) /\ b + 1 \in DOMAIN PadTo(fds, b + 1)
      <4>1. b + 1 \in Nat
        BY SMT
      <4>2. PadTo(fds, b + 1) \in Seq(Entries) /\ Len(PadTo(fds, b + 1)) >= b + 1
        BY SMT, <4>1, PadFacts DEF Tables
      <4> HIDE DEF PadTo
      <4> QED
        BY SMT, <4>1, <4>2
    <3>3. sys_dup3(fds, a, b, c).tab =
              [PadTo(fds, b + 1) EXCEPT ![b + 1] = [fds[a + 1] EXCEPT !.cloexec = c]]
      BY SMT, <2>1 DEF sys_dup3, fd_dup3
    <3> QED
      BY SMT, <3>1, <3>2, <3>3, ReplaceFacts DEF Tables
  <2>2. CASE ~(Open(fds, a) /\ a # b)
    BY <2>2 DEF sys_dup3, fd_dup3
  <2> QED
    BY <2>1, <2>2
<1>10. close_on_exec(fds) \in Tables
  BY SMT, <1>3 DEF close_on_exec, Tables
<1> QED
  BY <1>1, <1>2, <1>4, <1>6, <1>7, <1>8, <1>9, <1>10

\* open, pipe, NtCreateEvent: handle_alloc returns the lowest descriptor that is
\* free, binds it to the object, and changes no other descriptor.
THEOREM DescriptorAlloc ==
    ASSUME NEW fds \in Tables, NEW x \in HandleObject, NEW c \in BOOLEAN
    PROVE  LET r == handle_alloc(fds, x, c)
           IN /\ r.ret \in Nat /\ ~Open(fds, r.ret)
              /\ \A fd \in Nat : fd < r.ret => Open(fds, fd)
              /\ Open(r.tab, r.ret) /\ r.tab[r.ret + 1] = [obj |-> x, cloexec |-> c]
              /\ \A fd \in Nat \ {r.ret} :
                    /\ Open(r.tab, fd) <=> Open(fds, fd)
                    /\ Open(fds, fd) => r.tab[fd + 1] = fds[fd + 1]
<1> DEFINE e == [obj |-> x, cloexec |-> c]
           r == Place(fds, e, 0)
<1>1. e \in Entries /\ e # NoEntry
  BY SMT, DescriptorsAssumption DEF Entries, Descriptions
<1>2. handle_alloc(fds, x, c) = r
  BY DEF handle_alloc
<1> HIDE DEF e
<1>3. /\ r.ret \in Nat /\ ~Open(fds, r.ret)
      /\ r.ret + 1 \in DOMAIN r.tab /\ r.tab[r.ret + 1] = e
      /\ \A fd \in Nat : 0 <= fd /\ fd < r.ret => Open(fds, fd)
      /\ \A fd \in Nat \ {r.ret} :
            /\ Open(r.tab, fd) <=> Open(fds, fd)
            /\ Open(fds, fd) => r.tab[fd + 1] = fds[fd + 1]
  BY SMT, <1>1, 0 \in Nat, PlaceFacts
<1> HIDE DEF r
<1>4. \A fd \in Nat : fd < r.ret => Open(fds, fd)
  BY SMT, <1>3
<1>5. Open(r.tab, r.ret)
  BY <1>1, <1>3 DEF Open
<1> QED
  BY <1>2, <1>3, <1>4, <1>5 DEF e

\* dup2 and dup3: the new descriptor is open on the old one's object, with the
\* flag asked for, and no other descriptor changes.
THEOREM DescriptorDup ==
    ASSUME NEW fds \in Tables, NEW a \in Nat, NEW b \in Nat, NEW c \in BOOLEAN,
           Open(fds, a), a # b
    PROVE  LET r == fd_dup3(fds, a, b, c)
           IN /\ r.ret = b /\ Open(r.tab, b)
              /\ r.tab[b + 1] = [obj |-> fds[a + 1].obj, cloexec |-> c]
              /\ \A fd \in Nat \ {b} :
                    /\ Open(r.tab, fd) <=> Open(fds, fd)
                    /\ Open(fds, fd) => r.tab[fd + 1] = fds[fd + 1]
<1> DEFINE e == [fds[a + 1] EXCEPT !.cloexec = c]
           p == PadTo(fds, b + 1)
           tab == [p EXCEPT ![b + 1] = e]
           n == Len(fds)
           l == Len(p)
<1>1. fds[a + 1] \in Descriptions
  BY SMT DEF Open, Tables, Entries
<1>2. e = [obj |-> fds[a + 1].obj, cloexec |-> c]
  BY SMT, <1>1 DEF Descriptions
<1>3. e \in Entries /\ e # NoEntry
  BY <1>1, DescriptorsAssumption DEF Entries, Descriptions
<1>4. b + 1 \in Nat /\ n \in Nat /\ DOMAIN fds = 1..n
  BY SMT DEF Tables
<1>5. /\ p \in Seq(Entries) /\ l = (IF b + 1 > n THEN b + 1 ELSE n)
      /\ \A i \in 1..l : p[i] = IF i <= n THEN fds[i] ELSE NoEntry
  BY <1>4, PadFacts DEF Tables
<1>6. fd_dup3(fds, a, b, c) = [tab |-> tab, ret |-> b]
  BY SMT DEF fd_dup3
<1> HIDE DEF p, n, e
<1>7. DOMAIN p = 1..l /\ b + 1 \in 1..l /\ l \in Nat
  BY SMT, <1>4, <1>5
<1>7a. l = IF b + 1 > n THEN b + 1 ELSE n
  BY <1>5
<1>8. DOMAIN tab = 1..l /\ tab[b + 1] = e /\ \A i \in 1..l : i # b + 1 => tab[i] = p[i]
  BY <1>3, <1>5, <1>7, ReplaceFacts
<1> HIDE DEF tab, l
<1>9. Open(tab, b)
  BY <1>3, <1>7, <1>8 DEF Open
<1>10. ASSUME NEW fd \in Nat \ {b}
       PROVE  /\ Open(tab, fd) <=> Open(fds, fd)
              /\ Open(fds, fd) => tab[fd + 1] = fds[fd + 1]
  <2>0. fd + 1 # b + 1
    BY SMT
  <2>1. CASE fd + 1 \in 1..n
    <3>1. fd + 1 \in 1..l /\ fd + 1 <= n
      BY SMT, <1>4, <1>7a, <2>1
    <3>2. tab[fd + 1] = fds[fd + 1]
      BY <1>5, <1>8, <2>0, <3>1
    <3> QED
      BY <1>4, <1>8, <2>1, <3>1, <3>2 DEF Open
  <2>2. CASE fd + 1 \in 1..l /\ ~(fd + 1 \in 1..n)
    <3>1. ~(fd + 1 <= n)
      BY SMT, <1>4, <2>2
    <3>2. tab[fd + 1] = NoEntry
      BY <1>5, <1>8, <2>0, <2>2, <3>1
    <3> QED
      BY <1>4, <2>2, <3>2 DEF Open
  <2>3. CASE ~(fd + 1 \in 1..l)
    <3>1. ~(fd + 1 \in 1..n)
      BY SMT, <1>4, <1>7a, <2>3
    <3> QED
      BY <1>4, <1>8, <2>3, <3>1 DEF Open
  <2> QED
    BY <2>1, <2>2, <2>3
<1>11. fd_dup3(fds, a, b, c).tab = tab /\ fd_dup3(fds, a, b, c).ret = b
  BY SMT, <1>6
<1> QED
  BY <1>2, <1>8, <1>9, <1>10, <1>11

\* execve: exactly the descriptors marked close-on-exec are gone, and the others
\* are what they were.
THEOREM DescriptorExec ==
    ASSUME NEW fds \in Tables, NEW fd \in Nat
    PROVE  /\ Open(close_on_exec(fds), fd) <=> Open(fds, fd) /\ ~fds[fd + 1].cloexec
           /\ Open(close_on_exec(fds), fd) => close_on_exec(fds)[fd + 1] = fds[fd + 1]
<1>1. DOMAIN close_on_exec(fds) = DOMAIN fds
  BY DEF close_on_exec
<1>2. fd + 1 \in DOMAIN fds =>
          close_on_exec(fds)[fd + 1] =
              IF fds[fd + 1] # NoEntry /\ fds[fd + 1].cloexec THEN NoEntry ELSE fds[fd + 1]
  BY DEF close_on_exec
<1> QED
  BY <1>1, <1>2 DEF Open

----------------------------------------------------------------------------
(* Tasks, threads and spaces. *)

\* A step of t that leaves every thread where it belongs: another one may at most
\* wake from wait4.
ThreadsKept(t) ==
    /\ thr' \in Seq(ThreadRecs) /\ DOMAIN thr' = Tids
    /\ \A u \in Tids : /\ thr'[u].pid = thr[u].pid
                       /\ thr'[u].space = thr[u].space
                       /\ thr'[u].main = thr[u].main
    /\ \A u \in Tids \ {t} : \/ thr'[u].pc = thr[u].pc
                             \/ thr[u].pc = "asleep" /\ thr'[u].pc = "wait4"

\* A step that touches at most the files and the exit status of p.
TasksKept(p) ==
    /\ task' \in Seq(TaskRecs) /\ DOMAIN task' = Pids
    /\ \A q \in Pids : /\ task'[q].ppid = task[q].ppid
                       /\ task'[q].space = task[q].space
                       /\ task'[q].active = task[q].active
                       /\ task'[q].pe = task[q].pe
                       /\ task'[q].worker = task[q].worker
    /\ \A q \in Pids \ {p} : task'[q] = task[q]

\* The records of the two tables.
LEMMA RecordFacts ==
    ASSUME IInv
    PROVE  /\ \A t \in Tids : thr[t] \in ThreadRecs /\ thr[t].pid \in Pids
           /\ \A p \in Pids : task[p] \in TaskRecs
<1>1. task \in Seq(TaskRecs) /\ thr \in Seq(ThreadRecs) /\ \A t \in Tids : thr[t].pid \in Pids
  BY DEF IInv, TypeOK
<1> QED
  BY SMT, <1>1 DEF Tids, Pids

\* A task without workers has one thread.
LEMMA SoleThread ==
    ASSUME IInv, NEW t \in Tids, NEW u \in Tids, thr[t].pid = thr[u].pid, ~TaskOf(t).pe
    PROVE  t = u
<1>1. thr[t].main \in BOOLEAN /\ thr[u].main \in BOOLEAN
  <2>1. thr[t] \in ThreadRecs /\ thr[u] \in ThreadRecs
    BY RecordFacts
  <2> QED
    BY <2>1 DEF ThreadRecs
<1>2. thr[t].main /\ thr[u].main
  BY DEF IInv, CountInv, TaskOf
<1>3. thr[t].main = thr[u].main
  BY <1>1, <1>2
<1> QED
  BY <1>3 DEF IInv, CountInv

\* The steps of a thread that neither create nor free anything.
LEMMA LocalStep ==
    ASSUME IInv, NEW t \in Tids, ThreadsKept(t), TasksKept(thr[t].pid),
           spaces' = spaces, listed' \subseteq listed,
           thr[t].pc # "reaped", thr'[t].pc # "reaped",
           ExitingThread(t)', ExitedTask(thr[t].pid)'
    PROVE  IInv'
<1> DEFINE p == thr[t].pid
<1>0. /\ Tids' = Tids /\ Pids' = Pids
      /\ \A u \in Tids : thr[u].pid \in Pids
  BY DEF Tids, Pids, ThreadsKept, TasksKept, IInv, TypeOK
<1>1. \A u \in Tids : thr'[u].pc # "reaped" <=> thr[u].pc # "reaped"
  BY DEF ThreadsKept
<1>2. TypeOK'
  BY <1>0 DEF ThreadsKept, TasksKept, IInv, TypeOK
<1>3. SpaceInv'
  <2>1. ASSUME NEW u \in Tids
        PROVE  TaskOf(u)'.space = TaskOf(u).space /\ thr'[u].space = thr[u].space
    <3>1. thr'[u].pid = thr[u].pid /\ thr'[u].space = thr[u].space /\ thr[u].pid \in Pids
      BY <1>0 DEF ThreadsKept
    <3>2. task'[thr[u].pid].space = task[thr[u].pid].space
      BY <3>1 DEF TasksKept
    <3> QED
      BY <3>1, <3>2 DEF TaskOf
  <2>2. \A u \in Tids' : thr'[u].space = TaskOf(u)'.space
    BY <1>0, <2>1 DEF IInv, SpaceInv
  <2>3. \A u \in Tids' : thr'[u].pc # "reaped" => spaces'[TaskOf(u)'.space] = "live"
    BY <1>0, <1>1, <2>1 DEF IInv, SpaceInv
  <2>4. ASSUME NEW q \in Pids, NEW r \in Pids, task'[q].space = task'[r].space PROVE q = r
    <3>1. task[q].space = task[r].space
      BY <2>4 DEF TasksKept
    <3> QED
      BY <3>1 DEF IInv, SpaceInv
  <2> QED
    BY <1>0, <2>2, <2>3, <2>4 DEF SpaceInv
<1>4. CountInv'
  <2>1. ASSUME NEW q \in Pids, NEW m PROVE Alive(q, m)' = Alive(q, m)
    <3>1. (\E u \in Tids' : thr'[u].pid = q /\ thr'[u].main = m /\ thr'[u].pc # "reaped")
          <=> (\E u \in Tids : thr[u].pid = q /\ thr[u].main = m /\ thr[u].pc # "reaped")
      BY <1>0, <1>1 DEF ThreadsKept
    <3> QED
      BY <3>1 DEF Alive
  <2>2. ASSUME NEW q \in Pids PROVE task'[q].active = Alive(q, TRUE)' + Alive(q, FALSE)'
    <3>1. Alive(q, TRUE)' = Alive(q, TRUE) /\ Alive(q, FALSE)' = Alive(q, FALSE)
      BY <2>1
    <3>2. task[q].active = Alive(q, TRUE) + Alive(q, FALSE)
      BY DEF IInv, CountInv
    <3> QED
      BY <3>1, <3>2 DEF TasksKept
  <2>3. \A u, v \in Tids : thr'[u].pid = thr'[v].pid /\ thr'[u].main = thr'[v].main => u = v
    BY SMT DEF ThreadsKept, IInv, CountInv
  <2>4. \A u \in Tids : ~thr'[u].main => TaskOf(u)'.worker /\ TaskOf(u)'.pe
    BY <1>0 DEF ThreadsKept, TasksKept, IInv, CountInv, TaskOf
  <2> QED
    BY <1>0, <2>2, <2>3, <2>4 DEF CountInv
<1>5. ExitInv'
  <2>1. ASSUME NEW u \in Tids PROVE ExitingThread(u)'
    <3>1. CASE thr[u].pid # p
      <4>1. TaskOf(u)' = TaskOf(u) /\ u # t
        BY <1>0, <3>1 DEF TaskOf, ThreadsKept, TasksKept
      <4>2. ExitingThread(u)
        BY DEF IInv, ExitInv
      <4>3. thr'[u].pc = thr[u].pc \/ (thr[u].pc = "asleep" /\ thr'[u].pc = "wait4")
        BY <4>1 DEF ThreadsKept
      <4> QED
        BY <4>1, <4>2, <4>3 DEF ExitingThread, Ending, GonePcs
    <3>2. CASE thr[u].pid = p /\ TaskOf(t).pe
      <4>1. TaskOf(u)'.pe
        BY <1>0, <3>2 DEF TaskOf, ThreadsKept, TasksKept
      <4> QED
        BY <4>1 DEF ExitingThread
    <3>3. CASE thr[u].pid = p /\ ~TaskOf(t).pe
      BY <3>3, SoleThread
    <3> QED
      BY <3>1, <3>2, <3>3
  <2>2. ASSUME NEW q \in Pids PROVE ExitedTask(q)' /\ (task'[q].pe => task'[q].ppid = 0)
    <3>1. CASE q = p
      <4>1. thr'[t].pid = q
        BY <3>1 DEF ThreadsKept
      <4>2. ExitedTask(q)'
        BY <4>1 DEF ExitedTask
      <4> QED
        BY <4>2 DEF IInv, ExitInv, TasksKept
    <3>2. CASE q # p
      BY SMT, <3>2 DEF IInv, ExitInv, ExitedTask, TasksKept
    <3> QED
      BY <3>1, <3>2
  <2> QED
    BY <1>0, <2>1, <2>2 DEF ExitInv
<1> QED
  BY <1>2, <1>3, <1>4, <1>5 DEF IInv

\* Threads that go on to pc, with the argument of a call, or with a pin.
LEMMA Moves ==
    ASSUME IInv, NEW t \in Tids, NEW pc \in PcValues,
           NEW a \in Int \cup {None}, NEW u \in Nat \cup {None},
           \/ thr' = Goto(t, pc)
           \/ thr' = [thr EXCEPT ![t].pc = pc, ![t].arg = a]
           \/ thr' = [thr EXCEPT ![t].pc = pc, ![t].pin = u]
    PROVE  ThreadsKept(t) /\ thr'[t].pc = pc /\ thr'[t].pid = thr[t].pid
<1>1. thr[t] \in ThreadRecs
  BY RecordFacts
<1>2. ASSUME NEW r \in ThreadRecs, r.pid = thr[t].pid, r.space = thr[t].space,
             r.main = thr[t].main, r.pc = pc, thr' = [thr EXCEPT ![t] = r]
      PROVE  ThreadsKept(t) /\ thr'[t].pc = pc /\ thr'[t].pid = thr[t].pid
  <2>1. thr \in Seq(ThreadRecs)
    BY DEF IInv, TypeOK
  <2>2. /\ thr' \in Seq(ThreadRecs) /\ DOMAIN thr' = DOMAIN thr /\ thr'[t] = r
        /\ \A v \in DOMAIN thr : v # t => thr'[v] = thr[v]
    BY <1>2, <2>1, ReplaceFacts DEF Tids
  <2> QED
    BY <1>2, <2>2 DEF ThreadsKept, Tids
<1>3. CASE thr' = Goto(t, pc)
  <2> DEFINE r == [thr[t] EXCEPT !.pc = pc]
  <2>1. r \in ThreadRecs /\ r.pid = thr[t].pid /\ r.space = thr[t].space
        /\ r.main = thr[t].main /\ r.pc = pc
    BY <1>1 DEF ThreadRecs
  <2>2. thr' = [thr EXCEPT ![t] = r]
    BY <1>3 DEF Goto
  <2> HIDE DEF r
  <2> QED
    BY <1>2, <2>1, <2>2
<1>4. CASE thr' = [thr EXCEPT ![t].pc = pc, ![t].arg = a]
  <2> DEFINE r == [thr[t] EXCEPT !.pc = pc, !.arg = a]
  <2>1. r \in ThreadRecs /\ r.pid = thr[t].pid /\ r.space = thr[t].space
        /\ r.main = thr[t].main /\ r.pc = pc
    BY <1>1 DEF ThreadRecs
  <2>2. thr' = [thr EXCEPT ![t] = r]
    BY <1>4
  <2> HIDE DEF r
  <2> QED
    BY <1>2, <2>1, <2>2
<1>5. CASE thr' = [thr EXCEPT ![t].pc = pc, ![t].pin = u]
  <2> DEFINE r == [thr[t] EXCEPT !.pc = pc, !.pin = u]
  <2>1. r \in ThreadRecs /\ r.pid = thr[t].pid /\ r.space = thr[t].space
        /\ r.main = thr[t].main /\ r.pc = pc
    BY <1>1 DEF ThreadRecs
  <2>2. thr' = [thr EXCEPT ![t] = r]
    BY <1>5
  <2> HIDE DEF r
  <2> QED
    BY <1>2, <2>1, <2>2
<1> QED
  BY <1>3, <1>4, <1>5

\* What set_exit_status and the descriptor calls change of a task.
Changes(p, fds, status, exited) ==
    /\ TasksKept(p)
    /\ task'[p].fds = fds /\ task'[p].status = status /\ task'[p].exited = exited

\* An assignment to a field of a task leaves the other fields and tasks alone.
LEMMA TaskChanges ==
    ASSUME IInv, NEW p \in Pids
    PROVE  /\ task' = task => Changes(p, task[p].fds, task[p].status, task[p].exited)
           /\ \A f \in Tables : task' = [task EXCEPT ![p].fds = f] =>
                  Changes(p, f, task[p].status, task[p].exited)
           /\ \A c \in Codes \cup {126} : task' = [task EXCEPT ![p].status = c] =>
                  Changes(p, task[p].fds, c, task[p].exited)
           /\ task' = [task EXCEPT ![p].exited = TRUE] =>
                  Changes(p, task[p].fds, task[p].status, TRUE)
<1>1. task[p] \in TaskRecs /\ task \in Seq(TaskRecs)
  BY RecordFacts DEF IInv, TypeOK
<1>2. ASSUME NEW r \in TaskRecs, task' = [task EXCEPT ![p] = r],
             r.ppid = task[p].ppid, r.space = task[p].space, r.active = task[p].active,
             r.pe = task[p].pe, r.worker = task[p].worker
      PROVE  TasksKept(p) /\ task'[p] = r
  <2>1. /\ task' \in Seq(TaskRecs) /\ DOMAIN task' = DOMAIN task /\ task'[p] = r
        /\ \A q \in DOMAIN task : q # p => task'[q] = task[q]
    BY <1>1, <1>2, ReplaceFacts DEF Pids
  <2> QED
    BY <1>2, <2>1 DEF TasksKept, Pids
<1>3. ASSUME task' = task
      PROVE  Changes(p, task[p].fds, task[p].status, task[p].exited)
  BY <1>1, <1>3 DEF Changes, TasksKept, Pids
<1>4. ASSUME NEW f \in Tables, task' = [task EXCEPT ![p].fds = f]
      PROVE  Changes(p, f, task[p].status, task[p].exited)
  <2> DEFINE r == [task[p] EXCEPT !.fds = f]
  <2>1. /\ r \in TaskRecs /\ r.ppid = task[p].ppid /\ r.space = task[p].space
        /\ r.active = task[p].active /\ r.pe = task[p].pe /\ r.worker = task[p].worker
        /\ r.fds = f /\ r.status = task[p].status /\ r.exited = task[p].exited
    BY <1>1 DEF TaskRecs
  <2>2. task' = [task EXCEPT ![p] = r]
    BY <1>4
  <2> HIDE DEF r
  <2> QED
    BY <1>2, <2>1, <2>2 DEF Changes
<1>5. ASSUME NEW c \in Codes \cup {126}, task' = [task EXCEPT ![p].status = c]
      PROVE  Changes(p, task[p].fds, c, task[p].exited)
  <2> DEFINE r == [task[p] EXCEPT !.status = c]
  <2>1. /\ r \in TaskRecs /\ r.ppid = task[p].ppid /\ r.space = task[p].space
        /\ r.active = task[p].active /\ r.pe = task[p].pe /\ r.worker = task[p].worker
        /\ r.fds = task[p].fds /\ r.status = c /\ r.exited = task[p].exited
    BY <1>1 DEF TaskRecs
  <2>2. task' = [task EXCEPT ![p] = r]
    BY <1>5
  <2> HIDE DEF r
  <2> QED
    BY <1>2, <2>1, <2>2 DEF Changes
<1>6. ASSUME task' = [task EXCEPT ![p].exited = TRUE]
      PROVE  Changes(p, task[p].fds, task[p].status, TRUE)
  <2> DEFINE r == [task[p] EXCEPT !.exited = TRUE]
  <2>1. /\ r \in TaskRecs /\ r.ppid = task[p].ppid /\ r.space = task[p].space
        /\ r.active = task[p].active /\ r.pe = task[p].pe /\ r.worker = task[p].worker
        /\ r.fds = task[p].fds /\ r.status = task[p].status /\ r.exited
    BY <1>1 DEF TaskRecs
  <2>2. task' = [task EXCEPT ![p] = r]
    BY <1>6
  <2> HIDE DEF r
  <2> QED
    BY <1>2, <2>1, <2>2 DEF Changes
<1> QED
  BY <1>3, <1>4, <1>5, <1>6

\* A step of t to pc that leaves its task with these files, status and exited flag.
LEMMA CallStep ==
    ASSUME IInv, NEW t \in Tids, NEW pc, NEW f, NEW s, NEW x,
           ThreadsKept(t), thr'[t].pc = pc, thr'[t].pid = thr[t].pid,
           Changes(thr[t].pid, f, s, x), spaces' = spaces, listed' \subseteq listed,
           thr[t].pc # "reaped", pc # "reaped",
           ~TaskOf(t).pe => /\ pc \notin {"register", "handle"}
                            /\ pc \in {"files"} \cup Ending => s # None
                            /\ pc \in Ending => f = <<>>
                            /\ x => pc \in {"notify"} \cup GonePcs /\ s # None /\ f = <<>>
    PROVE  IInv'
<1>1. TasksKept(thr[t].pid)
  BY DEF Changes
<1>2. thr[t].pid \in Pids
  BY RecordFacts
<1>3. TaskOf(t)'.pe <=> TaskOf(t).pe
  BY <1>1, <1>2 DEF TaskOf, TasksKept
<1>4. TaskOf(t)'.fds = f /\ TaskOf(t)'.status = s /\ TaskOf(t)'.exited = x
  BY DEF Changes, TaskOf
<1>5. ExitingThread(t)'
  BY <1>3, <1>4 DEF ExitingThread
<1>6. ExitedTask(thr[t].pid)'
  BY <1>3, <1>4 DEF ExitedTask, TaskOf
<1> QED
  BY <1>1, <1>5, <1>6, LocalStep

\* The program points of a thread that is in user mode, or in a call of a task
\* that is not exiting.
LEMMA NotExited ==
    ASSUME IInv, NEW t \in Tids, ~TaskOf(t).pe, thr[t].pc \notin {"notify"} \cup GonePcs
    PROVE  ~TaskOf(t).exited
BY DEF IInv, ExitInv, ExitingThread

\* The descriptor calls.
LEMMA FdsStep ==
    ASSUME IInv, NEW t \in Tids, NEW f \in Tables, SetFds(t, f)
    PROVE  IInv'
<1>1. thr[t].pid \in Pids /\ thr[t] \in ThreadRecs
  BY RecordFacts
<1>2. Changes(thr[t].pid, f, TaskOf(t).status, TaskOf(t).exited)
  BY <1>1, TaskChanges DEF SetFds, TaskOf
<1>3. thr[t].pc = "user" /\ thr' = thr /\ spaces' = spaces /\ listed' \subseteq listed
  BY DEF SetFds, At
<1>4. ThreadsKept(t)
  BY <1>3 DEF ThreadsKept, Tids, IInv, TypeOK
<1>5. "user" \notin {"register", "handle", "files"} \cup Ending
  BY DEF Ending, GonePcs
<1>6. ~TaskOf(t).pe => ~TaskOf(t).exited
  BY <1>3, <1>5, NotExited DEF Ending
<1> QED
  BY <1>2, <1>3, <1>4, <1>5, <1>6, CallStep

\* open, pipe, close and dup.
LEMMA FilesStep ==
    ASSUME IInv, NEW t \in Tids, OpenFile(t) \/ PipeCall(t) \/ CloseCall(t) \/ DupCall(t)
    PROVE  IInv'
<1>1. TaskOf(t).fds \in Tables
  <2>1. TaskOf(t) \in TaskRecs
    BY RecordFacts DEF TaskOf
  <2> QED
    BY <2>1 DEF TaskRecs
<1>2. \A n \in 0..MaxFds : n \in Nat
  BY SMT
<1>3. "file" \in HandleObject /\ "read end" \in HandleObject /\ "write end" \in HandleObject
  BY DEF HandleObject
<1>4. ASSUME OpenFile(t) PROVE IInv'
  BY <1>1, <1>3, <1>4, TableFacts, FdsStep, 0 \in Nat DEF OpenFile
<1>5. ASSUME PipeCall(t) PROVE IInv'
  BY <1>1, <1>3, <1>5, TableFacts, FdsStep, 0 \in Nat DEF PipeCall
<1>6. ASSUME CloseCall(t) PROVE IInv'
  BY <1>1, <1>2, <1>3, <1>6, TableFacts, FdsStep, TRUE \in BOOLEAN DEF CloseCall
<1>7. ASSUME DupCall(t) PROVE IInv'
  BY <1>1, <1>2, <1>3, <1>7, TableFacts, FdsStep, TRUE \in BOOLEAN DEF DupCall
<1> QED
  BY <1>4, <1>5, <1>6, <1>7

\* execve refused by the gate, exit, and NtTerminateThread of a thread without
\* an exit event: the status is stored first.
LEMMA StatusStep ==
    ASSUME IInv, NEW t \in Tids, thr[t].pc = "user", NEW c \in Codes \cup {126},
           SetStatus(t, c), thr' = Goto(t, "files"), UNCHANGED <<listed, spaces>>
    PROVE  IInv'
<1>1. thr[t].pid \in Pids
  BY RecordFacts
<1>2. Changes(thr[t].pid, TaskOf(t).fds, c, TaskOf(t).exited)
  BY <1>1, TaskChanges DEF SetStatus, TaskOf
<1>3. ThreadsKept(t) /\ thr'[t].pc = "files" /\ thr'[t].pid = thr[t].pid
  BY Moves, "files" \in PcValues, None \in Int \cup {None}, None \in Nat \cup {None} DEF PcValues
<1>4. c # None /\ "files" \notin {"register", "handle"} \cup Ending /\ "files" # "reaped"
  BY ProcessAssumption DEF Ending, GonePcs
<1>5. ~TaskOf(t).pe => ~TaskOf(t).exited
  BY NotExited DEF GonePcs
<1> QED
  BY <1>2, <1>3, <1>4, <1>5, CallStep

\* set_exit_status after the status, one step at a time, and the handoff.
LEMMA EndedStep ==
    ASSUME IInv, NEW t \in Tids, Ended(t)
    PROVE  IInv'
<1>1. thr[t].pid \in Pids
  BY RecordFacts
<1>2. {"exited", "notify", "dead"} \subseteq PcValues /\ None \in Int \cup {None} /\ None \in Nat \cup {None}
  BY DEF PcValues, GonePcs
<1>3. ExitingThread(t) /\ ExitedTask(thr[t].pid)
  BY <1>1 DEF IInv, ExitInv
<1>4. ASSUME ClearFiles(t) PROVE IInv'
  <2>1. <<>> \in Tables
    BY SMT DEF Tables
  <2>2. Changes(thr[t].pid, <<>>, TaskOf(t).status, TaskOf(t).exited)
    BY <1>1, <1>4, <2>1, TaskChanges DEF ClearFiles, TaskOf
  <2>3. ThreadsKept(t) /\ thr'[t].pc = "exited" /\ thr'[t].pid = thr[t].pid
    BY <1>2, <1>4, Moves DEF ClearFiles
  <2>4. ~TaskOf(t).pe => TaskOf(t).status # None /\ ~TaskOf(t).exited
    BY <1>3, <1>4 DEF ClearFiles, At, ExitingThread, GonePcs
  <2> QED
    BY <1>4, <2>2, <2>3, <2>4, CallStep DEF ClearFiles, At
<1>5. ASSUME SetExited(t) PROVE IInv'
  <2>2. Changes(thr[t].pid, TaskOf(t).fds, TaskOf(t).status, TRUE)
    BY <1>1, <1>5, TaskChanges DEF SetExited, TaskOf
  <2>3. ThreadsKept(t) /\ thr'[t].pc = "notify" /\ thr'[t].pid = thr[t].pid
    BY <1>2, <1>5, Moves DEF SetExited
  <2>4. ~TaskOf(t).pe => TaskOf(t).status # None /\ TaskOf(t).fds = <<>>
    BY <1>3, <1>5 DEF SetExited, At, ExitingThread, Ending
  <2> QED
    BY <1>5, <2>2, <2>3, <2>4, CallStep DEF SetExited, At
<1>6. ASSUME Notify(t) \/ FinishSwitch(t) PROVE IInv'
  <2>1. Changes(thr[t].pid, TaskOf(t).fds, TaskOf(t).status, TaskOf(t).exited)
    BY <1>1, <1>6, TaskChanges DEF Notify, FinishSwitch, TaskOf
  <2>2. thr[t].pc \in Ending \ {"reaped"} /\ spaces' = spaces /\ listed' \subseteq listed
    BY <1>6 DEF Notify, FinishSwitch, At, Ending, GonePcs
  <2>3. ThreadsKept(t) /\ thr'[t].pc \in {"corpse", "dead"} /\ thr'[t].pid = thr[t].pid
    <3>1. CASE FinishSwitch(t)
      BY <1>2, <3>1, Moves DEF FinishSwitch
    <3>2. CASE Notify(t)
      <4>1. thr' = Woken(t) /\ thr \in Seq(ThreadRecs)
        BY <3>2 DEF Notify, IInv, TypeOK
      <4>2. \A u \in Tids : thr[u] \in ThreadRecs
        BY RecordFacts
      <4>3. ASSUME NEW u \in Tids
            PROVE  /\ thr'[u] \in ThreadRecs
                   /\ thr'[u].pid = thr[u].pid /\ thr'[u].space = thr[u].space
                   /\ thr'[u].main = thr[u].main
                   /\ u # t => \/ thr'[u].pc = thr[u].pc
                               \/ thr[u].pc = "asleep" /\ thr'[u].pc = "wait4"
                   /\ u = t => thr'[u].pc = "corpse"
        <5> DEFINE r == thr[u]
        <5>1. r \in ThreadRecs /\ {"corpse", "wait4"} \subseteq PcValues
          BY <4>2 DEF PcValues, GonePcs
        <5>2. thr'[u] = IF u = t THEN [r EXCEPT !.pc = "corpse"]
                        ELSE IF r.pc = "asleep" THEN [r EXCEPT !.pc = "wait4", !.pin = None]
                        ELSE r
          BY <4>1 DEF Woken
        <5> HIDE DEF r
        <5>3. LET c == [r EXCEPT !.pc = "corpse"]
              IN c \in ThreadRecs /\ c.pid = r.pid /\ c.space = r.space /\ c.main = r.main
                 /\ c.pc = "corpse"
          BY <5>1 DEF ThreadRecs
        <5>4. LET c == [r EXCEPT !.pc = "wait4", !.pin = None]
              IN c \in ThreadRecs /\ c.pid = r.pid /\ c.space = r.space /\ c.main = r.main
                 /\ c.pc = "wait4"
          BY <5>1 DEF ThreadRecs
        <5>5. thr[u] = r
          BY DEF r
        <5> QED
          BY <5>1, <5>2, <5>3, <5>4, <5>5
      <4>4. DOMAIN thr' = Tids /\ Tids = 1..Len(thr) /\ Len(thr) \in Nat
        <5>1. thr' = Woken(t) => DOMAIN thr' = Tids
          BY DEF Woken
        <5>2. thr \in Seq(ThreadRecs) => Tids = 1..Len(thr) /\ Len(thr) \in Nat
          BY SMT DEF Tids
        <5> QED
          BY <4>1, <5>1, <5>2
      <4>5. thr' \in Seq(ThreadRecs)
        <5>1. thr' = [u \in 1..Len(thr) |-> thr'[u]]
          BY <4>1, <4>4 DEF Woken
        <5>2. thr' \in [1..Len(thr) -> ThreadRecs]
          BY <4>3, <4>4, <5>1
        <5> QED
          BY SMT, <4>4, <5>2
      <4> QED
        BY <4>3, <4>4, <4>5 DEF ThreadsKept
    <3> QED
      BY <1>6, <3>1, <3>2
  <2>4. ~TaskOf(t).pe => TaskOf(t).status # None /\ TaskOf(t).fds = <<>>
    BY <1>3, <2>2 DEF ExitingThread
  <2>5. \A pc \in {"corpse", "dead"} : pc \in GonePcs /\ pc \notin {"register", "handle", "reaped"}
    BY DEF GonePcs
  <2>6. thr[t].pc # "reaped" /\ thr'[t].pc # "reaped"
    BY <2>2, <2>3
  <2> QED
    BY <2>1, <2>2, <2>3, <2>4, <2>5, <2>6, CallStep
<1> QED
  BY <1>4, <1>5, <1>6 DEF Ended

\* NtCreateThreadEx after the worker exists, and NtTerminateThread.
LEMMA WorkerStep ==
    ASSUME IInv, NEW t \in Tids, Starting(t) \/ NtTerminateThread(t)
    PROVE  IInv'
<1>1. thr[t].pid \in Pids
  BY RecordFacts
<1>2. {"handle", "user", "corpse"} \subseteq PcValues /\ None \in Int \cup {None} /\ None \in Nat \cup {None}
  BY DEF PcValues, GonePcs
<1>3. thr[t].pc \in {"register", "handle"} => TaskOf(t).pe
  BY DEF IInv, ExitInv, ExitingThread
<1>4. ASSUME RegisterThreadExit(t) PROVE IInv'
  <2>1. Changes(thr[t].pid, TaskOf(t).fds, TaskOf(t).status, TaskOf(t).exited)
    BY <1>1, <1>4, TaskChanges DEF RegisterThreadExit, TaskOf
  <2>2. ThreadsKept(t) /\ thr'[t].pc = "handle" /\ thr'[t].pid = thr[t].pid
    BY <1>2, <1>4, Moves DEF RegisterThreadExit
  <2>3. thr[t].pc = "register" /\ spaces' = spaces /\ listed' \subseteq listed
    BY <1>4 DEF RegisterThreadExit, At
  <2> QED
    BY <1>3, <2>1, <2>2, <2>3, CallStep
<1>5. ASSUME AllocThreadHandle(t) PROVE IInv'
  <2> DEFINE f == handle_alloc(TaskOf(t).fds, "thread", FALSE).tab
  <2>1. f \in Tables
    <3>1. TaskOf(t) \in TaskRecs
      BY RecordFacts DEF TaskOf
    <3>2. TaskOf(t).fds \in Tables
      BY <3>1 DEF TaskRecs
    <3>3. "thread" \in HandleObject
      BY DEF HandleObject
    <3> QED
      BY <3>2, <3>3, TableFacts, 0 \in Nat, FALSE \in BOOLEAN
  <2>2. Changes(thr[t].pid, f, TaskOf(t).status, TaskOf(t).exited)
    <3>1. task' = [task EXCEPT ![thr[t].pid].fds = f]
      BY <1>5 DEF AllocThreadHandle, TaskOf
    <3> HIDE DEF f
    <3> QED
      BY <1>1, <2>1, <3>1, TaskChanges DEF TaskOf
  <2>3. ThreadsKept(t) /\ thr'[t].pc = "user" /\ thr'[t].pid = thr[t].pid
    BY <1>2, <1>5, Moves DEF AllocThreadHandle
  <2>4. thr[t].pc = "handle" /\ spaces' = spaces /\ listed' \subseteq listed
    BY <1>5 DEF AllocThreadHandle, At
  <2> HIDE DEF f
  <2> QED
    BY <1>3, <2>2, <2>3, <2>4, CallStep
<1>6. ASSUME NtTerminateThread(t) PROVE IInv'
  <2>1. thr[t].pc = "user" /\ TaskOf(t).pe /\ spaces' = spaces /\ listed' = listed
    BY <1>6 DEF NtTerminateThread, At
  <2>2. PICK c \in Codes :
            IF t \in exits
            THEN exits' = exits \ {t} /\ thr' = Goto(t, "corpse") /\ UNCHANGED task
            ELSE SetStatus(t, c) /\ thr' = Goto(t, "files") /\ UNCHANGED exits
    BY <1>6 DEF NtTerminateThread
  <2>3. CASE t \in exits
    <3>1. Changes(thr[t].pid, TaskOf(t).fds, TaskOf(t).status, TaskOf(t).exited)
      BY <1>1, <2>2, <2>3, TaskChanges DEF TaskOf
    <3>2. ThreadsKept(t) /\ thr'[t].pc = "corpse" /\ thr'[t].pid = thr[t].pid
      BY <1>2, <2>2, <2>3, Moves
    <3> QED
      BY <2>1, <3>1, <3>2, CallStep
  <2>4. CASE t \notin exits
    BY <2>1, <2>2, <2>4, StatusStep
  <2> QED
    BY <2>3, <2>4
<1> QED
  BY <1>4, <1>5, <1>6 DEF Starting

\* wait4, which only takes zombies off TASKS.
LEMMA WaitStep ==
    ASSUME IInv, NEW t \in Tids, Wait4Call(t) \/ Waiting(t)
    PROVE  IInv'
<1>1. thr[t].pid \in Pids
  BY RecordFacts
<1>2. {"user", "wait4", "sleep", "asleep"} \subseteq PcValues
      /\ None \in Int \cup {None} /\ None \in Nat \cup {None}
  BY DEF PcValues
<1>3. task' = task /\ spaces' = spaces /\ listed' \subseteq listed
  BY DEF Wait4Call, Waiting, Wait4Scan, Wait4Sleep
<1>4. Changes(thr[t].pid, TaskOf(t).fds, TaskOf(t).status, TaskOf(t).exited)
  BY <1>1, <1>3, TaskChanges DEF TaskOf
<1>5. thr[t].pc \in {"user", "wait4", "sleep"}
  BY DEF Wait4Call, Waiting, Wait4Scan, Wait4Sleep, At
<1>6. PICK pc \in {"user", "wait4", "sleep", "asleep"} :
          ThreadsKept(t) /\ thr'[t].pc = pc /\ thr'[t].pid = thr[t].pid
  <2>1. CASE Wait4Call(t)
    <3>1. PICK pid \in {-1} \cup Pids : thr' = [thr EXCEPT ![t].pc = "wait4", ![t].arg = pid]
      BY <2>1 DEF Wait4Call
    <3>2. pid \in Int \cup {None}
      <4>1. task \in Seq(TaskRecs)
        BY DEF IInv, TypeOK
      <4> QED
        BY SMT, <4>1 DEF Pids
    <3> QED
      BY <1>2, <3>1, <3>2, Moves
  <2>2. CASE Wait4Scan(t)
    <3>1. \/ thr' = [thr EXCEPT ![t].pc = "user", ![t].arg = None]
          \/ thr' = Goto(t, "sleep")
      BY <2>2 DEF Wait4Scan
    <3> QED
      BY <1>2, <3>1, Moves
  <2>3. CASE Wait4Sleep(t)
    <3>1. CASE thr' = Goto(t, "wait4")
      BY <1>2, <3>1, Moves
    <3>2. CASE \E u \in (Tids \ {t}) \cup {None} : thr' = [thr EXCEPT ![t].pc = "asleep", ![t].pin = u]
      <4>1. PICK u \in (Tids \ {t}) \cup {None} : thr' = [thr EXCEPT ![t].pc = "asleep", ![t].pin = u]
        BY <3>2
      <4>2. u \in Nat \cup {None}
        <5>1. thr \in Seq(ThreadRecs)
          BY DEF IInv, TypeOK
        <5> QED
          BY SMT, <5>1 DEF Tids
      <4> QED
        BY <1>2, <4>1, <4>2, Moves
    <3> QED
      BY <2>3, <3>1, <3>2 DEF Wait4Sleep
  <2> QED
    BY <2>1, <2>2, <2>3 DEF Waiting
<1>7. pc \notin {"register", "handle", "files"} \cup Ending /\ pc # "reaped"
  BY DEF Ending, GonePcs
<1>8. ~TaskOf(t).pe => ~TaskOf(t).exited
  BY <1>5, NotExited DEF GonePcs
<1>9. thr[t].pc # "reaped"
  BY <1>5
<1> QED
  BY <1>3, <1>4, <1>6, <1>7, <1>8, <1>9, CallStep

\* A new task with its first thread: spawn_pe, elevate and fork.
LEMMA SpawnStep ==
    ASSUME IInv, NEW ppid \in Nat, NEW f \in Tables, NEW pe \in BOOLEAN, pe => ppid = 0,
           Spawn(ppid, f, pe), thr' = Append(thr, Thread(Len(task) + 1, Len(spaces) + 1, TRUE))
    PROVE  IInv'
<1>a. PICK p, t, s : p = Len(task) + 1 /\ t = Len(thr) + 1 /\ s = Len(spaces) + 1
  OBVIOUS
<1> DEFINE newTask == Task(ppid, s, f, pe)
           newThr == Thread(p, s, TRUE)
<1>0. task \in Seq(TaskRecs) /\ thr \in Seq(ThreadRecs) /\ spaces \in Seq({"live", "freed"})
  BY DEF IInv, TypeOK
<1>1. p \in Nat /\ t \in Nat /\ s \in Nat
  BY SMT, <1>0, <1>a
<1>2. newTask \in TaskRecs
  BY SMT, <1>1 DEF Task, TaskRecs
<1>3. newThr \in ThreadRecs
  <2>1. "user" \in PcValues
    BY DEF PcValues
  <2> QED
    BY <1>1, <2>1 DEF Thread, ThreadRecs
<1>4. /\ newTask.space = s /\ newTask.exited = FALSE /\ newTask.active = 1 /\ newTask.pe = pe
      /\ newTask.ppid = ppid
  BY DEF Task
<1>5. newThr.pid = p /\ newThr.space = s /\ newThr.main = TRUE /\ newThr.pc = "user"
  BY DEF Thread
<1>6. task' = Append(task, newTask) /\ spaces' = Append(spaces, "live")
      /\ listed' = listed \cup {p} /\ thr' = Append(thr, newThr)
  BY <1>a DEF Spawn
<1> HIDE DEF newTask, newThr
<1>7. /\ task' \in Seq(TaskRecs) /\ Pids' = Pids \cup {p} /\ p \notin Pids
      /\ task'[p] = newTask /\ \A q \in Pids : task'[q] = task[q]
  BY SMT, <1>0, <1>a, <1>2, <1>6, AppendFacts DEF Pids
<1>8. /\ thr' \in Seq(ThreadRecs) /\ Tids' = Tids \cup {t} /\ t \notin Tids
      /\ thr'[t] = newThr /\ \A u \in Tids : thr'[u] = thr[u]
  <2> DEFINE a == Append(thr, newThr)
  <2>1. /\ a \in Seq(ThreadRecs) /\ DOMAIN a = DOMAIN thr \cup {Len(thr) + 1}
        /\ Len(thr) + 1 \notin DOMAIN thr /\ a[Len(thr) + 1] = newThr
        /\ \A u \in DOMAIN thr : a[u] = thr[u]
    BY SMT, <1>0, <1>3, AppendFacts
  <2>2. thr' = a
    BY <1>6
  <2> HIDE DEF a
  <2> QED
    BY <1>a, <2>1, <2>2 DEF Tids
<1>9. /\ spaces' \in Seq({"live", "freed"}) /\ DOMAIN spaces' = DOMAIN spaces \cup {s}
      /\ s \notin DOMAIN spaces /\ spaces'[s] = "live"
      /\ \A x \in DOMAIN spaces : spaces'[x] = spaces[x]
  BY SMT, <1>0, <1>a, <1>6, AppendFacts
<1>10. /\ \A u \in Tids : thr[u].pid \in Pids /\ thr'[u].pid # p
       /\ \A q \in Pids : task[q].space \in DOMAIN spaces
  BY <1>7, <1>8 DEF IInv, TypeOK
<1>11. (\A u \in Tids : TaskOf(u)' = TaskOf(u)) /\ TaskOf(t)' = newTask
  BY <1>5, <1>7, <1>8, <1>10 DEF TaskOf
<1>12. TypeOK'
  <2>1. listed' \subseteq Pids'
    BY <1>6, <1>7 DEF IInv, TypeOK
  <2>2. \A u \in Tids' : thr'[u].pid \in Pids'
    BY <1>5, <1>7, <1>8, <1>10
  <2>3. \A q \in Pids' : task'[q].space \in DOMAIN spaces'
    BY <1>4, <1>7, <1>9, <1>10
  <2> QED
    BY <1>7, <1>8, <1>9, <2>1, <2>2, <2>3 DEF TypeOK
<1>13. SpaceInv'
  <2>1. \A u \in Tids' : thr'[u].space = TaskOf(u)'.space
    BY <1>4, <1>5, <1>8, <1>11 DEF IInv, SpaceInv
  <2>2. \A u \in Tids' : thr'[u].pc # "reaped" => spaces'[TaskOf(u)'.space] = "live"
    <3>1. ASSUME NEW u \in Tids, thr'[u].pc # "reaped" PROVE spaces'[TaskOf(u)'.space] = "live"
      <4>1. TaskOf(u).space \in DOMAIN spaces
        BY <1>10 DEF TaskOf
      <4>2. spaces[TaskOf(u).space] = "live"
        BY <1>8, <3>1 DEF IInv, SpaceInv
      <4> QED
        BY <1>9, <1>11, <4>1, <4>2
    <3>2. spaces'[TaskOf(t)'.space] = "live"
      BY <1>4, <1>9, <1>11
    <3> QED
      BY <1>8, <3>1, <3>2
  <2>3. \A q, r \in Pids' : task'[q].space = task'[r].space => q = r
    BY SMT, <1>4, <1>7, <1>9, <1>10 DEF IInv, SpaceInv
  <2> QED
    BY <2>1, <2>2, <2>3 DEF SpaceInv
<1>14. CountInv'
  <2>1. \A u, v \in Tids' : thr'[u].pid = thr'[v].pid /\ thr'[u].main = thr'[v].main => u = v
    <3> SUFFICES ASSUME NEW u \in Tids', NEW v \in Tids', thr'[u].pid = thr'[v].pid,
                        thr'[u].main = thr'[v].main
                 PROVE  u = v
      OBVIOUS
    <3>1. CASE u \in Tids /\ v \in Tids
      <4>1. thr'[u] = thr[u] /\ thr'[v] = thr[v]
        BY <1>8, <3>1
      <4>2. thr[u].pid = thr[v].pid /\ thr[u].main = thr[v].main
        BY <4>1
      <4> QED
        BY <3>1, <4>2 DEF IInv, CountInv
    <3>2. CASE u = t \/ v = t
      <4>1. thr'[t].pid = p
        BY <1>5, <1>8
      <4> QED
        BY <1>8, <1>10, <3>2, <4>1
    <3> QED
      BY <1>8, <3>1, <3>2
  <2>2. \A u \in Tids' : ~thr'[u].main => TaskOf(u)'.worker /\ TaskOf(u)'.pe
    BY <1>5, <1>8, <1>11 DEF IInv, CountInv
  <2>3. ASSUME NEW q \in Pids PROVE task'[q].active = Alive(q, TRUE)' + Alive(q, FALSE)'
    <3>1. ASSUME NEW m PROVE Alive(q, m)' = Alive(q, m)
      <4>1. (\E u \in Tids' : thr'[u].pid = q /\ thr'[u].main = m /\ thr'[u].pc # "reaped")
            <=> (\E u \in Tids : thr[u].pid = q /\ thr[u].main = m /\ thr[u].pc # "reaped")
        BY <1>5, <1>7, <1>8
      <4> QED
        BY <4>1 DEF Alive
    <3>2. Alive(q, TRUE)' = Alive(q, TRUE) /\ Alive(q, FALSE)' = Alive(q, FALSE)
      BY <3>1
    <3>3. task[q].active = Alive(q, TRUE) + Alive(q, FALSE)
      BY DEF IInv, CountInv
    <3> QED
      BY <1>7, <3>2, <3>3
  <2>4. task'[p].active = Alive(p, TRUE)' + Alive(p, FALSE)'
    <3>1. \E u \in Tids' : thr'[u].pid = p /\ thr'[u].main = TRUE /\ thr'[u].pc # "reaped"
      BY <1>5, <1>8
    <3>2. ~\E u \in Tids' : thr'[u].pid = p /\ thr'[u].main = FALSE /\ thr'[u].pc # "reaped"
      <4>1. \A u \in Tids : thr'[u].pid # p
        BY <1>10
      <4>2. thr'[t].main = TRUE /\ TRUE # FALSE
        BY <1>5, <1>8
      <4>3. Tids' = Tids \cup {t}
        BY <1>8
      <4> HIDE DEF newThr
      <4>4. ASSUME NEW u \in Tids', thr'[u].pid = p, thr'[u].main = FALSE PROVE FALSE
        <5>1. u = t
          BY <4>1, <4>3, <4>4
        <5> QED
          BY <4>2, <4>4, <5>1
      <4> QED
        BY <4>4
    <3>3. Alive(p, TRUE)' = 1
      BY <3>1 DEF Alive
    <3>4. Alive(p, FALSE)' = 0
      BY <3>2 DEF Alive
    <3>5. task'[p].active = 1 /\ 1 + 0 = 1
      BY SMT, <1>4, <1>7
    <3> QED
      BY <3>3, <3>4, <3>5
  <2> QED
    BY <1>7, <2>1, <2>2, <2>3, <2>4 DEF CountInv
<1>15. ExitInv'
  <2>1. \A u \in Tids : ExitingThread(u)'
    BY <1>8, <1>11 DEF IInv, ExitInv, ExitingThread
  <2>2. ExitingThread(t)'
    BY <1>4, <1>5, <1>8, <1>11 DEF ExitingThread, Ending, GonePcs
  <2>3. \A q \in Pids : ExitedTask(q)' /\ (task'[q].pe => task'[q].ppid = 0)
    BY <1>7 DEF IInv, ExitInv, ExitedTask
  <2>4. ExitedTask(p)' /\ (task'[p].pe => task'[p].ppid = 0)
    BY <1>4, <1>7 DEF ExitedTask
  <2> QED
    BY <1>7, <1>8, <2>1, <2>2, <2>3, <2>4 DEF ExitInv
<1> QED
  BY <1>12, <1>13, <1>14, <1>15 DEF IInv

\* execve: the caller, the only thread of its task, moves to the new space.
LEMMA ExecStep ==
    ASSUME IInv, NEW t \in Tids, Exec(t)
    PROVE  IInv'
<1>a. PICK p, s, old : p = thr[t].pid /\ s = Len(spaces) + 1 /\ old = TaskOf(t).space
  OBVIOUS
<1> DEFINE f == close_on_exec(task[p].fds)
           newTask == [task[p] EXCEPT !.space = s, !.fds = f, !.execed = TRUE]
           newThr == [thr[t] EXCEPT !.space = s, !.leaks = @ + 1]
<1>0. /\ task \in Seq(TaskRecs) /\ thr \in Seq(ThreadRecs) /\ spaces \in Seq({"live", "freed"})
      /\ task[p] \in TaskRecs /\ thr[t] \in ThreadRecs /\ p \in Pids
  BY <1>a, RecordFacts DEF IInv, TypeOK
<1>1. thr[t].pc = "user" /\ ~task[p].pe /\ listed' = listed
  BY <1>a DEF Exec, At, TaskOf
<1>2. s \in Nat
  BY SMT, <1>0, <1>a
<1>3. f \in Tables
  <2>1. task[p].fds \in Tables
    BY <1>0 DEF TaskRecs
  <2>2. "file" \in HandleObject
    BY DEF HandleObject
  <2> QED
    BY <2>1, <2>2, TableFacts, 0 \in Nat, TRUE \in BOOLEAN
<1> HIDE DEF f
<1>4. /\ newTask \in TaskRecs /\ newTask.space = s /\ newTask.exited = task[p].exited
      /\ newTask.active = task[p].active /\ newTask.pe = task[p].pe
      /\ newTask.ppid = task[p].ppid /\ newTask.worker = task[p].worker
  BY <1>0, <1>2, <1>3 DEF TaskRecs
<1>5. /\ newThr \in ThreadRecs /\ newThr.pid = p /\ newThr.space = s
      /\ newThr.main = thr[t].main /\ newThr.pc = "user"
  <2>1. ASSUME NEW r \in ThreadRecs
        PROVE  LET n == [r EXCEPT !.space = s, !.leaks = @ + 1]
               IN /\ n \in ThreadRecs /\ n.pid = r.pid /\ n.space = s
                  /\ n.main = r.main /\ n.pc = r.pc
    <3>1. r.leaks + 1 \in Nat
      BY SMT DEF ThreadRecs
    <3> QED
      BY <1>2, <3>1 DEF ThreadRecs
  <2> QED
    BY <1>0, <1>1, <1>a, <2>1
<1>6. task' = [task EXCEPT ![p] = newTask]
  BY <1>a DEF Exec, f
<1>7. thr' = [thr EXCEPT ![t] = newThr]
  BY <1>a DEF Exec
<1> HIDE DEF newTask, newThr
<1>8. /\ task' \in Seq(TaskRecs) /\ Pids' = Pids /\ task'[p] = newTask
      /\ \A q \in Pids : q # p => task'[q] = task[q]
  BY <1>0, <1>4, <1>6, ReplaceFacts DEF Pids
<1>9. /\ thr' \in Seq(ThreadRecs) /\ Tids' = Tids /\ thr'[t] = newThr
      /\ \A u \in Tids : u # t => thr'[u] = thr[u]
  BY <1>0, <1>5, <1>7, ReplaceFacts DEF Tids
<1>10. old \in DOMAIN spaces /\ old = task[p].space
  BY <1>0, <1>a DEF IInv, TypeOK, TaskOf
<1>11. /\ spaces' \in Seq({"live", "freed"}) /\ DOMAIN spaces' = DOMAIN spaces \cup {s}
       /\ s \notin DOMAIN spaces /\ spaces'[s] = "live"
       /\ \A x \in DOMAIN spaces : x # old => spaces'[x] = spaces[x]
  <2> DEFINE e == [spaces EXCEPT ![old] = "freed"]
  <2>1. /\ e \in Seq({"live", "freed"}) /\ DOMAIN e = DOMAIN spaces /\ Len(e) = Len(spaces)
        /\ \A x \in DOMAIN spaces : x # old => e[x] = spaces[x]
    BY SMT, <1>0, <1>10, "freed" \in {"live", "freed"}, ReplaceFacts
  <2>2. spaces' = Append(e, "live")
    BY <1>a DEF Exec
  <2> HIDE DEF e
  <2>3. /\ spaces' \in Seq({"live", "freed"}) /\ DOMAIN spaces' = DOMAIN e \cup {Len(e) + 1}
        /\ Len(e) + 1 \notin DOMAIN e /\ spaces'[Len(e) + 1] = "live"
        /\ \A x \in DOMAIN e : spaces'[x] = e[x]
    BY SMT, <2>1, <2>2, "live" \in {"live", "freed"}, AppendFacts
  <2> QED
    BY <1>a, <2>1, <2>3
<1>12. \A u \in Tids : u # t => thr[u].pid # p /\ thr[u].pid \in Pids
  BY <1>1, <1>a, SoleThread, RecordFacts DEF TaskOf
<1>13. \A u \in Tids : thr'[u].pid = thr[u].pid /\ thr'[u].main = thr[u].main /\ thr'[u].pc = thr[u].pc
  BY <1>1, <1>5, <1>9, <1>a
<1>14. (\A u \in Tids : u # t => TaskOf(u)' = TaskOf(u)) /\ TaskOf(t)' = newTask
  BY <1>5, <1>8, <1>9, <1>12 DEF TaskOf
<1>15. TypeOK'
  <2>1. listed' \subseteq Pids' /\ \A u \in Tids' : thr'[u].pid \in Pids'
    BY <1>1, <1>8, <1>9, <1>13 DEF IInv, TypeOK
  <2>2. \A q \in Pids' : task'[q].space \in DOMAIN spaces'
    BY <1>4, <1>8, <1>11 DEF IInv, TypeOK
  <2> QED
    BY <1>8, <1>9, <1>11, <2>1, <2>2 DEF TypeOK
<1>16. SpaceInv'
  <2>1. ASSUME NEW u \in Tids PROVE thr'[u].space = TaskOf(u)'.space
    <3>1. CASE u = t
      BY <1>4, <1>5, <1>9, <1>14, <3>1
    <3>2. CASE u # t
      <4>1. thr'[u] = thr[u] /\ TaskOf(u)' = TaskOf(u) /\ thr[u].space = TaskOf(u).space
        BY <1>9, <1>14, <3>2 DEF IInv, SpaceInv
      <4> QED
        BY <4>1
    <3> QED
      BY <3>1, <3>2
  <2>2. ASSUME NEW u \in Tids, thr'[u].pc # "reaped" PROVE spaces'[TaskOf(u)'.space] = "live"
    <3>1. CASE u = t
      BY <1>4, <1>11, <1>14, <3>1
    <3>2. CASE u # t
      <4>1. TaskOf(u).space # old /\ TaskOf(u).space \in DOMAIN spaces
        BY <1>0, <1>10, <1>12, <3>2 DEF IInv, TypeOK, SpaceInv, TaskOf
      <4>2. spaces[TaskOf(u).space] = "live"
        BY <1>13, <2>2 DEF IInv, SpaceInv
      <4> QED
        BY <1>11, <1>14, <3>2, <4>1, <4>2
    <3> QED
      BY <3>1, <3>2
  <2>3. \A q \in Pids : task[q].space # s
    BY <1>11 DEF IInv, TypeOK
  <2>4. \A q, r \in Pids' : task'[q].space = task'[r].space => q = r
    BY SMT, <1>4, <1>8, <2>3 DEF IInv, SpaceInv
  <2> QED
    BY <1>9, <2>1, <2>2, <2>4 DEF SpaceInv
<1>17. CountInv'
  <2>1. ASSUME NEW u \in Tids', NEW v \in Tids', thr'[u].pid = thr'[v].pid,
               thr'[u].main = thr'[v].main
        PROVE  u = v
    <3>1. u \in Tids /\ v \in Tids /\ thr[u].pid = thr[v].pid /\ thr[u].main = thr[v].main
      BY <1>9, <1>13, <2>1
    <3> QED
      BY <3>1 DEF IInv, CountInv
  <2>2. ASSUME NEW u \in Tids', ~thr'[u].main PROVE TaskOf(u)'.worker /\ TaskOf(u)'.pe
    <3>1. u \in Tids /\ ~thr[u].main
      BY <1>9, <1>13, <2>2
    <3>2. TaskOf(u).worker /\ TaskOf(u).pe
      BY <3>1 DEF IInv, CountInv
    <3> QED
      BY <1>1, <1>14, <1>a, <3>1, <3>2 DEF TaskOf
  <2>3. ASSUME NEW q \in Pids PROVE task'[q].active = Alive(q, TRUE)' + Alive(q, FALSE)'
    <3>1. ASSUME NEW m PROVE Alive(q, m)' = Alive(q, m)
      <4>1. (\E u \in Tids' : thr'[u].pid = q /\ thr'[u].main = m /\ thr'[u].pc # "reaped")
            <=> (\E u \in Tids : thr[u].pid = q /\ thr[u].main = m /\ thr[u].pc # "reaped")
        BY <1>9, <1>13
      <4> QED
        BY <4>1 DEF Alive
    <3>2. Alive(q, TRUE)' = Alive(q, TRUE) /\ Alive(q, FALSE)' = Alive(q, FALSE)
      BY <3>1
    <3>3. task[q].active = Alive(q, TRUE) + Alive(q, FALSE)
      BY DEF IInv, CountInv
    <3>4. task'[q].active = task[q].active
      BY <1>4, <1>8
    <3> QED
      BY <3>2, <3>3, <3>4
  <2> QED
    BY <1>8, <2>1, <2>2, <2>3 DEF CountInv
<1>18. ExitInv'
  <2>0. ~task[p].exited
    BY <1>1, <1>a, NotExited DEF TaskOf, GonePcs
  <2>1. \A u \in Tids : u # t => ExitingThread(u)'
    BY <1>9, <1>14 DEF IInv, ExitInv, ExitingThread
  <2>2. ExitingThread(t)'
    BY <1>4, <1>5, <1>9, <1>14, <2>0 DEF ExitingThread, Ending, GonePcs
  <2>3. ASSUME NEW q \in Pids PROVE ExitedTask(q)' /\ (task'[q].pe => task'[q].ppid = 0)
    <3>1. CASE q = p
      BY <1>1, <1>4, <1>8, <2>0, <3>1 DEF ExitedTask
    <3>2. CASE q # p
      BY <1>8, <3>2 DEF IInv, ExitInv, ExitedTask
    <3> QED
      BY <3>1, <3>2
  <2> QED
    BY <1>8, <1>9, <2>1, <2>2, <2>3 DEF ExitInv
<1> QED
  BY <1>15, <1>16, <1>17, <1>18 DEF IInv

\* NtCreateThreadEx: the task's first worker, in the task's space.
LEMMA CreateStep ==
    ASSUME IInv, NEW t \in Tids, NtCreateThreadEx(t)
    PROVE  IInv'
<1>a. PICK p, w, s : p = thr[t].pid /\ w = Len(thr) + 1 /\ s = TaskOf(t).space
  OBVIOUS
<1> DEFINE newTask == [task[p] EXCEPT !.active = @ + 1, !.worker = TRUE]
           newThr == [thr[t] EXCEPT !.pc = "register", !.arg = w]
           worker == Thread(p, s, FALSE)
           moved == [thr EXCEPT ![t] = newThr]
<1>0. /\ task \in Seq(TaskRecs) /\ thr \in Seq(ThreadRecs)
      /\ task[p] \in TaskRecs /\ thr[t] \in ThreadRecs /\ p \in Pids
  BY <1>a, RecordFacts DEF IInv, TypeOK
<1>1. thr[t].pc = "user" /\ task[p].pe /\ ~task[p].worker /\ listed' = listed /\ spaces' = spaces
  BY <1>a DEF NtCreateThreadEx, At, TaskOf
<1>2. w \in Nat /\ p \in Nat /\ s \in Nat /\ s = task[p].space
  <2>1. w \in Nat /\ p \in Nat
    BY SMT, <1>0, <1>a DEF Pids
  <2>2. s \in Nat /\ s = task[p].space
    BY <1>0, <1>a DEF TaskOf, TaskRecs
  <2> QED
    BY <2>1, <2>2
<1>3. /\ newTask \in TaskRecs /\ newTask.space = s
      /\ newTask.active = task[p].active + 1 /\ newTask.pe = task[p].pe
      /\ newTask.ppid = task[p].ppid /\ newTask.worker
  <2>1. ASSUME NEW r \in TaskRecs
        PROVE  LET n == [r EXCEPT !.active = @ + 1, !.worker = TRUE]
               IN /\ n \in TaskRecs /\ n.space = r.space /\ n.active = r.active + 1
                  /\ n.pe = r.pe /\ n.ppid = r.ppid /\ n.worker
    <3>1. r.active + 1 \in Int
      BY SMT DEF TaskRecs
    <3> QED
      BY <3>1 DEF TaskRecs
  <2> QED
    BY <1>0, <1>2, <2>1
<1>4. /\ newThr \in ThreadRecs /\ newThr.pid = p /\ newThr.space = thr[t].space
      /\ newThr.main = thr[t].main /\ newThr.pc = "register"
  <2>1. ASSUME NEW r \in ThreadRecs
        PROVE  LET n == [r EXCEPT !.pc = "register", !.arg = w]
               IN /\ n \in ThreadRecs /\ n.pid = r.pid /\ n.space = r.space
                  /\ n.main = r.main /\ n.pc = "register"
    <3>1. w \in Int \cup {None} /\ "register" \in PcValues
      BY SMT, <1>2 DEF PcValues
    <3> QED
      BY <3>1 DEF ThreadRecs
  <2> QED
    BY <1>0, <1>a, <2>1
<1>5. /\ worker \in ThreadRecs /\ worker.pid = p /\ worker.space = s
      /\ worker.main = FALSE /\ worker.pc = "user"
  <2>1. "user" \in PcValues
    BY DEF PcValues
  <2> QED
    BY <1>2, <2>1 DEF Thread, ThreadRecs
<1>6. task' = [task EXCEPT ![p] = newTask]
  BY <1>a DEF NtCreateThreadEx
<1>7. thr' = Append(moved, worker)
  BY <1>a DEF NtCreateThreadEx
<1> HIDE DEF newTask, newThr, worker
<1>8. /\ task' \in Seq(TaskRecs) /\ Pids' = Pids /\ task'[p] = newTask
      /\ \A q \in Pids : q # p => task'[q] = task[q]
  BY <1>0, <1>3, <1>6, ReplaceFacts DEF Pids
<1>9. /\ thr' \in Seq(ThreadRecs) /\ Tids' = Tids \cup {w} /\ w \notin Tids
      /\ thr'[w] = worker /\ thr'[t] = newThr
      /\ \A u \in Tids : u # t => thr'[u] = thr[u]
  <2>1. /\ moved \in Seq(ThreadRecs) /\ DOMAIN moved = Tids /\ Len(moved) = Len(thr)
        /\ moved[t] = newThr /\ \A u \in Tids : u # t => moved[u] = thr[u]
    BY SMT, <1>0, <1>4, ReplaceFacts DEF Tids
  <2> HIDE DEF moved
  <2>2. /\ thr' \in Seq(ThreadRecs) /\ DOMAIN thr' = DOMAIN moved \cup {Len(moved) + 1}
        /\ Len(moved) + 1 \notin DOMAIN moved /\ thr'[Len(moved) + 1] = worker
        /\ \A x \in DOMAIN moved : thr'[x] = moved[x]
    BY SMT, <1>5, <1>7, <2>1, AppendFacts
  <2> QED
    BY <1>a, <2>1, <2>2 DEF Tids
<1>10. \A u \in Tids : /\ thr'[u].pid = thr[u].pid /\ thr'[u].main = thr[u].main
                       /\ thr'[u].space = thr[u].space
                       /\ thr'[u].pc # "reaped" <=> thr[u].pc # "reaped"
  BY <1>1, <1>4, <1>9, <1>a
<1>11. thr'[w].pid = p /\ thr'[w].space = s /\ thr'[w].main = FALSE /\ thr'[w].pc = "user"
  BY <1>5, <1>9
<1>12. \A u \in Tids : thr[u].pid \in Pids
  BY RecordFacts
<1>13. \A q \in Pids : /\ task'[q].space = task[q].space /\ task'[q].pe = task[q].pe
                       /\ task'[q].ppid = task[q].ppid
                       /\ task[q].worker => task'[q].worker
  BY <1>2, <1>3, <1>8
<1>14. \A u \in Tids : thr[u].pid = p => thr[u].main
  BY <1>1 DEF IInv, CountInv, TaskOf
<1>15. TypeOK'
  <2>1. listed' \subseteq Pids' /\ \A u \in Tids' : thr'[u].pid \in Pids'
    BY <1>0, <1>1, <1>8, <1>9, <1>10, <1>11, <1>12 DEF IInv, TypeOK
  <2>2. \A q \in Pids' : task'[q].space \in DOMAIN spaces'
    BY <1>1, <1>8, <1>13 DEF IInv, TypeOK
  <2> QED
    BY <1>1, <1>8, <1>9, <2>1, <2>2 DEF IInv, TypeOK
<1>16. SpaceInv'
  <2>1. ASSUME NEW u \in Tids
        PROVE  /\ thr'[u].space = TaskOf(u)'.space
               /\ thr'[u].pc # "reaped" => spaces'[TaskOf(u)'.space] = "live"
    <3>1. TaskOf(u)'.space = TaskOf(u).space
      BY <1>10, <1>12, <1>13 DEF TaskOf
    <3> QED
      BY <1>1, <1>10, <3>1 DEF IInv, SpaceInv
  <2>2. TaskOf(w)'.space = s /\ thr'[w].space = s
    BY <1>0, <1>2, <1>11, <1>13 DEF TaskOf
  <2>3. spaces'[s] = "live"
    BY <1>1, <1>a DEF IInv, SpaceInv
  <2>4. \A q, r \in Pids' : task'[q].space = task'[r].space => q = r
    BY SMT, <1>8, <1>13 DEF IInv, SpaceInv
  <2> QED
    BY <1>9, <2>1, <2>2, <2>3, <2>4 DEF SpaceInv
<1>17. CountInv'
  <2>1. ASSUME NEW u \in Tids', NEW v \in Tids', thr'[u].pid = thr'[v].pid,
               thr'[u].main = thr'[v].main
        PROVE  u = v
    <3>1. CASE u \in Tids /\ v \in Tids
      <4>1. thr[u].pid = thr[v].pid /\ thr[u].main = thr[v].main
        BY <1>10, <2>1, <3>1
      <4> QED
        BY <3>1, <4>1 DEF IInv, CountInv
    <3>2. \A x \in Tids : thr'[x].pid = p => thr'[x].main /\ thr'[x].main # FALSE
      BY <1>10, <1>14
    <3>3. CASE u = w /\ v \in Tids
      BY <1>11, <2>1, <3>2, <3>3
    <3>4. CASE u \in Tids /\ v = w
      BY <1>11, <2>1, <3>2, <3>4
    <3> QED
      BY <1>9, <3>1, <3>3, <3>4
  <2>2. ASSUME NEW u \in Tids', ~thr'[u].main PROVE TaskOf(u)'.worker /\ TaskOf(u)'.pe
    <3>1. CASE u \in Tids
      <4>1. ~thr[u].main
        BY <1>10, <2>2, <3>1
      <4>2. TaskOf(u).worker /\ TaskOf(u).pe
        BY <3>1, <4>1 DEF IInv, CountInv
      <4> QED
        BY <1>10, <1>12, <1>13, <3>1, <4>2 DEF TaskOf
    <3>2. CASE u = w
      <4>1. TaskOf(u)' = newTask
        BY <1>8, <1>11, <3>2 DEF TaskOf
      <4> QED
        BY <1>1, <1>3, <4>1
    <3> QED
      BY <1>9, <3>1, <3>2
  <2>3. ASSUME NEW q \in Pids, NEW m, q # p \/ m = TRUE PROVE Alive(q, m)' = Alive(q, m)
    <3>1. ~(thr'[w].pid = q /\ thr'[w].main = m)
      BY <1>11, <2>3
    <3>2. (\E u \in Tids' : thr'[u].pid = q /\ thr'[u].main = m /\ thr'[u].pc # "reaped")
          <=> (\E u \in Tids : thr[u].pid = q /\ thr[u].main = m /\ thr[u].pc # "reaped")
      BY <1>9, <1>10, <3>1
    <3> QED
      BY <3>2 DEF Alive
  <2>4. ASSUME NEW q \in Pids, q # p PROVE task'[q].active = Alive(q, TRUE)' + Alive(q, FALSE)'
    <3>1. Alive(q, TRUE)' = Alive(q, TRUE) /\ Alive(q, FALSE)' = Alive(q, FALSE)
      BY <2>3, <2>4
    <3>2. task[q].active = Alive(q, TRUE) + Alive(q, FALSE)
      BY DEF IInv, CountInv
    <3>3. task'[q].active = task[q].active
      BY <1>8, <2>4
    <3> QED
      BY <3>1, <3>2, <3>3
  <2>5. task'[p].active = Alive(p, TRUE)' + Alive(p, FALSE)'
    <3>1. ~\E u \in Tids : thr[u].pid = p /\ thr[u].main = FALSE /\ thr[u].pc # "reaped"
      BY <1>14
    <3>2. Alive(p, FALSE) = 0
      BY <3>1 DEF Alive
    <3>3. \E u \in Tids' : thr'[u].pid = p /\ thr'[u].main = FALSE /\ thr'[u].pc # "reaped"
      BY <1>9, <1>11
    <3>4. Alive(p, FALSE)' = 1
      BY <3>3 DEF Alive
    <3>5. Alive(p, TRUE)' = Alive(p, TRUE)
      BY <1>0, <2>3
    <3>6. task[p].active = Alive(p, TRUE) + Alive(p, FALSE)
      BY <1>0 DEF IInv, CountInv
    <3>7. Alive(p, TRUE) \in {0, 1}
      BY DEF Alive
    <3>8. task'[p].active = task[p].active + 1
      BY <1>3, <1>8
    <3>9. task[p].active = Alive(p, TRUE)
      <4>1. \A x \in {0, 1} : x + 0 = x
        BY SMT
      <4> QED
        BY <3>2, <3>6, <3>7, <4>1
    <3> QED
      BY <3>4, <3>5, <3>8, <3>9
  <2> QED
    BY <1>8, <2>1, <2>2, <2>4, <2>5 DEF CountInv
<1>18. ExitInv'
  <2>1. ASSUME NEW u \in Tids' PROVE ExitingThread(u)'
    <3>1. CASE thr'[u].pid = p
      <4>1. TaskOf(u)'.pe
        BY <1>1, <1>3, <1>8, <3>1 DEF TaskOf
      <4> QED
        BY <4>1 DEF ExitingThread
    <3>2. CASE thr'[u].pid # p
      <4>1. u \in Tids /\ u # t
        BY <1>9, <1>10, <1>11, <1>a, <3>2
      <4>2. thr'[u] = thr[u] /\ TaskOf(u)' = TaskOf(u)
        BY <1>8, <1>9, <1>12, <3>2, <4>1 DEF TaskOf
      <4> QED
        BY <4>1, <4>2 DEF IInv, ExitInv, ExitingThread
    <3> QED
      BY <3>1, <3>2
  <2>2. ASSUME NEW q \in Pids PROVE ExitedTask(q)' /\ (task'[q].pe => task'[q].ppid = 0)
    <3>1. CASE q = p
      BY <1>1, <1>13, <3>1 DEF IInv, ExitInv, ExitedTask
    <3>2. CASE q # p
      BY <1>8, <3>2 DEF IInv, ExitInv, ExitedTask
    <3> QED
      BY <3>1, <3>2
  <2> QED
    BY <1>8, <2>1, <2>2 DEF ExitInv
<1> QED
  BY <1>15, <1>16, <1>17, <1>18 DEF IInv

\* sched::reap: the space goes with the last thread, and only with it.
LEMMA ReapStep ==
    ASSUME IInv, NEW t \in Tids, Reap(t)
    PROVE  IInv'
<1>a. PICK p : p = thr[t].pid
  OBVIOUS
<1> DEFINE newTask == [task[p] EXCEPT !.active = @ - 1]
<1>0. /\ task \in Seq(TaskRecs) /\ task[p] \in TaskRecs /\ p \in Pids
      /\ spaces \in Seq({"live", "freed"}) /\ thr[t] \in ThreadRecs
  BY <1>a, RecordFacts DEF IInv, TypeOK
<1>1. thr[t].pc = "dead" /\ listed' = listed
  BY DEF Reap, Dead
<1>2. /\ newTask \in TaskRecs /\ newTask.active = task[p].active - 1
      /\ newTask.space = task[p].space /\ newTask.pe = task[p].pe
      /\ newTask.ppid = task[p].ppid /\ newTask.worker = task[p].worker
      /\ newTask.fds = task[p].fds /\ newTask.status = task[p].status
      /\ newTask.exited = task[p].exited
  <2>1. ASSUME NEW r \in TaskRecs
        PROVE  LET n == [r EXCEPT !.active = @ - 1]
               IN /\ n \in TaskRecs /\ n.active = r.active - 1
                  /\ n.space = r.space /\ n.pe = r.pe /\ n.ppid = r.ppid
                  /\ n.worker = r.worker /\ n.fds = r.fds /\ n.status = r.status
                  /\ n.exited = r.exited
    <3>1. r.active - 1 \in Int
      BY SMT DEF TaskRecs
    <3> QED
      BY <3>1 DEF TaskRecs
  <2> QED
    BY <1>0, <2>1
<1>3. task' = [task EXCEPT ![p] = newTask]
  BY <1>a DEF Reap
<1>4. spaces' = IF task[p].active = 1 THEN [spaces EXCEPT ![task[p].space] = "freed"] ELSE spaces
  BY <1>a DEF Reap, thread_exited
<1> HIDE DEF newTask
<1>5. /\ task' \in Seq(TaskRecs) /\ Pids' = Pids /\ task'[p] = newTask
      /\ \A q \in Pids : q # p => task'[q] = task[q]
  BY <1>0, <1>2, <1>3, ReplaceFacts DEF Pids
<1>6. \A q \in Pids : /\ task'[q].space = task[q].space /\ task'[q].pe = task[q].pe
                      /\ task'[q].ppid = task[q].ppid /\ task'[q].worker = task[q].worker
                      /\ task'[q].fds = task[q].fds /\ task'[q].status = task[q].status
                      /\ task'[q].exited = task[q].exited
  BY <1>2, <1>5
<1>7. ThreadsKept(t) /\ thr'[t].pc = "reaped"
  <2>1. "reaped" \in PcValues /\ None \in Int \cup {None} /\ None \in Nat \cup {None}
    BY DEF PcValues, GonePcs
  <2> QED
    BY <2>1, Moves DEF Reap
<1>8. /\ Tids' = Tids /\ \A u \in Tids : thr[u].pid \in Pids
      /\ \A u \in Tids : thr'[u].pid = thr[u].pid /\ thr'[u].main = thr[u].main
                         /\ thr'[u].space = thr[u].space
      /\ \A u \in Tids \ {t} : thr'[u].pc # "reaped" <=> thr[u].pc # "reaped"
  BY <1>7, RecordFacts DEF ThreadsKept, Tids
<1>9. /\ spaces' \in Seq({"live", "freed"}) /\ DOMAIN spaces' = DOMAIN spaces
      /\ \A x \in DOMAIN spaces : x # task[p].space \/ task[p].active # 1 => spaces'[x] = spaces[x]
  <2>1. task[p].space \in DOMAIN spaces
    BY <1>0 DEF IInv, TypeOK
  <2> DEFINE e == [spaces EXCEPT ![task[p].space] = "freed"]
  <2>2. /\ e \in Seq({"live", "freed"}) /\ DOMAIN e = DOMAIN spaces
        /\ \A x \in DOMAIN spaces : x # task[p].space => e[x] = spaces[x]
    BY <1>0, <2>1, "freed" \in {"live", "freed"}, ReplaceFacts
  <2>3. spaces' = IF task[p].active = 1 THEN e ELSE spaces
    BY <1>4
  <2> HIDE DEF e
  <2>4. CASE task[p].active = 1
    BY <2>2, <2>3, <2>4
  <2>5. CASE task[p].active # 1
    BY <1>0, <2>3, <2>5
  <2> QED
    BY <2>4, <2>5
<1>10. \A u \in Tids : \A m : thr[u].pid = p /\ thr[u].main = m /\ thr[u].pc # "reaped"
                              => Alive(p, m) = 1
  BY DEF Alive
<1>11. thr[t].main \in BOOLEAN /\ \A u \in Tids : thr[u].main \in BOOLEAN
  <2>1. \A u \in Tids : thr[u] \in ThreadRecs
    BY RecordFacts
  <2> QED
    BY <2>1 DEF ThreadRecs
<1>12. \A u \in Tids : thr[u].pid = p /\ thr[u].main = thr[t].main => u = t
  BY <1>a DEF IInv, CountInv
<1>b. PICK m \in BOOLEAN : m = thr[t].main
  BY <1>11
<1>13. PICK n \in BOOLEAN : n # m /\ task[p].active = Alive(p, m) + Alive(p, n)
  <2>1. task[p].active = Alive(p, TRUE) + Alive(p, FALSE)
    BY <1>0 DEF IInv, CountInv
  <2>2. CASE m = TRUE
    BY <2>1, <2>2
  <2>3. CASE m = FALSE
    <3>1. Alive(p, TRUE) \in {0, 1} /\ Alive(p, FALSE) \in {0, 1}
      BY DEF Alive
    <3>2. \A x, y \in {0, 1} : x + y = y + x
      BY SMT
    <3>3. task[p].active = Alive(p, FALSE) + Alive(p, TRUE)
      BY <2>1, <3>1, <3>2
    <3> QED
      BY <2>3, <3>3
  <2> QED
    BY <2>2, <2>3
<1>14. Alive(p, m) = 1
  BY <1>1, <1>10, <1>a, <1>b
<1>15. ASSUME NEW u \in Tids \ {t}, thr[u].pid = p, thr[u].pc # "reaped" PROVE task[p].active # 1
  <2>1. thr[u].main = n
    BY <1>11, <1>12, <1>13, <1>15, <1>b
  <2>2. Alive(p, n) = 1
    BY <1>10, <1>15, <2>1
  <2>3. task[p].active = 1 + 1
    BY <1>13, <1>14, <2>2
  <2> QED
    <3>1. 1 + 1 # 1
      BY SMT
    <3> QED
      BY <2>3, <3>1
<1>16. TypeOK'
  <2>1. listed' \subseteq Pids' /\ \A u \in Tids' : thr'[u].pid \in Pids'
    BY <1>1, <1>5, <1>8 DEF IInv, TypeOK
  <2>2. \A q \in Pids' : task'[q].space \in DOMAIN spaces'
    BY <1>5, <1>6, <1>9 DEF IInv, TypeOK
  <2> QED
    BY <1>5, <1>7, <1>9, <2>1, <2>2 DEF ThreadsKept, TypeOK
<1>17. SpaceInv'
  <2>1. \A u \in Tids : TaskOf(u)'.space = TaskOf(u).space
    BY SMT, <1>6, <1>8 DEF TaskOf
  <2>2. ASSUME NEW u \in Tids, thr'[u].pc # "reaped" PROVE spaces'[TaskOf(u)'.space] = "live"
    <3>1. u # t /\ thr[u].pc # "reaped"
      BY <1>7, <1>8, <2>2
    <3>2. TaskOf(u).space \in DOMAIN spaces /\ spaces[TaskOf(u).space] = "live"
      BY <1>8, <3>1 DEF IInv, TypeOK, SpaceInv, TaskOf
    <3>3. CASE thr[u].pid = p
      BY <1>9, <1>15, <2>1, <3>1, <3>2, <3>3
    <3>4. CASE thr[u].pid # p
      <4>1. TaskOf(u).space # task[p].space
        BY <1>0, <1>8, <3>4 DEF IInv, SpaceInv, TaskOf
      <4> QED
        BY <1>9, <2>1, <3>2, <4>1
    <3> QED
      BY <3>3, <3>4
  <2>3. \A q, r \in Pids' : task'[q].space = task'[r].space => q = r
    BY SMT, <1>5, <1>6 DEF IInv, SpaceInv
  <2>4. \A u \in Tids' : thr'[u].space = TaskOf(u)'.space
    BY <1>8, <2>1 DEF IInv, SpaceInv
  <2> QED
    BY <1>8, <2>2, <2>3, <2>4 DEF SpaceInv
<1>18. CountInv'
  <2>1. ASSUME NEW u \in Tids', NEW v \in Tids', thr'[u].pid = thr'[v].pid,
               thr'[u].main = thr'[v].main
        PROVE  u = v
    <3>1. u \in Tids /\ v \in Tids /\ thr[u].pid = thr[v].pid /\ thr[u].main = thr[v].main
      BY <1>8, <2>1
    <3> QED
      BY <3>1 DEF IInv, CountInv
  <2>2. ASSUME NEW u \in Tids', ~thr'[u].main PROVE TaskOf(u)'.worker /\ TaskOf(u)'.pe
    <3>1. u \in Tids /\ ~thr[u].main
      BY <1>8, <2>2
    <3>2. TaskOf(u).worker /\ TaskOf(u).pe
      BY <3>1 DEF IInv, CountInv
    <3> QED
      BY <1>6, <1>8, <3>1, <3>2 DEF TaskOf
  <2>3. ASSUME NEW q \in Pids, NEW k, q # p \/ k # m PROVE Alive(q, k)' = Alive(q, k)
    <3>1. ~(thr[t].pid = q /\ thr[t].main = k)
      BY <1>a, <1>b, <2>3
    <3>2. (\E u \in Tids' : thr'[u].pid = q /\ thr'[u].main = k /\ thr'[u].pc # "reaped")
          <=> (\E u \in Tids : thr[u].pid = q /\ thr[u].main = k /\ thr[u].pc # "reaped")
      BY <1>8, <3>1
    <3> QED
      BY <3>2 DEF Alive
  <2>4. ASSUME NEW q \in Pids, q # p PROVE task'[q].active = Alive(q, TRUE)' + Alive(q, FALSE)'
    <3>1. Alive(q, TRUE)' = Alive(q, TRUE) /\ Alive(q, FALSE)' = Alive(q, FALSE)
      BY <2>3, <2>4
    <3>2. task[q].active = Alive(q, TRUE) + Alive(q, FALSE)
      BY DEF IInv, CountInv
    <3>3. task'[q].active = task[q].active
      BY <1>5, <2>4
    <3> QED
      BY <3>1, <3>2, <3>3
  <2>5. task'[p].active = Alive(p, TRUE)' + Alive(p, FALSE)'
    <3>1. ~\E u \in Tids' : thr'[u].pid = p /\ thr'[u].main = m /\ thr'[u].pc # "reaped"
      BY <1>7, <1>8, <1>12, <1>b
    <3>2. Alive(p, m)' = 0
      BY <3>1 DEF Alive
    <3>3. Alive(p, n)' = Alive(p, n) /\ Alive(p, n) \in {0, 1}
      BY <1>0, <1>13, <2>3 DEF Alive
    <3>4. task'[p].active = task[p].active - 1
      BY <1>2, <1>5
    <3>5. task[p].active = 1 + Alive(p, n)
      BY <1>13, <1>14
    <3>6. \A x \in {0, 1} : (1 + x) - 1 = 0 + x /\ (1 + x) - 1 = x + 0
      BY SMT
    <3>7. /\ task'[p].active = Alive(p, m)' + Alive(p, n)'
          /\ task'[p].active = Alive(p, n)' + Alive(p, m)'
      BY <3>2, <3>3, <3>4, <3>5, <3>6
    <3>8. CASE m = TRUE /\ n = FALSE
      BY <3>7, <3>8
    <3>9. CASE m = FALSE /\ n = TRUE
      BY <3>7, <3>9
    <3>10. (m = TRUE /\ n = FALSE) \/ (m = FALSE /\ n = TRUE)
      <4>1. n # m
        BY <1>13
      <4> QED
        BY <4>1
    <3> QED
      BY <3>8, <3>9, <3>10
  <2> QED
    BY <1>5, <2>1, <2>2, <2>4, <2>5 DEF CountInv
<1>19. ExitInv'
  <2>1. ASSUME NEW u \in Tids PROVE ExitingThread(u)'
    <3>1. /\ TaskOf(u)'.pe = TaskOf(u).pe /\ TaskOf(u)'.fds = TaskOf(u).fds
          /\ TaskOf(u)'.status = TaskOf(u).status /\ TaskOf(u)'.exited = TaskOf(u).exited
      <4>1. thr'[u].pid = thr[u].pid /\ thr[u].pid \in Pids
        BY <1>8
      <4> QED
        BY <1>6, <4>1 DEF TaskOf
    <3>2. ExitingThread(u)
      BY DEF IInv, ExitInv
    <3>3. \/ thr'[u].pc = thr[u].pc
          \/ thr[u].pc = "asleep" /\ thr'[u].pc = "wait4"
          \/ thr[u].pc = "dead" /\ thr'[u].pc = "reaped"
      BY <1>1, <1>7 DEF ThreadsKept
    <3> QED
      BY <3>1, <3>2, <3>3 DEF ExitingThread, Ending, GonePcs
  <2>2. ASSUME NEW q \in Pids PROVE ExitedTask(q)' /\ (task'[q].pe => task'[q].ppid = 0)
    BY <1>6 DEF IInv, ExitInv, ExitedTask
  <2> QED
    BY <1>5, <1>8, <2>1, <2>2 DEF ExitInv
<1> QED
  BY <1>16, <1>17, <1>18, <1>19 DEF IInv

----------------------------------------------------------------------------
(* The theorems. *)

\* The first task and its thread.
LEMMA ProcessInit == Init => IInv
<1> SUFFICES ASSUME Init PROVE IInv
  OBVIOUS
<1> DEFINE e == [obj |-> "console", cloexec |-> FALSE]
           k == Task(0, 1, <<e>>, FALSE)
           h == Thread(1, 1, TRUE)
<1>1. e \in Entries
  BY DEF Entries, Descriptions, HandleObject
<1>2. <<e>> \in Tables
  BY SMT, <1>1 DEF Tables
<1> HIDE DEF e
<1>3. /\ k \in TaskRecs /\ k.space = 1 /\ k.active = 1 /\ k.pe = FALSE /\ k.exited = FALSE
      /\ k.ppid = 0
  BY SMT, <1>2 DEF Task, TaskRecs
<1>4. /\ h \in ThreadRecs /\ h.pid = 1 /\ h.space = 1 /\ h.main = TRUE /\ h.pc = "user"
  BY DEF Thread, ThreadRecs, PcValues
<1>5. task = <<k>> /\ thr = <<h>> /\ spaces = <<"live">> /\ listed = {1}
  BY DEF Init, e
<1> HIDE DEF k, h
<1>6. /\ task \in Seq(TaskRecs) /\ thr \in Seq(ThreadRecs) /\ spaces \in Seq({"live", "freed"})
      /\ Pids = {1} /\ Tids = {1} /\ DOMAIN spaces = {1}
      /\ task[1] = k /\ thr[1] = h /\ spaces[1] = "live"
  BY SMT, <1>3, <1>4, <1>5 DEF Pids, Tids
<1>7. TypeOK
  BY <1>3, <1>4, <1>5, <1>6 DEF TypeOK
<1>8. SpaceInv
  BY <1>3, <1>4, <1>6 DEF SpaceInv, TaskOf
<1>9. CountInv
  <2>1. Alive(1, TRUE) = 1
    BY <1>4, <1>6 DEF Alive
  <2>2. ~\E t \in Tids : thr[t].pid = 1 /\ thr[t].main = FALSE /\ thr[t].pc # "reaped"
    BY <1>4, <1>6
  <2>3. Alive(1, FALSE) = 0
    BY <2>2 DEF Alive
  <2>4. \A p \in Pids : task[p].active = Alive(p, TRUE) + Alive(p, FALSE)
    <3>1. 1 + 0 = 1
      BY SMT
    <3> QED
      BY <1>3, <1>6, <2>1, <2>3, <3>1
  <2>5. \A t \in Tids : ~thr[t].main => TaskOf(t).worker /\ TaskOf(t).pe
    BY <1>4, <1>6
  <2> QED
    BY <1>6, <2>4, <2>5 DEF CountInv
<1>10. ExitInv
  BY <1>3, <1>4, <1>6 DEF ExitInv, ExitingThread, ExitedTask, TaskOf, Ending, GonePcs
<1> QED
  BY <1>7, <1>8, <1>9, <1>10 DEF IInv

\* Every system call, exit step and reclaiming keeps the invariant.
LEMMA ProcessNext == IInv /\ [Next]_vars => IInv'
<1> SUFFICES ASSUME IInv, [Next]_vars PROVE IInv'
  OBVIOUS
<1>1. ASSUME UNCHANGED vars PROVE IInv'
  BY SMT, <1>1 DEF vars, IInv, TypeOK, SpaceInv, CountInv, ExitInv, ExitingThread, ExitedTask, Alive,
       TaskOf, Pids, Tids
<1>2. <<[obj |-> "console", cloexec |-> FALSE]>> \in Tables
  BY SMT DEF Tables, Entries, Descriptions, HandleObject
<1>3. ASSUME SpawnPe PROVE IInv'
  BY <1>2, <1>3, SpawnStep, 0 \in Nat, TRUE \in BOOLEAN DEF SpawnPe
<1>4. ASSUME NEW t \in Tids PROVE thr[t].pid \in Nat /\ TaskOf(t).fds \in Tables
  <2>1. thr[t] \in ThreadRecs /\ TaskOf(t) \in TaskRecs
    BY RecordFacts DEF TaskOf
  <2> QED
    BY <2>1 DEF ThreadRecs, TaskRecs
<1>5. ASSUME NEW t, Elevate(t) PROVE IInv'
  BY <1>2, <1>4, <1>5, SpawnStep, FALSE \in BOOLEAN DEF Elevate, At
<1>6. ASSUME NEW t, Fork(t) PROVE IInv'
  BY <1>4, <1>6, SpawnStep, FALSE \in BOOLEAN DEF Fork, At
<1>7. ASSUME NEW t, ExecQuarantined(t) PROVE IInv'
  BY <1>7, StatusStep, 126 \in Codes \cup {126} DEF ExecQuarantined, At
<1>8. ASSUME NEW t, Exit(t) PROVE IInv'
  <2>1. PICK c \in Codes : SetStatus(t, c)
    BY <1>8 DEF Exit
  <2> QED
    BY <1>8, <2>1, StatusStep, c \in Codes \cup {126} DEF Exit, At
<1>9. ASSUME NEW t, Exec(t) PROVE IInv'
  BY <1>9, ExecStep DEF Exec, At
<1>10. ASSUME NEW t \in Tids, OpenFile(t) \/ PipeCall(t) \/ CloseCall(t) \/ DupCall(t) PROVE IInv'
  BY <1>10, FilesStep
<1>11. ASSUME NEW t, Ended(t) PROVE IInv'
  BY <1>11, EndedStep DEF Ended, ClearFiles, SetExited, Notify, FinishSwitch, At
<1>12. ASSUME NEW t, NtCreateThreadEx(t) PROVE IInv'
  BY <1>12, CreateStep DEF NtCreateThreadEx, At
<1>13. ASSUME NEW t, Starting(t) \/ NtTerminateThread(t) PROVE IInv'
  <2>1. t \in Tids
    BY <1>13 DEF Starting, RegisterThreadExit, AllocThreadHandle, NtTerminateThread, At
  <2> QED
    BY <1>13, <2>1, WorkerStep
<1>14. ASSUME NEW t, Wait4Call(t) \/ Waiting(t) PROVE IInv'
  <2>1. t \in Tids
    BY <1>14 DEF Wait4Call, Waiting, Wait4Scan, Wait4Sleep, At
  <2> QED
    BY <1>14, <2>1, WaitStep
<1>15. ASSUME NEW t, Reap(t) PROVE IInv'
  BY <1>15, ReapStep DEF Reap
<1> QED
  BY <1>1, <1>3, <1>5, <1>6, <1>7, <1>8, <1>9, <1>10, <1>11, <1>12, <1>13, <1>14, <1>15 DEF Next

\* The inductive invariant of the process model.
THEOREM ProcessInvariance == Spec => []IInv
<1>1. Init => IInv
  BY ProcessInit
<1>2. IInv /\ [Next]_vars => IInv'
  BY ProcessNext
<1> QED
  BY <1>1, <1>2, PTL DEF Spec

\* No thread that can still run, or whose stack a CPU is still on, loses its
\* address space, whatever tasks fork, exec, exit, wait and create threads.
THEOREM ProcessSpaces == Spec => []SpaceOutlivesThreads
<1>1. IInv => SpaceOutlivesThreads
  BY DEF IInv, SpaceInv, SpaceOutlivesThreads
<1> QED
  BY <1>1, ProcessInvariance, PTL

\* wait4 takes a child off TASKS only when its exit is published, its status
\* stored and its files closed (set_exit_status, wait4).
THEOREM ProcessReaped == Spec => ReapedIsZombie
<1>1. ASSUME IInv, [Next]_vars, NEW p \in listed \ listed'
      PROVE  /\ task[p].exited /\ task[p].status # None
             /\ \A fd \in 0..Len(task[p].fds) : ~Open(task[p].fds, fd)
  <2>1. PICK t : Wait4Scan(t)
    <3>1. ~Spawn(0, <<[obj |-> "console", cloexec |-> FALSE]>>, TRUE)
      BY <1>1 DEF Spawn
    <3>2. \A t : \A f : ~Spawn(thr[t].pid, f, FALSE)
      BY <1>1 DEF Spawn
    <3>3. UNCHANGED vars => listed' = listed
      BY DEF vars
    <3>4. \A t : ~(SpawnPe \/ Elevate(t) \/ Fork(t))
      BY <3>1, <3>2 DEF SpawnPe, Elevate, Fork
    <3>5. \A t : ~(ExecQuarantined(t) \/ Exec(t) \/ Exit(t) \/ NtCreateThreadEx(t)
                   \/ NtTerminateThread(t) \/ Wait4Call(t) \/ Reap(t) \/ Wait4Sleep(t))
      BY <1>1 DEF ExecQuarantined, Exec, Exit, NtCreateThreadEx, NtTerminateThread, Wait4Call,
           Reap, Wait4Sleep
    <3>6. \A t : ~(Ended(t) \/ Starting(t))
      BY <1>1 DEF Ended, ClearFiles, SetExited, Notify, FinishSwitch, Starting,
           RegisterThreadExit, AllocThreadHandle
    <3>7. \A t : \A f : ~SetFds(t, f)
      BY <1>1 DEF SetFds
    <3>8. \A t : ~(OpenFile(t) \/ PipeCall(t) \/ CloseCall(t) \/ DupCall(t))
      BY <3>7 DEF OpenFile, PipeCall, CloseCall, DupCall
    <3> QED
      BY <1>1, <3>3, <3>4, <3>5, <3>6, <3>8 DEF Next, Waiting
  <2> DEFINE z == Zombies(thr[t].pid, thr[t].arg)
  <2>2. t \in Tids /\ p = Lowest(z) /\ z # {}
    BY <1>1, <2>1 DEF Wait4Scan, At
  <2>3. z \subseteq listed /\ listed \subseteq Pids /\ Pids \subseteq Nat
    <3>1. task \in Seq(TaskRecs) /\ listed \subseteq Pids
      BY <1>1 DEF IInv, TypeOK
    <3>2. Pids \subseteq Nat
      BY SMT, <3>1 DEF Pids
    <3> QED
      BY <3>1, <3>2 DEF Zombies, Children
  <2>4. p \in z
    <3> HIDE DEF z
    <3> QED
      BY <2>2, <2>3, LowestFacts
  <2>5. p \in Pids /\ task[p].ppid = thr[t].pid /\ task[p].exited
    BY <2>3, <2>4 DEF Zombies, Children
  <2>6. thr[t].pid # 0
    <3>1. task \in Seq(TaskRecs) /\ thr[t].pid \in Pids
      BY <1>1, <2>2 DEF IInv, TypeOK
    <3> QED
      BY SMT, <3>1 DEF Pids
  <2>7. ~task[p].pe
    BY <1>1, <2>5, <2>6 DEF IInv, ExitInv
  <2>8. task[p].status # None /\ task[p].fds = <<>>
    BY <1>1, <2>5, <2>7 DEF IInv, ExitInv, ExitedTask
  <2>9. \A fd : ~Open(task[p].fds, fd)
    BY SMT, <2>8 DEF Open
  <2> QED
    BY <2>5, <2>8, <2>9
<1>2. IInv /\ [Next]_vars =>
        [\A p \in listed \ listed' :
            task[p].exited /\ task[p].status # None /\ \A fd \in 0..Len(task[p].fds) : ~Open(task[p].fds, fd)]_vars
  BY <1>1
<1> QED
  BY <1>2, ProcessInvariance, PTL DEF Spec, ReapedIsZombie
=============================================================================
