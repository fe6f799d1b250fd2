------------------------ MODULE MemoryRegistryProofs ------------------------
(* Proofs about the owners of frames, for any frames, spaces and sections;    *)
(* and about the registry's watches, for any callers, and its hive file, for  *)
(* one.                                                                       *)
EXTENDS Memory, Registry, TLAPS

----------------------------------------------------------------------------
(* Memory. *)


\* The owners are roots, pages and sections, before and after a step.
LEMMA OwnedFacts ==
    /\ \A s \in Spaces : /\ <<"root", s>> \in Owners
                         /\ Owned(<<"root", s>>) = root[s]
                         /\ Owned(<<"root", s>>)' = root'[s]
    /\ \A s \in Spaces, p \in Pages :
            /\ <<"page", <<s, p>>>> \in Owners
            /\ Owned(<<"page", <<s, p>>>>) = PrivatePage(s, p)
            /\ Owned(<<"page", <<s, p>>>>)' = PrivatePage(s, p)'
    /\ \A x \in Sections : /\ <<"section", x>> \in Owners
                           /\ Owned(<<"section", x>>) = sec[x]
                           /\ Owned(<<"section", x>>)' = sec'[x]
    /\ \A o \in Owners : \/ \E s \in Spaces : o = <<"root", s>>
                         \/ \E s \in Spaces, p \in Pages : o = <<"page", <<s, p>>>>
                         \/ \E x \in Sections : o = <<"section", x>>
<1>1. ASSUME NEW s \in Spaces
      PROVE  /\ <<"root", s>> \in Owners
             /\ Owned(<<"root", s>>) = root[s]
             /\ Owned(<<"root", s>>)' = root'[s]
  BY DEF Owners, Owned
<1>2. ASSUME NEW s \in Spaces, NEW p \in Pages
      PROVE  /\ <<"page", <<s, p>>>> \in Owners
             /\ Owned(<<"page", <<s, p>>>>) = PrivatePage(s, p)
             /\ Owned(<<"page", <<s, p>>>>)' = PrivatePage(s, p)'
  BY DEF Owners, Owned, PrivatePage
<1>3. ASSUME NEW x \in Sections
      PROVE  /\ <<"section", x>> \in Owners
             /\ Owned(<<"section", x>>) = sec[x]
             /\ Owned(<<"section", x>>)' = sec'[x]
  BY DEF Owners, Owned
<1>4. ASSUME NEW o \in Owners
      PROVE  \/ \E s \in Spaces : o = <<"root", s>>
             \/ \E s \in Spaces, p \in Pages : o = <<"page", <<s, p>>>>
             \/ \E x \in Sections : o = <<"section", x>>
  BY DEF Owners
<1> QED
  BY <1>1, <1>2, <1>3, <1>4

\* The allocator hands out a frame that is free.
LEMMA AllocFacts ==
    ASSUME TypeOK, Free # {}
    PROVE  alloc \in Frames /\ alloc # None /\ free[alloc] = 1
<1>1. alloc \in Free
  BY DEF alloc
<1>2. alloc \in Frames /\ free[alloc] > 0
  BY <1>1 DEF Free
<1> QED
  BY <1>2, MemoryAssumption DEF TypeOK

\* What an owner owns is a frame.
LEMMA OwnedType ==
    ASSUME TypeOK, NEW o \in Owners
    PROVE  Owned(o) \in Frames \cup {None}
<1>1. ASSUME NEW s \in Spaces, NEW p \in Pages
      PROVE  PrivatePage(s, p) \in Frames \cup {None}
  BY DEF PrivatePage, TypeOK
<1>2. \A s \in Spaces : root[s] \in Frames \cup {None}
  BY DEF TypeOK
<1>3. \A x \in Sections : sec[x] \in Frames \cup {None}
  BY DEF TypeOK
<1> QED
  BY <1>1, <1>2, <1>3, OwnedFacts

\* A step that moves no frame.
LEMMA SameOwners ==
    ASSUME OwnerInv, free' = free, \A o \in Owners : Owned(o)' = Owned(o)
    PROVE  OwnerInv'
<1>0. Owners' = Owners
  BY DEF Owners, Pages
<1> QED
  BY <1>0 DEF OwnerInv

\* A free frame goes to one owner that had none.
LEMMA Took ==
    ASSUME TypeOK, OwnerInv, NEW f \in Frames, free[f] = 1, free' = Taken({f}),
           NEW w \in Owners, Owned(w) = None, Owned(w)' = f,
           \A o \in Owners : o # w => Owned(o)' = Owned(o)
    PROVE  OwnerInv' /\ free' \in [Frames -> {0, 1}]
<1>0. f # None /\ Owners' = Owners
  BY MemoryAssumption DEF Owners, Pages
<1>1. /\ free' \in [Frames -> {0, 1}] /\ free'[f] = 0
      /\ \A g \in Frames : g # f => free'[g] = free[g]
  BY DEF Taken, TypeOK
<1>2. \A o \in Owners : Owned(o) # f
  <2>1. free[f] # 0
    OBVIOUS
  <2> QED
    BY <1>0, <2>1 DEF OwnerInv
<1>3. \A o, q \in Owners : Owned(o)' # None /\ Owned(o)' = Owned(q)' => o = q
  <2> SUFFICES ASSUME NEW o \in Owners, NEW q \in Owners, Owned(o)' # None, Owned(o)' = Owned(q)'
               PROVE  o = q
    OBVIOUS
  <2>1. CASE o # w /\ q # w
    BY <2>1 DEF OwnerInv
  <2>2. CASE o = w \/ q = w
    BY <1>2, <2>2
  <2> QED
    BY <2>1, <2>2
<1>4. ASSUME NEW o \in Owners, Owned(o)' # None PROVE free'[Owned(o)'] = 0
  <2>1. CASE o = w
    BY <1>1, <2>1
  <2>2. CASE o # w
    <3>1. Owned(o) \in Frames /\ Owned(o) # f /\ free[Owned(o)] = 0 /\ Owned(o)' = Owned(o)
      BY <1>2, <1>4, <2>2, OwnedType DEF OwnerInv
    <3> QED
      BY <1>1, <3>1
  <2> QED
    BY <2>1, <2>2
<1>5. ASSUME NEW g \in Frames, free'[g] = 0 PROVE \E o \in Owners : Owned(o)' = g
  <2>1. CASE g = f
    BY <2>1
  <2>2. CASE g # f
    <3>1. free[g] = 0
      BY <1>1, <1>5, <2>2
    <3>2. PICK o \in Owners : Owned(o) = g
      BY <3>1 DEF OwnerInv
    <3>3. o # w
      BY <1>0, <3>2, MemoryAssumption
    <3> QED
      BY <3>2, <3>3
  <2> QED
    BY <2>1, <2>2
<1> QED
  BY <1>0, <1>1, <1>3, <1>4, <1>5 DEF OwnerInv

\* The owners in W give up all they own.
LEMMA Released ==
    ASSUME TypeOK, OwnerInv, NEW W \in SUBSET Owners,
           free' = dealloc({Owned(o) : o \in W} \ {None}),
           \A o \in W : Owned(o)' = None,
           \A o \in Owners \ W : Owned(o)' = Owned(o)
    PROVE  OwnerInv' /\ free' \in [Frames -> {0, 1}]
<1> DEFINE F == {Owned(o) : o \in W} \ {None}
<1>0. Owners' = Owners
  BY DEF Owners, Pages
<1>1. \A f \in F : f \in Frames /\ free[f] = 0
  BY OwnedType DEF OwnerInv
<1>2. \A f \in Frames : free'[f] = IF f \in F THEN free[f] + 1 ELSE free[f]
  BY DEF dealloc
<1>3. \A f \in F : free'[f] = 1
  <2> HIDE DEF F
  <2> QED
    BY <1>1, <1>2
<1>4. free' \in [Frames -> {0, 1}]
  <2> HIDE DEF F
  <2>1. free' = [f \in Frames |-> free'[f]]
    BY DEF dealloc
  <2>2. \A f \in Frames : free'[f] \in {0, 1}
    BY <1>2, <1>3 DEF TypeOK
  <2> QED
    BY <2>1, <2>2
<1>5. ASSUME NEW o \in Owners, Owned(o)' # None
      PROVE  /\ o \notin W /\ Owned(o)' = Owned(o) /\ Owned(o) \notin F
             /\ Owned(o) \in Frames
  <2>1. o \notin W /\ Owned(o)' = Owned(o)
    BY <1>5
  <2>2. Owned(o) \notin F
    BY <1>5, <2>1 DEF OwnerInv
  <2> QED
    BY <1>5, <2>1, <2>2, OwnedType
<1>6. \A o, q \in Owners : Owned(o)' # None /\ Owned(o)' = Owned(q)' => o = q
  BY <1>5 DEF OwnerInv
<1>7. \A o \in Owners : Owned(o)' # None => free'[Owned(o)'] = 0
  <2> HIDE DEF F
  <2> QED
    BY <1>2, <1>5 DEF OwnerInv
<1>8. ASSUME NEW g \in Frames, free'[g] = 0 PROVE \E o \in Owners : Owned(o)' = g
  <2>1. g \notin F /\ free[g] = 0
    <3> HIDE DEF F
    <3> QED
      BY <1>2, <1>3, <1>8
  <2>2. PICK o \in Owners : Owned(o) = g
    BY <2>1 DEF OwnerInv
  <2>3. o \notin W
    BY <2>1, <2>2, MemoryAssumption
  <2> QED
    BY <2>2, <2>3
<1> QED
  BY <1>0, <1>4, <1>6, <1>7, <1>8 DEF OwnerInv

\* The parts of the invariant that no frame is involved in.
Bookkeeping ==
    /\ st' \in [Spaces -> {"unused", "loading", "copying", "live", "lost", "gone"}]
    /\ brk' \in [Spaces -> Nat] /\ next' \in [Spaces -> Nat \ {0}]
    /\ \A s \in Spaces : st'[s] = "unused" => root'[s] = None

\* A fresh frame mapped at a page: elf::load, brk, mmap_anon and fork's copy.
LEMMA PageStep ==
    ASSUME IInv, NEW s \in Spaces, NEW p \in Pages, NEW mode, map_page_in(s, p, None, mode),
           UNCHANGED <<root, view, sec>>, Bookkeeping
    PROVE  IInv'
<1>0. TypeOK /\ OwnerInv /\ ViewInv
  BY DEF IInv
<1>1. /\ alloc # None /\ pte[s][p] = None /\ free' = Taken({alloc})
      /\ pte' = [pte EXCEPT ![s][p] = alloc]
  BY DEF map_page_in
<1>2. Free # {}
  BY <1>1 DEF alloc
<1>3. alloc \in Frames /\ free[alloc] = 1
  BY <1>0, <1>2, AllocFacts
<1>a. PICK f \in Frames : f = alloc
  BY <1>3
<1>4. view[s][p] = None
  BY <1>0, <1>1 DEF ViewInv
<1>5. /\ pte' \in [Spaces -> [Pages -> Frames \cup {None}]] /\ pte'[s][p] = f
      /\ \A r \in Spaces, q \in Pages : r # s \/ q # p => pte'[r][q] = pte[r][q]
  BY <1>0, <1>1, <1>a DEF TypeOK
<1>6. PrivatePage(s, p) = None /\ PrivatePage(s, p)' = f
  BY <1>1, <1>4, <1>5 DEF PrivatePage
<1>7. \A r \in Spaces, q \in Pages : r # s \/ q # p => PrivatePage(r, q)' = PrivatePage(r, q)
  BY <1>5 DEF PrivatePage
<1> DEFINE w == <<"page", <<s, p>>>>
<1>8. w \in Owners /\ Owned(w) = None /\ Owned(w)' = f
  BY <1>6, OwnedFacts
<1>9. ASSUME NEW o \in Owners, o # w PROVE Owned(o)' = Owned(o)
  <2>1. CASE \E r \in Spaces : o = <<"root", r>>
    BY <2>1, OwnedFacts
  <2>2. CASE \E r \in Spaces, q \in Pages : o = <<"page", <<r, q>>>>
    <3>1. PICK r \in Spaces, q \in Pages : o = <<"page", <<r, q>>>>
      BY <2>2
    <3>2. r # s \/ q # p
      BY <1>9, <3>1
    <3> QED
      BY <1>7, <3>1, <3>2, OwnedFacts
  <2>3. CASE \E x \in Sections : o = <<"section", x>>
    BY <2>3, OwnedFacts
  <2> QED
    BY <2>1, <2>2, <2>3, OwnedFacts
<1> HIDE DEF w
<1>10. OwnerInv' /\ free' \in [Frames -> {0, 1}]
  BY <1>0, <1>1, <1>3, <1>8, <1>9, <1>a, Took
<1>11. ViewInv'
  BY <1>0, <1>4, <1>5 DEF ViewInv, Pages
<1>12. TypeOK'
  BY <1>0, <1>5, <1>10 DEF TypeOK, Bookkeeping, Pages
<1> QED
  BY <1>10, <1>11, <1>12 DEF IInv, Bookkeeping

\* A fresh frame as the root of a space: Process::new and fork.
LEMMA RootStep ==
    ASSUME IInv, NEW s \in Spaces, st[s] = "unused", Free # {},
           root' = [root EXCEPT ![s] = alloc], free' = Taken({alloc}),
           UNCHANGED <<pte, view, sec>>, Bookkeeping
    PROVE  IInv'
<1>0. TypeOK /\ OwnerInv /\ ViewInv /\ root[s] = None
  BY DEF IInv
<1>1. alloc \in Frames /\ free[alloc] = 1
  BY <1>0, AllocFacts
<1>a. PICK f \in Frames : f = alloc
  BY <1>1
<1>2. /\ root' \in [Spaces -> Frames \cup {None}] /\ root'[s] = f
      /\ \A r \in Spaces : r # s => root'[r] = root[r]
  BY <1>0, <1>a DEF TypeOK
<1> DEFINE w == <<"root", s>>
<1>3. w \in Owners /\ Owned(w) = None /\ Owned(w)' = f
  BY <1>0, <1>2, OwnedFacts
<1>4. ASSUME NEW o \in Owners, o # w PROVE Owned(o)' = Owned(o)
  <2>1. CASE \E r \in Spaces : o = <<"root", r>>
    <3>1. PICK r \in Spaces : o = <<"root", r>>
      BY <2>1
    <3>2. r # s
      BY <1>4, <3>1
    <3> QED
      BY <1>2, <3>1, <3>2, OwnedFacts
  <2>2. CASE \E r \in Spaces, q \in Pages : o = <<"page", <<r, q>>>>
    <3>1. PICK r \in Spaces, q \in Pages : o = <<"page", <<r, q>>>>
      BY <2>2
    <3>2. PrivatePage(r, q)' = PrivatePage(r, q)
      BY DEF PrivatePage
    <3> QED
      BY <3>1, <3>2, OwnedFacts
  <2>3. CASE \E x \in Sections : o = <<"section", x>>
    BY <2>3, OwnedFacts
  <2> QED
    BY <2>1, <2>2, <2>3, OwnedFacts
<1> HIDE DEF w
<1>5. OwnerInv' /\ free' \in [Frames -> {0, 1}]
  BY <1>0, <1>1, <1>3, <1>4, <1>a, Took
<1>6. ViewInv'
  BY <1>0 DEF ViewInv, Pages
<1>7. TypeOK'
  BY <1>0, <1>2, <1>5 DEF TypeOK, Bookkeeping, Pages
<1> QED
  BY <1>5, <1>6, <1>7 DEF IInv, Bookkeeping

\* NtCreateSection.
LEMMA SectionStep ==
    ASSUME IInv, NEW x \in Sections, NewSection(x)
    PROVE  IInv'
<1>0. TypeOK /\ OwnerInv /\ ViewInv
  BY DEF IInv
<1>1. /\ sec[x] = None /\ Free # {} /\ sec' = [sec EXCEPT ![x] = alloc] /\ free' = Taken({alloc})
      /\ UNCHANGED <<st, root, pte, brk, next, view>>
  BY DEF NewSection
<1>2. alloc \in Frames /\ free[alloc] = 1
  BY <1>0, <1>1, AllocFacts
<1>a. PICK f \in Frames : f = alloc
  BY <1>2
<1>3. /\ sec' \in [Sections -> Frames \cup {None}] /\ sec'[x] = f
      /\ \A y \in Sections : y # x => sec'[y] = sec[y]
  BY <1>0, <1>1, <1>a DEF TypeOK
<1> DEFINE w == <<"section", x>>
<1>4. w \in Owners /\ Owned(w) = None /\ Owned(w)' = f
  BY <1>1, <1>3, OwnedFacts
<1>5. ASSUME NEW o \in Owners, o # w PROVE Owned(o)' = Owned(o)
  <2>1. CASE \E r \in Spaces : o = <<"root", r>>
    BY <1>1, <2>1, OwnedFacts
  <2>2. CASE \E r \in Spaces, q \in Pages : o = <<"page", <<r, q>>>>
    <3>1. PICK r \in Spaces, q \in Pages : o = <<"page", <<r, q>>>>
      BY <2>2
    <3>2. PrivatePage(r, q)' = PrivatePage(r, q)
      BY <1>1 DEF PrivatePage
    <3> QED
      BY <3>1, <3>2, OwnedFacts
  <2>3. CASE \E y \in Sections : o = <<"section", y>>
    <3>1. PICK y \in Sections : o = <<"section", y>>
      BY <2>3
    <3>2. y # x
      BY <1>5, <3>1
    <3> QED
      BY <1>3, <3>1, <3>2, OwnedFacts
  <2> QED
    BY <2>1, <2>2, <2>3, OwnedFacts
<1> HIDE DEF w
<1>6. OwnerInv' /\ free' \in [Frames -> {0, 1}]
  BY <1>0, <1>1, <1>2, <1>4, <1>5, <1>a, Took
<1>7. ViewInv'
  <2>1. ASSUME NEW s \in Spaces, NEW p \in Pages, view[s][p] # None
        PROVE  pte[s][p] # None /\ pte[s][p] = sec'[view[s][p]]
    <3>1. view[s][p] \in Sections /\ pte[s][p] # None /\ pte[s][p] = sec[view[s][p]]
      BY <1>0, <2>1 DEF TypeOK, ViewInv
    <3>2. view[s][p] # x
      BY <1>1, <3>1
    <3> QED
      BY <1>3, <3>1, <3>2
  <2> QED
    BY <1>1, <2>1 DEF ViewInv, Pages
<1>8. TypeOK'
  BY <1>0, <1>1, <1>3, <1>6 DEF TypeOK, Pages
<1> QED
  BY <1>1, <1>6, <1>7, <1>8 DEF IInv

\* A step that changes no page, root or section.
LEMMA IdleStep ==
    ASSUME IInv, UNCHANGED <<free, root, pte, view, sec>>, Bookkeeping
    PROVE  IInv'
<1>0. TypeOK /\ OwnerInv /\ ViewInv
  BY DEF IInv
<1>1. \A r \in Spaces, q \in Pages : PrivatePage(r, q)' = PrivatePage(r, q)
  BY DEF PrivatePage
<1>2. \A o \in Owners : Owned(o)' = Owned(o)
  BY <1>1, OwnedFacts
<1>3. OwnerInv'
  BY <1>0, <1>2, SameOwners
<1>4. ViewInv'
  BY <1>0 DEF ViewInv, Pages
<1>5. TypeOK'
  BY <1>0 DEF TypeOK, Bookkeeping, Pages
<1> QED
  BY <1>3, <1>4, <1>5 DEF IInv, Bookkeeping

\* map_section_view and unmap_view: only the view of a page changes hands.
LEMMA ViewStep ==
    ASSUME IInv, NEW s \in Spaces, NEW p \in Pages, NEW f, NEW v \in Sections \cup {None},
           \/ v # None /\ view[s][p] = None /\ pte[s][p] = None /\ f = sec[v] /\ f # None
           \/ v = None /\ view[s][p] # None /\ f = None,
           pte' = [pte EXCEPT ![s][p] = f], view' = [view EXCEPT ![s][p] = v],
           UNCHANGED <<free, root, sec>>, Bookkeeping
    PROVE  IInv'
<1>0. TypeOK /\ OwnerInv /\ ViewInv
  BY DEF IInv
<1>1. f \in Frames \cup {None}
  BY <1>0 DEF TypeOK
<1>2. /\ pte' \in [Spaces -> [Pages -> Frames \cup {None}]] /\ pte'[s][p] = f
      /\ \A r \in Spaces, q \in Pages : r # s \/ q # p => pte'[r][q] = pte[r][q]
  BY <1>0, <1>1 DEF TypeOK
<1>3. /\ view' \in [Spaces -> [Pages -> Sections \cup {None}]] /\ view'[s][p] = v
      /\ \A r \in Spaces, q \in Pages : r # s \/ q # p => view'[r][q] = view[r][q]
  BY <1>0 DEF TypeOK
<1>4. ASSUME NEW r \in Spaces, NEW q \in Pages PROVE PrivatePage(r, q)' = PrivatePage(r, q)
  <2>1. CASE r # s \/ q # p
    BY <1>2, <1>3, <2>1 DEF PrivatePage
  <2>2. CASE r = s /\ q = p
    BY <1>2, <1>3, <2>2 DEF PrivatePage
  <2> QED
    BY <2>1, <2>2
<1>5. \A o \in Owners : Owned(o)' = Owned(o)
  BY <1>4, OwnedFacts
<1>6. OwnerInv'
  BY <1>0, <1>5, SameOwners, SMTT(30)
<1>7. ViewInv'
  BY <1>0, <1>2, <1>3, SMTT(30) DEF ViewInv, Pages
<1>8. TypeOK'
  BY <1>0, <1>2, <1>3 DEF TypeOK, Bookkeeping, Pages
<1> QED
  BY <1>6, <1>7, <1>8 DEF IInv, Bookkeeping

\* teardown: the root and the private pages of a space go back to the free list.
LEMMA TeardownStep ==
    ASSUME IInv, NEW s \in Spaces, Teardown(s)
    PROVE  IInv'
<1>0. TypeOK /\ OwnerInv /\ ViewInv
  BY DEF IInv
<1>1. /\ free' = dealloc(OwnFrames(s))
      /\ st' = [st EXCEPT ![s] = "gone"]
      /\ root' = [root EXCEPT ![s] = None]
      /\ pte' = [pte EXCEPT ![s] = [p \in Pages |-> None]]
      /\ view' = [view EXCEPT ![s] = [p \in Pages |-> None]]
      /\ UNCHANGED <<brk, next, sec>>
  BY DEF Teardown
<1>2. /\ root' \in [Spaces -> Frames \cup {None}] /\ root'[s] = None
      /\ \A r \in Spaces : r # s => root'[r] = root[r]
  BY <1>0, <1>1 DEF TypeOK
<1>3. /\ pte' \in [Spaces -> [Pages -> Frames \cup {None}]]
      /\ \A q \in Pages : pte'[s][q] = None
      /\ \A r \in Spaces : r # s => pte'[r] = pte[r]
  BY <1>0, <1>1 DEF TypeOK
<1>4. /\ view' \in [Spaces -> [Pages -> Sections \cup {None}]]
      /\ \A q \in Pages : view'[s][q] = None
      /\ \A r \in Spaces : r # s => view'[r] = view[r]
  BY <1>0, <1>1 DEF TypeOK
<1>5. \A q \in Pages : PrivatePage(s, q)' = None
  BY <1>3, <1>4 DEF PrivatePage
<1>6. \A r \in Spaces, q \in Pages : r # s => PrivatePage(r, q)' = PrivatePage(r, q)
  BY <1>3, <1>4 DEF PrivatePage
<1> DEFINE W == {<<"root", s>>} \cup {<<"page", <<s, q>>>> : q \in Pages}
<1>7. W \in SUBSET Owners
  BY OwnedFacts
<1>8. OwnFrames(s) = {Owned(o) : o \in W} \ {None}
  <2>1. ASSUME NEW f \in OwnFrames(s) PROVE f \in {Owned(o) : o \in W} \ {None}
    <3>1. CASE f = root[s]
      BY <2>1, <3>1, OwnedFacts DEF OwnFrames
    <3>2. CASE \E q \in Pages : view[s][q] = None /\ f = pte[s][q]
      <4>1. PICK q \in Pages : view[s][q] = None /\ f = pte[s][q]
        BY <3>2
      <4>2. Owned(<<"page", <<s, q>>>>) = f
        BY <4>1, OwnedFacts DEF PrivatePage
      <4> QED
        BY <2>1, <4>2 DEF OwnFrames
    <3> QED
      BY <2>1, <3>1, <3>2 DEF OwnFrames
  <2>2. ASSUME NEW o \in W, Owned(o) # None PROVE Owned(o) \in OwnFrames(s)
    <3>1. CASE o = <<"root", s>>
      BY <2>2, <3>1, OwnedFacts DEF OwnFrames
    <3>2. CASE \E q \in Pages : o = <<"page", <<s, q>>>>
      <4>1. PICK q \in Pages : o = <<"page", <<s, q>>>>
        BY <3>2
      <4>2. Owned(o) = PrivatePage(s, q)
        BY <4>1, OwnedFacts
      <4>3. view[s][q] = None /\ Owned(o) = pte[s][q]
        BY <2>2, <4>2 DEF PrivatePage
      <4> QED
        BY <2>2, <4>3 DEF OwnFrames
    <3> QED
      BY <2>2, <3>1, <3>2
  <2> QED
    BY <2>1, <2>2
<1>9. \A o \in W : Owned(o)' = None
  BY <1>2, <1>5, OwnedFacts
<1>10. ASSUME NEW o \in Owners \ W PROVE Owned(o)' = Owned(o)
  <2>1. CASE \E r \in Spaces : o = <<"root", r>>
    <3>1. PICK r \in Spaces : o = <<"root", r>>
      BY <2>1
    <3>2. r # s
      BY <1>10, <3>1
    <3> QED
      BY <1>2, <3>1, <3>2, OwnedFacts
  <2>2. CASE \E r \in Spaces, q \in Pages : o = <<"page", <<r, q>>>>
    <3>1. PICK r \in Spaces, q \in Pages : o = <<"page", <<r, q>>>>
      BY <2>2
    <3>2. r # s
      BY <1>10, <3>1
    <3> QED
      BY <1>6, <3>1, <3>2, OwnedFacts
  <2>3. CASE \E x \in Sections : o = <<"section", x>>
    BY <1>1, <2>3, OwnedFacts
  <2> QED
    BY <2>1, <2>2, <2>3, OwnedFacts
<1> HIDE DEF W
<1>11. free' = dealloc({Owned(o) : o \in W} \ {None})
  BY <1>1, <1>8
<1>12. OwnerInv' /\ free' \in [Frames -> {0, 1}]
  BY <1>0, <1>7, <1>9, <1>10, <1>11, Released
<1>13. ViewInv'
  BY <1>0, <1>1, <1>3, <1>4 DEF ViewInv, Pages
<1>14. st' \in [Spaces -> {"unused", "loading", "copying", "live", "lost", "gone"}]
  BY <1>0, <1>1 DEF TypeOK
<1>15. TypeOK'
  BY <1>0, <1>1, <1>2, <1>3, <1>4, <1>12, <1>14 DEF TypeOK, Pages
<1>16. \A r \in Spaces : st'[r] = "unused" => root'[r] = None
  BY <1>0, <1>1, <1>2 DEF IInv, TypeOK
<1> QED
  BY <1>12, <1>13, <1>15, <1>16 DEF IInv

\* The pages that exist.
LEMMA PageFacts ==
    /\ <<"image", 1>> \in Pages
    /\ \A n \in Nat \ {0} : n <= MaxBrk => <<"brk", n>> \in Pages
    /\ \A n \in Nat \ {0} : n <= MaxVa => <<"map", n>> \in Pages
  BY MemoryAssumption DEF Pages

\* One step of one space.
LEMMA SpaceStep ==
    ASSUME IInv, NEW s \in Spaces,
           \/ NewSpace(s) \/ Load(s) \/ Grow(s) \/ Shrink(s) \/ Regrow(s)
           \/ NtAllocateVirtualMemory(s) \/ OutOfMemory(s) \/ NtProtectVirtualMemory(s)
           \/ CopyPage(s) \/ ForkDone(s) \/ Teardown(s)
    PROVE  IInv'
<1>0. TypeOK /\ \A r \in Spaces : st[r] = "unused" => root[r] = None
  BY DEF IInv
<1>a. UNCHANGED <<st, root, brk, next>> => Bookkeeping
  BY <1>0 DEF TypeOK, Bookkeeping
<1>1. CASE NewSpace(s)
  <2>1. /\ st[s] = "unused" /\ Free # {} /\ root' = [root EXCEPT ![s] = alloc]
        /\ free' = Taken({alloc}) /\ st' = [st EXCEPT ![s] = "loading"]
        /\ UNCHANGED <<pte, view, sec, brk, next>>
    BY <1>1 DEF NewSpace
  <2>2. Bookkeeping
    BY <1>0, <2>1 DEF TypeOK, Bookkeeping
  <2> QED
    BY <2>1, <2>2, RootStep
<1>2. CASE Load(s)
  <2>1. /\ st[s] = "loading" /\ map_page_in(s, <<"image", 1>>, None, "rx")
        /\ \E result \in {"live", "lost"} : st' = [st EXCEPT ![s] = result]
        /\ UNCHANGED <<root, brk, next, view, sec>>
    BY <1>2 DEF Load
  <2>2. Bookkeeping
    BY <1>0, <2>1 DEF TypeOK, Bookkeeping
  <2> QED
    BY <2>1, <2>2, PageStep, PageFacts
<1>3. CASE Grow(s)
  <2>1. /\ brk[s] < MaxBrk /\ map_page_in(s, <<"brk", brk[s] + 1>>, None, "rw")
        /\ brk' = [brk EXCEPT ![s] = @ + 1] /\ UNCHANGED <<st, root, next, view, sec>>
    BY <1>3 DEF Grow, map_zeroed
  <2>2. brk[s] \in Nat
    BY <1>0 DEF TypeOK
  <2>3. <<"brk", brk[s] + 1>> \in Pages
    BY <2>1, <2>2, PageFacts, MemoryAssumption
  <2>4. Bookkeeping
    BY <1>0, <2>1, <2>2 DEF TypeOK, Bookkeeping
  <2> QED
    BY <2>1, <2>3, <2>4, PageStep
<1>4. CASE Shrink(s)
  <2>1. /\ brk[s] > 0 /\ brk' = [brk EXCEPT ![s] = @ - 1]
        /\ UNCHANGED <<free, st, root, pte, next, view, sec>>
    BY <1>4 DEF Shrink
  <2>2. brk[s] \in Nat /\ brk[s] - 1 \in Nat
    BY <1>0, <2>1 DEF TypeOK
  <2>3. Bookkeeping
    BY <1>0, <2>1, <2>2 DEF TypeOK, Bookkeeping
  <2> QED
    BY <2>1, <2>3, IdleStep
<1>5. CASE Regrow(s) \/ OutOfMemory(s) \/ NtProtectVirtualMemory(s)
  <2>1. UNCHANGED <<free, st, root, pte, brk, next, view, sec>>
    BY <1>5 DEF Regrow, OutOfMemory, NtProtectVirtualMemory, Panic
  <2> QED
    BY <1>a, <2>1, IdleStep, SMTT(30)
<1>6. CASE NtAllocateVirtualMemory(s)
  <2>1. /\ next[s] <= MaxVa /\ map_page_in(s, <<"map", next[s]>>, None, "rw")
        /\ next' = [next EXCEPT ![s] = @ + 1] /\ UNCHANGED <<st, root, brk, view, sec>>
    BY <1>6 DEF NtAllocateVirtualMemory, mmap_anon, map_zeroed
  <2>2. next[s] \in Nat \ {0} /\ next[s] + 1 \in Nat \ {0}
    BY <1>0 DEF TypeOK
  <2>3. <<"map", next[s]>> \in Pages
    BY <2>1, <2>2, PageFacts
  <2>4. Bookkeeping
    BY <1>0, <2>1, <2>2 DEF TypeOK, Bookkeeping
  <2> QED
    BY <2>1, <2>3, <2>4, PageStep
<1>7. CASE CopyPage(s)
  <2> DEFINE Left == {q \in Pages : page_present_in(parent[s], q) /\ ~page_present_in(s, q)}
             p == CHOOSE q \in Left : TRUE
  <2>1. /\ Left # {} /\ map_page_in(s, p, None, prot[parent[s]][p])
        /\ UNCHANGED <<st, root, brk, next, view, sec>>
    BY <1>7 DEF CopyPage
  <2>2. p \in Pages
    BY <2>1
  <2> HIDE DEF p, Left
  <2> QED
    BY <1>a, <2>1, <2>2, PageStep
<1>8. CASE ForkDone(s)
  <2>1. /\ st[s] = "copying" /\ st' = [st EXCEPT ![s] = "live"]
        /\ UNCHANGED <<free, root, pte, brk, next, view, sec>>
    BY <1>8 DEF ForkDone
  <2>2. Bookkeeping
    BY <1>0, <2>1 DEF TypeOK, Bookkeeping
  <2> QED
    BY <2>1, <2>2, IdleStep
<1>9. CASE Teardown(s)
  BY <1>9, TeardownStep
<1> QED
  BY <1>1, <1>2, <1>3, <1>4, <1>5, <1>6, <1>7, <1>8, <1>9

\* One step that shares: fork and section views.
LEMMA ShareStep ==
    ASSUME IInv, \/ \E s \in Spaces, x \in Sections : NtMapViewOfSection(s, x)
                 \/ \E s \in Spaces, p \in Pages : UnmapView(s, p)
                 \/ \E s, d \in Spaces : Fork(s, d)
    PROVE  IInv'
<1>0. TypeOK /\ \A r \in Spaces : st[r] = "unused" => root[r] = None
  BY DEF IInv
<1>1. CASE \E s \in Spaces, x \in Sections : NtMapViewOfSection(s, x)
  <2>1. PICK s \in Spaces, x \in Sections : NtMapViewOfSection(s, x)
    BY <1>1
  <2>2. next[s] \in Nat \ {0} /\ next[s] + 1 \in Nat \ {0}
    BY <1>0 DEF TypeOK
  <2>a. PICK n \in Nat \ {0} : n = next[s]
    BY <2>2
  <2>3. /\ sec[x] # None /\ n <= MaxVa /\ pte[s][<<"map", n>>] = None
        /\ pte' = [pte EXCEPT ![s][<<"map", n>>] = sec[x]]
        /\ view' = [view EXCEPT ![s][<<"map", n>>] = x]
        /\ next' = [next EXCEPT ![s] = @ + 1]
        /\ UNCHANGED <<free, st, root, brk, sec>>
    BY <2>1, <2>a DEF NtMapViewOfSection, map_section_view, map_page_in
  <2>4. <<"map", n>> \in Pages
    BY <2>3, PageFacts
  <2>5. Bookkeeping
    BY <1>0, <2>2, <2>3 DEF TypeOK, Bookkeeping
  <2>6. x # None /\ view[s][<<"map", n>>] = None
    BY <2>3, <2>4, MemoryAssumption DEF IInv, ViewInv
  <2> QED
    BY <2>3, <2>4, <2>5, <2>6, ViewStep
<1>2. CASE \E s \in Spaces, p \in Pages : UnmapView(s, p)
  <2>1. PICK s \in Spaces, p \in Pages : UnmapView(s, p)
    BY <1>2
  <2>2. /\ view[s][p] # None /\ pte' = [pte EXCEPT ![s][p] = None]
        /\ view' = [view EXCEPT ![s][p] = None]
        /\ UNCHANGED <<free, st, root, brk, next, sec>>
    BY <2>1 DEF UnmapView, unmap_page_in
  <2>3. Bookkeeping
    BY <1>0, <2>2 DEF TypeOK, Bookkeeping
  <2> QED
    BY <2>2, <2>3, ViewStep
<1>3. CASE \E s, d \in Spaces : Fork(s, d)
  <2>1. PICK s \in Spaces, d \in Spaces : Fork(s, d)
    BY <1>3
  <2>2. /\ st[d] = "unused" /\ Free # {} /\ root' = [root EXCEPT ![d] = alloc]
        /\ free' = Taken({alloc}) /\ st' = [st EXCEPT ![d] = "copying"]
        /\ brk' = [brk EXCEPT ![d] = brk[s]] /\ next' = [next EXCEPT ![d] = next[s]]
        /\ UNCHANGED <<pte, view, sec>>
    BY <2>1 DEF Fork, copy_alloc_state_from
  <2>3. Bookkeeping
    BY <1>0, <2>2 DEF TypeOK, Bookkeeping
  <2> QED
    BY <2>2, <2>3, RootStep
<1> QED
  BY <1>1, <1>2, <1>3

\* The allocator starts with every frame free and no owner.
LEMMA MemoryInit == Init => IInv
<1> SUFFICES ASSUME Init PROVE IInv
  OBVIOUS
<1>1. TypeOK
  BY DEF Init, TypeOK
<1>2. \A s \in Spaces, p \in Pages : PrivatePage(s, p) = None /\ view[s][p] = None
  BY DEF Init, PrivatePage
<1>3. \A o \in Owners : Owned(o) = None
  BY <1>2, OwnedFacts DEF Init
<1>4. OwnerInv
  BY <1>3, SMTT(30) DEF OwnerInv, Init
<1>5. ViewInv
  BY <1>2 DEF ViewInv
<1> QED
  BY <1>1, <1>4, <1>5 DEF IInv, Init

\* The ownership invariant is inductive: no allocation, mapping, fork or teardown
\* gives a frame two owners, loses one or leaves a view of another frame (mm.rs,
\* vmm.rs, and the address spaces and sections of process.rs).
THEOREM MemoryInvariance == Spec => []IInv
<1>1. IInv /\ [Next]_vars => IInv'
  <2> SUFFICES ASSUME IInv, [Next]_vars PROVE IInv'
    OBVIOUS
  <2>1. CASE \E s \in Spaces :
                \/ NewSpace(s) \/ Load(s) \/ Grow(s) \/ Shrink(s) \/ Regrow(s)
                \/ NtAllocateVirtualMemory(s) \/ OutOfMemory(s) \/ NtProtectVirtualMemory(s)
                \/ CopyPage(s) \/ ForkDone(s) \/ Teardown(s)
    BY <2>1, SpaceStep
  <2>2. CASE \E x \in Sections : NewSection(x)
    BY <2>2, SectionStep
  <2>3. CASE \/ \E s \in Spaces, x \in Sections : NtMapViewOfSection(s, x)
             \/ \E s \in Spaces, p \in Pages : UnmapView(s, p)
             \/ \E s, d \in Spaces : Fork(s, d)
    BY <2>3, ShareStep
  <2>4. CASE UNCHANGED vars
    <3>1. UNCHANGED <<free, st, root, pte, brk, next, view, sec>>
      BY <2>4 DEF vars
    <3>2. Bookkeeping
      BY <3>1 DEF IInv, TypeOK, Bookkeeping
    <3> QED
      BY <3>1, <3>2, IdleStep
  <2> QED
    BY <2>1, <2>2, <2>3, <2>4 DEF Next
<1> QED
  BY <1>1, MemoryInit, PTL DEF Spec

\* A frame is free once or has exactly one owner, and a view shows its section's
\* frame, for any number of frames, spaces, pages and sections (alloc, dealloc,
\* fork, map_section_view, unmap_view, free_user_address_space).
THEOREM MemoryFrames == Spec => []FramesOwnedOnce
<1>1. IInv => FramesOwnedOnce
  <2> SUFFICES ASSUME IInv PROVE FramesOwnedOnce
    OBVIOUS
  <2>0. TypeOK /\ OwnerInv /\ ViewInv
    BY DEF IInv
  <2>1. ASSUME NEW f \in Frames
        PROVE  \/ free[f] = 1 /\ {o \in Owners : Owned(o) = f} = {}
               \/ free[f] = 0 /\ \E o \in Owners : {q \in Owners : Owned(q) = f} = {o}
    <3>0. f # None
      BY MemoryAssumption
    <3>1. free[f] = 1 \/ free[f] = 0
      BY <2>0 DEF TypeOK
    <3>2. CASE free[f] = 1
      <4>1. free[f] # 0
        BY <3>2
      <4> QED
        BY <2>0, <3>0, <3>2, <4>1 DEF OwnerInv
    <3>3. CASE free[f] = 0
      <4>1. PICK o \in Owners : Owned(o) = f
        BY <2>0, <3>3 DEF OwnerInv
      <4>2. \A q \in Owners : Owned(q) = f => q = o
        BY <2>0, <3>0, <4>1 DEF OwnerInv
      <4>3. {q \in Owners : Owned(q) = f} = {o}
        BY <4>1, <4>2
      <4> QED
        BY <3>3, <4>3
    <3> QED
      BY <3>1, <3>2, <3>3
  <2> QED
    BY <2>0, <2>1 DEF FramesOwnedOnce
<1> QED
  BY <1>1, MemoryInvariance, PTL

----------------------------------------------------------------------------
(* The registry. *)

\* The start of a sequence.
LEMMA SubFacts ==
    ASSUME NEW S, NEW s \in Seq(S), NEW n \in 0..Len(s)
    PROVE  /\ SubSeq(s, 1, n) \in Seq(S) /\ Len(SubSeq(s, 1, n)) = n
           /\ \A i \in 1..n : SubSeq(s, 1, n)[i] = s[i]
OBVIOUS

\* Sequences that agree at every place are equal.
LEMMA SameSeq ==
    ASSUME NEW S, NEW s \in Seq(S), NEW t \in Seq(S), Len(s) = Len(t),
           \A i \in 1..Len(s) : s[i] = t[i]
    PROVE  s = t
OBVIOUS

\* Keys are sequences, and the keys above one are its prefixes.
LEMMA KeyFacts ==
    /\ <<>> \in AllKeys
    /\ \A k \in AllKeys : k \in Seq(STRING) /\ Len(k) \in Nat
    /\ \A k \in Keys : k \in AllKeys /\ k # <<>> /\ Len(k) > 0
    /\ \A k \in AllKeys : k \in Ancestors(k) /\ <<>> \in Ancestors(k)
    /\ \A k \in AllKeys : Ancestors(k) \subseteq AllKeys
<1>1. <<>> \in AllKeys /\ <<>> \in Seq(STRING)
  BY DEF AllKeys
<1>a. \A k \in Keys : k \in Seq(STRING) /\ k # <<>>
  BY RegistryAssumption, Zenon
<1>b. \A k \in AllKeys : k \in Seq(STRING)
  BY <1>1, <1>a, Zenon DEF AllKeys
<1>2. \A k \in AllKeys : k \in Seq(STRING) /\ Len(k) \in Nat
  BY <1>b
<1>3. \A k \in Keys : k \in AllKeys /\ k # <<>> /\ Len(k) > 0
  BY <1>2, <1>a DEF AllKeys
<1>4. ASSUME NEW k \in AllKeys PROVE k \in Ancestors(k) /\ <<>> \in Ancestors(k)
  <2>1. SubSeq(k, 1, Len(k)) = k /\ SubSeq(k, 1, 0) = <<>>
    <3>1. Len(k) \in 0..Len(k) /\ 0 \in 0..Len(k) /\ k \in Seq(STRING)
      BY <1>2
    <3>2. SubSeq(k, 1, Len(k)) = k
      BY <3>1, SubFacts, SameSeq
    <3>3. SubSeq(k, 1, 0) = <<>>
      BY <3>1
    <3> QED
      BY <3>2, <3>3
  <2>2. Len(k) \in 0..Len(k) /\ 0 \in 0..Len(k)
    BY <1>2
  <2> QED
    BY <2>1, <2>2 DEF Ancestors
<1>5. Ancestors(<<>>) = {<<>>}
  <2>1. Len(<<>>) = 0 /\ SubSeq(<<>>, 1, 0) = <<>>
    OBVIOUS
  <2>2. 0..0 = {0}
    OBVIOUS
  <2> QED
    BY <2>1, <2>2, Zenon DEF Ancestors
<1>6. \A k \in AllKeys : Ancestors(k) \subseteq AllKeys
  BY <1>1, <1>5, RegistryAssumption DEF AllKeys
<1> QED
  BY <1>1, <1>2, <1>3, <1>4, <1>6

\* A key is above another if and only if its path is a prefix.
LEMMA PrefixFacts ==
    ASSUME NEW a \in AllKeys, NEW k \in AllKeys
    PROVE  a \in Ancestors(k) <=> Len(a) <= Len(k) /\ \A i \in 1..Len(a) : a[i] = k[i]
<1>0. a \in Seq(STRING) /\ k \in Seq(STRING) /\ Len(a) \in Nat /\ Len(k) \in Nat
  BY KeyFacts
<1>1. a \in Ancestors(k) => Len(a) <= Len(k) /\ \A i \in 1..Len(a) : a[i] = k[i]
  <2> SUFFICES ASSUME a \in Ancestors(k)
               PROVE  Len(a) <= Len(k) /\ \A i \in 1..Len(a) : a[i] = k[i]
    OBVIOUS
  <2>1. PICK n \in 0..Len(k) : a = SubSeq(k, 1, n)
    BY DEF Ancestors
  <2>2. Len(a) = n /\ \A i \in 1..n : a[i] = k[i]
    BY <1>0, <2>1, SubFacts
  <2> QED
    BY <1>0, <2>1, <2>2
<1>2. ASSUME Len(a) <= Len(k), \A i \in 1..Len(a) : a[i] = k[i] PROVE a \in Ancestors(k)
  <2>1. Len(a) \in 0..Len(k)
    BY <1>0, <1>2
  <2>2. /\ SubSeq(k, 1, Len(a)) \in Seq(STRING) /\ Len(SubSeq(k, 1, Len(a))) = Len(a)
        /\ \A i \in 1..Len(a) : SubSeq(k, 1, Len(a))[i] = k[i]
    BY <1>0, <2>1, SubFacts
  <2>3. SubSeq(k, 1, Len(a)) = a
    BY <1>0, <1>2, <2>2, SameSeq
  <2> QED
    BY <2>1, <2>3 DEF Ancestors
<1> QED
  BY <1>1, <1>2

\* What is above a key above another is above that one.
LEMMA PrefixTransitive ==
    ASSUME NEW a \in AllKeys, NEW b \in AllKeys, NEW k \in AllKeys,
           a \in Ancestors(b), b \in Ancestors(k)
    PROVE  a \in Ancestors(k)
<1>1. /\ Len(a) \in Nat /\ Len(b) \in Nat /\ Len(k) \in Nat
      /\ Len(a) <= Len(b) /\ \A i \in 1..Len(a) : a[i] = b[i]
      /\ Len(b) <= Len(k) /\ \A i \in 1..Len(b) : b[i] = k[i]
  BY KeyFacts, PrefixFacts
<1>2. Len(a) <= Len(k) /\ \A i \in 1..Len(a) : a[i] = k[i]
  BY <1>1
<1> QED
  BY <1>2, PrefixFacts

\* The parent of a key.
LEMMA ParentFacts ==
    ASSUME NEW k \in Keys
    PROVE  /\ parent_key(k) \in AllKeys /\ Len(parent_key(k)) = Len(k) - 1 /\ parent_key(k) \in Ancestors(k)
<1>1. k \in Seq(STRING) /\ Len(k) \in Nat /\ Len(k) > 0 /\ k \in AllKeys
  BY KeyFacts
<1>2. Len(k) - 1 \in 0..Len(k)
  BY <1>1
<1>3. parent_key(k) \in Ancestors(k)
  BY <1>2 DEF Ancestors, parent_key
<1>4. Len(parent_key(k)) = Len(k) - 1
  BY <1>1, <1>2, SubFacts DEF parent_key
<1>5. parent_key(k) \in AllKeys
  BY <1>1, <1>3, KeyFacts
<1> QED
  BY <1>3, <1>4, <1>5

\* A tree as its keys and what they hold.
LEMMA TreeFacts ==
    ASSUME NEW t \in Trees
    PROVE  /\ t \in [DOMAIN t -> KeyRecs] /\ DOMAIN t \subseteq AllKeys /\ <<>> \in DOMAIN t
           /\ \A k \in DOMAIN t : Ancestors(k) \subseteq DOMAIN t
BY Zenon DEF Trees

\* How to show that a function is a tree.
LEMMA TreeIntro ==
    ASSUME NEW D \in SUBSET AllKeys, <<>> \in D, \A k \in D : Ancestors(k) \subseteq D,
           NEW t \in [D -> KeyRecs]
    PROVE  t \in Trees
<1>1. DOMAIN t = D
  OBVIOUS
<1> QED
  BY <1>1, Zenon DEF Trees

\* What was serialised is read back: no key, owner or value is lost or invented.
LEMMA RoundTrip ==
    ASSUME NEW t \in Trees
    PROVE  deserialize_hive(serialize_hive(t)) = t
<1> DEFINE file == serialize_hive(t)
           field(tag, k) == {r \in file : r[1] = tag /\ components(r[2]) = k}
           of(tag, k, default) ==
                IF field(tag, k) = {} THEN default ELSE (CHOOSE r \in field(tag, k) : TRUE)[3]
           D == {<<>>} \cup UNION {Ancestors(components(r[2])) : r \in file}
<1>0. /\ t \in [DOMAIN t -> KeyRecs] /\ DOMAIN t \subseteq AllKeys /\ <<>> \in DOMAIN t
      /\ \A k \in DOMAIN t : Ancestors(k) \subseteq DOMAIN t
  BY TreeFacts
<1>1. ASSUME NEW r \in file
      PROVE  \E k \in DOMAIN t : \/ r = <<"K", k>>
                                 \/ r = <<"O", k, t[k].owner>> /\ t[k].owner # 0
                                 \/ r = <<"V", k, t[k].val>> /\ t[k].val # None
  BY <1>1, Zenon DEF serialize_hive
<1>2. ASSUME NEW k \in DOMAIN t
      PROVE  /\ k # <<>> => <<"K", k>> \in file
             /\ t[k].owner # 0 => <<"O", k, t[k].owner>> \in file
             /\ t[k].val # None => <<"V", k, t[k].val>> \in file
  BY <1>2, Zenon DEF serialize_hive
<1> HIDE DEF file
<1>3. \A k \in AllKeys : components(k) = k
  BY RegistryAssumption, Zenon DEF components, AllKeys
<1>4. ASSUME NEW r \in file PROVE r[2] \in DOMAIN t /\ components(r[2]) = r[2]
  <2>1. PICK k \in DOMAIN t : \/ r = <<"K", k>>
                              \/ r = <<"O", k, t[k].owner>>
                              \/ r = <<"V", k, t[k].val>>
    BY <1>1, Zenon
  <2>2. r[2] = k
    BY <2>1
  <2> QED
    BY <1>0, <1>3, <2>2, Zenon
<1>5. D = DOMAIN t
  <2>1. ASSUME NEW k \in D PROVE k \in DOMAIN t
    <3>1. CASE k = <<>>
      BY <1>0, <3>1
    <3>2. CASE \E r \in file : k \in Ancestors(components(r[2]))
      BY <1>0, <1>4, <3>2, Zenon
    <3> QED
      BY <2>1, <3>1, <3>2, Zenon
  <2>2. ASSUME NEW k \in DOMAIN t PROVE k \in D
    <3>1. CASE k = <<>>
      BY <3>1
    <3>2. CASE k # <<>>
      <4>1. <<"K", k>> \in file
        BY <1>2, <3>2, Zenon
      <4>2. PICK r \in file : r = <<"K", k>>
        BY <4>1
      <4>3. r[2] = k
        BY <4>2
      <4>4. k \in Ancestors(components(r[2]))
        BY <1>0, <1>3, <4>3, KeyFacts, Zenon
      <4> QED
        BY <4>4, Zenon
    <3> QED
      BY <3>1, <3>2
  <2> QED
    BY <2>1, <2>2, Zenon
<1>6. ASSUME NEW k \in DOMAIN t PROVE of("O", k, 0) = t[k].owner
  <2>1. ASSUME NEW r \in field("O", k) PROVE r[3] = t[k].owner /\ t[k].owner # 0
    <3>1. r \in file /\ r[1] = "O" /\ r[2] = k
      BY <1>4, <2>1, Zenon
    <3>2. PICK a \in DOMAIN t : \/ r = <<"K", a>>
                                \/ r = <<"O", a, t[a].owner>> /\ t[a].owner # 0
                                \/ r = <<"V", a, t[a].val>>
      BY <1>1, <3>1, Zenon
    <3>3. r = <<"O", a, t[a].owner>> /\ t[a].owner # 0
      BY <3>1, <3>2
    <3>4. a = k /\ r[3] = t[a].owner
      BY <3>1, <3>3
    <3> QED
      BY <3>3, <3>4
  <2>2. CASE t[k].owner = 0
    BY <2>1, <2>2, Zenon
  <2>3. CASE t[k].owner # 0
    <3>1. PICK r \in file : r = <<"O", k, t[k].owner>>
      BY <1>2, <2>3, Zenon
    <3>2. r[1] = "O" /\ r[2] = k
      BY <3>1
    <3>3. r \in field("O", k)
      BY <1>4, <3>2, Zenon
    <3> HIDE DEF field
    <3> QED
      BY <2>1, <3>3, Zenon
  <2> QED
    BY <2>2, <2>3
<1>7. ASSUME NEW k \in DOMAIN t PROVE of("V", k, None) = t[k].val
  <2>1. ASSUME NEW r \in field("V", k) PROVE r[3] = t[k].val /\ t[k].val # None
    <3>1. r \in file /\ r[1] = "V" /\ r[2] = k
      BY <1>4, <2>1, Zenon
    <3>2. PICK a \in DOMAIN t : \/ r = <<"K", a>>
                                \/ r = <<"O", a, t[a].owner>>
                                \/ r = <<"V", a, t[a].val>> /\ t[a].val # None
      BY <1>1, <3>1, Zenon
    <3>3. r = <<"V", a, t[a].val>> /\ t[a].val # None
      BY <3>1, <3>2
    <3>4. a = k /\ r[3] = t[a].val
      BY <3>1, <3>3
    <3> QED
      BY <3>3, <3>4
  <2>2. CASE t[k].val = None
    BY <2>1, <2>2, Zenon
  <2>3. CASE t[k].val # None
    <3>1. PICK r \in file : r = <<"V", k, t[k].val>>
      BY <1>2, <2>3, Zenon
    <3>2. r[1] = "V" /\ r[2] = k
      BY <3>1
    <3>3. r \in field("V", k)
      BY <1>4, <3>2, Zenon
    <3> HIDE DEF field
    <3> QED
      BY <2>1, <3>3, Zenon
  <2> QED
    BY <2>2, <2>3
<1>8. \A k \in DOMAIN t : t[k] = [owner |-> t[k].owner, val |-> t[k].val]
  BY <1>0 DEF KeyRecs
<1>9. deserialize_hive(file) = [k \in D |-> [owner |-> of("O", k, 0), val |-> of("V", k, None)]]
  BY Zenon DEF deserialize_hive
<1> HIDE DEF D, of
<1>10. [k \in D |-> [owner |-> of("O", k, 0), val |-> of("V", k, None)]] = [k \in DOMAIN t |-> t[k]]
  BY <1>5, <1>6, <1>7, <1>8, Zenon
<1>11. t = [k \in DOMAIN t |-> t[k]]
  BY <1>0
<1> QED
  BY <1>9, <1>10, <1>11, Zenon DEF file

\* create_owned: the key and what is above it.
LEMMA MakeTree ==
    ASSUME NEW t \in Trees, NEW k \in Keys, NEW uid \in Uids \cup {0}
    PROVE  make(t, k, uid) \in Trees
<1> DEFINE D == DOMAIN t \cup Ancestors(k)
<1>0. /\ t \in [DOMAIN t -> KeyRecs] /\ DOMAIN t \subseteq AllKeys /\ <<>> \in DOMAIN t
      /\ \A a \in DOMAIN t : Ancestors(a) \subseteq DOMAIN t
  BY TreeFacts
<1>1. k \in AllKeys /\ Ancestors(k) \subseteq AllKeys
  BY KeyFacts
<1>2. ASSUME NEW a \in Ancestors(k) PROVE Ancestors(a) \subseteq Ancestors(k)
  <2>1. a \in AllKeys /\ Ancestors(a) \subseteq AllKeys
    BY <1>1, KeyFacts, Zenon
  <2>2. ASSUME NEW b \in Ancestors(a) PROVE b \in Ancestors(k)
    BY <1>1, <1>2, <2>1, <2>2, PrefixTransitive, Zenon
  <2> QED
    BY <2>2, Zenon
<1>3. Key(uid) \in KeyRecs
  BY DEF Key, KeyRecs
<1>4. make(t, k, uid) \in [D -> KeyRecs]
  <2>1. ASSUME NEW a \in D PROVE (IF a \in DOMAIN t THEN t[a] ELSE Key(uid)) \in KeyRecs
    BY <1>0, <1>3
  <2> QED
    BY <2>1, Zenon DEF make
<1>5. D \in SUBSET AllKeys /\ <<>> \in D /\ \A a \in D : Ancestors(a) \subseteq D
  BY <1>0, <1>1, <1>2, Zenon
<1> HIDE DEF D
<1> QED
  BY <1>4, <1>5, TreeIntro, Zenon

\* set_value on an existing key.
LEMMA SetTree ==
    ASSUME NEW t \in Trees, NEW k \in DOMAIN t, NEW v \in Values \cup {None}
    PROVE  [t EXCEPT ![k].val = v] \in Trees
<1>0. /\ t \in [DOMAIN t -> KeyRecs] /\ DOMAIN t \subseteq AllKeys /\ <<>> \in DOMAIN t
      /\ \A a \in DOMAIN t : Ancestors(a) \subseteq DOMAIN t
  BY TreeFacts
<1>1. [t[k] EXCEPT !.val = v] \in KeyRecs
  BY <1>0 DEF KeyRecs
<1>2. [t EXCEPT ![k].val = v] \in [DOMAIN t -> KeyRecs]
  BY <1>0, <1>1
<1> QED
  BY <1>0, <1>2, TreeIntro, Zenon

\* delete_key takes the subtree, and changes nothing when the key is missing.
LEMMA DeleteTree ==
    ASSUME NEW t \in Trees, NEW k \in Keys
    PROVE  /\ remove(t, k) \in Trees
           /\ k \notin DOMAIN t => remove(t, k) = t
<1> DEFINE D == {b \in DOMAIN t : k \notin Ancestors(b)}
<1>0. /\ t \in [DOMAIN t -> KeyRecs] /\ DOMAIN t \subseteq AllKeys /\ <<>> \in DOMAIN t
      /\ \A a \in DOMAIN t : Ancestors(a) \subseteq DOMAIN t
  BY TreeFacts
<1>1. k \in AllKeys /\ Len(k) > 0 /\ Len(k) \in Nat /\ <<>> \in AllKeys
  BY KeyFacts
<1>2. k \notin Ancestors(<<>>)
  BY <1>1, PrefixFacts
<1>3. ASSUME NEW a \in D, NEW b \in Ancestors(a) PROVE b \in D
  <2>1. a \in AllKeys /\ b \in AllKeys /\ b \in DOMAIN t
    BY <1>0, KeyFacts, Zenon
  <2>2. k \notin Ancestors(b)
    BY <1>1, <1>3, <2>1, PrefixTransitive, Zenon
  <2> QED
    BY <2>1, <2>2
<1>4. D \in SUBSET AllKeys /\ <<>> \in D /\ \A a \in D : Ancestors(a) \subseteq D
  BY <1>0, <1>2, <1>3, Zenon
<1>5. [a \in D |-> t[a]] \in [D -> KeyRecs]
  BY <1>0, Zenon
<1>6. k \notin DOMAIN t => D = DOMAIN t
  BY <1>0, <1>1, PrefixFacts, Zenon
<1>7. t = [a \in DOMAIN t |-> t[a]]
  BY <1>0
<1> HIDE DEF D
<1>8. [a \in D |-> t[a]] \in Trees
  BY <1>4, <1>5, TreeIntro, Zenon
<1>9. k \notin DOMAIN t => [a \in D |-> t[a]] = t
  BY <1>6, <1>7, Zenon
<1> QED
  BY <1>8, <1>9, Zenon DEF D, remove

\* The seeded root, and what a boot reads.
LEMMA SeedTree == Seed \in Trees
<1>1. <<>> \in AllKeys /\ Ancestors(<<>>) \subseteq {<<>>}
  <2>1. 0..0 = {0} /\ Len(<<>>) = 0 /\ SubSeq(<<>>, 1, 0) = <<>>
    <3>1. 0..0 = {0}
      OBVIOUS
    <3>2. Len(<<>>) = 0 /\ SubSeq(<<>>, 1, 0) = <<>>
      OBVIOUS
    <3> QED
      BY <3>1, <3>2
  <2> QED
    BY <2>1, KeyFacts, Zenon DEF Ancestors
<1>2. Key(0) \in KeyRecs
  BY DEF Key, KeyRecs
<1>3. Seed \in [{<<>>} -> KeyRecs]
  BY <1>2, Zenon DEF Seed
<1> QED
  BY <1>1, <1>3, TreeIntro, Zenon

\* What load_hives makes of the file, or of its absence, is a tree.
LEMMA StoredTree ==
    ASSUME RegistryTypeOK PROVE Stored \in Trees
<1>1. CASE hive = None
  BY <1>1, SeedTree, Zenon DEF Stored
<1>2. CASE hive # None
  <2>1. PICK t \in Trees : hive = serialize_hive(t)
    BY <1>2, Zenon DEF RegistryTypeOK, HiveFiles
  <2> QED
    BY <1>2, <2>1, RoundTrip, Zenon DEF Stored
<1> QED
  BY <1>1, <1>2

\* The locked part of a call leaves a tree, and the same one if it does nothing.
LEMMA ChangeTree ==
    ASSUME RegistryTypeOK, NEW x \in Callers, Change(x)
    PROVE  tree' \in Trees /\ (~(c[x].op = "create" \/ Exists(c[x].path)) => tree' = tree)
<1> DEFINE k == c[x].path
           done == c[x].op = "create" \/ Exists(k)
<1>0. /\ tree \in Trees /\ k \in Keys /\ c[x].uid \in Uids \cup {0}
      /\ c[x].val \in Values \cup {None}
  <2>1. c[x] \in Caller /\ c[x].pc = "change"
    BY Zenon DEF RegistryTypeOK, Change, At
  <2>2. c[x].uid \in Uids \cup {0} /\ c[x].val \in Values \cup {None} /\ c[x].pc # "idle"
    BY <2>1 DEF Caller
  <2> QED
    BY <2>2, Zenon DEF RegistryTypeOK
<1>1. tree' = CASE c[x].op = "create" -> make(tree, k, c[x].uid)
                [] c[x].op = "set" /\ done -> [tree EXCEPT ![k].val = c[x].val]
                [] c[x].op = "delete" -> remove(tree, k)
                [] OTHER -> tree
  BY Zenon DEF Change
<1> HIDE DEF k
<1>2. CASE c[x].op = "create"
  <2>1. tree' = make(tree, k, c[x].uid)
    BY <1>1, <1>2
  <2> QED
    BY <1>0, <1>2, <2>1, MakeTree, Zenon
<1>3. CASE c[x].op = "set" /\ done
  <2>1. tree' = [tree EXCEPT ![k].val = c[x].val]
    BY <1>1, <1>3
  <2>2. k \in DOMAIN tree
    BY <1>3 DEF Exists
  <2> QED
    BY <1>0, <1>3, <2>1, <2>2, SetTree, Zenon DEF k
<1>4. CASE c[x].op = "delete"
  <2>1. tree' = remove(tree, k)
    BY <1>1, <1>4
  <2> QED
    BY <1>0, <2>1, DeleteTree, Zenon DEF Exists, k
<1>5. CASE c[x].op # "create" /\ ~(c[x].op = "set" /\ done) /\ c[x].op # "delete"
  <2>1. tree' = tree
    BY <1>1, <1>5
  <2> QED
    BY <1>0, <2>1
<1> QED
  BY <1>2, <1>3, <1>4, <1>5, Zenon

\* A change that a watch was promised is one that fire matches to it.
LEMMA ConcernsMatch ==
    ASSUME NEW x \in Callers, c[x].path \in Keys, NEW wt, wt.path \in AllKeys, Concerns(wt, x)
    PROVE  watch_matches(wt, Changed(x))
<1>1. /\ c[x].path \in AllKeys /\ parent_key(c[x].path) \in AllKeys
      /\ Len(parent_key(c[x].path)) = Len(c[x].path) - 1 /\ parent_key(c[x].path) \in Ancestors(c[x].path)
      /\ Len(c[x].path) \in Nat
  BY KeyFacts, ParentFacts
<1>2. Changed(x) \in AllKeys
  BY <1>1 DEF Changed
<1>3. CASE wt.all /\ wt.path \in Ancestors(Changed(x))
  BY <1>3 DEF watch_matches
<1>4. CASE wt.path = Changed(x)
  <2>1. wt.path \in Ancestors(Changed(x)) /\ Len(Changed(x)) - Len(wt.path) = 0
    <3>1. Len(wt.path) \in Nat /\ wt.path \in Ancestors(wt.path)
      BY KeyFacts, PrefixFacts
    <3> QED
      BY <1>4, <3>1
  <2> QED
    BY <2>1 DEF watch_matches
<1>5. CASE c[x].op # "delete" /\ wt.path = parent_key(c[x].path)
  <2>1. Changed(x) = c[x].path
    BY <1>5 DEF Changed
  <2>2. wt.path \in Ancestors(Changed(x)) /\ Len(Changed(x)) - Len(wt.path) = 1
    BY <1>1, <1>5, <2>1
  <2> QED
    BY <2>2 DEF watch_matches
<1> QED
  BY <1>3, <1>4, <1>5 DEF Concerns

\* A caller that goes on towards fire still owes what it owed.
LEMMA OwesKept ==
    ASSUME NEW x, NEW wt, Owes(x, wt), c'[x].pc \in {"snap", "write", "fire"},
           c'[x].op = c[x].op, c'[x].path = c[x].path, c'[x].existed = c[x].existed
    PROVE  Owes(x, wt)'
BY Zenon DEF Owes, Changed, watch_matches

\* A step of one caller.
LEMMA CallerUpdate ==
    ASSUME RegistryTypeOK, NEW x \in Callers, NEW r \in Caller, c' = [c EXCEPT ![x] = r],
           r.pc # "idle" => r.path \in Keys, r.pc = "write" => r.snap \in HiveFiles,
           tree' \in Trees, hive' \in HiveFiles \cup {None}, due' \subseteq 1..armed,
           watches' \subseteq Watch, UNCHANGED <<armed, watcher>>
    PROVE  /\ RegistryTypeOK' /\ c'[x] = r
           /\ \A y \in Callers : y # x => c'[y] = c[y]
<1>1. c' \in [Callers -> Caller] /\ c'[x] = r /\ \A y \in Callers : y # x => c'[y] = c[y]
  BY Zenon DEF RegistryTypeOK
<1>2. Watch' = Watch
  BY DEF Watch
<1> QED
  BY <1>1, <1>2, Zenon DEF RegistryTypeOK

\* Watches and their debts stay as they are when the caller that steps owes
\* nothing, or goes on owing.
LEMMA WatchKept ==
    ASSUME WatchInv, NEW x \in Callers, UNCHANGED <<watches, due, watcher>>,
           \A y \in Callers : y # x => c'[y] = c[y],
           \A wt : Owes(x, wt) => Owes(x, wt)'
    PROVE  WatchInv'
<1>1. ASSUME NEW y \in Callers, NEW wt, Owes(y, wt) PROVE Owes(y, wt)'
  <2>1. CASE y = x
    BY <1>1, <2>1
  <2>2. CASE y # x
    <3>1. c'[y] = c[y]
      BY <2>2
    <3> QED
      BY <1>1, <3>1, OwesKept, Zenon DEF Owes
  <2> QED
    BY <2>1, <2>2
<1> QED
  BY <1>1, Zenon DEF WatchInv

\* A caller outside any service.
LEMMA IdleCaller == Idle \in Caller /\ Idle.pc = "idle"
<1>1. <<>> \in AllKeys
  BY KeyFacts
<1> QED
  BY <1>1 DEF Idle, Caller

\* The check of a service.
LEMMA BeginStep ==
    ASSUME RegistryInv, NEW x \in Callers, NEW op \in {"create", "set", "delete"}, NEW k \in Keys,
           NEW uid \in Uids, NEW val \in Values \cup {None}, Begin(x, op, k, uid, val)
    PROVE  RegistryInv'
<1>0. RegistryTypeOK /\ WatchInv
  BY DEF RegistryInv
<1> DEFINE r == [Idle EXCEPT !.pc = "change", !.op = op, !.path = k, !.uid = uid,
                             !.val = val, !.existed = Exists(k)]
<1>1. /\ c[x].pc = "idle" /\ c' = [c EXCEPT ![x] = r]
      /\ UNCHANGED <<tree, hive, watches, due, watcher, armed>>
  BY Zenon DEF Begin, At
<1>2. r \in Caller /\ r.pc = "change" /\ r.path = k
  <2>1. k \in AllKeys /\ Exists(k) \in BOOLEAN
    BY KeyFacts DEF Exists
  <2> QED
    BY <2>1 DEF Caller, Idle
<1> HIDE DEF r
<1>3. r.pc # "idle" /\ r.pc # "write"
  BY <1>2
<1>4. RegistryTypeOK' /\ \A y \in Callers : y # x => c'[y] = c[y]
  BY <1>0, <1>1, <1>2, <1>3, CallerUpdate, Zenon DEF RegistryTypeOK
<1>5. \A wt : ~Owes(x, wt)
  BY <1>1 DEF Owes
<1>6. WatchInv'
  BY <1>0, <1>1, <1>4, <1>5, WatchKept, Zenon
<1> QED
  BY <1>4, <1>6 DEF RegistryInv

\* The locked part: what becomes due is owed by the caller.
LEMMA ChangeStep ==
    ASSUME RegistryInv, NEW x \in Callers, Change(x)
    PROVE  RegistryInv'
<1>0. RegistryTypeOK /\ WatchInv /\ c[x] \in Caller
  BY Zenon DEF RegistryInv, RegistryTypeOK
<1> DEFINE done == c[x].op = "create" \/ Exists(c[x].path)
           news == done /\ ~(c[x].op = "create" /\ c[x].existed)
           fresh == {wt.id : wt \in {v \in watches : Concerns(v, x)}}
           r == IF done THEN [c[x] EXCEPT !.pc = "snap"] ELSE Idle
<1>1. /\ c[x].pc = "change" /\ due' = (IF news THEN due \cup fresh ELSE due)
      /\ c' = [c EXCEPT ![x] = r] /\ UNCHANGED <<hive, watches, watcher, armed>>
  BY Zenon DEF Change, At
<1>2. c[x].path \in Keys
  <2>1. c[x].pc # "idle"
    BY <1>1
  <2> QED
    BY <1>0, <2>1, Zenon DEF RegistryTypeOK
<1>3. tree' \in Trees
  BY <1>0, ChangeTree, Zenon
<1>4. /\ r \in Caller /\ r.pc \in {"idle", "snap"} /\ (r.pc # "idle" => r.path \in Keys)
      /\ done => r.pc = "snap" /\ r.op = c[x].op /\ r.path = c[x].path /\ r.existed = c[x].existed
  <2>1. CASE done
    BY <1>0, <1>2, <2>1 DEF Caller
  <2>2. CASE ~done
    <3>1. r = Idle
      BY <2>2
    <3> QED
      BY <2>2, <3>1, IdleCaller, Zenon
  <2> QED
    BY <2>1, <2>2, Zenon
<1>5. \A wt \in watches : wt \in Watch
  BY <1>0, Zenon DEF RegistryTypeOK
<1>6. \A wt \in Watch : wt.id \in 1..armed /\ wt.path \in AllKeys
  BY DEF Watch
<1>7. fresh \subseteq 1..armed
  BY <1>5, <1>6, Zenon
<1> HIDE DEF r
<1>8. due' \subseteq 1..armed
  BY <1>0, <1>1, <1>7, Zenon DEF RegistryTypeOK
<1>9. r.pc # "write"
  BY <1>4
<1>10. RegistryTypeOK' /\ c'[x] = r /\ \A y \in Callers : y # x => c'[y] = c[y]
  BY <1>0, <1>1, <1>3, <1>4, <1>8, <1>9, CallerUpdate, Zenon DEF RegistryTypeOK
<1>11. ASSUME NEW wt \in watches, wt.id \in due' PROVE \E y \in Callers : Owes(y, wt)'
  <2>1. CASE wt.id \in due
    <3>1. PICK y \in Callers : Owes(y, wt)
      BY <1>0, <2>1, Zenon DEF WatchInv
    <3>2. c[y].pc \in {"snap", "write", "fire"}
      BY <3>1 DEF Owes
    <3>3. y # x
      BY <1>1, <3>2
    <3>4. c'[y] = c[y]
      BY <1>10, <3>3, Zenon
    <3> QED
      BY <3>1, <3>2, <3>4, OwesKept, Zenon
  <2>2. CASE wt.id \notin due
    <3>1. news /\ wt.id \in fresh
      BY <1>1, <1>11, <2>2, Zenon
    <3>2. PICK v \in watches : Concerns(v, x) /\ wt.id = v.id
      BY <3>1, Zenon
    <3>3. v = wt /\ wt.path \in AllKeys
      BY <1>0, <1>5, <1>6, <1>11, <3>2, Zenon DEF WatchInv
    <3>4. watch_matches(wt, Changed(x))
      BY <1>2, <3>2, <3>3, ConcernsMatch, Zenon
    <3>5. /\ c'[x].pc \in {"snap", "write", "fire"} /\ c'[x].op = c[x].op
          /\ c'[x].path = c[x].path /\ c'[x].existed = c[x].existed
      BY <1>4, <1>10, <3>1, Zenon
    <3>6. ~(c'[x].op = "create" /\ c'[x].existed)
      BY <3>1, <3>5, Zenon
    <3>7. Changed(x)' = Changed(x)
      BY <3>5, Zenon DEF Changed
    <3> QED
      BY <3>4, <3>5, <3>6, <3>7, Zenon DEF Owes, watch_matches
  <2> QED
    BY <2>1, <2>2
<1>12. ASSUME watcher # None PROVE watcher.id \notin due' \cup {wt.id : wt \in watches}
  <2>1. watcher.id \notin due \cup {wt.id : wt \in watches}
    BY <1>0, <1>12, Zenon DEF WatchInv
  <2>2. watcher.id \notin fresh
    BY <1>5, <2>1, Zenon
  <2> QED
    BY <1>1, <2>1, <2>2, Zenon
<1>13. WatchInv'
  BY <1>0, <1>1, <1>11, <1>12, Zenon DEF WatchInv
<1> QED
  BY <1>10, <1>13 DEF RegistryInv

\* persist: serialise, then write.
LEMMA PersistStep ==
    ASSUME RegistryInv, NEW x \in Callers, Snapshot(x) \/ WriteHive(x)
    PROVE  RegistryInv'
<1>0. RegistryTypeOK /\ WatchInv /\ c[x] \in Caller
  BY Zenon DEF RegistryInv, RegistryTypeOK
<1>a. /\ tree \in Trees /\ hive \in HiveFiles \cup {None} /\ due \subseteq 1..armed
      /\ watches \subseteq Watch
  BY <1>0, Zenon DEF RegistryTypeOK
<1>1. CASE Snapshot(x)
  <2> DEFINE r == [c[x] EXCEPT !.pc = "write", !.snap = serialize_hive(tree)]
  <2>1. /\ c[x].pc = "snap" /\ c' = [c EXCEPT ![x] = r]
        /\ UNCHANGED <<tree, hive, watches, due, watcher, armed>>
    BY <1>1, Zenon DEF Snapshot, At
  <2>2. serialize_hive(tree) \in HiveFiles
    BY <1>a, Zenon DEF HiveFiles
  <2>3. c[x].path \in Keys
    <3>1. c[x].pc # "idle"
      BY <2>1
    <3> QED
      BY <1>0, <3>1, Zenon DEF RegistryTypeOK
  <2>4. /\ r \in Caller /\ r.pc = "write" /\ r.snap \in HiveFiles /\ r.path \in Keys
        /\ r.op = c[x].op /\ r.path = c[x].path /\ r.existed = c[x].existed
    BY <1>0, <2>2, <2>3 DEF Caller
  <2> HIDE DEF r
  <2>5. RegistryTypeOK' /\ c'[x] = r /\ \A y \in Callers : y # x => c'[y] = c[y]
    BY <1>0, <1>a, <2>1, <2>4, CallerUpdate, Zenon
  <2>6. ASSUME NEW wt, Owes(x, wt) PROVE Owes(x, wt)'
    BY <2>4, <2>5, <2>6, OwesKept, Zenon
  <2>7. WatchInv'
    BY <1>0, <2>1, <2>5, <2>6, WatchKept, Zenon
  <2> QED
    BY <2>5, <2>7 DEF RegistryInv
<1>2. CASE WriteHive(x)
  <2> DEFINE r == IF c[x].op = "create" /\ c[x].existed THEN Idle ELSE [c[x] EXCEPT !.pc = "fire"]
  <2>1. /\ c[x].pc = "write" /\ hive' = c[x].snap /\ c' = [c EXCEPT ![x] = r]
        /\ UNCHANGED <<tree, watches, due, watcher, armed>>
    BY <1>2, Zenon DEF WriteHive, At
  <2>2. c[x].path \in Keys /\ c[x].snap \in HiveFiles
    <3>1. c[x].pc # "idle"
      BY <2>1
    <3> QED
      BY <1>0, <2>1, <3>1, Zenon DEF RegistryTypeOK
  <2>3. CASE c[x].op = "create" /\ c[x].existed
    <3>1. r \in Caller /\ r.pc = "idle" /\ r.pc # "write"
      BY <2>3, IdleCaller
    <3> HIDE DEF r
    <3>2. RegistryTypeOK' /\ \A y \in Callers : y # x => c'[y] = c[y]
      BY <1>0, <1>a, <2>1, <2>2, <3>1, CallerUpdate, Zenon
    <3>3. \A wt : ~Owes(x, wt)
      BY <2>3, Zenon DEF Owes
    <3>4. WatchInv'
      BY <1>0, <2>1, <3>2, <3>3, WatchKept, Zenon
    <3> QED
      BY <3>2, <3>4 DEF RegistryInv
  <2>4. CASE ~(c[x].op = "create" /\ c[x].existed)
    <3>0. r = [c[x] EXCEPT !.pc = "fire"]
      BY <2>4, Zenon
    <3>1. /\ r \in Caller /\ r.pc = "fire" /\ r.pc # "write" /\ r.path \in Keys
          /\ r.op = c[x].op /\ r.path = c[x].path /\ r.existed = c[x].existed
      BY <1>0, <2>2, <3>0 DEF Caller
    <3> HIDE DEF r
    <3>2. RegistryTypeOK' /\ c'[x] = r /\ \A y \in Callers : y # x => c'[y] = c[y]
      BY <1>0, <1>a, <2>1, <2>2, <3>1, CallerUpdate, Zenon
    <3>3. ASSUME NEW wt, Owes(x, wt) PROVE Owes(x, wt)'
      BY <3>1, <3>2, <3>3, OwesKept, Zenon
    <3>4. WatchInv'
      BY <1>0, <2>1, <3>2, <3>3, WatchKept, Zenon
    <3> QED
      BY <3>2, <3>4 DEF RegistryInv
  <2> QED
    BY <2>3, <2>4
<1> QED
  BY <1>1, <1>2

\* fire: the watches the caller owed are signalled and gone.
LEMMA FireStep ==
    ASSUME RegistryInv, NEW x \in Callers, Fire(x)
    PROVE  RegistryInv'
<1>0. RegistryTypeOK /\ WatchInv
  BY DEF RegistryInv
<1> DEFINE hit == {wt \in watches : watch_matches(wt, Changed(x))}
<1>1. /\ c[x].pc = "fire" /\ watches' = watches \ hit /\ due' = due \ {wt.id : wt \in hit}
      /\ c' = [c EXCEPT ![x] = Idle] /\ UNCHANGED <<tree, hive, watcher, armed>>
  BY Zenon DEF Fire, At
<1>2. watches \subseteq Watch
  BY <1>0, Zenon DEF RegistryTypeOK
<1>3. ASSUME NEW wt \in watches, watch_matches(wt, Changed(x)) PROVE wt \in hit
  BY <1>3, Zenon
<1> HIDE DEF hit
<1>4. watches' \subseteq Watch
  BY <1>1, <1>2, Zenon
<1>5. Idle \in Caller /\ Idle.pc = "idle" /\ Idle.pc # "write"
  BY IdleCaller
<1>6. tree' \in Trees /\ hive' \in HiveFiles \cup {None} /\ due' \subseteq 1..armed
  BY <1>0, <1>1, Zenon DEF RegistryTypeOK
<1>7. RegistryTypeOK' /\ c'[x] = Idle /\ \A y \in Callers : y # x => c'[y] = c[y]
  BY <1>0, <1>1, <1>4, <1>5, <1>6, CallerUpdate, Zenon
<1>8. ASSUME NEW wt \in watches', wt.id \in due' PROVE \E y \in Callers : Owes(y, wt)'
  <2>1. wt \in watches /\ wt \notin hit /\ wt.id \in due
    BY <1>1, <1>8, Zenon
  <2>2. PICK y \in Callers : Owes(y, wt)
    BY <1>0, <2>1, Zenon DEF WatchInv
  <2>3. y # x
    BY <1>3, <2>1, <2>2, Zenon DEF Owes
  <2>4. c'[y] = c[y] /\ c[y].pc \in {"snap", "write", "fire"}
    BY <1>7, <2>2, <2>3, Zenon DEF Owes
  <2> QED
    BY <2>2, <2>4, OwesKept, Zenon
<1>9. \A wt, v \in watches' : wt.id = v.id => wt = v
  BY <1>0, <1>1, Zenon DEF WatchInv
<1>10. watcher' # None => watcher'.id \notin due' \cup {wt.id : wt \in watches'}
  BY <1>0, <1>1, <1>4, Zenon DEF WatchInv
<1>11. WatchInv'
  BY <1>8, <1>9, <1>10, Zenon DEF WatchInv
<1> QED
  BY <1>7, <1>11 DEF RegistryInv

\* The two halves of watch.
LEMMA ArmStep ==
    ASSUME RegistryInv, NtNotifyChangeKey \/ watch
    PROVE  RegistryInv'
<1>0. RegistryTypeOK /\ WatchInv
  BY DEF RegistryInv
<1>1. ASSUME NEW y \in Callers, NEW wt, c' = c, Owes(y, wt) PROVE Owes(y, wt)'
  BY <1>1, OwesKept, Zenon DEF Owes
<1>2. CASE NtNotifyChangeKey
  <2>1. PICK k \in AllKeys, all \in BOOLEAN : watcher' = [path |-> k, all |-> all, id |-> armed + 1]
    BY <1>2 DEF NtNotifyChangeKey
  <2>2. armed' = armed + 1 /\ UNCHANGED <<tree, hive, watches, due, c>>
    BY <1>2 DEF NtNotifyChangeKey
  <2>3. armed \in Nat /\ due \subseteq 1..armed /\ watches \subseteq Watch
    BY <1>0, Zenon DEF RegistryTypeOK
  <2>4. armed' \in Nat /\ 1..armed \subseteq 1..armed' /\ armed' \in 1..armed' /\ armed' \notin 1..armed
    BY <2>2, <2>3
  <2>5. watcher' \in Watch' /\ watcher'.id = armed'
    BY <2>1, <2>2, <2>4 DEF Watch
  <2>6. Watch \subseteq Watch'
    BY <2>4 DEF Watch
  <2>7. watches \subseteq Watch'
    BY <2>3, <2>6
  <2>8. due' \subseteq 1..armed'
    BY <2>2, <2>3, <2>4, Zenon
  <2>9. RegistryTypeOK'
    BY <1>0, <2>2, <2>4, <2>5, <2>7, <2>8, Zenon DEF RegistryTypeOK
  <2>10. \A wt \in watches : wt.id \in 1..armed
    <3>1. \A wt \in Watch : wt.id \in 1..armed
      BY DEF Watch
    <3> QED
      BY <2>3, <3>1, Zenon
  <2>11. armed' \notin due \cup {wt.id : wt \in watches}
    BY <2>3, <2>4, <2>10, Zenon
  <2>12. WatchInv'
    BY <1>0, <1>1, <2>2, <2>5, <2>11, Zenon DEF WatchInv
  <2> QED
    BY <2>9, <2>12 DEF RegistryInv
<1>3. CASE watch
  <2>1. /\ watcher # None /\ watches' = watches \cup {watcher} /\ watcher' = None
        /\ UNCHANGED <<tree, hive, due, c, armed>>
    BY <1>3 DEF watch
  <2>2. watcher \in Watch /\ watches \subseteq Watch /\ Watch' = Watch
    BY <1>0, <2>1, Zenon DEF RegistryTypeOK, Watch
  <2>3. watches' \subseteq Watch'
    BY <2>1, <2>2, Zenon
  <2>4. RegistryTypeOK'
    BY <1>0, <2>1, <2>2, <2>3, Zenon DEF RegistryTypeOK
  <2>5. watcher.id \notin due \cup {wt.id : wt \in watches}
    BY <1>0, <2>1, Zenon DEF WatchInv
  <2>6. ASSUME NEW wt \in watches', wt.id \in due' PROVE \E y \in Callers : Owes(y, wt)'
    <3>1. wt \in watches /\ wt.id \in due
      BY <2>1, <2>5, <2>6, Zenon
    <3> QED
      BY <1>0, <1>1, <2>1, <3>1, Zenon DEF WatchInv
  <2>7. ASSUME NEW wt \in watches', NEW v \in watches', wt.id = v.id PROVE wt = v
    BY <1>0, <2>1, <2>5, <2>7, Zenon DEF WatchInv
  <2>8. WatchInv'
    BY <2>1, <2>6, <2>7, Zenon DEF WatchInv
  <2> QED
    BY <2>4, <2>8 DEF RegistryInv
<1> QED
  BY <1>2, <1>3

\* Every watch is gone after a boot, and the tree is what the file holds.
LEMMA RebootStep ==
    ASSUME RegistryInv, load_hives
    PROVE  RegistryInv'
<1>0. RegistryTypeOK
  BY DEF RegistryInv
<1>1. /\ tree' = Stored /\ watches' = {} /\ due' = {} /\ watcher' = None
      /\ c' = [x \in Callers |-> Idle] /\ UNCHANGED <<hive, armed>>
  BY Zenon DEF load_hives
<1>2. tree' \in Trees
  BY <1>0, <1>1, StoredTree, Zenon
<1>3. watches' \subseteq Watch'
  BY <1>1, Zenon
<1>4. c' \in [Callers -> Caller] /\ \A x \in Callers : c'[x] = Idle
  BY <1>1, IdleCaller, Zenon
<1>5. Idle.pc # "write" /\ Idle.pc = "idle"
  BY IdleCaller
<1>6. RegistryTypeOK'
  BY <1>0, <1>1, <1>2, <1>3, <1>4, <1>5, Zenon DEF RegistryTypeOK
<1>7. WatchInv'
  BY <1>1, <1>3, Zenon DEF WatchInv
<1> QED
  BY <1>6, <1>7 DEF RegistryInv

\* The seeded registry has the invariant.
LEMMA RegistryStart == RegistryInit => RegistryInv
<1> SUFFICES ASSUME RegistryInit PROVE RegistryInv
  OBVIOUS
<1>1. /\ tree = Seed /\ hive = None /\ watches = {} /\ due = {} /\ watcher = None
      /\ c = [x \in Callers |-> Idle] /\ armed = 0
  BY DEF RegistryInit
<1>2. tree \in Trees
  BY <1>1, SeedTree, Zenon
<1>3. watches \subseteq Watch /\ armed \in Nat
  BY <1>1
<1>4. c \in [Callers -> Caller] /\ \A x \in Callers : c[x] = Idle
  BY <1>1, IdleCaller, Zenon
<1>5. Idle.pc # "write" /\ Idle.pc = "idle"
  BY IdleCaller
<1>6. RegistryTypeOK
  BY <1>1, <1>2, <1>3, <1>4, <1>5, Zenon DEF RegistryTypeOK
<1>7. WatchInv
  BY <1>1, <1>3, Zenon DEF WatchInv
<1> QED
  BY <1>6, <1>7 DEF RegistryInv

\* The services begin a call on a key.
LEMMA ServiceStep ==
    ASSUME RegistryInv, NEW x \in Callers,
           NtCreateKey(x) \/ KernelCreate(x) \/ NtSetValueKey(x) \/ NtDeleteKey(x)
    PROVE  \E op \in {"create", "set", "delete"}, k \in Keys, uid \in Uids, val \in Values \cup {None} :
                Begin(x, op, k, uid, val)
<1>1. CASE NtCreateKey(x) \/ KernelCreate(x)
  BY <1>1, Zenon DEF NtCreateKey, KernelCreate
<1>2. CASE NtSetValueKey(x)
  BY <1>2, Zenon DEF NtSetValueKey
<1>3. CASE NtDeleteKey(x)
  BY <1>3, Zenon DEF NtDeleteKey
<1> QED
  BY <1>1, <1>2, <1>3

\* Every step keeps the invariant.
LEMMA RegistryStep == RegistryInv /\ [RegistryNext]_registryVars => RegistryInv'
<1> SUFFICES ASSUME RegistryInv, [RegistryNext]_registryVars PROVE RegistryInv'
  OBVIOUS
<1>1. ASSUME NEW x \in Callers,
             NtCreateKey(x) \/ KernelCreate(x) \/ NtSetValueKey(x) \/ NtDeleteKey(x)
      PROVE  RegistryInv'
  BY <1>1, ServiceStep, BeginStep, Zenon
<1>2. ASSUME NEW x \in Callers, Change(x) \/ Snapshot(x) \/ WriteHive(x) \/ Fire(x)
      PROVE  RegistryInv'
  BY <1>2, ChangeStep, PersistStep, FireStep, Zenon
<1>3. CASE NtNotifyChangeKey \/ watch \/ load_hives
  BY <1>3, ArmStep, RebootStep, Zenon
<1>4. CASE UNCHANGED registryVars
  <2>1. UNCHANGED <<tree, hive, watches, due, watcher, c, armed>>
    BY <1>4 DEF registryVars
  <2>2. RegistryTypeOK'
    BY <2>1, Zenon DEF RegistryInv, RegistryTypeOK, Watch
  <2>3. \A y \in Callers : \A wt : Owes(y, wt) => Owes(y, wt)'
    BY <2>1, Zenon DEF Owes, Changed, watch_matches
  <2>4. WatchInv'
    BY <2>1, <2>2, <2>3, Zenon DEF RegistryInv, WatchInv
  <2> QED
    BY <2>2, <2>4 DEF RegistryInv
<1> QED
  BY <1>1, <1>2, <1>3, <1>4, Zenon DEF RegistryNext

\* The registry's invariant is inductive, for any callers and keys (registry.rs):
\* the tree stays closed under parents, every file is the image of a tree, and
\* every watch that is due has a caller that will signal it.
THEOREM RegistryInvariance == RegistrySpec => []RegistryInv
BY RegistryStart, RegistryStep, PTL DEF RegistrySpec

\* No watch sleeps over a change it was promised, however callers, arming and
\* firing interleave (watch, watch_matches, fire).
THEOREM RegistryWatches == RegistrySpec => []NoMissedWatch
<1>1. RegistryInv => NoMissedWatch
  <2> SUFFICES ASSUME RegistryInv, NEW wt \in watches, wt.id \in due
               PROVE  \E x \in Callers : ~At(x, "idle")
    BY DEF NoMissedWatch
  <2>2. PICK x \in Callers : Owes(x, wt)
    BY Zenon DEF RegistryInv, WatchInv
  <2>3. c[x].pc # "idle"
    BY <2>2 DEF Owes
  <2> QED
    BY <2>3 DEF At
<1> QED
  BY <1>1, RegistryInvariance, PTL

\* One caller at a time: the file falls behind the tree only inside a call.
LEMMA HiveStep ==
    ASSUME NEW x, Callers = {x}, RegistryInv, HiveInv, [RegistryNext]_registryVars
    PROVE  HiveInv'
<1>0. x \in Callers /\ RegistryTypeOK /\ c[x] \in Caller /\ c \in [Callers -> Caller]
  BY Zenon DEF RegistryInv, RegistryTypeOK
<1>1. /\ c[x].pc \in {"idle", "change", "fire"} => Stored = tree
      /\ c[x].pc = "write" => c[x].snap = serialize_hive(tree)
  BY <1>0, Zenon DEF HiveInv
<1>2. hive' = hive => Stored' = Stored
  BY Zenon DEF Stored
<1>3. ASSUME c'[x].pc \in {"idle", "change", "fire"} => Stored' = tree',
             c'[x].pc = "write" => c'[x].snap = serialize_hive(tree')
      PROVE  HiveInv'
  BY <1>3, Zenon DEF HiveInv
<1>4. CASE NtCreateKey(x) \/ KernelCreate(x) \/ NtSetValueKey(x) \/ NtDeleteKey(x)
  <2>1. PICK op \in {"create", "set", "delete"}, k \in Keys, uid \in Uids, val \in Values \cup {None} :
            Begin(x, op, k, uid, val)
    BY <1>0, <1>4, ServiceStep, Zenon
  <2> DEFINE r == [Idle EXCEPT !.pc = "change", !.op = op, !.path = k, !.uid = uid,
                               !.val = val, !.existed = Exists(k)]
  <2>2. /\ c[x].pc = "idle" /\ c' = [c EXCEPT ![x] = r] /\ UNCHANGED <<tree, hive>>
    BY <2>1, Zenon DEF Begin, At
  <2>3. r.pc # "write"
    BY DEF Idle
  <2> HIDE DEF r
  <2>4. c'[x] = r
    BY <1>0, <2>2, Zenon
  <2> QED
    BY <1>1, <1>2, <1>3, <2>2, <2>3, <2>4, Zenon
<1>5. CASE Change(x)
  <2> DEFINE done == c[x].op = "create" \/ Exists(c[x].path)
             r == IF done THEN [c[x] EXCEPT !.pc = "snap"] ELSE Idle
  <2>1. c[x].pc = "change" /\ c' = [c EXCEPT ![x] = r] /\ hive' = hive
    BY <1>5, Zenon DEF Change, At
  <2>2. ~done => tree' = tree
    BY <1>0, <1>5, ChangeTree, Zenon
  <2>3. c'[x] = r
    BY <1>0, <2>1, Zenon
  <2>4. CASE done
    <3>1. r.pc = "snap"
      BY <1>0, <2>4 DEF Caller
    <3>2. c'[x].pc \notin {"idle", "change", "fire"} /\ c'[x].pc # "write"
      BY <2>3, <3>1
    <3> QED
      BY <1>3, <3>2, Zenon
  <2>5. CASE ~done
    <3>1. r = Idle
      BY <2>5
    <3>2. c'[x].pc # "write"
      BY <2>3, <3>1, IdleCaller
    <3> QED
      BY <1>1, <1>2, <1>3, <2>1, <2>2, <2>5, <3>2, Zenon
  <2> QED
    BY <2>4, <2>5
<1>6. CASE Snapshot(x)
  <2> DEFINE r == [c[x] EXCEPT !.pc = "write", !.snap = serialize_hive(tree)]
  <2>1. c' = [c EXCEPT ![x] = r] /\ UNCHANGED <<tree, hive>>
    BY <1>6, Zenon DEF Snapshot
  <2>2. r.pc = "write" /\ r.snap = serialize_hive(tree)
    BY <1>0 DEF Caller
  <2> HIDE DEF r
  <2>3. c'[x] = r
    BY <1>0, <2>1, Zenon
  <2>4. c'[x].pc \notin {"idle", "change", "fire"}
    BY <2>2, <2>3
  <2> QED
    BY <1>3, <2>1, <2>2, <2>3, <2>4, Zenon
<1>7. CASE WriteHive(x)
  <2> DEFINE r == IF c[x].op = "create" /\ c[x].existed THEN Idle ELSE [c[x] EXCEPT !.pc = "fire"]
  <2>1. c[x].pc = "write" /\ hive' = c[x].snap /\ c' = [c EXCEPT ![x] = r] /\ tree' = tree
    BY <1>7, Zenon DEF WriteHive, At
  <2>2. r.pc # "write"
    <3>1. Idle.pc # "write"
      BY IdleCaller
    <3>2. [c[x] EXCEPT !.pc = "fire"].pc # "write"
      BY <1>0 DEF Caller
    <3> QED
      BY <3>1, <3>2, Zenon
  <2> HIDE DEF r
  <2>3. c'[x] = r
    BY <1>0, <2>1, Zenon
  <2>4. tree \in Trees /\ hive' = serialize_hive(tree)
    BY <1>0, <1>1, <2>1, Zenon DEF RegistryTypeOK
  <2>5. hive' # None
    BY <2>4, HiveAssumption, Zenon DEF HiveFiles
  <2>6. Stored' = deserialize_hive(hive')
    BY <2>5, Zenon DEF Stored
  <2>7. Stored' = tree'
    BY <2>1, <2>4, <2>6, RoundTrip, Zenon
  <2> QED
    BY <1>3, <2>2, <2>3, <2>7, Zenon
<1>8. CASE Fire(x)
  <2>1. c[x].pc = "fire" /\ c' = [c EXCEPT ![x] = Idle] /\ UNCHANGED <<tree, hive>>
    BY <1>8, Zenon DEF Fire, At
  <2>2. c'[x] = Idle
    BY <1>0, <2>1, Zenon
  <2>3. c'[x].pc # "write"
    BY <2>2, IdleCaller
  <2>4. Stored' = tree'
    BY <1>1, <1>2, <2>1, Zenon
  <2> QED
    BY <1>3, <2>3, <2>4, Zenon
<1>9. CASE NtNotifyChangeKey \/ watch \/ UNCHANGED registryVars
  <2>1. UNCHANGED <<tree, hive, c>>
    BY <1>9 DEF NtNotifyChangeKey, watch, registryVars
  <2> QED
    BY <1>1, <1>2, <1>3, <2>1, Zenon
<1>10. CASE load_hives
  <2>1. tree' = Stored /\ hive' = hive /\ c' = [y \in Callers |-> Idle]
    BY <1>10, Zenon DEF load_hives
  <2>2. c'[x].pc # "write"
    BY <1>0, <2>1, IdleCaller
  <2>3. Stored' = tree'
    BY <1>2, <2>1, Zenon
  <2> QED
    BY <1>3, <2>2, <2>3, Zenon
<1> QED
  BY <1>4, <1>5, <1>6, <1>7, <1>8, <1>9, <1>10, Zenon DEF RegistryNext

\* With one caller at a time, a boot would answer as the registry does now whenever
\* no call is under way: for any keys, owners, values and power losses (persist,
\* serialize_hive, deserialize_hive, load_hives).
THEOREM RegistryHive ==
    ASSUME NEW x, Callers = {x}
    PROVE  RegistrySpec => []HiveIsCurrent
<1>1. RegistryInit => HiveInv
  <2> SUFFICES ASSUME RegistryInit PROVE HiveInv
    OBVIOUS
  <2>1. Stored = tree
    BY DEF RegistryInit, Stored
  <2>2. \A y \in Callers : c[y] = Idle
    BY DEF RegistryInit
  <2>3. \A y \in Callers : c[y].pc # "write"
    BY <2>2, IdleCaller
  <2> QED
    BY <2>1, <2>3, Zenon DEF HiveInv
<1>2. RegistryInv /\ HiveInv /\ [RegistryNext]_registryVars => HiveInv'
  BY HiveStep
<1>3. HiveInv => HiveIsCurrent
  <2> SUFFICES ASSUME HiveInv, \A y \in Callers : At(y, "idle")
               PROVE  \E stored \in {Stored} : \A k \in AllKeys : Answers(tree, k) = Answers(stored, k)
    BY DEF HiveIsCurrent
  <2>1. c[x].pc = "idle"
    BY DEF At
  <2>2. Stored = tree
    BY <2>1 DEF HiveInv
  <2> QED
    BY <2>2, Zenon
<1> QED
  BY <1>1, <1>2, <1>3, RegistryInvariance, PTL DEF RegistrySpec

=============================================================================
