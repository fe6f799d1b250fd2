------------------------------- MODULE Memory -------------------------------
(***************************************************************************)
(* Physical frames and address spaces (kernel/src/mm.rs, vmm.rs, the       *)
(* Process and Section types of process.rs, the memory services of nt.rs   *)
(* and syscall.rs): who owns a frame, from the allocator through pages,    *)
(* page tables, sections and their views, fork and execve, and back.       *)
(*                                                                         *)
(* A call is one step: map_page_in runs under FRAME_ALLOC, and the address *)
(* ranges of two calls are disjoint.  A page is <<"image", 1>>, <<"brk",   *)
(* n>> or <<"map", n>>, the bump-allocated rest, where no address is       *)
(* handed out twice (the unmapped page between two allocations is left     *)
(* out).  The PML4 and the tables under it, taken as pages are mapped and  *)
(* freed by the same walk, are one frame of the space: its root.  The      *)
(* kernel half is shared and never freed.                                  *)
(***************************************************************************)
EXTENDS Naturals, Options

CONSTANTS
    Frames,     \* physical frames the allocator starts with
    Spaces,     \* address spaces ever created
    Sections,   \* section objects ever created
    MaxBrk,     \* pages below BRK_MAX
    MaxVa       \* bump-allocated page addresses of a space

ASSUME MemoryAssumption == MaxBrk \in Nat /\ MaxVa \in Nat /\ None \notin Frames \cup Sections

VARIABLES
    free,       \* how often a frame is on the free list
    st,         \* Spaces -> "unused", "loading", "copying", "live", "lost", "gone"
    root,       \* Spaces -> the PML4 frame
    pte,        \* Spaces -> page -> frame
    prot,       \* Spaces -> page -> "r", "rw", "rx", "rwx"
    brk, next,  \* Spaces -> program break, next bump address
    view,       \* Spaces -> page -> the section viewed there
    sec,        \* Sections -> frame
    parent,     \* Spaces -> the space a fork is still copying
    halted      \* a panic

vars == <<free, st, root, pte, prot, brk, next, view, sec, parent, halted>>

Pages == ({"image"} \X {1}) \cup ({"brk"} \X (1..MaxBrk)) \cup ({"map"} \X (1..MaxVa))

Init ==
    /\ free = [f \in Frames |-> 1]
    /\ st = [s \in Spaces |-> "unused"]
    /\ root = [s \in Spaces |-> None]
    /\ pte = [s \in Spaces |-> [p \in Pages |-> None]]
    /\ prot = [s \in Spaces |-> [p \in Pages |-> "rw"]]
    /\ brk = [s \in Spaces |-> 0] /\ next = [s \in Spaces |-> 1]
    /\ view = [s \in Spaces |-> [p \in Pages |-> None]]
    /\ sec = [x \in Sections |-> None]
    /\ parent = [s \in Spaces |-> None]
    /\ halted = FALSE

----------------------------------------------------------------------------
(* The allocator. *)

Free == {f \in Frames : free[f] > 0}

\* The head of the free list; which frame that is does not matter.
alloc == IF Free = {} THEN None ELSE CHOOSE f \in Free : TRUE

Taken(F) == [f \in Frames |-> IF f \in F THEN free[f] - 1 ELSE free[f]]
dealloc(F) == [f \in Frames |-> IF f \in F THEN free[f] + 1 ELSE free[f]]

\* A failed expect: no frame where one is needed, or a page that is there already.
Panic ==
    /\ halted' = TRUE
    /\ UNCHANGED <<free, st, root, pte, prot, brk, next, view, sec, parent>>

\* A live space that no fork is reading can be running.
Running(s) == ~halted /\ st[s] = "live" /\ \A c \in Spaces : parent[c] # s

----------------------------------------------------------------------------
(* Pages. *)

\* map_page_in at p of frame f, or of a fresh one when f is None.
map_page_in(s, p, f, mode) ==
    LET page == IF f = None THEN alloc ELSE f
    IN /\ page # None /\ pte[s][p] = None
       /\ free' = IF f = None THEN Taken({page}) ELSE free
       /\ pte' = [pte EXCEPT ![s][p] = page]
       /\ prot' = [prot EXCEPT ![s][p] = mode]

map_zeroed(s, p) == map_page_in(s, p, None, "rw")
unmap_page_in(s, p) == pte' = [pte EXCEPT ![s][p] = None]
page_present_in(s, p) == pte[s][p] # None
protect_page_in(s, P, mode) ==
    prot' = [prot EXCEPT ![s] = [p \in Pages |-> IF p \in P THEN mode ELSE prot[s][p]]]

\* Process::new takes the PML4 frame.
NewSpace(s) ==
    /\ ~halted /\ st[s] = "unused" /\ Free # {}
    /\ root' = [root EXCEPT ![s] = alloc]
    /\ free' = Taken({alloc})
    /\ st' = [st EXCEPT ![s] = "loading"]
    /\ UNCHANGED <<pte, prot, brk, next, view, sec, parent, halted>>

\* elf::load or pe::load maps the image, and may fail after that: the space is
\* dropped, its frames are not.
Load(s) ==
    /\ ~halted /\ st[s] = "loading"
    /\ map_page_in(s, <<"image", 1>>, None, "rx")
    /\ \E result \in {"live", "lost"} : st' = [st EXCEPT ![s] = result]
    /\ UNCHANGED <<root, brk, next, view, sec, parent, halted>>

\* brk, a page at a time: growing maps the page; shrinking only moves the break.
Grow(s) ==
    /\ Running(s) /\ brk[s] < MaxBrk
    /\ map_zeroed(s, <<"brk", brk[s] + 1>>)
    /\ brk' = [brk EXCEPT ![s] = @ + 1]
    /\ UNCHANGED <<st, root, next, view, sec, parent, halted>>
Shrink(s) ==
    /\ Running(s) /\ brk[s] > 0
    /\ brk' = [brk EXCEPT ![s] = @ - 1]
    /\ UNCHANGED <<free, st, root, pte, prot, next, view, sec, parent, halted>>
\* Growing again over a page that a shrink left mapped.
Regrow(s) ==
    /\ Running(s) /\ brk[s] < MaxBrk /\ pte[s][<<"brk", brk[s] + 1>>] # None
    /\ Panic

\* One page of fresh memory at the next address.
mmap_anon(s) ==
    /\ next[s] <= MaxVa
    /\ map_zeroed(s, <<"map", next[s]>>)
    /\ next' = [next EXCEPT ![s] = @ + 1]

\* Also mmap, VirtualAlloc and HeapAlloc, which end in the same mmap_anon, and
\* new_user_stack, which does the same.
NtAllocateVirtualMemory(s) ==
    /\ Running(s)
    /\ mmap_anon(s)
    /\ UNCHANGED <<st, root, brk, view, sec, parent, halted>>

\* alloc fails in one of the calls above, and expect panics.
OutOfMemory(s) == Running(s) /\ Free = {} /\ Panic

\* A range whose pages are all there; else nothing changes.
protect(s, P, mode) ==
    /\ \A p \in P : page_present_in(s, p)
    /\ protect_page_in(s, P, mode)

\* The protections that PAGE_* flags may ask for; others are refused.
win32_protect_to_wx == {"r", "rw", "rx", "rwx"}

\* Also VirtualProtect.
NtProtectVirtualMemory(s) ==
    /\ Running(s)
    /\ \E P \in SUBSET {p \in Pages : p[1] = "map"} \ {{}}, mode \in win32_protect_to_wx :
        protect(s, P, mode)
    /\ UNCHANGED <<free, st, root, pte, brk, next, view, sec, parent, halted>>

----------------------------------------------------------------------------
(* Sections. *)

\* NtCreateSection.
NewSection(x) ==
    /\ ~halted /\ sec[x] = None /\ Free # {}
    /\ sec' = [sec EXCEPT ![x] = alloc]
    /\ free' = Taken({alloc})
    /\ UNCHANGED <<st, root, pte, prot, brk, next, view, parent, halted>>

\* The section's own frame, and a note of the view.
map_section_view(s, x) ==
    /\ next[s] <= MaxVa
    /\ map_page_in(s, <<"map", next[s]>>, sec[x], "rw")
    /\ view' = [view EXCEPT ![s][<<"map", next[s]>>] = x]
    /\ next' = [next EXCEPT ![s] = @ + 1]

NtMapViewOfSection(s, x) ==
    /\ Running(s) /\ sec[x] # None
    /\ map_section_view(s, x)
    /\ UNCHANGED <<st, root, brk, sec, parent, halted>>

\* Mistake: the frame goes back to the allocator with its mapping.
UnmapViewFrees(s, p) ==
    /\ Running(s) /\ view[s][p] # None
    /\ unmap_page_in(s, p)
    /\ view' = [view EXCEPT ![s][p] = None]
    /\ free' = dealloc({pte[s][p]})
    /\ UNCHANGED <<st, root, prot, brk, next, sec, parent, halted>>

\* unmap_view: flush, unmap, forget.  The frame stays the section's.
UnmapView(s, p) ==
    /\ Running(s) /\ view[s][p] # None
    /\ unmap_page_in(s, p)
    /\ view' = [view EXCEPT ![s][p] = None]
    /\ UNCHANGED <<free, st, root, prot, brk, next, sec, parent, halted>>

----------------------------------------------------------------------------
(* fork, and the end of a space. *)

copy_alloc_state_from(c, s) ==
    /\ brk' = [brk EXCEPT ![c] = brk[s]]
    /\ next' = [next EXCEPT ![c] = next[s]]

\* fork: a new space with the parent's break and bump address.
Fork(s, c) ==
    /\ Running(s) /\ st[c] = "unused" /\ Free # {}
    /\ root' = [root EXCEPT ![c] = alloc]
    /\ free' = Taken({alloc})
    /\ st' = [st EXCEPT ![c] = "copying"]
    /\ parent' = [parent EXCEPT ![c] = s]
    /\ copy_alloc_state_from(c, s)
    /\ UNCHANGED <<pte, prot, view, sec, halted>>

\* for_each_user_page of the parent: a private copy, also of what it views.
CopyPage(c) ==
    /\ ~halted /\ st[c] = "copying"
    /\ LET Left == {q \in Pages : page_present_in(parent[c], q) /\ ~page_present_in(c, q)}
       IN /\ Left # {}
          /\ LET p == CHOOSE q \in Left : TRUE
             IN map_page_in(c, p, None, prot[parent[c]][p])
    /\ UNCHANGED <<st, root, brk, next, view, sec, parent, halted>>

ForkDone(c) ==
    /\ ~halted /\ st[c] = "copying"
    /\ \A q \in Pages : page_present_in(parent[c], q) => page_present_in(c, q)
    /\ st' = [st EXCEPT ![c] = "live"]
    /\ parent' = [parent EXCEPT ![c] = None]
    /\ UNCHANGED <<free, root, pte, prot, brk, next, view, sec, halted>>

\* free_user_address_space, once every view is unmapped: pages and PML4.
OwnFrames(s) ==
    ({root[s]} \cup {pte[s][p] : p \in {q \in Pages : view[s][q] = None}}) \ {None}

\* teardown: by execve of the space it replaces, by reap of the last thread's.
Teardown(s) ==
    /\ Running(s)
    /\ free' = dealloc(OwnFrames(s))
    /\ st' = [st EXCEPT ![s] = "gone"]
    /\ root' = [root EXCEPT ![s] = None]
    /\ pte' = [pte EXCEPT ![s] = [p \in Pages |-> None]]
    /\ view' = [view EXCEPT ![s] = [p \in Pages |-> None]]
    /\ UNCHANGED <<prot, brk, next, sec, parent, halted>>

----------------------------------------------------------------------------

Next ==
    \/ \E s \in Spaces :
        \/ NewSpace(s) \/ Load(s) \/ Grow(s) \/ Shrink(s) \/ Regrow(s)
        \/ NtAllocateVirtualMemory(s) \/ OutOfMemory(s) \/ NtProtectVirtualMemory(s)
        \/ CopyPage(s) \/ ForkDone(s) \/ Teardown(s)
    \/ \E x \in Sections : NewSection(x)
    \/ \E s \in Spaces, x \in Sections : NtMapViewOfSection(s, x)
    \/ \E s \in Spaces, p \in Pages : UnmapView(s, p)
    \/ \E s, c \in Spaces : Fork(s, c)

Spec == Init /\ [][Next]_vars

----------------------------------------------------------------------------
(* Properties. *)

\* What can own a frame, and the frame it owns: a root, a page that is mapped and
\* not a view, or a section.
Owners == ({"root"} \X Spaces) \cup ({"page"} \X (Spaces \X Pages)) \cup ({"section"} \X Sections)

PrivatePage(s, p) == IF view[s][p] = None THEN pte[s][p] ELSE None

Owned(o) ==
    CASE o[1] = "root" -> root[o[2]]
      [] o[1] = "page" -> PrivatePage(o[2][1], o[2][2])
      [] o[1] = "section" -> sec[o[2]]

\* A view shows the frame of its section.
ViewInv ==
    \A s \in Spaces, p \in Pages :
        view[s][p] # None => pte[s][p] # None /\ pte[s][p] = sec[view[s][p]]

\* Every frame has exactly one owner: it is on the free list once, or it is one root,
\* one page or one section, whatever spaces are forked, torn down or share views; and
\* a view shows the frame its section owns for as long as it is mapped (alloc,
\* dealloc, fork, map_section_view, unmap_view, free_user_address_space).
FramesOwnedOnce ==
    /\ \A f \in Frames :
            LET owners == {o \in Owners : Owned(o) = f}
            IN (free[f] = 1 /\ owners = {}) \/ (free[f] = 0 /\ \E o \in Owners : owners = {o})
    /\ ViewInv

----------------------------------------------------------------------------
(* What keeps it: the inductive invariant. *)

TypeOK ==
    /\ free \in [Frames -> {0, 1}]
    /\ st \in [Spaces -> {"unused", "loading", "copying", "live", "lost", "gone"}]
    /\ root \in [Spaces -> Frames \cup {None}]
    /\ pte \in [Spaces -> [Pages -> Frames \cup {None}]]
    /\ view \in [Spaces -> [Pages -> Sections \cup {None}]]
    /\ sec \in [Sections -> Frames \cup {None}]
    /\ brk \in [Spaces -> Nat] /\ next \in [Spaces -> Nat \ {0}]

\* No two owners have the same frame, none has one that is free, and a frame
\* that is not free has one.
OwnerInv ==
    /\ \A o, q \in Owners : Owned(o) # None /\ Owned(o) = Owned(q) => o = q
    /\ \A o \in Owners : Owned(o) # None => free[Owned(o)] = 0
    /\ \A f \in Frames : free[f] = 0 => \E o \in Owners : Owned(o) = f

IInv ==
    /\ TypeOK /\ OwnerInv /\ ViewInv
    /\ \A s \in Spaces : st[s] = "unused" => root[s] = None

=============================================================================
