------------------------------- MODULE Loader -------------------------------
(***************************************************************************)
(* The PE loader (kernel/src/pe.rs, with the export lookups of nt.rs):     *)
(* load() of an executable, the recursive load of the DLLs it imports,     *)
(* binding through forwarders, static TLS, and the ring-3 bootstrap that   *)
(* runs TLS callbacks and DllMains before the entry point.                 *)
(*                                                                         *)
(* An image is what its headers say: the modules it imports from, in       *)
(* order; whether its export is an address, forwards to another DLL or is  *)
(* missing; whether it has a TLS directory, relocations, a DllMain, and a  *)
(* file in System32 whose headers pass.  One export stands for a module's  *)
(* table, and its address for the module.  The call stack of bind_imports, *)
(* resolve_module and load_dll is `stack'.                                 *)
(***************************************************************************)
EXTENDS Naturals, Sequences, FiniteSets, SequencesExt

CONSTANTS
    Exe, Sys,       \* the executable; ntdll and kernel32, synthetic, as one
    Dlls,           \* names of DLLs
    Images,         \* the worlds: functions from Dlls and Exe to images
    MaxDepth,       \* MAX_DLL_DEPTH
    MaxForward,     \* hops of a forwarder chain
    MaxTls,         \* MAX_TLS_MODS
    MaxLdr,         \* MAX_FILE_LDR_MODS
    MaxInit,        \* calls the bootstrap page has room for
    None, Empty     \* an export that is an address; one that is not there

VARIABLES
    image,      \* the world
    pc,         \* "load", "error", "init", "entered", "exited"
    stack,      \* a frame per image being bound: [m, i], i its next import
    mods,       \* Loader.mods: registered modules in order
    by,         \* whose import had a DLL loaded
    iat,        \* module -> sequence of bound targets
    mapped,     \* images whose sections are mapped
    tls,        \* modules by TLS index
    todo, ran   \* the bootstrap's list; what it has called

vars == <<image, pc, stack, mods, by, iat, mapped, tls, todo, ran>>

Init ==
    /\ image \in Images
    /\ pc = "load"
    /\ stack = <<[m |-> Exe, i |-> 1]>>
    /\ mods = <<Sys>>
    /\ by = [d \in Dlls |-> None]
    /\ iat = [m \in Dlls \cup {Exe} |-> <<>>]
    /\ mapped = {} /\ tls = <<>>
    /\ todo = <<>> /\ ran = <<>>

----------------------------------------------------------------------------
(* Exports. *)

Top == stack[Len(stack)]
Imports(m) == image[m].imports
Forward(d) == IF d = Sys THEN None ELSE image[d].forward

\* The modules an export of d leads through: Hops(d)[0] = d, then each forward.
Hops(d) ==
    LET hop[n \in 0..MaxForward + 2] ==
            IF n = 0 THEN d
            ELSE IF hop[n - 1] \in {None, Empty} THEN None ELSE Forward(hop[n - 1])
    IN hop

TooDeep(d) == Hops(d)[MaxForward + 1] # None

\* The module whose address the chain ends at, or Empty.
Target(d) == Hops(d)[CHOOSE n \in 0..MaxForward + 1 : Hops(d)[n] # None /\ Hops(d)[n + 1] = None]

\* Mistake: the first module's slot is taken for an address.
FirstHop(d) == IF d \in Range(mods) THEN None ELSE d

\* resolve_module for the import, then for each forwarder: what is not loaded yet.
Unresolved(d) ==
    LET Open == {n \in 0..MaxForward + 1 : Hops(d)[n] \notin Range(mods) \cup {None, Empty}}
    IN IF Open = {} THEN None
       ELSE Hops(d)[CHOOSE n \in Open : \A k \in Open : n <= k]

----------------------------------------------------------------------------
(* Loading. *)

Error ==
    /\ pc' = "error"
    /\ UNCHANGED <<image, stack, mods, by, iat, mapped, tls, todo, ran>>

Binding(d) ==
    /\ pc = "load"
    /\ Top.i <= Len(Imports(Top.m))
    /\ d = Imports(Top.m)[Top.i]

\* stage_image at the base the caller picked: an arena slot is never the preferred
\* base, so a DLL must have relocations.
Stageable(d) == image[d].file /\ image[d].reloc

\* load_dll, up to its own imports: registered first, so that a cycle ends.
load_dll(d) ==
    /\ mods' = Append(mods, d)
    /\ by' = [by EXCEPT ![d] = Top.m]
    /\ stack' = Append(stack, [m |-> d, i |-> 1])
    /\ UNCHANGED <<image, pc, iat, mapped, tls, todo, ran>>

\* resolve_module on a miss.
ResolveModule ==
    \E d \in Dlls \cup {Sys} :
        /\ Binding(d) /\ Unresolved(d) # None
        /\ IF Len(stack) > MaxDepth \/ ~Stageable(Unresolved(d))
           THEN Error
           ELSE load_dll(Unresolved(d))

\* bind_imports, one module's thunks: the address the forwarders lead to.
BindImports ==
    \E d \in Dlls \cup {Sys} :
        /\ Binding(d) /\ Unresolved(d) = None
        /\ IF TooDeep(d) \/ Target(d) = Empty THEN Error
           ELSE /\ iat' = [iat EXCEPT ![Top.m] = Append(@, Target(d))]
                /\ stack' = [stack EXCEPT ![Len(stack)].i = @ + 1]
                /\ UNCHANGED <<image, pc, mods, by, mapped, tls, todo, ran>>

Bound == pc = "load" /\ Top.i > Len(Imports(Top.m))
HasTls(m) == image[m].tls

\* The next index, as long as the page has room.
TlsFull(m) == HasTls(m) /\ Len(tls) >= MaxTls
tls_add_module(m) == IF HasTls(m) THEN Append(tls, m) ELSE tls

\* The rest of load_dll: TLS, then every section is mapped, then return.
FinishDll ==
    /\ Bound /\ Top.m # Exe
    /\ IF TlsFull(Top.m) THEN Error
       ELSE /\ tls' = tls_add_module(Top.m)
            /\ mapped' = mapped \cup {Top.m}
            /\ stack' = Front(stack)
            /\ UNCHANGED <<image, pc, mods, by, iat, todo, ran>>

file_mods == SelectSeq(mods, LAMBDA m : m # Sys)

Calls(kind, ms) == [n \in 1..Len(ms) |-> [kind |-> kind, m |-> ms[n]]]
DllMains(ms) == Calls("DllMain", SelectSeq(ms, LAMBDA m : image[m].dllmain))

\* Mistake: the DllMains in load order.
FileModsInOrder == Calls("tls", tls_add_module(Exe)) \o DllMains(file_mods)
\* The bootstrap list: all TLS callbacks, then the DllMains, last loaded first.
InitOrder == Calls("tls", tls_add_module(Exe)) \o DllMains(Reverse(file_mods))

\* The rest of load: the executable's TLS and sections, the fixed pages, and the
\* bootstrap page, which must hold the list.
FinishExe ==
    /\ Bound /\ Top.m = Exe
    /\ IF TlsFull(Exe) \/ Len(InitOrder) > MaxInit THEN Error
       ELSE /\ tls' = tls_add_module(Exe)
            /\ mapped' = mapped \cup {Exe, Sys}
            /\ stack' = <<>>
            /\ todo' = InitOrder
            /\ pc' = "init"
            /\ UNCHANGED <<image, mods, by, iat, ran>>

----------------------------------------------------------------------------
(* The bootstrap page, in ring 3. *)

\* One call of the list: a DllMain that returns FALSE ends the process.
Call ==
    /\ pc = "init" /\ todo # <<>>
    /\ \E result \in BOOLEAN :
        /\ ran' = Append(ran, [call |-> Head(todo), ok |-> result])
        /\ todo' = Tail(todo)
        /\ pc' = IF Head(todo).kind = "DllMain" /\ ~result THEN "exited" ELSE pc
    /\ UNCHANGED <<image, stack, mods, by, iat, mapped, tls>>

Enter ==
    /\ pc = "init" /\ todo = <<>>
    /\ pc' = "entered"
    /\ UNCHANGED <<image, stack, mods, by, iat, mapped, tls, todo, ran>>

Next == ResolveModule \/ BindImports \/ FinishDll \/ FinishExe \/ Call \/ Enter

Spec == Init /\ [][Next]_vars

----------------------------------------------------------------------------
(* Lookups of the running program. *)

\* The Ldr list map_teb_peb links: the executable, ntdll and kernel32 of the
\* synthetic modules, and the first file_mods.
nodes_for == <<Exe, Sys>> \o SubSeq(file_mods, 1, Min({MaxLdr, Len(file_mods)}))

\* The walk of that list, for GetModuleHandle, LdrLoadDll and forwarders.
ldr_find(d) == d \in Range(nodes_for)

\* resolve_slot, for LdrGetProcedureAddress: forwarders lead through the list, and
\* the depth is tested on a forwarder only, so by one hop more than in load.
resolve_slot(d) ==
    IF \/ Hops(d)[MaxForward + 2] # None
       \/ \E n \in 1..MaxForward + 1 : Hops(d)[n] # None /\ ~ldr_find(Hops(d)[n])
    THEN None ELSE Target(d)

----------------------------------------------------------------------------
(* Properties. *)

\* When ring 3 starts, each loaded image is registered once and mapped, its every
\* import is bound to a mapped module that really exports the function, import
\* cycles and forwarders included, and a lookup at run time finds the same address
\* or none (load_dll, bind_imports, resolve_export_idx, ExportDir::resolve_slot).
ImportsBound ==
    pc \in {"init", "entered"} =>
        /\ IsInjective(mods)
        /\ \A m \in mapped \ {Sys} :
            /\ Len(iat[m]) = Len(Imports(m))
            /\ \A n \in 1..Len(iat[m]) :
                /\ iat[m][n] \in mapped /\ Forward(iat[m][n]) = None
                /\ resolve_slot(Imports(m)[n]) \in {iat[m][n], None}
                /\ Len(mods) - 1 <= MaxLdr => resolve_slot(Imports(m)[n]) = iat[m][n]

Place(kind, m) == {n \in 1..Len(ran) : ran[n].call = [kind |-> kind, m |-> m]}

\* The entry point runs after every TLS callback and DllMain, none of which
\* refused, and a DLL that was loaded for another one's import is initialised
\* before it (load's init list, map_bootstrap).
InitialisedInOrder ==
    pc = "entered" =>
        /\ \A m \in Range(mods) \ {Sys} : image[m].dllmain =>
            /\ Cardinality(Place("DllMain", m)) = 1
            /\ \A n \in Place("DllMain", m) : ran[n].ok
        /\ \A m \in mapped \ {Sys} : HasTls(m) => Cardinality(Place("tls", m)) = 1
        /\ \A d, m \in Range(mods) \ {Sys} :
            by[d] = m => \A i \in Place("DllMain", d), j \in Place("DllMain", m) : i < j

=============================================================================
