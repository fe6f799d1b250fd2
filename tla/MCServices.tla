----------------------------- MODULE MCServices -----------------------------
(***************************************************************************)
(* Five components that share no state, each with the instance that        *)
(* exercises it, in one run: a behaviour is one component's, chosen in the *)
(* initial state.  In the others, Memory, Win32 and Session stay in their  *)
(* initial state, and the variables of Loader and Console at Idle.         *)
(***************************************************************************)
EXTENDS Memory, Win32, Session, TLC

CONSTANTS
    Dlls, ImportDepth, MaxForward, MaxTls, MaxLdr, MaxInit,                     \* Loader
    RING_TRBS, MaxBatch, MaxReports, MaxPend, MaxHeld, MaxPortEvents        \* Console

VARIABLES
    part,
    image, at, stack, mods, by, iat, mapped, tls, todo, ran,
    modifiers, held, pend, kbd, hw, ev, hwev, buf, batch, PREV, QUEUE, LINE_LEN,
    SAK_ACTIVE, SAK_BUF, waking, asleep, taken, entered, seen, sent, ports

loaderVars == <<image, at, stack, mods, by, iat, mapped, tls, todo, ran>>
consoleVars == <<modifiers, held, pend, kbd, hw, ev, hwev, buf, batch, PREV, QUEUE, LINE_LEN,
                 SAK_ACTIVE, SAK_BUF, waking, asleep, taken, entered, seen, sent, ports>>
allVars == <<part, vars, loaderVars, win32Vars, sessionVars, consoleVars>>

----------------------------------------------------------------------------
(* The components.  Names that two of them use are told apart here. *)

\* Import graphs over three DLLs: trees, chains, diamonds, cycles, a forwarder that
\* is fine, circular, to itself, or missing; with and without TLS; a DLL without a file.
Lists(S) == {<<>>} \cup {<<a>> : a \in S} \cup {<<q[1], q[2]>> : q \in {q \in S \X S : q[1] # q[2]}}
Img(i, f, t, m, x) ==
    [imports |-> i, forward |-> f, tls |-> t, reloc |-> TRUE, dllmain |-> m, file |-> x]
MCImages ==
    {[m \in Dlls \cup {"exe"} |->
        CASE m = "exe" -> Img(ie, "none", TRUE, FALSE, TRUE)
          [] m = "a" -> Img(ia, "none", t, TRUE, TRUE)
          [] m = "b" -> Img(ib, fb, TRUE, TRUE, TRUE)
          [] m = "c" -> Img(ic, "none", FALSE, TRUE, x)]
      : ie \in {<<"a", "b">>, <<"b">>, <<"b", "a">>, <<"b", "c">>},
        ia \in Lists({"b", "c"}), ib \in Lists({"a", "c", "sys"}), ic \in {<<>>, <<"a">>},
        fb \in {"none", "c", "a", "b", "empty"}, t \in BOOLEAN, x \in BOOLEAN}
L == INSTANCE Loader WITH Exe <- "exe", Sys <- "sys", None <- "none", Empty <- "empty",
        Images <- MCImages, MaxDepth <- ImportDepth, pc <- at

\* An empty name, a plain one, one with the store's separator, one with the path's.
MCNames == {<<>>, <<"x">>, <<"x", "=", "y">>, <<"x", "/", "y">>}
MCTokens == {"thos_cred_v1", "name", "rounds", "salt", "hash", "=", "60000", "0", "1", "2", "3",
             "x", "y", "/"} \cup Passwords

K == INSTANCE Console WITH mods <- modifiers, typed <- entered, got <- seen

----------------------------------------------------------------------------

Idle == 0
IdleLoader == image = Idle /\ at = Idle /\ stack = Idle /\ mods = Idle /\ by = Idle
    /\ iat = Idle /\ mapped = Idle /\ tls = Idle /\ todo = Idle /\ ran = Idle
IdleConsole == modifiers = Idle /\ held = Idle /\ pend = Idle /\ kbd = Idle /\ hw = Idle
    /\ ev = Idle /\ hwev = Idle /\ buf = Idle /\ batch = Idle /\ PREV = Idle /\ QUEUE = Idle
    /\ LINE_LEN = Idle /\ SAK_ACTIVE = Idle /\ SAK_BUF = Idle /\ waking = Idle /\ asleep = Idle
    /\ taken = Idle /\ entered = Idle /\ seen = Idle /\ sent = Idle /\ ports = Idle

MCInit ==
    /\ part \in {"memory", "loader", "win32", "session", "console"}
    /\ Init /\ Win32Init /\ SessionInit
    /\ IF part = "loader" THEN L!Init ELSE IdleLoader
    /\ IF part = "console" THEN K!Init ELSE IdleConsole

MCNext ==
    \/ part = "memory" /\ Next /\ UNCHANGED <<part, loaderVars, win32Vars, sessionVars, consoleVars>>
    \/ part = "loader" /\ L!Next /\ UNCHANGED <<part, vars, win32Vars, sessionVars, consoleVars>>
    \/ part = "win32" /\ Win32Next /\ UNCHANGED <<part, vars, loaderVars, sessionVars, consoleVars>>
    \/ part = "session" /\ SessionNext /\ UNCHANGED <<part, vars, loaderVars, win32Vars, consoleVars>>
    \/ part = "console" /\ K!Next /\ UNCHANGED <<part, vars, loaderVars, win32Vars, sessionVars>>

MCSpec == MCInit /\ [][MCNext]_allVars

\* Nothing tells the threads of Win32, or the address spaces of Memory, apart.
Symmetry == Permutations(Threads) \cup Permutations(Spaces)

----------------------------------------------------------------------------
(* The properties of Loader and Console, in their behaviours. *)

\* Loader!ImportsBound: load binds every import to the module that defines it.
ImportsBound == part = "loader" => L!ImportsBound

\* Loader!InitialisedInOrder: DLLs are initialised once, dependencies first.
InitialisedInOrder == part = "loader" => L!InitialisedInOrder

\* Console!KeysDelivered: every key is handled once, in order, and where it belongs.
KeysDelivered == part = "console" => K!KeysDelivered

\* Console!LinesKept: backspace never erases an entered line; the buffer has one user.
LinesKept == part = "console" => K!LinesKept

=============================================================================
