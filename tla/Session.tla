------------------------------- MODULE Session -------------------------------
(***************************************************************************)
(* The administrator's account over boots: first-run setup and login       *)
(* (kernel/src/login.rs), the credential store (cred.rs), and the three    *)
(* places that check a password later: login, SYS_ELEVATE (syscall.rs) and *)
(* the secure attention prompt (console.rs sak_finish).                    *)
(*                                                                         *)
(* Text is a sequence of tokens; "=" and "/" are tokens, since the store   *)
(* splits lines at "=" and the home directory is a path.  The password     *)
(* hash is the pair of the password and the salt.  Each file-system call   *)
(* is one step, with a crash possible after it (module Ext2 has the rest). *)
(***************************************************************************)
EXTENDS Naturals, Sequences, Functions, Options

CONSTANTS
    Tokens,         \* what text is made of
    Names,          \* what may be typed as a user name
    Passwords,
    Salts,
    MaxTries,       \* prompts answered, over all boots
    MaxBoots

\* The Cred of every account that can be set up.
Creds == [name : Names, salt : Salts, hash : Passwords \X Salts]

ASSUME SessionAssumption ==
    /\ {"thos_cred_v1", "name", "rounds", "salt", "hash", "=", "60000", "0", "1", "2", "3"} \subseteq Tokens
    /\ Names \subseteq Seq(Tokens) /\ Passwords \subseteq Tokens /\ Salts \subseteq 0..15
    /\ None \notin 0..15
    /\ None \notin Seq(Tokens)
    /\ None \notin Seq(Tokens) \X Seq(Tokens)
    /\ None \notin Seq(Seq(Tokens))
    /\ None \notin Names \X Passwords
    /\ None \notin Creds

VARIABLES
    store,          \* STORE_PATH: the lines of the file, or None
    dirs,           \* the directories of "/etc", STORE_DIR, "/home" and the homes
    pc,             \* where kmain is: see the actions
    cred,           \* the Cred being created, or loaded for login
    typed,          \* the answers to setup's prompts
    session,        \* set_session
    roots,          \* passwords for which an elevated process was spawned
    account,        \* the name and password that setup stored
    tries, boots

sessionVars == <<store, dirs, pc, cred, typed, session, roots, account, tries, boots>>

SessionInit ==
    /\ store = None /\ dirs = {<<>>}
    /\ pc = "establish" /\ cred = None /\ typed = None
    /\ session = None /\ roots = {} /\ account = None
    /\ tries = 0 /\ boots = 1

----------------------------------------------------------------------------
(* cred.rs. *)

\* hex and unhex, a byte being a number below 16, written in base 4.
Digits == <<"0", "1", "2", "3">>
hex(b) == <<Digits[(b \div 4) + 1], Digits[(b % 4) + 1]>>
unhex(s) ==
    IF Len(s) = 2 /\ Range(s) \subseteq Range(Digits)
    THEN CHOOSE b \in 0..15 : hex(b) = s
    ELSE None

\* Cred::create and verify.
create(name, password, salt) == [name |-> name, salt |-> salt, hash |-> <<password, salt>>]
verify(c, name, password) == <<password, c.salt>> = c.hash /\ name = c.name

\* serialize: one line per field after the header.  The hash is its salt and its
\* password; only the former is written in digits.
serialize(c) == <<
    <<"thos_cred_v1">>,
    <<"name", "=">> \o c.name,
    <<"rounds", "=", "60000">>,
    <<"salt", "=">> \o hex(c.salt),
    <<"hash", "=", c.hash[1]>> \o hex(c.hash[2]) >>

\* Mistake: the line is split at its last "=".
SplitLast(l) ==
    LET at == { i \in 1..Len(l) : l[i] = "=" }
        i == CHOOSE i \in at : \A j \in at : j <= i
    IN  IF at = {} THEN None ELSE <<SubSeq(l, 1, i - 1), SubSeq(l, i + 1, Len(l))>>

\* split_once('=').
split_once(l) ==
    LET at == { i \in 1..Len(l) : l[i] = "=" }
        i == CHOOSE i \in at : \A j \in at : i <= j
    IN  IF at = {} THEN None ELSE <<SubSeq(l, 1, i - 1), SubSeq(l, i + 1, Len(l))>>

\* The value of the last line whose key is k.
Value(lines, k) ==
    LET vs == { i \in 1..Len(lines) :
                  split_once(lines[i]) # None /\ split_once(lines[i])[1] = <<k>> }
    IN  IF vs = {} THEN None
        ELSE split_once(lines[CHOOSE i \in vs : \A j \in vs : j <= i])[2]

\* parse: all three fields, or nothing.
parse(lines) ==
    LET name == Value(lines, "name")
        salt == Value(lines, "salt")
        hash == Value(lines, "hash")
    IN  IF name = None \/ salt = None \/ hash = None THEN None
        ELSE IF unhex(salt) = None \/ Len(hash) # 3 THEN None
        ELSE [name |-> name, salt |-> unhex(salt), hash |-> <<hash[1], unhex(Tail(hash))>>]

exists == store # None
load == IF exists THEN parse(store) ELSE None

----------------------------------------------------------------------------
(* login.rs. *)

\* establish: setup when there is no store, then login, with the store loaded once.
Establish ==
    /\ pc = "establish"
    /\ IF exists
       THEN cred' = load /\ pc' = IF cred' = None THEN "panic" ELSE "login"
       ELSE pc' = "setup" /\ UNCHANGED cred
    /\ UNCHANGED <<store, dirs, typed, session, roots, account, tries, boots>>

Answer == tries < MaxTries /\ tries' = tries + 1

\* first_run_setup: a name that is not empty; a password typed twice, both again
\* when they differ.
FirstRunSetup ==
    /\ pc = "setup" /\ Answer
    /\ \E n \in Names, p1, p2 \in Passwords, s \in Salts :
        IF n = <<>> \/ p1 # p2
        THEN UNCHANGED <<pc, cred, typed>>
        ELSE /\ cred' = create(n, p1, s) /\ typed' = <<n, p1>>
             /\ pc' = "save"
    /\ UNCHANGED <<store, dirs, session, roots, account, boots>>

\* mkdir_path: needs the parent; an existing directory is fine with every caller.
parent_dir(path) == SubSeq(path, 1, Len(path) - 1)
MkdirOk(path) == parent_dir(path) \in dirs
mkdir_path(path, then) ==
    IF MkdirOk(path)
    THEN dirs' = dirs \cup {path} /\ pc' = then
    ELSE pc' = "panic" /\ UNCHANGED dirs

\* The path of a home directory: a "/" in the name is one more component.
HomePath(name) ==
    LET slash == { i \in 1..Len(name) : name[i] = "/" }
        i == CHOOSE i \in slash : \A j \in slash : i <= j
    IN  IF slash = {} THEN <<"home", name>>
        ELSE <<"home", SubSeq(name, 1, i - 1), SubSeq(name, i + 1, Len(name))>>

\* cred::save, one call after the other; setup's expect panics on an error.
SaveDirs ==
    /\ \/ pc = "save" /\ mkdir_path(<<"etc">>, "save_dir")
       \/ pc = "save_dir" /\ mkdir_path(<<"etc", "thos">>, "save_store")
       \/ pc = "save_home" /\ mkdir_path(<<"home">>, "save_user")
       \/ pc = "save_user" /\ mkdir_path(HomePath(cred.name), "establish")
    /\ UNCHANGED <<store, cred, typed, session, roots, account, tries, boots>>

SaveStore ==
    /\ pc = "save_store"
    /\ store' = serialize(cred) /\ account' = typed
    /\ pc' = "save_home"
    /\ UNCHANGED <<dirs, cred, typed, session, roots, tries, boots>>

\* login: again until the answers verify; then kmain's set_session and spawn_init.
Login ==
    /\ pc = "login" /\ Answer
    /\ \E n \in Names, p \in Passwords :
        IF verify(cred, n, p)
        THEN session' = <<n, p>> /\ pc' = "shell"
        ELSE UNCHANGED <<session, pc>>
    /\ UNCHANGED <<store, dirs, cred, typed, roots, account, boots>>

\* sys_elevate and sak_finish: the store read again, its own name, the password typed.
Elevate ==
    /\ pc = "shell" /\ Answer
    /\ \E p \in Passwords :
        roots' = IF load # None /\ verify(load, load.name, p) THEN roots \cup {p} ELSE roots
    /\ UNCHANGED <<store, dirs, pc, cred, typed, session, account, boots>>

\* A power loss at any point, or a reset after a panic: what is on disk stays.
Reboot ==
    /\ boots < MaxBoots /\ boots' = boots + 1
    /\ pc' = "establish"
    /\ cred' = None /\ typed' = None /\ session' = None /\ roots' = {}
    /\ UNCHANGED <<store, dirs, account, tries>>

SessionNext ==
    \/ Establish \/ FirstRunSetup \/ SaveDirs \/ SaveStore
    \/ Login \/ Elevate \/ Reboot

SessionSpec == SessionInit /\ [][SessionNext]_sessionVars

----------------------------------------------------------------------------
(* Properties. *)

\* The account that setup stored is the one that works, on that boot and on every
\* later one, whatever characters its name has and wherever a crash fell: the store
\* always parses, login waits for exactly that name and password, and only they open
\* a session or an elevated process (serialize, parse, save, establish, verify).
AccountSurvives ==
    /\ exists => load # None /\ verify(load, account[1], account[2])
    /\ pc = "login" => \A n \in Names, p \in Passwords : verify(cred, n, p) <=> account = <<n, p>>
    /\ session # None => session = account
    /\ \A p \in roots : p = account[2]

\* What setup made of its answers is c, with the account a.
MadeBySetup(c, a) ==
    \E n \in Names, p \in Passwords, s \in Salts : c = create(n, p, s) /\ a = <<n, p>>

\* The inductive invariant behind AccountSurvives: the store holds what setup made and
\* nothing else ever writes it, login has read it back, and nobody has a session
\* before login has returned.
SessionInv ==
    /\ exists => \E c \in Creds : store = serialize(c) /\ MadeBySetup(c, account)
    /\ pc \in {"save", "save_dir", "save_store"} => MadeBySetup(cred, typed)
    /\ pc \in {"login", "shell"} => exists /\ cred = load
    /\ pc # "shell" => session = None /\ roots = {}
    /\ pc = "shell" => session = account /\ roots \subseteq {account[2]}

=============================================================================
