------------------------------ MODULE Registry ------------------------------
(***************************************************************************)
(* The registry (kernel/src/registry.rs) behind the key services of nt.rs: *)
(* one key tree in memory, a hive file that is rewritten after every       *)
(* change, one-shot change notification, key ownership, and the reload of  *)
(* the hive at boot.  A step is one use of the ROOT or WATCHES lock or one  *)
(* call of the file system, which commits a file atomically (Ext2).        *)
(*                                                                         *)
(* A key is a sequence of names below its hive root <<>>; a value is all   *)
(* that is stored under a key.                                             *)
(***************************************************************************)
EXTENDS Integers, Sequences, Options

CONSTANTS
    Callers,    \* threads in the key services
    Keys,       \* key paths below the hive root, without <<>>
    Values, Uids,
    MaxKeyCalls, MaxWatches, MaxReboots

VARIABLES
    tree,       \* ROOT: the existing keys and what they hold
    hive,       \* the hive file, None before the first write
    watches,    \* WATCHES
    due,        \* watches that a change since they were armed concerns
    watcher,    \* a watch that found its key and is not in WATCHES yet, or None
    c,          \* the callers
    calls, armed, reboots

registryVars == <<tree, hive, watches, due, watcher, c, calls, armed, reboots>>

AllKeys == Keys \cup {<<>>}
Key(uid) == [owner |-> uid, val |-> None]
Idle == [pc |-> "idle", op |-> None, path |-> <<>>, uid |-> 0, val |-> None,
         existed |-> FALSE, snap |-> None]
Seed == [k \in {<<>>} |-> Key(0)]

At(x, pc) == c[x].pc = pc
Exists(k) == k \in DOMAIN tree
Ancestors(k) == {SubSeq(k, 1, n) : n \in 0..Len(k)}
parent_key(k) == SubSeq(k, 1, Len(k) - 1)

\* A key below "registry", which components drops, is not among them.
ASSUME RegistryAssumption ==
    /\ Keys \subseteq Seq(STRING) \ {<<>>}
    /\ \A k \in Keys : Ancestors(k) \subseteq AllKeys /\ Head(k) # "registry"
    /\ None \notin Values

\* The seeded roots, before load_hives.
RegistryInit ==
    /\ tree = Seed /\ hive = None
    /\ watches = {} /\ due = {} /\ watcher = None
    /\ c = [x \in Callers |-> Idle]
    /\ calls = 0 /\ armed = 0 /\ reboots = 0

----------------------------------------------------------------------------
(* Permission: uid 0 or the owner. *)

write_ok(owner, uid) == uid = 0 \/ uid = owner

\* The nearest existing ancestor decides about a new key.
create_write_ok(k, uid) ==
    LET up == CHOOSE a \in Ancestors(k) \cap DOMAIN tree :
                \A b \in Ancestors(k) \cap DOMAIN tree : Len(b) <= Len(a)
    IN write_ok(tree[up].owner, uid)

write_key_ok(k, uid) == Exists(k) /\ write_ok(tree[k].owner, uid)

----------------------------------------------------------------------------
(* The services: a check, then the change. *)

Begin(x, op, k, uid, val) ==
    /\ At(x, "idle") /\ calls < MaxKeyCalls
    /\ c' = [c EXCEPT ![x] = [Idle EXCEPT !.pc = "change", !.op = op, !.path = k, !.uid = uid,
                                          !.val = val, !.existed = Exists(k)]]
    /\ calls' = calls + 1
    /\ UNCHANGED <<tree, hive, watches, due, watcher, armed, reboots>>

NtCreateKey(x) ==
    \E k \in Keys, uid \in Uids :
        (Exists(k) \/ create_write_ok(k, uid)) /\ Begin(x, "create", k, uid, None)

\* create and create_owned called by the kernel itself.
KernelCreate(x) == \E k \in Keys, uid \in Uids : Begin(x, "create", k, uid, None)

NtSetValueKey(x) ==
    \E k \in Keys, uid \in Uids, v \in Values :
        write_key_ok(k, uid) /\ Begin(x, "set", k, uid, v)

NtDeleteKey(x) ==
    \E k \in Keys, uid \in Uids : write_key_ok(k, uid) /\ Begin(x, "delete", k, uid, None)

\* make: missing keys on the way get the caller as owner.
make(t, k, uid) == [a \in DOMAIN t \cup Ancestors(k) |-> IF a \in DOMAIN t THEN t[a] ELSE Key(uid)]

\* subkeys.remove: a key goes with all that is below it.
remove(t, k) == [a \in {b \in DOMAIN t : k \notin Ancestors(b)} |-> t[a]]

\* The key that changed, as the watches see it: delete changes the parent.
Changed(x) == IF c[x].op = "delete" THEN parent_key(c[x].path) ELSE c[x].path

\* Mistake: only changes of the watched key itself count.
SameKeyOnly(wt, changed) == wt.path = changed \/ (wt.all /\ wt.path \in Ancestors(changed))

watch_matches(wt, changed) ==
    /\ wt.path \in Ancestors(changed)
    /\ Len(changed) - Len(wt.path) \in {0, 1} \/ wt.all

\* What a caller of NtNotifyChangeKey was promised.
Concerns(wt, x) ==
    \/ wt.all /\ wt.path \in Ancestors(Changed(x))
    \/ wt.path = Changed(x)
    \/ c[x].op # "delete" /\ wt.path = parent_key(c[x].path)

\* create_owned, set_value and delete_key up to the end of their locked part.
Change(x) ==
    /\ At(x, "change")
    /\ LET k == c[x].path
           done == c[x].op = "create" \/ Exists(k)
           news == done /\ ~(c[x].op = "create" /\ c[x].existed)
       IN /\ tree' = CASE c[x].op = "create" -> make(tree, k, c[x].uid)
                       [] c[x].op = "set" /\ done -> [tree EXCEPT ![k].val = c[x].val]
                       [] c[x].op = "delete" -> remove(tree, k)
                       [] OTHER -> tree
          /\ due' = IF news THEN due \cup {wt.id : wt \in {v \in watches : Concerns(v, x)}}
                    ELSE due
          /\ c' = [c EXCEPT ![x] = IF done THEN [@ EXCEPT !.pc = "snap"] ELSE Idle]
    /\ UNCHANGED <<hive, watches, watcher, calls, armed, reboots>>

\* Mistake: the owner is written only for keys that hold a value.
RecordsOfValued(t) ==
    {<<"K", k>> : k \in DOMAIN t \ {<<>>}}
        \cup {<<"O", k, t[k].owner>> : k \in {a \in DOMAIN t : t[a].owner # 0 /\ t[a].val # None}}
        \cup {<<"V", k, t[k].val>> : k \in {a \in DOMAIN t : t[a].val # None}}

\* The lines of a hive file: keys, owners other than 0, values.
serialize_hive(t) ==
    {<<"K", k>> : k \in DOMAIN t \ {<<>>}}
        \cup {<<"O", k, t[k].owner>> : k \in {a \in DOMAIN t : t[a].owner # 0}}
        \cup {<<"V", k, t[k].val>> : k \in {a \in DOMAIN t : t[a].val # None}}

\* Paths are split again on the way in, which drops a leading "registry".
components(k) == IF k # <<>> /\ Head(k) = "registry" THEN Tail(k) ELSE k

deserialize_hive(file) ==
    LET field(tag, k) == {r \in file : r[1] = tag /\ components(r[2]) = k}
        of(tag, k, default) == IF field(tag, k) = {} THEN default ELSE (CHOOSE r \in field(tag, k) : TRUE)[3]
    IN [k \in {<<>>} \cup UNION {Ancestors(components(r[2])) : r \in file} |->
            [owner |-> of("O", k, 0), val |-> of("V", k, None)]]

Stored == IF hive = None THEN Seed ELSE deserialize_hive(hive)

\* persist: serialise under the lock, write without it.
Snapshot(x) ==
    /\ At(x, "snap")
    /\ c' = [c EXCEPT ![x].pc = "write", ![x].snap = serialize_hive(tree)]
    /\ UNCHANGED <<tree, hive, watches, due, watcher, calls, armed, reboots>>

WriteHive(x) ==
    /\ At(x, "write")
    /\ hive' = c[x].snap
    /\ c' = [c EXCEPT ![x] = IF c[x].op = "create" /\ c[x].existed THEN Idle ELSE [@ EXCEPT !.pc = "fire"]]
    /\ UNCHANGED <<tree, watches, due, watcher, calls, armed, reboots>>

\* fire: signal and drop every watch that matches.
Fire(x) ==
    /\ At(x, "fire")
    /\ LET hit == {wt \in watches : watch_matches(wt, Changed(x))}
       IN /\ watches' = watches \ hit
          /\ due' = due \ {wt.id : wt \in hit}
    /\ c' = [c EXCEPT ![x] = Idle]
    /\ UNCHANGED <<tree, hive, watcher, calls, armed, reboots>>

\* The start of watch: only an existing key.
NtNotifyChangeKey ==
    /\ armed < MaxWatches /\ watcher = None
    /\ \E k \in AllKeys, all \in BOOLEAN :
        /\ Exists(k)
        /\ watcher' = [path |-> k, all |-> all, id |-> armed + 1]
    /\ armed' = armed + 1
    /\ UNCHANGED <<tree, hive, watches, due, c, calls, reboots>>

\* The end of watch, whatever became of the key since.
watch ==
    /\ watcher # None
    /\ watches' = watches \cup {watcher}
    /\ watcher' = None
    /\ UNCHANGED <<tree, hive, due, c, calls, armed, reboots>>

\* Power loss and load_hives: the file replaces the seeded root.
load_hives ==
    /\ reboots < MaxReboots
    /\ tree' = Stored
    /\ watches' = {} /\ due' = {} /\ watcher' = None
    /\ c' = [x \in Callers |-> Idle]
    /\ reboots' = reboots + 1
    /\ UNCHANGED <<hive, calls, armed>>

RegistryNext ==
    \/ \E x \in Callers :
        \/ NtCreateKey(x) \/ KernelCreate(x) \/ NtSetValueKey(x) \/ NtDeleteKey(x)
        \/ Change(x) \/ Snapshot(x) \/ WriteHive(x) \/ Fire(x)
    \/ NtNotifyChangeKey \/ watch
    \/ load_hives

RegistrySpec == RegistryInit /\ [][RegistryNext]_registryVars

----------------------------------------------------------------------------
(* The reading services, of a tree t. *)

open(t, k) == k \in DOMAIN t
query_value(t, k) == IF open(t, k) THEN t[k].val ELSE None
enumerate_key(t, k) == {a[Len(a)] : a \in {b \in DOMAIN t \ {<<>>} : parent_key(b) = k}}
owner_of(t, k) == IF open(t, k) THEN t[k].owner ELSE None

NtOpenKey(t, k) == IF open(t, k) THEN "STATUS_SUCCESS" ELSE "STATUS_OBJECT_NAME_NOT_FOUND"
NtQueryValueKey(t, k) ==
    IF query_value(t, k) = None THEN <<"STATUS_OBJECT_NAME_NOT_FOUND">>
    ELSE <<"STATUS_SUCCESS", query_value(t, k)>>
\* One call per index, until STATUS_NO_MORE_ENTRIES.
NtEnumerateKey(t, k) == enumerate_key(t, k) \cup {"STATUS_NO_MORE_ENTRIES"}

Answers(t, k) == <<NtOpenKey(t, k), NtQueryValueKey(t, k), NtEnumerateKey(t, k), owner_of(t, k)>>

----------------------------------------------------------------------------
(* Properties. *)

\* Between calls, every key's existence, value, subkeys and owner are what a boot
\* from the hive file would answer: a power loss costs at most the change it
\* interrupts (persist, load_hives).  For one caller at a time.
HiveIsCurrent ==
    (\A x \in Callers : At(x, "idle")) =>
        \E stored \in {Stored} : \A k \in AllKeys : Answers(tree, k) = Answers(stored, k)

\* A call that changes the watched key, or creates or deletes a key right under
\* it, or with WatchTree changes anything below, signals the watch before it
\* returns (fire, watch_matches).  Keys created on the way to a deeper one are
\* not announced.
NoMissedWatch ==
    \A wt \in watches : wt.id \in due => \E x \in Callers : ~At(x, "idle")

----------------------------------------------------------------------------
(* What keeps them: the inductive invariants. *)

KeyRecs == [owner : Uids \cup {0}, val : Values \cup {None}]

\* A tree has the hive root, and with a key all that are above it.
Trees ==
    {t \in UNION {[D -> KeyRecs] : D \in SUBSET AllKeys} :
        <<>> \in DOMAIN t /\ \A k \in DOMAIN t : Ancestors(k) \subseteq DOMAIN t}

HiveFiles == {serialize_hive(t) : t \in Trees}

ASSUME HiveAssumption == None \notin HiveFiles

Watch == [path : AllKeys, all : BOOLEAN, id : 1..armed]
Caller == [pc : {"idle", "change", "snap", "write", "fire"}, op : {None, "create", "set", "delete"},
           path : AllKeys, uid : Uids \cup {0}, val : Values \cup {None}, existed : BOOLEAN,
           snap : HiveFiles \cup {None}]

RegistryTypeOK ==
    /\ tree \in Trees /\ hive \in HiveFiles \cup {None}
    /\ armed \in Nat /\ due \subseteq 1..armed
    /\ watches \subseteq Watch /\ watcher \in Watch \cup {None}
    /\ c \in [Callers -> Caller]
    /\ \A x \in Callers :
        /\ c[x].pc # "idle" => c[x].path \in Keys
        /\ c[x].pc = "write" => c[x].snap \in HiveFiles

\* Who signals a watch that is due: a caller whose change it matches, on its way to fire.
Owes(x, wt) ==
    /\ c[x].pc \in {"snap", "write", "fire"}
    /\ ~(c[x].op = "create" /\ c[x].existed)
    /\ watch_matches(wt, Changed(x))

WatchInv ==
    /\ \A wt \in watches : wt.id \in due => \E x \in Callers : Owes(x, wt)
    /\ \A wt, v \in watches : wt.id = v.id => wt = v
    /\ watcher # None => watcher.id \notin due \cup {wt.id : wt \in watches}

RegistryInv == RegistryTypeOK /\ WatchInv

\* For one caller: the file is behind the tree only from the change to the write.
HiveInv ==
    \A x \in Callers :
        /\ c[x].pc \in {"idle", "change", "fire"} => Stored = tree
        /\ c[x].pc = "write" => c[x].snap = serialize_hive(tree)

=============================================================================
