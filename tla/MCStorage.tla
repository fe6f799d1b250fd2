----------------------------- MODULE MCStorage -----------------------------
(***************************************************************************)
(* What keeps data, from the disk up: the steps of ext2, the registry's    *)
(* hives over it, open files over it, and the boot medium.  The four share *)
(* no state: a behaviour is one component's, chosen in the initial state;  *)
(* the registry and the open files keep their initial state in the others, *)
(* and the variables of the rest keep the value Off.                       *)
(***************************************************************************)
EXTENDS Registry, Files

CONSTANTS
    Writers, NBlocks, NInodes, Direct, Slots, MaxLen, MaxOps, MaxCrashes,   \* Ext2
    SECTOR, ENTS, EOC, Fat32Min                                             \* Fat

VARIABLES
    part,
    bmap, imap, nfree, backup, inode, content, w, ops, crashes, failed,
    vol, path, want, pc, fat, clus, out, ent, result

ext2Vars == <<bmap, imap, nfree, backup, inode, content, w, ops, crashes, failed>>
fatVars == <<vol, path, want, pc, fat, clus, out, ent, result>>
allVars == <<part, ext2Vars, registryVars, filesVars, fatVars>>

----------------------------------------------------------------------------
(* The components.  Names that two of them use are told apart here. *)

\* A directory, files beside it and in it.
MCPaths == {<<"f">>, <<"d">>, <<"d", "f">>}
F == INSTANCE Ext2 WITH Paths <- MCPaths

\* A path of keys, one under the other.
MCKeys == {<<"a">>, <<"a", "b">>, <<"a", "b", "c">>}

\* One task of uid 0 and one of another; a name that is a file, a directory or
\* nothing, and one under the working directory.
MCUid == [t \in Tasks |-> IF t = 1 THEN 0 ELSE 7]
MCArgs == {[abs |-> TRUE, parts |-> <<"a">>], [abs |-> FALSE, parts |-> <<"", "b">>],
           [abs |-> FALSE, parts |-> <<"..", "a">>]}
MCWinNames == {[prefix |-> "C:", parts |-> <<"", "a">>], [prefix |-> "D:", parts |-> <<"", "b">>],
               [prefix |-> "X:", parts |-> <<"a">>]}
MCOwners == {<<0, 7>>, <<7, 0>>}
MCInstalled == [p \in {<<"a">>} |-> <<1>>]
MCCdFiles == [p \in {<<"b">>} |-> <<1>>]

\* FAT16 and FAT32 volumes with chains of one and two clusters, in and out of
\* order, and ones with a bad GPT header or BPB.
MCVolumes ==
    {v \in [fat32 : BOOLEAN, bad : {"", "gpt", "count", "boot", "bytes"}, base : {0, 5}, esp : {8}, rsvd : {1, 2}, nfats : {1, 2}, spc : {1, 2},
            top : {6, 7}, root : {<<>>, <<2>>, <<4, 2>>}, dir : {<<3>>, <<5, 3>>, <<3, 5>>},
            file : {<<6>>, <<6, 7>>, <<7, 6>>, <<6, 4>>}, size : {0, 3, 4}, slot : {1, 3}] :
        /\ v.top = IF v.fat32 THEN 7 ELSE 6
        /\ v.fat32 = (v.root # <<>>)
        /\ v.slot <= ENTS * v.spc * Len(v.dir)
        /\ v.slot <= IF v.fat32 THEN ENTS * v.spc * Len(v.root) ELSE 2 * ENTS - 1
        /\ v.size <= SECTOR * v.spc * Len(v.file)
        /\ \A n \in DOMAIN v.file : v.file[n] <= v.top
        /\ v.bad # "" => v.size = 0 /\ v.nfats = 2 /\ v.spc = 1
        /\ v.root = <<4, 2>> => v.file # <<6, 4>>}
MCUpper == [n \in {"d", "f", "x"} |-> CASE n = "d" -> "D" [] n = "f" -> "F" [] n = "x" -> "X"]
V == INSTANCE Fat WITH Volumes <- MCVolumes, Upper <- MCUpper

----------------------------------------------------------------------------

Off == 0
IdleExt2 == bmap = Off /\ imap = Off /\ nfree = Off /\ backup = Off /\ inode = Off
    /\ content = Off /\ w = Off /\ ops = Off /\ crashes = Off /\ failed = Off
IdleFat == vol = Off /\ path = Off /\ want = Off /\ pc = Off /\ fat = Off /\ clus = Off
    /\ out = Off /\ ent = Off /\ result = Off

MCInit ==
    /\ part \in {"ext2", "registry", "files", "fat"}
    /\ IF part = "ext2" THEN F!Init ELSE IdleExt2
    /\ RegistryInit
    /\ FilesInit /\ (part # "files" => node[Root].uid = 0)
    /\ IF part = "fat" THEN V!Init ELSE IdleFat

MCNext ==
    \/ part = "ext2" /\ F!Next /\ UNCHANGED <<part, registryVars, filesVars, fatVars>>
    \/ part = "registry" /\ RegistryNext /\ UNCHANGED <<part, ext2Vars, filesVars, fatVars>>
    \/ part = "files" /\ FilesNext /\ UNCHANGED <<part, ext2Vars, registryVars, fatVars>>
    \/ part = "fat" /\ V!Next /\ UNCHANGED <<part, ext2Vars, registryVars, filesVars>>

MCSpec == MCInit /\ [][MCNext]_allVars

----------------------------------------------------------------------------
(* The properties, each in its component's behaviours. *)

\* Ext2!NoTornFile: a file on disk is one that was written, whole, after any crash.
NoTornFile == part = "ext2" => F!NoTornFile

\* Ext2!FsckClean: bitmaps, counts and inodes agree whenever no operation is going on.
FsckClean == part = "ext2" => F!FsckClean

\* Fat!FileIsWhole: read_path returns the file that the formatter laid out.
FileIsWhole == part = "fat" => V!FileIsWhole

=============================================================================
