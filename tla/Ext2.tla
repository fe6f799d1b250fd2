-------------------------------- MODULE Ext2 --------------------------------
(***************************************************************************)
(* The file system (kernel/src/ext2.rs): write_path, mkdir_path,           *)
(* unlink_path and rmdir_path as the sequence of disk writes they make,    *)
(* with a power loss possible between any two of them.  A step is one      *)
(* disk_write, the two counts of a block and the writes of alloc_inode and *)
(* of free_inode taken together; a bitmap is read in a step before the one *)
(* that writes it, since every disk access lets other threads run and      *)
(* nothing locks the file system.                                          *)
(*                                                                         *)
(* A data block holds a version and its index in the file, where a version *)
(* is one call of write_path; an indirect block holds its pointers; a      *)
(* directory block holds <<name, inode>> pairs.  Direct and Slots stand    *)
(* for 12 direct pointers and the room in a directory block; the doubly    *)
(* indirect tree has the shape of the indirect one, and there is one block *)
(* group.  Callers name a parent that is a directory and write to files or *)
(* free names.                                                             *)
(***************************************************************************)
EXTENDS Integers, Sequences, SequencesExt, FiniteSets, FiniteSetsExt

CONSTANTS
    Writers,    \* threads inside the file system
    Paths,      \* sequences of names
    NBlocks,    \* data blocks of the disk
    NInodes,
    Direct,     \* direct pointers of an inode
    Slots,      \* entries a directory block has room for
    MaxLen,     \* blocks of the largest file
    MaxOps,     \* calls made
    MaxCrashes

VARIABLES
    bmap, imap,     \* block and inode bitmaps
    nfree, backup,  \* free-block count, and its copy in the backup superblock
    inode, content, \* inode table, block contents
    w,              \* the writers
    ops, crashes,
    failed          \* some call returned an error after it had changed the disk

disk == <<bmap, imap, nfree, backup, inode, content>>
vars == <<disk, w, ops, crashes, failed>>

Root == 1
Blocks == 1..NBlocks
Inodes == 1..NInodes
NoInode == [kind |-> "free", ptr |-> <<>>, ind |-> 0, len |-> 0, links |-> 0]
Idle == [pc |-> "idle", op |-> "none", path |-> <<>>, ver |-> 0, n |-> 0,
         got |-> <<>>, bm |-> {}, par |-> 0, ino |-> 0, todo |-> <<>>]

Zeroed == [ver |-> 0, idx |-> 0, ents |-> {}, ptrs |-> <<>>]
Data(v, k) == [Zeroed EXCEPT !.ver = v, !.idx = k]

\* A formatted disk: the root directory has block 1.
Init ==
    /\ bmap = {1} /\ imap = {Root}
    /\ nfree = NBlocks - 1 /\ backup = nfree
    /\ inode = [i \in Inodes |-> IF i = Root THEN [NoInode EXCEPT !.kind = "dir", !.ptr = <<1>>, !.links = 2] ELSE NoInode]
    /\ content = [b \in Blocks |-> Zeroed]
    /\ w = [x \in Writers |-> Idle]
    /\ ops = 0 /\ crashes = 0 /\ failed = FALSE

----------------------------------------------------------------------------
(* Reading. *)

\* block_map: the data blocks of an inode in file order.
block_map(i) == inode[i].ptr \o (IF inode[i].ind = 0 THEN <<>> ELSE content[inode[i].ind].ptrs)

\* Every block an inode owns, the order in which free_all_blocks frees them.
all_blocks(i) == block_map(i) \o (IF inode[i].ind = 0 THEN <<>> ELSE <<inode[i].ind>>)

read_dir(i) == UNION {content[b].ents : b \in ToSet(block_map(i))}

lookup(i, name) ==
    LET hits == {e \in read_dir(i) : e[1] = name}
    IN IF i = 0 \/ hits = {} THEN 0 ELSE (CHOOSE e \in hits : TRUE)[2]

path_lookup(path) ==
    FoldLeft(LAMBDA i, name : IF i # 0 /\ inode[i].kind = "dir" THEN lookup(i, name) ELSE 0, Root, path)

read_path(path) == [k \in 1..Len(block_map(path_lookup(path))) |-> content[block_map(path_lookup(path))[k]]]

IsDir(path) == path_lookup(path) # 0 /\ inode[path_lookup(path)].kind = "dir"

name_of(x) == Last(w[x].path)

----------------------------------------------------------------------------
(* The calls.  Each leaves without a change when a lookup says no. *)

At(x, pc) == w[x].pc = pc
Goto(x, pc) == w' = [w EXCEPT ![x].pc = pc]

Begin(x, r) ==
    /\ At(x, "idle") /\ ops < MaxOps
    /\ w' = [w EXCEPT ![x] = r @@ [Idle EXCEPT !.ver = ops + 1, !.par = path_lookup(Front(r.path))]]
    /\ ops' = ops + 1
    /\ UNCHANGED <<disk, crashes, failed>>

\* write_path: lay_out_data for n blocks, and an indirect one past Direct.
write_path(x) ==
    \E path \in Paths, n \in 0..MaxLen :
        /\ IsDir(Front(path)) /\ ~IsDir(path)
        /\ Begin(x, [pc |-> "alloc", op |-> "write", path |-> path, n |-> n])

mkdir_path(x) ==
    \E path \in Paths :
        /\ IsDir(Front(path)) /\ path_lookup(path) = 0
        /\ Begin(x, [pc |-> "ialloc", op |-> "mkdir", path |-> path, n |-> 1])

unlink_path(x) ==
    \E path \in Paths :
        LET i == path_lookup(path)
        IN /\ i # 0 /\ inode[i].kind = "file"
           /\ Begin(x, [pc |-> "remove", op |-> "unlink", path |-> path, ino |-> i, todo |-> all_blocks(i)])

rmdir_path(x) ==
    \E path \in Paths :
        LET i == path_lookup(path)
        IN /\ i # 0 /\ inode[i].kind = "dir" /\ read_dir(i) = {}
           /\ Begin(x, [pc |-> "remove", op |-> "rmdir", path |-> path, ino |-> i, todo |-> all_blocks(i)])

\* An error return: nothing is undone, the backups are not synced.
Fail(x) ==
    /\ w' = [w EXCEPT ![x] = Idle]
    /\ failed' = TRUE
    /\ UNCHANGED <<disk, ops, crashes>>

----------------------------------------------------------------------------
(* alloc_block, and what its callers put in the block. *)

Wanted(x) == IF w[x].op = "write" /\ w[x].n > Direct THEN w[x].n + 1 ELSE w[x].n

ReadBitmap(x) ==
    /\ At(x, "alloc") /\ Len(w[x].got) < Wanted(x)
    /\ IF nfree = 0 \/ bmap = Blocks THEN Fail(x)
       ELSE /\ w' = [w EXCEPT ![x].bm = bmap, ![x].pc = "bit"]
            /\ UNCHANGED <<disk, ops, crashes, failed>>

\* take_bit: the first clear bit of the bitmap that was read.
take_bit(x) ==
    /\ At(x, "bit")
    /\ LET b == Min(Blocks \ w[x].bm)
       IN /\ bmap' = w[x].bm \cup {b}
          /\ w' = [w EXCEPT ![x].got = Append(@, b), ![x].pc = "count", ![x].bm = {}]
    /\ UNCHANGED <<imap, nfree, backup, inode, content, ops, crashes, failed>>

CountBlock(x) ==
    /\ At(x, "count")
    /\ nfree' = nfree - 1
    /\ Goto(x, "fill")
    /\ UNCHANGED <<bmap, imap, backup, inode, content, ops, crashes, failed>>

\* The block of position k: data, or the indirect block at Direct + 1, which is
\* written last.
DataIndex(k) == IF k <= Direct THEN k ELSE k - 1
IsIndirect(x, k) == w[x].op = "write" /\ k = Direct + 1

Fill(x) ==
    /\ At(x, "fill")
    /\ LET k == Len(w[x].got)
       IN content' = [content EXCEPT ![w[x].got[k]] =
            IF w[x].op # "write" \/ IsIndirect(x, k) THEN Zeroed ELSE Data(w[x].ver, DataIndex(k))]
    /\ Goto(x, "alloc")
    /\ UNCHANGED <<bmap, imap, nfree, backup, inode, ops, crashes, failed>>

\* All blocks are there: the pointers go into the indirect block.
LaidOut(x) ==
    /\ At(x, "alloc") /\ Len(w[x].got) = Wanted(x)
    /\ content' = IF w[x].op = "write" /\ w[x].n > Direct
                  THEN [content EXCEPT ![w[x].got[Direct + 1]].ptrs = SubSeq(w[x].got, Direct + 2, Wanted(x))]
                  ELSE content
    /\ LET old == lookup(w[x].par, name_of(x))
       IN w' = CASE w[x].op = "grow" -> [w EXCEPT ![x].pc = "link"]
                 [] w[x].op = "mkdir" -> [w EXCEPT ![x].pc = "ipatch"]
                 [] w[x].op = "write" -> [w EXCEPT ![x].pc = IF old = 0 THEN "ialloc" ELSE "commit",
                                                   ![x].ino = old]
    /\ UNCHANGED <<bmap, imap, nfree, backup, inode, ops, crashes, failed>>

\* What set_inode puts into the inode; a file that is overwritten keeps its links.
NewInode(x) ==
    [kind |-> IF w[x].op = "write" THEN "file" ELSE "dir",
     ptr |-> SubSeq(w[x].got, 1, Min({Direct, w[x].n})),
     ind |-> IF w[x].op = "write" /\ w[x].n > Direct THEN w[x].got[Direct + 1] ELSE 0,
     len |-> w[x].n,
     links |-> IF w[x].pc = "commit" THEN inode[w[x].ino].links ELSE IF w[x].op = "write" THEN 1 ELSE 2]

----------------------------------------------------------------------------
(* Overwriting: one inode write commits, then the old blocks are freed. *)

\* Mistake: the old blocks are freed before the inode is repointed.
FreeFirst(x) ==
    /\ At(x, "commit")
    /\ LET i == w[x].ino
       IN IF bmap \cap ToSet(all_blocks(i)) # {}
          THEN /\ bmap' = bmap \ ToSet(all_blocks(i))
               /\ nfree' = nfree + Len(all_blocks(i))
               /\ UNCHANGED <<inode, w>>
          ELSE /\ inode' = [inode EXCEPT ![i] = NewInode(x)]
               /\ Goto(x, "sync")
               /\ UNCHANGED <<bmap, nfree>>
    /\ UNCHANGED <<imap, backup, content, ops, crashes, failed>>

Commit(x) ==
    /\ At(x, "commit")
    /\ LET i == w[x].ino
       IN /\ inode' = [inode EXCEPT ![i] = NewInode(x)]
          /\ w' = [w EXCEPT ![x].pc = "free", ![x].todo = all_blocks(i)]
    /\ UNCHANGED <<bmap, imap, nfree, backup, content, ops, crashes, failed>>

\* Mistake: a freed block is not counted.
FreeUncounted(x) == "free"

AfterFree(x) == "uncount"

\* free_block: the bit, then the count.
FreeBlock(x) ==
    /\ At(x, "free")
    /\ IF w[x].todo = <<>>
       THEN Goto(x, IF w[x].op = "write" THEN "sync" ELSE "ifree") /\ UNCHANGED bmap
       ELSE /\ bmap' = bmap \ {Head(w[x].todo)}
            /\ w' = [w EXCEPT ![x].todo = Tail(@), ![x].pc = AfterFree(x)]
    /\ UNCHANGED <<imap, nfree, backup, inode, content, ops, crashes, failed>>

UncountBlock(x) ==
    /\ At(x, "uncount")
    /\ nfree' = nfree + 1
    /\ Goto(x, "free")
    /\ UNCHANGED <<bmap, imap, backup, inode, content, ops, crashes, failed>>

----------------------------------------------------------------------------
(* Creating: inode, then directory entry. *)

alloc_inode(x) ==
    /\ At(x, "ialloc")
    /\ IF imap = Inodes THEN Fail(x)
       ELSE LET i == Min(Inodes \ imap)
            IN /\ imap' = imap \cup {i}
               /\ inode' = [inode EXCEPT ![i] = NoInode]
               /\ w' = [w EXCEPT ![x].ino = i, ![x].pc = IF w[x].op = "mkdir" THEN "alloc" ELSE "ipatch"]
               /\ UNCHANGED <<bmap, nfree, backup, content, ops, crashes, failed>>

PatchInode(x) ==
    /\ At(x, "ipatch")
    /\ inode' = [inode EXCEPT ![w[x].ino] = NewInode(x)]
    /\ Goto(x, "insert")
    /\ UNCHANGED <<bmap, imap, nfree, backup, content, ops, crashes, failed>>

Room(i) == {b \in ToSet(inode[i].ptr) : Cardinality(content[b].ents) < Slots}

\* A new directory's ".." is a link to its parent, and a removed one's no longer.
Bumps(x) == inode[w[x].ino].kind = "dir"

bump_links(x) ==
    /\ At(x, "bump")
    /\ inode' = [inode EXCEPT ![w[x].par].links = IF w[x].op = "rmdir" THEN @ - 1 ELSE @ + 1]
    /\ Goto(x, "sync")
    /\ UNCHANGED <<bmap, imap, nfree, backup, content, ops, crashes, failed>>

\* dir_insert: a gap in a block of the directory, or a new block for it.
dir_insert(x) ==
    /\ At(x, "insert")
    /\ LET p == w[x].par
       IN \/ /\ Room(p) # {}
             /\ content' = [content EXCEPT ![Min(Room(p))].ents = @ \cup {<<name_of(x), w[x].ino>>}]
             /\ Goto(x, IF Bumps(x) THEN "bump" ELSE "sync")
             /\ UNCHANGED <<bmap, imap, nfree, backup, inode, ops, crashes, failed>>
          \/ /\ Room(p) = {} /\ Len(inode[p].ptr) < Direct
             /\ w' = [w EXCEPT ![x].pc = "alloc", ![x].op = "grow", ![x].got = <<>>, ![x].n = 1]
             /\ UNCHANGED <<disk, ops, crashes, failed>>
          \/ /\ Room(p) = {} /\ Len(inode[p].ptr) = Direct
             /\ Fail(x)

\* The new directory block is written with its entry, then the inode gets it.
GrowDir(x) ==
    /\ At(x, "link")
    /\ LET p == w[x].par
           b == w[x].got[1]
       IN IF content[b].ents = {}
          THEN /\ content' = [content EXCEPT ![b].ents = {<<name_of(x), w[x].ino>>}]
               /\ UNCHANGED <<inode, w>>
          ELSE /\ inode' = [inode EXCEPT ![p].ptr = Append(@, b)]
               /\ Goto(x, IF Bumps(x) THEN "bump" ELSE "sync")
               /\ UNCHANGED content
    /\ UNCHANGED <<bmap, imap, nfree, backup, ops, crashes, failed>>

----------------------------------------------------------------------------
(* Removing: directory entry, then blocks, then inode. *)

dir_remove(x) ==
    /\ At(x, "remove")
    /\ content' = [b \in Blocks |->
            IF b \in ToSet(inode[w[x].par].ptr)
            THEN [content[b] EXCEPT !.ents = {e \in @ : e[1] # name_of(x)}] ELSE content[b]]
    /\ Goto(x, "free")
    /\ UNCHANGED <<bmap, imap, nfree, backup, inode, ops, crashes, failed>>

free_inode(x) ==
    /\ At(x, "ifree")
    /\ imap' = imap \ {w[x].ino}
    /\ inode' = [inode EXCEPT ![w[x].ino].links = 0]
    /\ Goto(x, IF Bumps(x) THEN "bump" ELSE "sync")
    /\ UNCHANGED <<bmap, nfree, backup, content, ops, crashes, failed>>

sync_backups(x) ==
    /\ At(x, "sync")
    /\ backup' = nfree
    /\ w' = [w EXCEPT ![x] = Idle]
    /\ UNCHANGED <<bmap, imap, nfree, inode, content, ops, crashes, failed>>

\* Power loss: what the threads held in memory is gone, the disk stays.
Crash ==
    /\ crashes < MaxCrashes
    /\ \E x \in Writers : ~At(x, "idle")
    /\ w' = [x \in Writers |-> Idle]
    /\ crashes' = crashes + 1
    /\ UNCHANGED <<disk, ops, failed>>

----------------------------------------------------------------------------

Next ==
    \/ \E x \in Writers :
        \/ write_path(x) \/ mkdir_path(x) \/ unlink_path(x) \/ rmdir_path(x)
        \/ ReadBitmap(x) \/ take_bit(x) \/ CountBlock(x) \/ Fill(x) \/ LaidOut(x)
        \/ Commit(x) \/ FreeBlock(x) \/ UncountBlock(x)
        \/ alloc_inode(x) \/ PatchInode(x) \/ dir_insert(x) \/ GrowDir(x) \/ bump_links(x)
        \/ dir_remove(x) \/ free_inode(x) \/ sync_backups(x)
    \/ Crash

Spec == Init /\ [][Next]_vars

----------------------------------------------------------------------------
(* Properties. *)

Subdirs(i) == {e \in read_dir(i) : inode[e[2]].kind = "dir"}
Reachable == {path_lookup(p) : p \in Paths \cup {<<>>}} \ {0}

\* Whatever a power loss interrupts, a file reads as exactly what one call of
\* write_path put there: never a mix of two writes, or the blocks of another
\* file (write_path's commit before free).
NoTornFile ==
    \A p \in Paths :
        LET i == path_lookup(p)
        IN i # 0 /\ inode[i].kind = "file" =>
            \/ inode[i].len = 0
            \/ \E v \in 1..MaxOps : read_path(p) = [k \in 1..inode[i].len |-> Data(v, k)]

\* Between calls that succeeded, and without a power loss, what e2fsck compares
\* agrees: the bitmaps with the blocks and inodes in use, each block in one
\* place, the link counts with the directories, the free count with the bitmap and
\* the backup with the primary (alloc_block, free_block, dir_insert, sync_backups).
FsckClean ==
    (\A x \in Writers : At(x, "idle")) /\ crashes = 0 /\ ~failed =>
        /\ bmap = UNION {ToSet(all_blocks(i)) : i \in Reachable}
        /\ \A i, j \in Reachable : i # j => ToSet(all_blocks(i)) \cap ToSet(all_blocks(j)) = {}
        /\ imap = Reachable
        /\ \A i \in Reachable : inode[i].links = IF inode[i].kind = "dir" THEN 2 + Cardinality(Subdirs(i)) ELSE 1
        /\ nfree = NBlocks - Cardinality(bmap)
        /\ backup = nfree

=============================================================================
