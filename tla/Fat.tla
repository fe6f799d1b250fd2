-------------------------------- MODULE Fat --------------------------------
(***************************************************************************)
(* The read side of the boot medium (kernel/src/gpt.rs, kernel/src/fat.rs, *)
(* device::open_cdrom): find the EFI system partition in the GPT, read the *)
(* BPB, walk the directories and follow a file's cluster chain.            *)
(*                                                                         *)
(* The medium is what a formatter laid out: `vol' says where, and Sector   *)
(* what is in each sector.  A sector holds SECTOR bytes, ENTS directory    *)
(* entries, SECTOR entries of a FAT16 or SECTOR \div 2 of a FAT32, and a   *)
(* directory's names are pairs of base and extension.                      *)
(***************************************************************************)
EXTENDS Integers, Sequences, SequencesExt

CONSTANTS
    Volumes,        \* the media: see Sector
    SECTOR, ENTS,   \* bytes, and directory entries, in a sector
    EOC,            \* least FAT value that ends a chain
    Fat32Min,       \* clusters from which a volume is FAT32 (65525)
    Upper           \* a name, in capitals

VARIABLES
    vol,        \* the medium
    path, want, \* the path asked for, a sequence of names; what is left of it
    pc,         \* "gpt", "bpb", "dir", "file", "done"
    fat,        \* struct Fat
    clus, out,  \* read_chain: the cluster to read next, what was read so far
    ent,        \* the entry of the file
    result      \* [some, data]

vars == <<vol, path, want, pc, fat, clus, out, ent, result>>

----------------------------------------------------------------------------
(* The medium. *)

RootSecs(v) == IF v.fat32 THEN 0 ELSE 2
PerFatSec(v) == IF v.fat32 THEN SECTOR \div 2 ELSE SECTOR
FatSecs(v) == v.top \div PerFatSec(v) + 1
FirstData(v) == v.rsvd + v.nfats * FatSecs(v) + RootSecs(v)

\* The FAT that the chains of the root, the directory and the file make.
FatOf(v, c) ==
    LET In(ch) == {n \in 1..Len(ch) : ch[n] = c}
        Next(ch) == LET n == CHOOSE n \in In(ch) : TRUE
                    IN IF n = Len(ch) THEN EOC ELSE ch[n + 1]
    IN CASE In(v.root) # {} -> Next(v.root)
         [] In(v.dir) # {} -> Next(v.dir)
         [] In(v.file) # {} -> Next(v.file)
         [] OTHER -> 0

Entry(kind, name, first, size) == [kind |-> kind, name |-> name, first |-> first, size |-> size]
Deleted == Entry("deleted", <<"F", "X">>, 0, 0)
End == Entry("end", <<"", "">>, 0, 0)

\* A directory with one live entry, the n-th: deleted ones before it, and names of
\* the long form, then the end.
Listing(n, e) ==
    LET L == [i \in 1..n |-> IF i = n THEN e ELSE IF i % 2 = 0 THEN Entry("lfn", e.name, 9, 9) ELSE Deleted]
    IN [i \in 1..12 |-> IF i <= n THEN L[i] ELSE End]
RootListing(v) == Listing(v.slot, Entry("dir", <<"D", "">>, v.dir[1], 0))
DirListing(v) == Listing(v.slot, Entry("file", <<"F", "X">>, IF v.size = 0 THEN 0 ELSE v.file[1], v.size))

\* The k-th sector of what a chain holds.
Chunk(list, k) == SubSeq(list, k * ENTS + 1, (k + 1) * ENTS)
FileBytes(k) == [n \in 1..SECTOR |-> k * SECTOR + n]

DataSector(v, c, s) ==
    LET Place(ch) == (CHOOSE n \in 1..Len(ch) : ch[n] = c) * v.spc - v.spc + s
        In(ch) == \E n \in 1..Len(ch) : ch[n] = c
    IN CASE In(v.root) -> Chunk(RootListing(v), Place(v.root))
         [] In(v.dir) -> Chunk(DirListing(v), Place(v.dir))
         [] In(v.file) -> FileBytes(Place(v.file))
         [] OTHER -> <<>>

\* The sector at lba of the medium.
Sector(v, lba) ==
    LET p == lba - v.esp
        data == p - FirstData(v)
    IN CASE lba = v.base + 1 -> [sig |-> v.bad # "gpt", entry_lba |-> 2, count |-> IF v.bad = "count" THEN 0 ELSE 2]
         [] lba = v.base + 2 -> <<[type |-> "other", start |-> 9], [type |-> "ESP", start |-> v.esp - v.base]>>
         [] p = 0 -> [sig |-> v.bad # "boot", bytes |-> IF v.bad = "bytes" THEN 2 * SECTOR ELSE SECTOR,
                      rsvd |-> v.rsvd, spc |-> v.spc, nfats |-> v.nfats,
                      root_entries |-> IF v.fat32 THEN 0 ELSE 2 * ENTS - 1, fatsz |-> FatSecs(v),
                      total |-> FirstData(v) + (v.top - 1) * v.spc, root |-> IF v.fat32 THEN v.root[1] ELSE 0]
         [] p >= v.rsvd /\ p < v.rsvd + FatSecs(v) ->
                [n \in 1..PerFatSec(v) |-> FatOf(v, (p - v.rsvd) * PerFatSec(v) + n - 1)]
         [] p >= FirstData(v) - RootSecs(v) /\ data < 0 -> Chunk(RootListing(v), data + RootSecs(v))
         [] data >= 0 -> DataSector(v, data \div v.spc + 2, data % v.spc)
         [] OTHER -> <<>>

NoFile == [some |-> FALSE, data |-> <<>>]
Some(d) == [some |-> TRUE, data |-> d]

Init ==
    /\ vol \in Volumes
    /\ path \in {<<>>, <<<<"d">>>>, <<<<"d">>, <<"f", "x">>>>, <<<<"d">>, <<"f">>>>}
    /\ want = path
    /\ pc = "gpt" /\ fat = 0 /\ clus = 0 /\ out = <<>> /\ ent = 0 /\ result = NoFile

----------------------------------------------------------------------------
(* Finding and opening the volume. *)

Return(x) == pc' = "done" /\ result' = x /\ UNCHANGED <<vol, path, want, fat, clus, out, ent>>

\* find_partition: the first entry of the type that has a start.
find_partition(type) ==
    LET hdr == Sector(vol, vol.base + 1)
        arr == Sector(vol, vol.base + hdr.entry_lba)
        Match == {i \in 1..hdr.count : arr[i].type = type /\ arr[i].start # 0}
    IN IF ~hdr.sig \/ hdr.count = 0 \/ Match = {} THEN {}
       ELSE {vol.base + arr[CHOOSE i \in Match : \A j \in Match : i <= j].start}

\* Fat::open: where the FAT, the root directory and cluster 2 are.
Geometry(lba, bpb) ==
    LET rootSecs == (bpb.root_entries + ENTS - 1) \div ENTS
        first == bpb.rsvd + bpb.nfats * bpb.fatsz + rootSecs
    IN [spc |-> bpb.spc, fat_start |-> lba + bpb.rsvd, root_dir_lba |-> first - rootSecs + lba,
        root_dir_sectors |-> rootSecs, data_start |-> lba + first,
        root |-> bpb.root, fat32 |-> (bpb.total - first) \div bpb.spc >= Fat32Min]

\* The BPB is one that Fat::open takes.
Mountable(bpb) ==
    /\ bpb.sig /\ bpb.bytes = SECTOR /\ bpb.spc # 0 /\ bpb.nfats # 0
    /\ bpb.total > bpb.rsvd + bpb.nfats * bpb.fatsz + (bpb.root_entries + ENTS - 1) \div ENTS

open_cdrom ==
    /\ pc = "gpt"
    /\ LET Esp == {l \in find_partition("ESP") : Mountable(Sector(vol, l))}
       IN IF Esp = {} THEN Return(NoFile)
          ELSE \E lba \in Esp :
                LET f == Geometry(lba, Sector(vol, lba))
                IN /\ fat' = f
                   /\ clus' = IF f.fat32 THEN f.root ELSE 0
                   /\ pc' = "dir"
                   /\ UNCHANGED <<vol, path, want, out, ent, result>>

----------------------------------------------------------------------------
(* Chains. *)

\* The sectors from lba on, put together.
read_sectors(lba, n) == FlattenSeq([i \in 1..n |-> Sector(vol, lba + i - 1)])

clus_lba(c) == fat.data_start + (c - 2) * fat.spc

\* The FAT's entry for c; 0 at the end of the chain.
next_clus(c) ==
    LET per == IF fat.fat32 THEN SECTOR \div 2 ELSE SECTOR
        val == Sector(vol, fat.fat_start + c \div per)[(c % per) + 1]
    IN IF val < 2 \/ val >= EOC THEN 0 ELSE val

\* One turn of read_chain: the cluster, then the next one unless enough is there.
\* at_least = 0 asks for the whole chain.
Turn(at_least) ==
    LET got == out \o read_sectors(clus_lba(clus), fat.spc)
    IN [got |-> got,
        next |-> IF at_least # 0 /\ Len(got) >= at_least THEN 0 ELSE next_clus(clus)]

\* Short names compare without case.
sname(e) == IF e.name[2] = "" THEN <<e.name[1]>> ELSE e.name
Same(e, name) == sname(e) = [i \in DOMAIN name |-> Upper[name[i]]]

\* Mistake: a deleted entry is found.
lookup_deleted(data, name) ==
    LET Live == {i \in 1..Len(data) :
                    /\ \A j \in 1..i : data[j].kind # "end"
                    /\ data[i].kind # "lfn" /\ Same(data[i], name)}
    IN IF Live = {} THEN {} ELSE {data[CHOOSE i \in Live : \A j \in Live : i <= j]}

\* lookup: the first live entry of the name before the end mark.
lookup(data, name) ==
    LET Live == {i \in 1..Len(data) :
                    /\ \A j \in 1..i : data[j].kind # "end"
                    /\ data[i].kind \in {"dir", "file"} /\ Same(data[i], name)}
    IN IF Live = {} THEN {} ELSE {data[CHOOSE i \in Live : \A j \in Live : i <= j]}

----------------------------------------------------------------------------
(* read_path. *)

\* The directory is read whole; then its entry for the next component decides.
Component(data) ==
    IF lookup(data, Head(want)) = {} THEN Return(NoFile)
    ELSE LET e == CHOOSE x \in lookup(data, Head(want)) : TRUE
         IN CASE Len(want) = 1 /\ e.kind = "dir" -> Return(NoFile)
              [] Len(want) = 1 /\ e.kind # "dir" /\ (e.size = 0 \/ e.first < 2) -> Return(Some(<<>>))
              [] Len(want) > 1 /\ e.kind # "dir" -> Return(NoFile)
              [] OTHER -> /\ pc' = IF Len(want) = 1 THEN "file" ELSE "dir"
                          /\ want' = Tail(want)
                          /\ clus' = e.first /\ ent' = e /\ out' = <<>>
                          /\ UNCHANGED <<vol, path, fat, result>>

ReadDir ==
    /\ pc = "dir"
    /\ CASE want = <<>> -> Return(NoFile)
         [] want # <<>> /\ ~fat.fat32 /\ clus = 0 ->
                Component(read_sectors(fat.root_dir_lba, fat.root_dir_sectors))
         [] OTHER ->
                LET t == Turn(0)
                IN IF t.next = 0 THEN Component(t.got)
                   ELSE /\ out' = t.got /\ clus' = t.next
                        /\ UNCHANGED <<vol, path, want, pc, fat, ent, result>>

\* The file's chain, until its size is there; then cut to the size.
ReadFile ==
    /\ pc = "file"
    /\ LET t == Turn(ent.size)
       IN IF t.next = 0 THEN Return(Some(SubSeq(t.got, 1, ent.size)))
          ELSE /\ out' = t.got /\ clus' = t.next
               /\ UNCHANGED <<vol, path, want, pc, fat, ent, result>>

Next == open_cdrom \/ ReadDir \/ ReadFile

Spec == Init /\ [][Next]_vars

----------------------------------------------------------------------------
(* Properties. *)

\* A read from the boot medium returns the file's bytes, all of them and in order,
\* wherever the formatter put the partition, the FATs, the root and the clusters
\* of the chain, FAT16 or FAT32; and a path that names no file returns none
\* (find_partition, Fat::open, next_clus, read_chain, lookup, read_path).
FileIsWhole ==
    pc = "done" =>
        result = IF vol.bad = "" /\ path = <<<<"d">>, <<"f", "x">>>> THEN Some([n \in 1..vol.size |-> n]) ELSE NoFile

=============================================================================
