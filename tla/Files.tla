------------------------------- MODULE Files -------------------------------
(***************************************************************************)
(* Open files over ext2 and the boot medium (kernel/src/file.rs, the path  *)
(* calls of syscall.rs, CreateFileA with device.rs, file-backed sections). *)
(*                                                                         *)
(* An open of a regular file copies it; a write changes the copy and then  *)
(* stores the whole copy under the path the file had when it was opened,   *)
(* whatever became of that path.  A call is one step: Ext2 has the steps   *)
(* of one write_path, for one writer at a time.  Every store may run out   *)
(* of space.  A regular file is never looked into as a directory, and a    *)
(* behaviour ends when a store replaces the entries of a directory.        *)
(***************************************************************************)
EXTENDS Integers, Sequences, FiniteSets, FiniteSetsExt, Functions

CONSTANTS
    Tasks, Uid,         \* the tasks; the user each runs as, its group of the same number
    Owners,             \* the pairs of user and group given to chown
    Args,               \* path arguments: [abs, parts], "" and ".." parts included
    WinNames,           \* names given to CreateFileA: [prefix, parts]
    Bytes, MaxFile,     \* values of a byte other than 0; longest file
    Installed,          \* the system's files on the disk: path -> contents
    CdFiles,            \* the boot medium: path -> contents
    MaxObjs, MaxFileCalls   \* bounds: opens, and calls in all

VARIABLES
    node,       \* the tree: path -> [dir, uid, gid, mode, data], and the ghost `by',
                \* the object whose store the data is, 0 if none
    objs,       \* open-file objects: [kind, path, buf, pos], and the ghosts `was', the
                \* contents when opened, `log', the writes since: [pos, src], and
                \* `stored', how many of them the last store that succeeded held
    fds, cwd,   \* task -> descriptor table; task -> working directory
    sec,        \* the section: [file, data, mapped], or NoSection
    fileCalls

filesVars == <<node, objs, fds, cwd, sec, fileCalls>>

Contents == Seq(Bytes \cup {0})

ASSUME FilesAssumption ==
    /\ \A p \in DOMAIN Installed : Installed[p] \in Contents
    /\ \A p \in DOMAIN CdFiles : CdFiles[p] \in Contents
    /\ MaxFile \in Nat

D == INSTANCE Descriptors WITH NoEntry <- 0

Root == <<>>
NoSection == [file |-> 0, data |-> <<>>, mapped |-> FALSE]
\* 0644, and the read and write bits of 0755; 0600.
Public == {<<"u", "r">>, <<"u", "w">>, <<"g", "r">>, <<"o", "r">>}
Private == {<<"u", "r">>, <<"u", "w">>}
Owned(isDir, uid) == [dir |-> isDir, uid |-> uid, gid |-> uid, mode |-> Public, data |-> <<>>, by |-> 0]

FilesInit ==
    /\ \E u \in {Uid[t] : t \in Tasks} :
        node = [p \in {Root} \cup DOMAIN Installed |->
                    IF p = Root THEN Owned(TRUE, u) ELSE [Owned(FALSE, 0) EXCEPT !.data = Installed[p]]]
    /\ objs = <<>> /\ sec = NoSection /\ fileCalls = 0
    /\ fds = [t \in Tasks |-> <<>>]
    /\ cwd = [t \in Tasks |-> Root]

----------------------------------------------------------------------------
(* Paths. *)

parent_of(p) == IF p = Root THEN Root ELSE SubSeq(p, 1, Len(p) - 1)

\* The task's directory, then the argument: "." is dropped and ".." pops.
resolve_path(t, arg) ==
    LET comps[n \in 0..Len(arg.parts)] ==
            IF n = 0 THEN IF arg.abs THEN Root ELSE cwd[t]
            ELSE LET p == comps[n - 1]
                     c == arg.parts[n]
                 IN IF c \in {"", "."} THEN p
                    ELSE IF c # ".." THEN Append(p, c)
                    ELSE parent_of(p)
    IN comps[Len(arg.parts)]

to_posix(parts) == SelectSeq(parts, LAMBDA c : c # "")

\* The device behind a drive letter or an object name; another one has none.
resolve(name) ==
    CASE name.prefix \in {"C:", "\\Device\\HarddiskVolume1", ""} -> [dev |-> "Ext2", path |-> to_posix(name.parts)]
      [] name.prefix \in {"D:", "\\Device\\CdRom0"} -> [dev |-> "Cdrom", path |-> to_posix(name.parts)]
      [] OTHER -> [dev |-> "none", path |-> Root]

Present(p) == p \in DOMAIN node
Below(p) == {q \in DOMAIN node : q # Root /\ parent_of(q) = p}

\* Owner, group or others, whichever comes first; uid 0 may do anything.
access_ok(n, u, op) ==
    u = 0 \/ <<IF u = n.uid THEN "u" ELSE IF u = n.gid THEN "g" ELSE "o", op>> \in n.mode

----------------------------------------------------------------------------
(* The file system, as the calls see it. *)

\* The tree with the node n at p.
With(tree, p, n) == [q \in DOMAIN tree \cup {p} |-> IF q = p THEN n ELSE tree[q]]

\* write_path_owned: a file that exists keeps its owner and mode.  None when the
\* parent is gone or, for room = FALSE, when the disk is full.
write_path(tree, path, data, u, o, room) ==
    IF ~room \/ path = Root \/ parent_of(path) \notin DOMAIN tree THEN tree
    ELSE With(tree, path, [(IF path \in DOMAIN tree THEN tree[path] ELSE Owned(FALSE, u))
                           EXCEPT !.data = data, !.by = o])

mkdir_path_owned(p, u) ==
    /\ ~Present(p) /\ Present(parent_of(p)) /\ node[parent_of(p)].dir
    /\ node' = With(node, p, Owned(TRUE, u))

Without(p) == [q \in DOMAIN node \ {p} |-> node[q]]
unlink_path(p) == p # Root /\ Present(p) /\ ~node[p].dir /\ node' = Without(p)
rmdir_path(p) == p # Root /\ Present(p) /\ node[p].dir /\ Below(p) = {} /\ node' = Without(p)

chmod_path(p, m) == Present(p) /\ node' = [node EXCEPT ![p].mode = m]
chown_path(p, o) == Present(p) /\ node' = [node EXCEPT ![p].uid = o[1], ![p].gid = o[2]]

\* A store through a stale path that names a directory by now.
Clobbered == \E p \in DOMAIN node : node[p].dir /\ node[p].by # 0

Call == ~Clobbered /\ fileCalls < MaxFileCalls /\ fileCalls' = fileCalls + 1

\* Creating an entry is a write to the parent.
MayCreate(t, p) == Present(parent_of(p)) => access_ok(node[parent_of(p)], Uid[t], "w")

sys_mkdir(t) ==
    \E arg \in Args :
        LET p == resolve_path(t, arg)
        IN /\ MayCreate(t, p)
           /\ mkdir_path_owned(p, Uid[t])
           /\ UNCHANGED <<objs, fds, cwd, sec>>

\* unlink and rmdir; neither looks at the parent's mode.
sys_unlink(t) ==
    \E arg \in Args :
        LET p == resolve_path(t, arg)
        IN /\ unlink_path(p) \/ rmdir_path(p)
           /\ UNCHANGED <<objs, fds, cwd, sec>>

sys_chmod(t) ==
    \E arg \in Args, m \in {Public, Private} :
        LET p == resolve_path(t, arg)
        IN /\ Present(p) /\ Uid[t] \in {0, node[p].uid}
           /\ chmod_path(p, m)
           /\ UNCHANGED <<objs, fds, cwd, sec>>

sys_chown(t) ==
    \E arg \in Args, o \in Owners :
        LET p == resolve_path(t, arg)
        IN /\ Uid[t] = 0
           /\ chown_path(p, o)
           /\ UNCHANGED <<objs, fds, cwd, sec>>

SysChdir(t) ==
    \E arg \in Args :
        LET p == resolve_path(t, arg)
        IN /\ Present(p) /\ node[p].dir
           /\ cwd' = [cwd EXCEPT ![t] = p]
           /\ UNCHANGED <<node, objs, fds, sec>>

----------------------------------------------------------------------------
(* Opening. *)

\* The next object, at the lowest free descriptor.
fd_alloc(t, kind, path, data) ==
    /\ objs' = Append(objs, [kind |-> kind, path |-> path, buf |-> data, pos |-> 0,
                             was |-> data, log |-> <<>>, stored |-> 0])
    /\ fds' = [fds EXCEPT ![t] = D!Place(@, Len(objs) + 1, 0).tab]

\* The entries of a directory, in some order.
Entries(p) == CHOOSE s \in [1..Cardinality(Below(p)) -> Below(p)] : Range(s) = Below(p)

\* The checked open: a file is copied, a directory's entries are listed.
open_resolved_access(t, tree, p, want) ==
    /\ p \in DOMAIN tree
    /\ \A op \in want : access_ok(tree[p], Uid[t], op)
    /\ IF tree[p].dir THEN fd_alloc(t, "dir", p, Entries(p))
       ELSE fd_alloc(t, "file", p, tree[p].data)

\* open: with O_CREAT a missing file is created first.
open_resolved(t) ==
    \E arg \in Args, want \in {{"r"}, {"w"}, {"r", "w"}}, flags \in {{}, {"CREAT"}, {"CREAT", "EXCL"}} :
        LET p == resolve_path(t, arg)
            tree == IF "CREAT" \in flags /\ ~Present(p) THEN write_path(node, p, <<>>, Uid[t], 0, TRUE) ELSE node
        IN /\ "EXCL" \in flags => ~Present(p)
           /\ tree # node => MayCreate(t, p)
           /\ Present(parent_of(p)) => node[parent_of(p)].dir
           /\ Len(objs) < MaxObjs
           /\ node' = tree
           /\ open_resolved_access(t, tree, p, want)
           /\ UNCHANGED <<cwd, sec>>

\* CreateFileA opens what exists; the boot medium takes no writer.
CreateFileA(t) ==
    \E name \in WinNames, want \in SUBSET {"r", "w"} :
        LET r == resolve(name)
        IN /\ Len(objs) < MaxObjs
           /\ \/ r.dev = "Ext2" /\ open_resolved_access(t, node, r.path, want)
              \/ /\ r.dev = "Cdrom" /\ "w" \notin want /\ r.path \in DOMAIN CdFiles
                 /\ fd_alloc(t, "cd", r.path, CdFiles[r.path])
           /\ UNCHANGED <<node, cwd, sec>>

Close(t) ==
    \E fd \in 0..Len(fds[t]) - 1 :
        /\ D!Open(fds[t], fd)
        /\ fds' = [fds EXCEPT ![t] = D!fd_close(@, fd).tab]
        /\ UNCHANGED <<node, objs, cwd, sec>>

Dup(t) ==
    \E fd \in 0..Len(fds[t]) - 1 :
        /\ D!Open(fds[t], fd) /\ Len(fds[t]) <= MaxObjs
        /\ fds' = [fds EXCEPT ![t] = D!Place(@, @[fd + 1], 0).tab]
        /\ UNCHANGED <<node, objs, cwd, sec>>

----------------------------------------------------------------------------
(* Reading and writing. *)

OpenObjs(t) == {fds[t][n] : n \in DOMAIN fds[t]} \ {0}
Zeros(n) == [k \in 1..n |-> 0]

\* What a read of n bytes returns.
ReadOf(o, n) == SubSeq(o.buf, o.pos + 1, IF o.pos + n < Len(o.buf) THEN o.pos + n ELSE Len(o.buf))

\* The copy after a write at its position: zeros fill a gap.
Patched(o, src) ==
    LET long == o.buf \o Zeros(o.pos + Len(src) - Len(o.buf))
    IN [k \in DOMAIN long |-> IF k > o.pos /\ k <= o.pos + Len(src) THEN src[k - o.pos] ELSE long[k]]

\* Mistake: the copy is stored as it was before the write.
write_stale(s, o, src, room) ==
    LET obj == s.objs[o]
        ok == room /\ parent_of(obj.path) \in DOMAIN s.node
        log == Append(obj.log, [pos |-> obj.pos, src |-> src])
    IN [objs |-> [s.objs EXCEPT ![o] = [obj EXCEPT !.buf = Patched(obj, src), !.pos = obj.pos + Len(src), !.log = log,
                                                   !.stored = IF ok THEN Len(log) ELSE obj.stored]],
        node |-> write_path(s.node, obj.path, obj.buf, 0, o, room), ok |-> ok]

\* Ext2File::write: the copy and the position change first, whether or not the
\* store then succeeds; a file that is missing by then is created again, as uid 0's.
write(s, o, src, room) ==
    LET obj == s.objs[o]
        ok == room /\ parent_of(obj.path) \in DOMAIN s.node
        log == Append(obj.log, [pos |-> obj.pos, src |-> src])
    IN [objs |-> [s.objs EXCEPT ![o] = [obj EXCEPT !.buf = Patched(obj, src), !.pos = obj.pos + Len(src), !.log = log,
                                                   !.stored = IF ok THEN Len(log) ELSE obj.stored]],
        node |-> write_path(s.node, obj.path, Patched(obj, src), 0, o, room), ok |-> ok]

Now == [objs |-> objs, node |-> node, ok |-> TRUE]
Becomes(s) == objs' = s.objs /\ node' = s.node
Strings == {<<b>> : b \in Bytes}

\* read, and the NT calls that end in file_read_core.
sys_read(t) ==
    \E o \in OpenObjs(t), n \in 1..MaxFile :
        /\ objs[o].kind # "dir"
        /\ objs' = [objs EXCEPT ![o].pos = @ + Len(ReadOf(objs[o], n))]
        /\ UNCHANGED <<node, fds, cwd, sec>>

\* write, and the NT calls that end in file_write_core.
sys_write(t) ==
    \E o \in OpenObjs(t), a \in Strings, room \in BOOLEAN :
        /\ objs[o].kind = "file" /\ objs[o].pos + Len(a) <= MaxFile
        /\ Becomes(write(Now, o, a, room))
        /\ UNCHANGED <<fds, cwd, sec>>

\* writev: the buffers in turn, until one fails.
sys_writev(t) ==
    \E o \in OpenObjs(t), a, b \in Strings, r1, r2 \in BOOLEAN :
        LET one == write(Now, o, a, r1)
        IN /\ objs[o].kind = "file" /\ objs[o].pos + Len(a) + Len(b) <= MaxFile
           /\ Becomes(IF one.ok THEN write(one, o, b, r2) ELSE one)
           /\ UNCHANGED <<fds, cwd, sec>>

\* lseek: anywhere not negative, past the end included; a directory rewinds.
seek(t) ==
    \E o \in OpenObjs(t), base \in {"SET", "CUR", "END"}, offset \in -1..MaxFile :
        LET np == offset + (CASE base = "SET" -> 0 [] base = "CUR" -> objs[o].pos
                              [] base = "END" -> Len(objs[o].buf))
        IN /\ np >= 0 /\ np < MaxFile /\ np # objs[o].pos
           /\ objs[o].kind = "dir" => base = "SET" /\ offset = 0
           /\ objs' = [objs EXCEPT ![o].pos = np]
           /\ UNCHANGED <<node, fds, cwd, sec>>

\* getdents64: the next entries that fit the caller's buffer.
getdents64(t) ==
    \E o \in OpenObjs(t), fit \in 1..2 :
        /\ objs[o].kind = "dir"
        /\ objs' = [objs EXCEPT ![o].pos = @ + Len(ReadOf(objs[o], fit))]
        /\ UNCHANGED <<node, fds, cwd, sec>>

\* sendfile: what is read moves the source's position even when the write fails.
\* start: the caller's offset, or where the source is.
sys_sendfile(t) ==
    \E i, o \in OpenObjs(t), room \in BOOLEAN : \E start \in {0, objs[i].pos} :
        LET src == [objs[i] EXCEPT !.pos = start]
            got == ReadOf(src, MaxFile)
            s == [Now EXCEPT !.objs[i].pos = start + Len(got)]
        IN /\ objs[i].kind # "dir" /\ got # <<>> /\ s.objs[o].pos + Len(got) <= MaxFile
           /\ Becomes(IF objs[o].kind = "file" THEN write(s, o, got, room) ELSE s)
           /\ UNCHANGED <<fds, cwd, sec>>

----------------------------------------------------------------------------
(* A section over a file. *)

\* NtCreateSection reads from the position to the end; with no file it is zeroed.
NtCreateSection(t) ==
    \E o \in OpenObjs(t) \cup {0} :
        /\ sec = NoSection
        /\ LET data == IF o = 0 THEN Zeros(1)
                       ELSE IF objs[o].kind = "dir" THEN <<>> ELSE ReadOf(objs[o], MaxFile)
           IN /\ data # <<>>        \* an empty section can never be mapped
              /\ sec' = [file |-> o, data |-> data, mapped |-> TRUE]
              /\ objs' = IF o = 0 THEN objs ELSE [objs EXCEPT ![o].pos = @ + Len(data)]
        /\ UNCHANGED <<node, fds, cwd>>

\* A store of the program through the view.
Store ==
    \E k \in DOMAIN sec.data, b \in Bytes :
        /\ sec.mapped
        /\ sec' = [sec EXCEPT !.data[k] = b]
        /\ UNCHANGED <<node, objs, fds, cwd>>

\* Section::flush: rewind the file and write the whole section.
flush(room) ==
    IF sec.file = 0 THEN Now
    ELSE LET s == [Now EXCEPT !.objs[sec.file].pos = 0]
         IN IF objs[sec.file].kind = "file" THEN write(s, sec.file, sec.data, room) ELSE s

NtFlushVirtualMemory ==
    \E room \in BOOLEAN :
        /\ sec.mapped
        /\ Becomes(flush(room))
        /\ UNCHANGED <<fds, cwd, sec>>

\* The unmap goes on whatever the flush returned.
NtUnmapViewOfSection ==
    \E room \in BOOLEAN :
        /\ sec.mapped
        /\ Becomes(flush(room))
        /\ sec' = NoSection
        /\ UNCHANGED <<fds, cwd>>

----------------------------------------------------------------------------
FilesNext ==
    /\ Call
    /\ \/ \E t \in Tasks :
            \/ sys_mkdir(t) \/ sys_unlink(t) \/ sys_chmod(t) \/ sys_chown(t) \/ SysChdir(t)
            \/ open_resolved(t) \/ CreateFileA(t) \/ Close(t) \/ Dup(t)
            \/ sys_read(t) \/ sys_write(t) \/ sys_writev(t) \/ seek(t) \/ getdents64(t) \/ sys_sendfile(t)
            \/ NtCreateSection(t)
       \/ Store \/ NtFlushVirtualMemory \/ NtUnmapViewOfSection

FilesSpec == FilesInit /\ [][FilesNext]_filesVars

----------------------------------------------------------------------------
(* Properties. *)

\* Byte k of a file after the first n of an object's writes: of the last one that
\* covers k, else what the file held when it was opened, else the zero of a hole.
Covers(e, k) == e.pos < k /\ k <= e.pos + Len(e.src)
ByteAt(o, n, k) ==
    LET W == {i \in 1..n : Covers(o.log[i], k)}
    IN IF W # {} THEN LET last == o.log[Max(W)] IN last.src[k - last.pos]
       ELSE IF k <= Len(o.was) THEN o.was[k] ELSE 0

Extent(o, n) == Max({Len(o.was)} \cup {o.log[i].pos + Len(o.log[i].src) : i \in 1..n})

\* The first n writes add up to data.
AddUpTo(o, n, data) ==
    Len(data) = Extent(o, n) /\ \A k \in DOMAIN data : data[k] = ByteAt(o, n, k)

\* What the disk holds under a path is exactly what the writes through the object
\* that stored it last add up to, its earlier failed writes included, whatever was
\* unlinked, re-created, read, seeked, duplicated, sent or flushed from a section
\* in between (Ext2File::write, Section::flush, write_path).
WritesKept ==
    \A p \in DOMAIN node :
        LET o == objs[node[p].by]
        IN node[p].by # 0 =>
            o.path = p /\ o.kind = "file" /\ AddUpTo(o, o.stored, node[p].data)

(* The inductive invariant. *)

\* All the writes through an object, stored or not, add up to its copy.
ObjectInv(o) ==
    /\ DOMAIN o = {"kind", "path", "buf", "pos", "was", "log", "stored"}
    /\ o.kind # "dir" => o.buf \in Contents /\ o.pos \in Nat
    /\ o.kind = "file" =>
        /\ o.was \in Contents /\ o.log \in Seq([pos : Nat, src : Contents])
        /\ o.stored \in 0..Len(o.log)
        /\ AddUpTo(o, Len(o.log), o.buf)

\* The first of them, up to the last store, add up to what that store left.
NodeInv(os, p, n) ==
    /\ DOMAIN n = {"dir", "uid", "gid", "mode", "data", "by"}
    /\ n.data \in Contents /\ n.by \in 0..Len(os)
    /\ n.by # 0 => /\ p # Root /\ os[n.by].path = p /\ os[n.by].kind = "file"
                   /\ AddUpTo(os[n.by], os[n.by].stored, n.data)

KeptInv(os, tree) ==
    /\ os \in Seq(Range(os))
    /\ \A i \in 1..Len(os) : ObjectInv(os[i])
    /\ \A p \in DOMAIN tree : NodeInv(os, p, tree[p])

FilesInv ==
    /\ KeptInv(objs, node)
    /\ fds \in [Tasks -> Seq(0..Len(objs))]
    /\ sec \in [file : 0..Len(objs), data : Contents, mapped : BOOLEAN]

=============================================================================
