------------------------------- MODULE Files -------------------------------
(***************************************************************************)
(* The file systems: the virtual file system of fs/vfs.c (a tree of nodes, *)
(* mounts and path lookup), the RAM file system of fs/ramfs.c, the /proc   *)
(* files of fs/procfs.c, and their users: the echo and cat commands of the *)
(* shell and the kernel modules, which open, read, write and mount.        *)
(*                                                                         *)
(* A path is the sequence of names that strtok cuts it into.  The node of  *)
(* a RAM file is its slot number, that of a /proc file its name.  Offsets  *)
(* and sizes are 32-bit numbers: they wrap around at Mod.                  *)
(***************************************************************************)
EXTENDS Integers, Sequences, FiniteSets, FiniteSetsExt, SequencesExt

CONSTANTS
    RAMFS_MAX_FILES, RAMFS_MAX_DATA, Mod,
    ROOT, RAM, PROC,        \* the directory nodes, and the names of two
    ModNodes,               \* nodes that kernel modules bring along
    MountNames,             \* names modules mount them at
    Plain, Odd,             \* file names: without a slash; others (echo takes
                            \* any string, the empty one too)
    ProcFiles,              \* nodes and names of the files in /proc
    ProcLength,             \* lengths a /proc file may have when it is read
    NULL, HUNG,             \* results of a lookup: none; it never ends
    Zero, Chars,            \* bytes: '\0' and those that modules write
    OpenPaths,              \* the paths that are opened
    Messages, Sizes,        \* what echo writes; sizes passed to read and write
    MaxMounts               \* bound: mounts by modules

Slots == 1 .. RAMFS_MAX_FILES
Dirs == {ROOT, RAM, PROC} \cup ModNodes
Names == Plain \cup Odd
Bytes == Chars \cup {Zero} \cup UNION {ToSet(m) : m \in Messages}
Nodes == Dirs \cup Slots \cup ProcFiles

\* Directories, slots, /proc files and the two other results of a lookup are
\* five kinds of things; paths and messages are sequences.
ASSUME FilesAssumption ==
    /\ RAMFS_MAX_FILES \in Nat /\ RAMFS_MAX_DATA \in Nat \ {0} /\ Mod \in Nat
    /\ RAMFS_MAX_DATA + 1 < Mod
    /\ Plain \cap Odd = {} /\ NULL \notin Names
    /\ Sizes \subseteq Nat /\ ProcLength \subseteq Nat
    /\ IsFiniteSet(ModNodes)
    /\ ROOT # RAM /\ RAM # PROC /\ PROC # ROOT /\ {ROOT, RAM, PROC} \cap ModNodes = {}
    /\ Dirs \cap Slots = {} /\ Dirs \cap ProcFiles = {} /\ Slots \cap ProcFiles = {}
    /\ HUNG # NULL /\ {NULL, HUNG} \cap Nodes = {}
    /\ \A m \in Messages : m \in Seq(Bytes)
    /\ \A path \in OpenPaths : Len(path) \in Nat /\ DOMAIN path = 1 .. Len(path)

VARIABLES
    root,           \* vfs_root
    name,           \* node->name of a directory
    child,          \* node->children
    sib,            \* node->next_sibling
    mounts,         \* history: times a node was mounted
    file,           \* ramfs_files: [used, size, name, data, nsize, nname]
    handle,         \* a node that a module holds open, or NULL; histories:
    opened,         \* its name when it was opened, and
    stale,          \* whether that file has been deleted since
    overrun,        \* history: a copy has left its array, and offset plus
                    \* size had not wrapped around
    down            \* the kernel: "up", "hung" in a list, "crashed" in a copy

tree == <<root, name, child, sib, mounts>>
open == <<handle, opened, stale>>
vars == <<tree, file, open, overrun, down>>

NoFile == [used |-> FALSE, size |-> 0, name |-> NULL,
           data |-> [i \in 0 .. RAMFS_MAX_DATA - 1 |-> Zero],
           nsize |-> 0, nname |-> NULL]

\* After vfs_init, ramfs_init, procfs_init and the mounts of kernel_main.
\* The three files the boot writes are left to echo.
Init ==
    /\ root = ROOT
    /\ name = [d \in Dirs |-> IF d = PROC THEN PROC ELSE IF d = RAM THEN RAM ELSE NULL]
    /\ child = [d \in Dirs |-> IF d = ROOT THEN PROC ELSE NULL]
    /\ sib = [d \in Dirs |-> IF d = PROC THEN RAM ELSE NULL]
    /\ mounts = [d \in Dirs |-> IF d \in {RAM, PROC} THEN 1 ELSE 0]
    /\ file = [i \in Slots |-> NoFile]
    /\ handle = NULL /\ opened = NULL /\ stale = FALSE
    /\ overrun = FALSE
    /\ down = "up"

----------------------------------------------------------------------------
(***************************************************************************)
(* The tree.  Walk(d) are the children of d in list order, and NULL from   *)
(* the end of the list on; a list without an end has come back to itself.  *)
(***************************************************************************)
Walk(d) ==
    LET w[i \in 1 .. Cardinality(Dirs) + 1] ==
            IF i = 1 THEN child[d] ELSE IF w[i - 1] = NULL THEN NULL ELSE sib[w[i - 1]]
    IN  w
Cyclic(d) == Walk(d)[Cardinality(Dirs) + 1] # NULL

vfs_root_finddir(d, n) ==
    LET hits == {i \in DOMAIN Walk(d) : Walk(d)[i] # NULL /\ name[Walk(d)[i]] = n}
    IN  IF hits # {} THEN Walk(d)[Min(hits)]
        ELSE IF Cyclic(d) THEN HUNG ELSE NULL

find(fs, n) ==
    LET hits == {i \in Slots : fs[i].used /\ fs[i].name = n}
    IN  IF hits = {} THEN NULL ELSE Min(hits)
ramfs_find(n) == find(file, n)

procfs_vfs_finddir(n) == IF n \in ProcFiles THEN n ELSE NULL

\* The finddir of the node; a module's node has none.
vfs_finddir(d, n) ==
    CASE d = ROOT -> vfs_root_finddir(d, n)
      [] d = RAM -> ramfs_find(n)
      [] d = PROC -> procfs_vfs_finddir(n)
      [] OTHER -> NULL

\* From node to node along the names; only directories have a finddir.
vfs_lookup_path(path) ==
    LET node[i \in 0 .. Len(path)] ==
            IF i = 0 THEN root
            ELSE IF node[i - 1] = HUNG THEN HUNG
            ELSE IF node[i - 1] \in Dirs THEN vfs_finddir(node[i - 1], path[i]) ELSE NULL
    IN  node[Len(path)]

\* The node goes in front of the parent's children.
Mounted(node, parent) ==
    /\ child' = [child EXCEPT ![parent] = node]
    /\ sib' = [sib EXCEPT ![node] = child[parent]]

vfs_mount(path, node) ==
    LET parent == vfs_lookup_path(Front(path))
    IN  /\ \/ /\ path = <<>>
              /\ root' = node
              /\ UNCHANGED <<name, child, sib, down>>
           \/ /\ path # <<>> /\ parent \in Dirs
              /\ name' = [name EXCEPT ![node] = Last(path)]
              /\ Mounted(node, parent)
              /\ UNCHANGED <<root, down>>
           \/ /\ path # <<>> /\ parent = HUNG
              /\ down' = "hung"
              /\ UNCHANGED <<root, name, child, sib>>
        /\ mounts' = [mounts EXCEPT ![node] = @ + 1]
        /\ UNCHANGED <<file, open, overrun>>

----------------------------------------------------------------------------
(***************************************************************************)
(* The RAM file system: operations on a value fs of file.                  *)
(***************************************************************************)
\* Mutant: the first slot is taken, whether it is used or not.
CreatedInFirstSlot(fs, n) ==
    IF find(fs, n) # NULL THEN fs
    ELSE [fs EXCEPT ![1] =
            [@ EXCEPT !.used = TRUE, !.size = 0, !.name = n,
                      !.data[0] = Zero, !.nsize = 0, !.nname = n]]

\* ramfs_create: the first free slot; only the first byte of data is cleared.
Created(fs, n) ==
    LET free == {i \in Slots : ~fs[i].used}
    IN  IF find(fs, n) # NULL \/ free = {} THEN fs
        ELSE [fs EXCEPT ![Min(free)] =
                [@ EXCEPT !.used = TRUE, !.size = 0, !.name = n,
                          !.data[0] = Zero, !.nsize = 0, !.nname = n]]

\* Mutant: a shorter message leaves the file as long as it was.
WrittenNeverShorter(fs, n, msg) ==
    LET i == find(fs, n)
        k == Min({Len(msg), RAMFS_MAX_DATA})
    IN  IF i = NULL THEN fs
        ELSE [fs EXCEPT ![i] =
                [@ EXCEPT !.size = Max({@, k}), !.nsize = Max({@, k}),
                          !.data = [j \in DOMAIN @ |-> IF j < k THEN msg[j + 1] ELSE @[j]]]]

\* Mutant: the size in the node is not brought up to date.
WrittenNodeStale(fs, n, msg) ==
    LET i == find(fs, n)
        k == Min({Len(msg), RAMFS_MAX_DATA})
    IN  IF i = NULL THEN fs
        ELSE [fs EXCEPT ![i] =
                [@ EXCEPT !.size = k,
                          !.data = [j \in DOMAIN @ |-> IF j < k THEN msg[j + 1] ELSE @[j]]]]

\* ramfs_write: the bytes behind the new end stay in data.
Written(fs, n, msg) ==
    LET i == find(fs, n)
        k == Min({Len(msg), RAMFS_MAX_DATA})
        bytes == [j \in DOMAIN fs[i].data |-> IF j < k THEN msg[j + 1] ELSE fs[i].data[j]]
    IN  IF i = NULL THEN fs
        ELSE [fs EXCEPT ![i] = [@ EXCEPT !.size = k, !.nsize = k, !.data = bytes]]

\* The shell's echo msg > n.  The name is passed on as it is, path or not.
Echo(n, msg) ==
    /\ file' = Written(Created(file, n), n, msg)
    /\ UNCHANGED <<tree, open, overrun, down>>

\* vfs_create and vfs_delete: of the directories only /ram has the operation.
vfs_create(path) ==
    /\ vfs_lookup_path(Front(path)) = RAM
    /\ file' = Created(file, Last(path))
    /\ UNCHANGED <<tree, open, overrun, down>>

vfs_delete(path) ==
    LET i == ramfs_find(Last(path))
    IN  /\ vfs_lookup_path(Front(path)) = RAM /\ i # NULL
        /\ file' = [file EXCEPT ![i] = [@ EXCEPT !.used = FALSE, !.size = 0,
                                                 !.name = NULL]]
        /\ stale' = (stale \/ handle = i)
        /\ UNCHANGED <<tree, handle, opened, overrun, down>>

----------------------------------------------------------------------------
\* A lookup, the answer kept; the kernel hangs in a list without an end.
vfs_open(path) ==
    LET node == vfs_lookup_path(path)
    IN  /\ IF node = HUNG THEN down' = "hung" /\ UNCHANGED open
           ELSE /\ handle' = node /\ stale' = FALSE
                /\ opened' = IF path = <<>> THEN NULL ELSE Last(path)
                /\ UNCHANGED down
        /\ UNCHANGED <<tree, file, overrun>>

\* vfs_close: no file system has a close operation.
vfs_close ==
    /\ handle # NULL
    /\ handle' = NULL /\ opened' = NULL /\ stale' = FALSE
    /\ UNCHANGED <<tree, file, overrun, down>>

\* Mutant: a request that is cut ends up with end bytes, wherever it starts.
ClampedToEnd(off, n, end) == IF (off + n) % Mod > end THEN end ELSE n

\* to_read and to_write: the part of n bytes from off that lies below end.
Clamped(off, n, end) == IF (off + n) % Mod > end THEN end - off ELSE n

\* A copy of n bytes at off of an array of base bytes, asked for as size:
\* beyond the array, the kernel runs into memory that is not there.
Copy(base, off, n, size) ==
    /\ overrun' = (overrun \/ (off + n > base /\ off + size < Mod))
    /\ down' = IF off + n >= Mod THEN "crashed" ELSE down

ramfs_vfs_read(i, off, size) ==
    /\ i \in Slots /\ file[i].used /\ off < file[i].size
    /\ Copy(RAMFS_MAX_DATA, off, Clamped(off, size, file[i].size), size)

\* From a fresh buffer of len bytes, which is freed at the end.
procfs_vfs_read(len, off, size) ==
    /\ handle \in ProcFiles
    /\ IF off < len THEN Copy(len, off, Clamped(off, size, len), size)
       ELSE UNCHANGED <<overrun, down>>

vfs_read(off, size) ==
    /\ \/ ramfs_vfs_read(handle, off, size)
       \/ \E len \in ProcLength : procfs_vfs_read(len, off, size)
    /\ UNCHANGED <<tree, file, open>>

\* size times the byte b; /proc has no write operation.
ramfs_vfs_write(i, off, size, b) ==
    LET k == Clamped(off, size, RAMFS_MAX_DATA)
        old == file[i]
        bytes == [j \in DOMAIN old.data |-> IF j \in off .. off + k - 1 THEN b ELSE old.data[j]]
        longer == off + k > old.size
    IN  /\ i \in Slots /\ file[i].used /\ off < RAMFS_MAX_DATA
        /\ Copy(RAMFS_MAX_DATA, off, k, size)
        /\ file' = IF off + k >= Mod THEN file
                   ELSE [file EXCEPT ![i] =
                    [old EXCEPT !.data = bytes,
                                !.size = IF longer THEN off + k ELSE old.size,
                                !.nsize = IF longer THEN off + k ELSE old.nsize]]

vfs_write(off, size, b) ==
    ramfs_vfs_write(handle, off, size, b) /\ UNCHANGED <<tree, open>>

MountPaths == {<<>>} \cup {<<m>> : m \in MountNames} \cup {<<RAM, m>> : m \in MountNames}

Next ==
    /\ down = "up"
    /\ \/ \E n \in Names, msg \in Messages : Echo(n, msg)
       \/ \E n \in Plain : vfs_create(<<RAM, n>>)
       \/ \E n \in Plain : vfs_delete(<<RAM, n>>)
       \/ \E path \in OpenPaths : vfs_open(path)
       \/ vfs_close
       \/ \E off \in 0 .. RAMFS_MAX_DATA, size \in Sizes : vfs_read(off, size)
       \/ \E off \in 0 .. RAMFS_MAX_DATA, size \in Sizes, b \in Chars :
            vfs_write(off, size, b)
       \/ \E path \in MountPaths, d \in ModNodes :
            mounts[d] < MaxMounts /\ vfs_mount(path, d)

Spec == Init /\ [][Next]_vars

----------------------------------------------------------------------------
\* Types of the tree and of the table of files.
TypeOK ==
    /\ root \in Dirs
    /\ child \in [Dirs -> Dirs \cup {NULL}] /\ sib \in [Dirs -> Dirs \cup {NULL}]
    /\ \A i \in Slots :
        /\ file[i].size \in 0 .. RAMFS_MAX_DATA
        /\ file[i].data \in [0 .. RAMFS_MAX_DATA - 1 -> Bytes]
        /\ file[i].used => file[i].name \in Names
    /\ handle \in Nodes \cup {NULL}
    /\ down \in {"up", "hung", "crashed"}

\* No module has replaced the root, mounted a node a second time, or taken the
\* name of /ram or /proc.
TreeIntact ==
    /\ root = ROOT
    /\ \A d \in Dirs : mounts[d] <= 1
    /\ \A d \in ModNodes : name[d] \notin {RAM, PROC}

\* Names lead to what they name.  No two files share one, whatever creates,
\* writes and deletes them.  Mounts leave the rest of the tree in place: lookups
\* end, /ram and /proc are found, and a file is found under its path; the node
\* that is found has the size of the file, by which insmod allocates its buffer
\* and which ls shows.  A second mount of one node relinks it and may cut the
\* list off or close it to a ring (vfs_mount does not look), hence the premise.
PathFindsFile ==
    /\ \A i \in Slots : file[i].used => ramfs_find(file[i].name) = i
    /\ TreeIntact =>
        /\ ~Cyclic(ROOT)
        /\ vfs_lookup_path(<<RAM>>) = RAM /\ vfs_lookup_path(<<PROC>>) = PROC
        /\ \A i \in Slots : file[i].used /\ file[i].name \in Plain =>
            /\ vfs_lookup_path(<<RAM, file[i].name>>) = i
            /\ file[i].nname = file[i].name
            /\ file[i].nsize = file[i].size

\* No read or write leaves the array of the file or the buffer of the /proc
\* file, unless offset plus size had wrapped around before it was compared.
CopiesInBounds == ~overrun

\* An open handle keeps naming the file it was opened for until that file is
\* deleted; from then on it names whatever takes the slot.
HandleNamesItsFile ==
    handle \in Slots /\ ~stale =>
        file[handle].used /\ file[handle].name = opened

\* The RAM file system is a map from names to contents (FileStore): what
\* echo, create, delete and the writes of modules do to it, and that nothing
\* else does anything to it.
Slot(n) == CHOOSE i \in Slots : file[i].used /\ file[i].name = n
Contents ==
    [n \in {file[i].name : i \in {j \in Slots : file[j].used}} |->
        [k \in 1 .. file[Slot(n)].size |-> file[Slot(n)].data[k - 1]]]
Store == INSTANCE FileStore WITH
            MAX_FILES <- RAMFS_MAX_FILES, MAX_DATA <- RAMFS_MAX_DATA,
            Texts <- Messages, store <- Contents
ImplementsStore == Store!Spec
=============================================================================
