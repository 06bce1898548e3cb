------------------------------- MODULE FileScan -------------------------------
(***************************************************************************)
(* The detection of hidden files: src/src/sh-atrk.sh findHiddenFileMain,   *)
(* which runs `atrk fhf -f dir -p -v` (src/src/fhf.c) on one directory     *)
(* after the other.                                                        *)
(*                                                                         *)
(* fhf asks for the block numbers of the directory, reads the blocks from  *)
(* the volume (/dev/sda1) and, if there is one, from the device the volume *)
(* lies on (/dev/sda), compares the two, parses the names out of the       *)
(* blocks and reports those that readdir does not return.                  *)
(*                                                                         *)
(* The kernel is the environment: a directory changes in memory first and  *)
(* reaches the disk block by block later.  Reading the parent device       *)
(* returns what is on the disk.  Reading the volume returns what is in     *)
(* memory if the file system keeps its directories in the volume's page    *)
(* cache (ext3 and ext4 do, ext2 and xfs do not).                          *)
(***************************************************************************)
EXTENDS Integers, Sequences, FiniteSets

CONSTANTS
    NDirs,       \* directories to check are 1..NDirs
    Names,       \* file names
    NBlocks,     \* blocks of a directory are 1..NBlocks
    Builds,      \* "e2fsprogs" (USE_e2fsprogs) and/or "debugfs"
    ReadParent,  \* number of -p options; the script gives one
    MaxChanges   \* bound on the changes to directories during the scan

ASSUME FileAssumption ==
    /\ NDirs \in Nat \ {0} /\ NBlocks \in Nat \ {0}
    /\ Builds \subseteq {"e2fsprogs", "debugfs"}
    /\ ReadParent \in 0..2
    /\ MaxChanges \in Nat

Dirs == 1..NDirs
Blocks == 1..NBlocks
Devices == {"volume", "parent"}

VARIABLES
    pc, dir,               \* where fhf is, and on which directory
    blknums, blkcount,     \* struct QueryBlocks; 0 in blknums stands for the -1
                           \* that starts an extent
    n, mem,                \* dump_blocks: its loop, and the buffer it fills
    blkdata0, blkdatap,    \* the dumps, volume and parent
    todo, dirfiles,        \* readdir: names to come, names returned
    reported,              \* names printed as hidden, with their directories
    suspicious,            \* directories whose output has "(Suspicious!)"
    build, fstype, hasParent,
    cached,                \* the directories are in the volume's page cache
    files,                 \* the directories in memory: block of a name, 0 if none
    disk,                  \* the directories on disk: names in each block
    hidden,                \* names that readdir is made to leave out
    filtered,              \* devices whose reads are made to leave them out too
    changes,
    plain, owed, quiet     \* history, from the script's sync on

scan == <<pc, dir, blknums, blkcount, n, mem, blkdata0, blkdatap, todo, dirfiles,
          reported, suspicious>>
machine == <<build, fstype, hasParent, cached, hidden, filtered>>
world == <<files, disk, changes>>
history == <<plain, owed, quiet>>
vars == <<scan, machine, world, history>>

(* A dump, with the position at which each of its extents starts           *)
(* (extent_ptr0, extent_ptrp).  Its data is the names in each block read.  *)
NoDump == [ok |-> FALSE, data |-> <<>>, extents |-> <<>>]

IsDump(d) ==
    /\ d.ok \in BOOLEAN
    /\ \A i \in DOMAIN d.data : d.data[i] \subseteq Names
    /\ \A i \in DOMAIN d.extents : d.extents[i] \in 0..Len(d.data)

TypeOK ==
    /\ pc \in {"sync", "query", "retry", "dump0", "dumpp", "compare", "list", "done"}
    /\ dir \in Dirs
    /\ \A i \in DOMAIN blknums : blknums[i] \in Blocks \union {0}
    /\ blkcount \in Nat
    /\ n \in 1..(Len(blknums) + 1)
    /\ IsDump(mem) /\ IsDump(blkdata0) /\ IsDump(blkdatap)
    /\ todo \subseteq Names /\ dirfiles \subseteq Names
    /\ reported \subseteq Dirs \X Names
    /\ suspicious \subseteq Dirs
    /\ build \in Builds /\ fstype \in {"ext", "xfs"}
    /\ hasParent \in BOOLEAN /\ cached \in BOOLEAN
    /\ files \in [Dirs -> [Names -> 0..NBlocks]]
    /\ disk \in [Dirs -> [Blocks -> SUBSET Names]]
    /\ hidden \subseteq Names /\ filtered \subseteq Devices
    /\ changes \in 0..MaxChanges
    /\ plain \subseteq Dirs \X Names /\ owed \subseteq Dirs \X Names /\ quiet \subseteq Dirs

InMemory(d, b) == {f \in Names : files[d][f] = b}

Init ==
    /\ pc = "sync" /\ dir = 1
    /\ blknums = <<>> /\ blkcount = 0
    /\ n = 1 /\ mem = NoDump /\ blkdata0 = NoDump /\ blkdatap = NoDump
    /\ todo = {} /\ dirfiles = {} /\ reported = {} /\ suspicious = {}
    /\ build \in Builds /\ fstype \in {"ext", "xfs"} /\ hasParent \in BOOLEAN
    /\ cached \in (IF fstype = "ext" THEN BOOLEAN ELSE {FALSE})
    /\ files \in [Dirs -> [Names -> 0..NBlocks]]
    /\ disk \in [Dirs -> [Blocks -> SUBSET Names]]
    /\ hidden \in SUBSET Names /\ filtered \in SUBSET Devices
    /\ changes = 0
    /\ plain = {} /\ owed = {} /\ quiet = {}

-----------------------------------------------------------------------------
(* The script                                                              *)

(* The device whose dump is to be analysed when nothing fails.             *)
Analysed == IF ReadParent >= 1 /\ hasParent THEN "parent" ELSE "volume"

(* Mutant of Flushed: the script does not call sync.                       *)
NotFlushed == disk

(* sync: what is in memory reaches the disk.                               *)
Flushed == [d \in Dirs |-> [b \in Blocks |-> InMemory(d, b)]]

(* sync, and drop_caches.  From here on: the names that readdir returns;   *)
(* the hidden names that the analysed device gives away; the directories   *)
(* without hidden names.                                                   *)
Sync ==
    /\ pc = "sync"
    /\ disk' = Flushed
    /\ pc' = "query"
    /\ LET there == {x \in Dirs \X Names : files[x[1]][x[2]] # 0}
       IN  /\ plain' = {x \in there : x[2] \notin hidden}
           /\ owed' = {x \in there : x[2] \in hidden /\ Analysed \notin filtered}
           /\ quiet' = {d \in Dirs : \A f \in hidden : files[d][f] = 0}
    /\ UNCHANGED <<dir, blknums, blkcount, n, mem, blkdata0, blkdatap, todo, dirfiles,
                   reported, suspicious, machine, files, changes>>

(* fhf exits; the script goes on with the next directory and ignores the   *)
(* exit status.                                                            *)
NextDir ==
    /\ IF dir < NDirs THEN pc' = "query" /\ dir' = dir + 1
                      ELSE pc' = "done" /\ UNCHANGED dir
    /\ blknums' = <<>> /\ blkcount' = 0
    /\ n' = 1 /\ mem' = NoDump /\ blkdata0' = NoDump /\ blkdatap' = NoDump
    /\ todo' = {} /\ dirfiles' = {}

(* A call failed, and the environment is to blame for what is not found.   *)
Excuse == owed' = {x \in owed : x[1] # dir}

-----------------------------------------------------------------------------
(* query_blocks                                                            *)

InOrder == [i \in 1..NBlocks |-> i]

(* What xfs_bmap prints: the blocks in one extent, or in one each.         *)
XfsLayouts == {<<0>> \o InOrder, [i \in 1..(2 * NBlocks) |-> IF i % 2 = 1 THEN 0 ELSE i \div 2]}

(* The blocks are known: go on to dump them.                               *)
Found(nums, count) ==
    /\ blknums' = nums /\ blkcount' = count
    /\ pc' = "dump0"
    /\ UNCHANGED <<dir, n, mem, blkdata0, blkdatap, todo, dirfiles, reported, suspicious,
                   machine, world>>

(* stat, sysfs, an unsupported type, the second attempt at the blocks, or  *)
(* the range of the volume in its parent: any of them fails.               *)
QueryFails ==
    /\ pc \in {"query", "retry"}
    /\ NextDir
    /\ Excuse
    /\ UNCHANGED <<reported, suspicious, machine, world, plain, quiet>>

QueryXfs ==
    /\ pc = "query" /\ fstype = "xfs"
    /\ \E nums \in XfsLayouts : Found(nums, NBlocks)
    /\ UNCHANGED history

QueryExt ==
    /\ pc = "query" /\ fstype = "ext"
    /\ Found(<<0>> \o InOrder, NBlocks)
    /\ UNCHANGED history

(* The debugfs build stops at output it does not understand: some of the   *)
(* blocks are in the vector.  Try again after two seconds.                 *)
DebugfsFails ==
    /\ pc = "query" /\ fstype = "ext" /\ build = "debugfs"
    /\ \E k \in 0..NBlocks : blknums' = <<0>> \o SubSeq(InOrder, 1, k) /\ blkcount' = k
    /\ pc' = "retry"
    /\ UNCHANGED <<dir, n, mem, blkdata0, blkdatap, todo, dirfiles, reported, suspicious,
                   machine, world, history>>

(* Mutant of RetryExt: the vector is not emptied before the second attempt.*)
RetryExtKeeps ==
    /\ pc = "retry"
    /\ Found(blknums \o <<0>> \o InOrder, NBlocks)
    /\ UNCHANGED history

RetryExt ==
    /\ pc = "retry"
    /\ Found(<<0>> \o InOrder, NBlocks)
    /\ UNCHANGED history

(* The e2fsprogs build ignores that lsblks failed.  If that was before its *)
(* walk over the blocks there is no block, no marker, and success; later,  *)
(* the blocks up to there.                                                 *)
LsblksFails ==
    /\ pc = "query" /\ fstype = "ext" /\ build = "e2fsprogs"
    /\ \/ Found(<<>>, 0)
       \/ \E k \in 0..(NBlocks - 1) : Found(<<0>> \o SubSeq(InOrder, 1, k), k)
    /\ Excuse
    /\ UNCHANGED <<plain, quiet>>

-----------------------------------------------------------------------------
(* dump_blocks                                                             *)

(* What reading a block of the directory from a device returns.            *)
Content(device, b) ==
    (IF device = "volume" /\ cached THEN InMemory(dir, b) ELSE disk[dir][b])
        \ (IF device \in filtered THEN hidden ELSE {})

Device == IF pc = "dump0" THEN "volume" ELSE "parent"

DumpStep ==
    /\ pc \in {"dump0", "dumpp"}
    /\ n <= Len(blknums)
    /\ mem' = IF blknums[n] = 0
              THEN [mem EXCEPT !.extents = Append(@, Len(mem.data))]
              ELSE [mem EXCEPT !.data = Append(@, Content(Device, blknums[n]))]
    /\ n' = n + 1
    /\ UNCHANGED <<pc, dir, blknums, blkcount, blkdata0, blkdatap, todo, dirfiles,
                   reported, suspicious, machine, world, history>>

(* The dump is over, with its data or without.                             *)
DumpEnds(result) ==
    /\ n' = 1 /\ mem' = NoDump
    /\ IF pc = "dump0"
       THEN /\ blkdata0' = result /\ UNCHANGED blkdatap
            /\ pc' = IF hasParent THEN "dumpp" ELSE "compare"
       ELSE /\ blkdatap' = result /\ UNCHANGED blkdata0
            /\ pc' = "compare"
    /\ UNCHANGED <<dir, blknums, blkcount, todo, dirfiles, reported, suspicious, machine,
                   world, plain, quiet>>

DumpDone ==
    /\ pc \in {"dump0", "dumpp"}
    /\ n > Len(blknums)
    /\ DumpEnds([mem EXCEPT !.ok = TRUE])
    /\ UNCHANGED owed

(* The device cannot be opened, or a block of it cannot be read.           *)
DumpFails ==
    /\ pc \in {"dump0", "dumpp"}
    /\ n <= Len(blknums) \/ mem = NoDump
    /\ DumpEnds(NoDump)
    /\ IF Device = Analysed THEN Excuse ELSE UNCHANGED owed

-----------------------------------------------------------------------------
(* fhf_main, after the dumps                                               *)

(* The dump to analyse: -pp insists on the parent, -p prefers it.          *)
Chosen ==
    IF ReadParent >= 2 \/ (ReadParent = 1 /\ blkdatap.ok) THEN blkdatap ELSE blkdata0

(* Compare the dumps if there are two; then go on if there is one to       *)
(* analyse.                                                                *)
Compare ==
    /\ pc = "compare"
    /\ suspicious' = IF blkdata0.ok /\ blkdatap.ok /\ blkdata0.data # blkdatap.data
                     THEN suspicious \union {dir} ELSE suspicious
    /\ IF Chosen.ok
       THEN /\ pc' = "list" /\ todo' = Names
            /\ UNCHANGED <<dir, blknums, blkcount, n, mem, blkdata0, blkdatap, dirfiles>>
       ELSE NextDir
    /\ UNCHANGED <<reported, machine, world, history>>

(* do_dir: one more name comes by.                                         *)
ReadDir(f) ==
    /\ pc = "list"
    /\ f \in todo
    /\ todo' = todo \ {f}
    /\ dirfiles' = IF files[dir][f] # 0 /\ f \notin hidden THEN dirfiles \union {f}
                                                           ELSE dirfiles
    /\ UNCHANGED <<pc, dir, blknums, blkcount, n, mem, blkdata0, blkdatap, reported,
                   suspicious, machine, world, history>>

(* opendir fails, which find_hidden_files ignores: no name is returned.    *)
OpenDirFails ==
    /\ pc = "list"
    /\ todo = Names /\ todo # {}
    /\ todo' = {}
    /\ plain' = {x \in plain : x[1] # dir} /\ quiet' = quiet \ {dir}
    /\ UNCHANGED <<pc, dir, blknums, blkcount, n, mem, blkdata0, blkdatap, dirfiles,
                   reported, suspicious, machine, world, owed>>

(* The names in a dump, from its first extent on.                          *)
Parsed(d) ==
    IF d.extents = <<>> THEN {}
    ELSE UNION {d.data[i] : i \in (d.extents[1] + 1)..Len(d.data)}

(* Mutants of HiddenFiles: the comparison is the other way round; the      *)
(* volume is analysed whatever was asked for.                              *)
HiddenFilesSwapped == dirfiles \ Parsed(Chosen)

HiddenFilesVolume == Parsed(blkdata0) \ dirfiles

(* vector_dirent_cmp                                                       *)
HiddenFiles == Parsed(Chosen) \ dirfiles

Verdict ==
    /\ pc = "list" /\ todo = {}
    /\ reported' = reported \union ({dir} \X HiddenFiles)
    /\ suspicious' = IF HiddenFiles # {} THEN suspicious \union {dir} ELSE suspicious
    /\ NextDir
    /\ UNCHANGED <<machine, world, history>>

Fhf ==
    \/ QueryFails \/ QueryXfs \/ QueryExt \/ DebugfsFails \/ RetryExt \/ LsblksFails
    \/ DumpStep \/ DumpDone \/ DumpFails \/ Compare \/ OpenDirFails \/ Verdict
    \/ \E f \in Names : ReadDir(f)

-----------------------------------------------------------------------------
(* The file system                                                         *)

(* A file is created, removed, or its entry moved to another block.        *)
Change(d, f) ==
    /\ pc \notin {"sync", "done"}
    /\ changes < MaxChanges /\ changes' = changes + 1
    /\ \E b \in (0..NBlocks) \ {files[d][f]} :
          /\ files' = [files EXCEPT ![d][f] = b]
          /\ plain' = IF b = 0 THEN plain \ {<<d, f>>} ELSE plain
    /\ owed' = owed \ {<<d, f>>} /\ quiet' = quiet \ {d}
    /\ UNCHANGED <<scan, machine, disk>>

Writeback(d, b) ==
    /\ pc \notin {"sync", "done"}
    /\ disk[d][b] # InMemory(d, b)
    /\ disk' = [disk EXCEPT ![d][b] = InMemory(d, b)]
    /\ UNCHANGED <<scan, machine, files, changes, history>>

FileSystem ==
    \E d \in Dirs : (\E f \in Names : Change(d, f)) \/ (\E b \in Blocks : Writeback(d, b))

(* The script has printed its verdict.                                     *)
Finished == pc = "done" /\ UNCHANGED vars

Next == Sync \/ Fhf \/ FileSystem \/ Finished

Spec == Init /\ [][Next]_vars

-----------------------------------------------------------------------------
(* dump_blocks never writes past the buffer it has allocated for blkcount  *)
(* blocks, whatever the attempts to list the blocks left behind.           *)
DumpFits == Len(mem.data) <= blkcount

(* A name that readdir returns during the whole scan is not reported, even *)
(* if its entry moves between blocks and however late the disk follows.    *)
PlainNotReported == reported \intersect plain = {}

(* A name that readdir leaves out, whose entry stays where it is from the  *)
(* script's sync on, is reported, if the analysed device gives it away and *)
(* no call on it fails, whatever happens to the entries around it.         *)
HiddenFound == pc = "done" => owed \subseteq reported

(* A directory without hidden names that does not change from the script's *)
(* sync on is not called suspicious.                                       *)
QuietNotSuspicious == suspicious \intersect quiet = {}

(* Once query_blocks has succeeded, blknums includes a -1.                 *)
MarkerIncluded ==
    pc \in {"dump0", "dumpp", "compare", "list"} => \E i \in DOMAIN blknums : blknums[i] = 0

=============================================================================
