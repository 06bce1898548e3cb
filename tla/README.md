# A TLA+ verification of atrk-linux

atrk-linux looks for what a compromised Linux system hides: listening TCP ports,
UDP ports, processes and files. Each detector compares two views of the same
thing, one obtained by brute force (connect to every port, probe every process
id, read directory blocks from the disk) and one that the system offers
(`/proc/net`, `/proc`, `readdir`), and reports what only the first has.

The two views are taken at different times on a system that keeps changing, by
programs that run out of descriptors, time out and ignore failures. What the
detectors still guarantee then is what this project states and checks.

## The system and its parts

| part | source | state and operations | module |
|---|---|---|---|
| TCP scanner, `atrk tcp` | `src/src/atrk.c` 20-232 | a batch of sockets, an epoll set, retry, confirm, flush | `TcpScan` |
| a call of the scanner, as the script sees it | `atrk.c` 90-232 | ports asked for, found, owed | `PortScan` |
| hidden TCP ports | `sh-atrk.sh` 110-169, `atrk.c` 346-396 | scan, listing of listeners row by row, second scan | `TcpFlow` |
| cross-view round | `sh-atrk.sh` 292-311 and siblings | probe, list, subtract, probe again | `CrossView` |
| hidden processes | `sh-atrk.sh` 209-407, `atrk.c` 234-311 | three methods, a range of ids, a collected verdict | `ProcScan`, `ProcCross` |
| list difference, `atrk diffs` | `atrk.c` 474-545, `sh-atrk.sh` 83-90 | lines of the first list that the second lacks | in `ProcScan`, `TcpFlow` |
| hidden UDP ports, `atrk fhudp1` | `atrk.c` 399-463 | a table of listed ports, a bind per port | `UdpScan` |
| hidden files, `atrk fhf` | `fhf.c`, `fs.c` 139-163, `blk.c` 869-1073, `sh-atrk.sh` 409-442 | block list, two dumps, listing, verdict | `FileScan` |
| where a directory is read | `fhf.c` 45-224, 381-465 | block list, offset, positions on two devices | `RawRead` |
| block lists | `e2fsprogs/stat/lsblks.c`, `lib/ext2fs/extent.c` 166-571, `block.c` 60-568, `blk.c` 931-1059 | extent cursor, iteration over indirect blocks | `BlockList` |
| block devices | `blk.c` 384-578, 722-867 | type, parent and range of a volume | `BlockDev` |
| directory parsers | `fs.c` 11-137, `fhf.c` 260-289 | walk over the records of an extent | `DirParse` |

The script runs the detectors one after the other, each in processes of its
own; they share no state. Within the script, data flows through variables that
hold the output of one applet and are passed to the next.

## Modules

Each module says in its head comment which code it models. Actions are named
after functions or steps of the code; `PROJECT.json` maps every definition to
its lines. Variables marked *history* only record what happened, so that
properties can speak about a whole scan. Operators marked *mutant* are faulty
variants of the definition that follows them. They are not part of the
specification; each documents a mistake that a named property would expose.

**TcpScan.** `pc` runs through `applet_tcp`: the for loop, `process_events`
("events" is the while loop, "handle" the loop over the events), the closing of
the batch. A socket is named by its port. `Outcomes` and `Confirm` are the
second connection together with `getpeername`; `HandleEvent` is one turn of the
event loop including `epoll_ctl(DEL)`. The fall-through of the switch is in
`Outcomes`: every event ends in the removal. The kernel is the environment: a
connection answers when it likes, services start and stop, `fcntl`,
`epoll_create`, `epoll_ctl`, `connect` and `epoll_wait` may fail. `socket()`
fails exactly when descriptors are used up, counted from the pending, leaked
and epoll descriptors. A connect to an ephemeral port on loopback may meet
itself; this is the case the second connection exists for. `getpeername`, the
second connection and the output of one event are one step: it stands for the
moment at which the second connection is decided, and what the service does
between that moment and the `printf` is not told apart.

**CrossView.** The abstract specification. A stage is given by its window: it
finds all that was there during the whole stage, nothing that was there at no
time of it, and any part of the rest.

**ProcScan, ProcCross.** One step per probed id, so that processes fork, clone
and exit between any two probes and ids are reused; at the start there are
processes and threads, hidden and not. The methods differ in the probe; `Leaks`
are the methods whose probe is not intercepted by the hiding code. `ProcCross`
adds the history that `CrossView` speaks about and states the refinement
`MethodsAreRounds == Round!Spec`.

**UdpScan.** A port has sockets of three kinds, as `/proc/net/udp` lists IPv4
sockets, `/proc/net/udp6` the others, and an IPv6-only socket does not keep an
IPv4 bind from succeeding. The conversions of addresses are left out, because
only the port goes into the table.

**PortScan, TcpFlow.** `PortScan` is one call of the scanner from outside: it
prints ports of the range, each once and at a moment at which it answers, and
at its end it has printed every port it *owes*: one that answered during the
whole call and about which no call of the kernel failed or came too late.
`TcpScan` implements it (`ScansPorts`); `owed` is a variable of `TcpScan` too.
`TcpFlow` uses the actions of `PortScan` by `INSTANCE` for both scans of the
script, adds the reading of `/proc/net/tcp` and then `tcp6` one socket at a time
in any order, and the services as the environment. A printed line is the
sequence of its parts between colons, because the script takes what follows the
last colon: an IPv6 address has colons of its own, and `inet_ntop` leaves the
buffer alone when the address does not fit, which it seldom does.

**FileScan.** `blknums` keeps the markers (-1 in the code, 0 here) that start an
extent. A dump is the sequence of the blocks' contents with the positions of
its extents; the content of a block is a set of names. Directories exist in
memory and on disk, and `Writeback` brings a block to the disk at any time.
`filtered` are the devices whose reads are made to leave out the hidden names.
Both builds are modelled (`USE_e2fsprogs` and debugfs), and both ways of
listing blocks (ext, xfs). Taken as correct here: the block numbers (when the
call succeeds), the offset of the volume in its parent, and the parsing of a
block; these are the subject of the next three. A second reading of the same
parent block from the page cache of the parent (two targets that are one
directory) is not modelled.

**BlockList.** An inode comes with the nodes that its map reaches, some of which
may be unreadable, have a header or a checksum that is wrong, or lead back to a
node above. `path` is the path of the extent cursor, or the stack of the three
functions that iterate over indirect blocks. One step is one call of
`ext2fs_extent_get` with the turn of the loop in `dump_extents` that uses it,
or one pointer. `line` is what debugfs prints for the same inode, as tokens, so
that the two builds can be compared. What a map means is defined without a
cursor: a *route* leads from the inode through the nodes to an entry (`Routes`,
by length), a *place* is a block at the end of a route, and `Precedes` is the
order of the places in the file. The history `places` holds the place of each
member of the list. `IsInode` is the form of a map as libext2fs finds it on the
disk; it asks for no tree, so that nodes may be shared or lead back.

**BlockDev.** Operators over a record that describes a volume as the kernel, LVM
and md lay it out. `TypeOf`, `HasParent`, `ParentFails`, `FirstSegment` and
`OffsetOf` translate the code, `Located` says when an offset is found at all;
`Backing` is where a sector really is.

**RawRead.** Composes the two: `query_blocks` and both calls of `dump_blocks`
for one directory, recording the positions that are read.

**DirParse.** A dump is a sequence of records with their byte positions;
`WellFormed` is what the file systems write. The
walks go from position to position by the lengths the code computes. Where a
walk is not at the start of a record (an xfs volume without file types) what it
reads is arbitrary, and `XfsLost` allows anything that it may be taken for.

## Runs

| run | instance | what it shows |
|---|---|---|
| `tcp_safe` | 4 ports, batch 2, 5 descriptors, 1 leak | several batches, enough descriptors for every case: arrays, counter, completeness, no port printed twice; the scanner implements `PortScan` |
| `tcp_tight` | 3 ports, batch 3, 3 descriptors, 1 leak, fair | flushes caused by a full descriptor table, ports tried again: none is skipped, nothing is printed that does not listen, every step advances, and the scan ends |
| `tcp_shortage` | 3 ports, batch 3, 3 descriptors | violation of `ListenersFound` |
| `tcp_flow` | 2 ports with sockets of 3 kinds, 2 changes, fair | the script for TCP ports: who is accused, who is found, that every step advances, and that it ends |
| `crossview` | 2 items | what a round guarantees |
| `process_rounds` | 3 ids, method 2 sees through | each method is a round; verdicts of the script, limit set below, at, or looked for |
| `udp` | 3 ports, all kinds of sockets | what fhudp1 guarantees although it looks once |
| `udp_order` | 2 ports | violation of `PrintedNotListed` |
| `file` | 2 directories, 2 blocks, 2 names, 1 change, both builds | dump, compare and verdict while directories change, after one sync for all |
| `file_marker` | 1 name, e2fsprogs | violation of `MarkerIncluded` |
| `dir_parse` | two blocks of 48 to 120 bytes, 2 names | every filling of the blocks with names and free space, in one extent or two, with blocks not written yet, headers of both versions, indexes; two directories with blocks of 64 KiB; names, positions, and that each turn of a loop comes nearer to the end of its extent |
| `raw_read` | maps of height 0 to 3, 12 volumes | lists and positions against the definition of the map and of the volume; a node missing and a node damaged, or two indirect blocks missing; failing calls; no walk goes round in a damaged map |

Bounds. `tcp_safe` has twice as many ports as a batch, so that full batches, a
partial last batch and empty ones occur, and exactly the descriptors that
`FdsEnough` demands; ports 2 to 4 are ephemeral and port 1 is not. In
`tcp_tight` the table is full before the batch is. `MaxLeaks` bounds the sockets
lost to a failing `fcntl`. In `tcp_flow` two changes close a socket in one file
and open one in the other between the two readings; what may be hidden is
nothing, all of a port, or one socket of a port that has others. Three ids are a
listed process, another one or its thread, and a hidden one; with `MaxPid - 1`
as a limit an id lies beyond the range. When the limit is looked for,
completeness holds only below a listed *process*: `find_maxpid` does not look at
threads. `MaxChanges` bounds the changes to directories. `file` starts with
entries in at most one of its two directories and an empty disk, to stay small:
the other directory is the one that must not be affected, and an entry can be
created in it; the theorems about `FileScan` have no such restriction. Names are
compared for equality only, so the symmetry of `file` is sound. The names of
`dir_parse` have 1 and 5 bytes: 5 is the shortest length for which the presence
of a file type changes the size of an entry. The trees of `raw_read` have nodes
with several children at each level, extents of no length and unwritten ones;
`NDirect` is 2 for 12, an indirect block has two pointers, and `MaxDepth` is 3.
The volumes are a disk, a partition, mapped devices over one device and over
two, LVM volumes in one piece, in two (listed in the wrong order), over two
devices and without a segment on the device below, and arrays with and without
data offset, stripes and partitions.

Fairness. `TcpScan!FairSpec` has weak fairness of the scanner process and
nothing else: the kernel schedules it, and `epoll_wait` returns after
`timeout_sec` at the latest, which is the action `EpollGivesUp`. No answer is
assumed to arrive. `TcpFlow!FairSpec` has weak fairness of the script with the
programs it runs; that a scan ends is `ScanTerminates`, where it holds.
`DirParse` and `RawRead` have weak fairness of their one sequential process; in
`RawRead` only of the steps in which no call fails, so that no failure is relied
on to end a walk. `FileScan`, `UdpScan` and `ProcScan` are loops over a fixed
range without waiting; their ends are not stated as properties.

## What the violations show

- `tcp_shortage`: a flush caused by a failing `socket()` confirms the answers
  before it closes the batch, so the confirming connection gets no descriptor
  either; the port answered, listens, and is not printed.
- `udp_order`: the README describes binding first and listing afterwards; the
  code lists first, and a socket opened meanwhile is printed.
- `file_marker`: `ext_get_inode_datablocks` ignores a failing `lsblks`;
  `query_blocks` succeeds without the -1 that the comment on `blknums`
  promises, nothing is parsed, and the directory counts as clean.

Other limits are conditions of properties, and the runs contain the cases in
which they do not hold. The parsers are right on dumps that are `Sound`: no ext
record of a whole 64 KiB block, no xfs volume without file types that has a
name whose length is 5 modulo 8, and no name behind a block of the same extent
that was not written yet. The parent is read at the right place for
volumes that are `Straight`: an LVM volume of several segments, or an array with
a data offset or stripes, is read elsewhere, and its directories then differ
from their volume without anybody having changed them. If `socket()` fails with
nothing to close, the TCP scan tries the port for ever; `ScanTerminates` is
checked with descriptors for one connection and the epoll set.

## Theorems

`TcpScanProofs` proves for every range, batch size, number of descriptors and
set of ephemeral ports that satisfies `ScanAssumption`:

- `TypeCorrect`, `ArraysFitHolds`, `CountMatchesEpollSetHolds`,
  `PrintedOnceHolds`, `NoPortSkippedHolds`, `PrintedListensHolds`;
- `ListenersFoundHolds`, under `FdsEnough` (`MaxFds >= Batch + MaxLeaks + 2`).
  `tcp_shortage` shows that the assumption is needed.

The invariant is `IInv`, five parts with one preservation lemma each. `Shape`
says how full the arrays are at each point of the loop: at the head of the loop
there are as many sockets as counted ones and fewer than a batch. `Counted`
ties the counter to the epoll set and the events in hand to distinct registered
sockets. `Ordered` says that sockets and output concern ports the loop has
*passed* and that a registered port has not been printed; it is what makes
`PrintedOnce` inductive across retries. `Tried` carries the coverage of the
range. Completeness adds `Owed`: a port that is owed a report and passed is
registered or printed, and a registered one is connecting or connected; the
lemma `FdLeft` supplies the descriptor for its confirmation.

The module also proves the refinement `ScansPortsHolds`, again under
`FdsEnough`: the initial states of `TcpScan` are initial states of a call, and
each step is a step of `PortScan` or changes nothing that the script sees. It
uses the invariant above: that a printed port answers and was not printed
before, and, at the end, `Owed`.

`TcpFlowProofs` proves `TypeCorrect`, `OpenNotAccusedHolds` and
`SecretFoundHolds` for every set of ports, of hidden sockets and any number of
changes. `Stages` says what the script and its scanner hold at each stage.
`Open` traces a socket that is listed since the start: once its row has come by,
its port is in the list, and nothing in the list can be suspected. `Secret`
traces a hidden port from the first scan through the subtraction to the second
scan by way of `owed`.

`RoundProofs` is about one comparison of two views. Of `CrossView` it proves
`NoFalseAlarmHolds` and `HiddenReportedHolds` for every set of items: items that
are shown (or hidden) during the whole round are traced through the windows of
the stages. Of `UdpScan`, which looks once, it proves `UdpTypeCorrect`,
`QuietNotPrintedHolds` and `SecretPrintedHolds` for every range: `Kept` keeps the
history sets true of the present, `Shown` says which ports the tables read so far
contain, `Passed` that secret ports passed by the loop are printed. The module
extends both specifications, so the names of `UdpScan` say that they are its own
(`UdpInit`, `UdpNext`).

`ProcProofs` proves `TypeCorrect`, `PlainNotAccusedHolds`, `CloakedFoundHolds`
and the refinement `MethodsAreRoundsHolds` for any number of ids, any limits and
any set of methods that see through. `Spared` says that an id which was listed
throughout is listed as soon as the listing has passed its leader, and is in no
list of suspects; `Caught` that a hidden id goes through the stages of a method
that sees it and stays in the verdict. The refinement needs `Window`: what a
running loop has found lies between what was there during the whole stage so far
and what was there at some time of it, id by id for the ids already visited;
`Trace` ties the history of the round to the tasks of the system.

`FileScanProofs` proves `TypeCorrect`, `DumpFitsHolds`, `PlainNotReportedHolds`
and `QuietNotSuspiciousHolds` for any number of directories, blocks, names and
changes and both builds, and `HiddenFoundHolds` for the options the script uses
(`ReadParent < 2`). The invariant has seven parts, and an eighth for the last
theorem: `Typed`, `World` (what the history sets say of memory and disk),
`Position` (which form the block list and the dump have at each step), `Reading`
and `Dumped` (what the blocks read so far contain), `Listing` (names that
readdir has returned), `Verdicts`, and `Settled` (what is final about the
directories already done). `Position` is the heart: without the reset of the
vector in the retry it is not inductive.

`DirParseProofs` proves `TypeCorrect`, `StaysOnRecordsHolds` and
`NamesParsedHolds` for every set of names and every dump that is `WellFormed`,
of any number of records and extents. `StaysOnRecords` is about sound dumps of
xfs and about all dumps of ext. The invariant says where the parser is and
what it has found there. `Placed`: on a sound dump the position is a *boundary*
of the dump (a record starts there, or the dump ends) within the present extent.
This needs that the size the code computes for an entry of xfs is the size on the
disk (`EntrySize`). `Collected`: the names found are those of the live records
before `Done`, each once and in order. `Done` is the position while a parser
runs and the start of the next extent when it has returned, so a parser may
only return where no live record is left in its extent: the `NoneLeft` lemmas,
one per reason to return.

Two modules are about the reading of a directory. `BlockListProofs` has the order
of the routes, what one step of a cursor does to its path, and that each step of
a walk preserves the invariant of the lists; `RawReadProofs` extends it by the
composition and has the theorems. They hold for every inode, whole or damaged in
any way, and every volume:

- `OffsetIsBacking`: on a volume that is `Straight`, each sector that the volume
  has is on the parent at `OffsetOf` plus its number;
- `BlocksListedHolds`, `ListedInOrderHolds`, `SlotsIndependentHolds` about the
  block lists, and `BuildsAgreeHolds` about the lists of the two builds;
- `ReadingsAgreeHolds`, `DirectoryReadHolds`, `SpreadRefusedHolds` about the two
  readings, and `TypeCorrect`.

The depth of a tree is bounded by the constant `MaxDepth`, of which the proofs
assume only that it allows the three levels of indirect blocks. libext2fs does
not bound it but by the 16 bits of `eh_depth`.

The invariant is `Listing`, `Staged` and `Reading`. `Listing` compares the cursor
with the order of the routes. `Passed` says that the places before the cursor are
listed, `Behind` that nothing else is, `Under` that the places below an index
are listed when the cursor has come back to it; for indirect blocks and xfs
the first is weakened to the slots that are whole (`OnSlots`). None of
`BlocksListed` and `ListedInOrder` is inductive without these: they say nothing
of a walk that is under way. A step moves the cursor to a route with nothing in
between (`IsNext`), and a step up from the last entry of a node finds everything
under that node passed. `Staged` carries what `query_blocks` has found out
from stage to stage, and `Reading` says that a dump under way has read exactly
the members of the list so far; with `OffsetIsBacking` the two readings then
agree. `BuildsAgreeHolds` has an invariant of its own, `Printed`: at any moment
the data tokens of `line` are what is listed, and with extents each other
token is an `ETB`. It rests on what `Kept` takes from a line that grows by some
tokens (`KeptTokens`).

These modules and `DirParseProofs` need induction on positions and lengths. They
take it from the fact that the order of the naturals is well-founded, in the
form that a nonempty set has a least member (`WFMin`), which has no operator as
a parameter: `Induction` is about a set of naturals, and each use of it names
the set. So are the recursive functions `Routes` and `Kept` reasoned about: that
a function with the recursive equations exists is itself proved by induction on
its domain. The reference definition of the names in a dump (`NamesOf`) is not
recursive, it speaks of an increasing enumeration.

### Progress

The four programs that wait, retry or follow pointers have an action property
that says what their termination rests on: every step decreases a measure that
cannot decrease for ever. `ScanAdvancesHolds`, `FlowAdvancesHolds`,
`ParseAdvancesHolds` and `FhfAdvancesHolds` prove it for every value of the
constants.

- `ScanAdvances` orders the steps of the TCP scanner by port, then by what the
  port waits for (`Phase`), then by the sockets still registered. A port that got
  no socket is tried again after its flush, and the flush has freed a descriptor
  if the lost ones leave two (`MaxFds > MaxLeaks + 1`). Without that it holds no
  more: the loop then tries the port for ever.
- `FlowAdvances` orders the steps of the script by stage, rows left to read,
  suspects left to test and ports the scanner can still print. The services that
  open and close sockets meanwhile move none of these back.
- `ParseAdvances` says that a turn of a parser moves on by at least one byte and
  not beyond the extent: for ext on every well-formed dump, for xfs on sound ones.
- `FhfAdvances` orders the steps of a walk by the place of the cursor, an index
  before (going down) and after (coming back) what is under it (`Marks`).
  No node that is shared, damaged or leads back to one above makes the cursor
  return to an entry by the same route a third time, so a walk ends because
  `MaxDepth` bounds the routes.

The measures are bounded because the type invariants bound what they are made
of; `ListTypeOK` therefore bounds the entry at which the cursor stands, too.

Only model-checked are `ScanTerminates`, `FlowTerminates`, `ParseTerminates` and
`FhfTerminates` themselves: that a step which is possible is taken is liveness
under fairness, which like everything about `ENABLED` is out of the prover's
reach. No module declares a `RECURSIVE` operator, since the provers do not
handle a module that reaches one. The type invariants of `TcpFlow`, `ProcScan`,
`UdpScan` and `FileScan` are part of no run: they are theorems.

## Not modelled

- Growable vector (`utils.c` 15-78): used by appending and indexing only; a
  sequence in every module. Text helpers of `utils.c`.
- `atrk diffs` is modelled by what it computes for lists of ids and ports; its
  handling of lines longer than 1023 bytes is left out.
- The search through sysfs and the mount tables for a device number (`blk.c`
  43-381), and the reading of the output of `pvs` and `pvdisplay` as text: path
  and text handling. What comes of it is an attribute of the volume, or a
  failure.
- `fhf -c` and `-o`, which the script does not use; option parsing, messages.
- The digits of addresses (`hexToInAddr`): only the port is used.
- Descriptors above 1023 in `FD_SET`, which depend on what the process inherits.
- `atrk_main`, `main_allin` and the dispatch of applets: run the detectors in
  turn, no shared state.
- `map.c` (unused) and the build scripts.
- The rest of `e2fsprogs`. The repository carries the whole release, about 98%
  of its lines of code; the program links libext2fs and calls it to open a
  volume, read an inode and walk its block map. The walk is modelled, opening
  and reading are calls that may fail, and everything else (`e2fsck`, `mke2fs`,
  `resize2fs`, the write paths) is never executed by this program. The share of
  the repository's lines that the modules cover is small for that reason alone.
