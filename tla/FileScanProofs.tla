---------------------------- MODULE FileScanProofs ----------------------------
(***************************************************************************)
(* What the detection of hidden files guarantees, for every number of      *)
(* directories, blocks, names and changes.  The invariant has a part for   *)
(* the directories (World), for the list of blocks and the loop over it    *)
(* (Position), for what a dump holds (Reading, Dumped), for the listing    *)
(* (Listing) and for the output (Verdicts).                                *)
(***************************************************************************)
EXTENDS FileScan, TLAPS

Dumps == [ok : BOOLEAN, data : Seq(SUBSET Names), extents : Seq(Nat)]

Dumping == pc \in {"dump0", "dumpp"}

Typed ==
    /\ pc \in {"sync", "query", "retry", "dump0", "dumpp", "compare", "list", "done"}
    /\ dir \in Dirs
    /\ blknums \in Seq(0..NBlocks) /\ blkcount \in Nat
    /\ n \in 1..(Len(blknums) + 1)
    /\ mem \in Dumps /\ blkdata0 \in Dumps /\ blkdatap \in Dumps
    /\ todo \subseteq Names
    /\ files \in [Dirs -> [Names -> 0..NBlocks]]
    /\ disk \in [Dirs -> [Blocks -> SUBSET Names]]
    /\ plain \subseteq Dirs \X Names /\ owed \subseteq Dirs \X Names /\ quiet \subseteq Dirs
    /\ ~Dumping => mem = NoDump /\ n = 1

(* What the history knows of the directories.                              *)
World ==
    /\ \A d \in Dirs, f \in Names : <<d, f>> \in plain => files[d][f] # 0 /\ f \notin hidden
    /\ \A d \in Dirs, f \in Names : <<d, f>> \in owed =>
          /\ f \in hidden /\ Analysed \notin filtered
          /\ files[d][f] \in Blocks /\ f \in disk[d][files[d][f]]
    /\ \A d \in quiet :
          /\ \A f \in hidden : f \in Names => files[d][f] = 0
          /\ \A b \in Blocks : disk[d][b] = InMemory(d, b)

(* The lists of blocks that query_blocks leaves: none; one extent; an      *)
(* extent for each block.                                                  *)
Empty == blknums = <<>> /\ blkcount = 0

OneExtent ==
    /\ blkcount <= NBlocks
    /\ Len(blknums) = blkcount + 1
    /\ \A i \in 1..(blkcount + 1) : blknums[i] = i - 1

Split ==
    /\ blkcount = NBlocks
    /\ Len(blknums) = 2 * NBlocks
    /\ \A i \in 1..NBlocks : blknums[2 * i - 1] = 0 /\ blknums[2 * i] = i

(* How far dump_blocks has come: the blocks are read in order.             *)
Position ==
    /\ Dumping =>
          \/ Empty /\ Len(mem.data) = 0
          \/ OneExtent /\ Len(mem.data) = IF n = 1 THEN 0 ELSE n - 2
          \/ Split /\ n \in {2 * Len(mem.data) + 1, 2 * Len(mem.data) + 2}
    /\ Dumping /\ n = 1 => mem = NoDump
    /\ Dumping /\ n > 1 => mem.extents # <<>> /\ mem.extents[1] = 0
    /\ Dumping /\ (\E f \in Names : <<dir, f>> \in owed) => blkcount = NBlocks /\ ~Empty

(* A dump holds the names of an owed entry's block once it has read it;    *)
(* the blocks of a quiet directory are as they are in memory.              *)
Holds(d) == \A f \in Names :
    <<dir, f>> \in owed /\ files[dir][f] <= Len(d.data) => f \in d.data[files[dir][f]]

Same(d) == dir \in quiet => \A j \in 1..Len(d.data) : d.data[j] = InMemory(dir, j)

Reading == Dumping => Same(mem) /\ (Device = Analysed => Holds(mem))

Full(d) == d.ok => Len(d.data) = blkcount /\ Same(d)

Complete(d) == \A f \in Names : <<dir, f>> \in owed => d.ok /\ f \in Parsed(d)

Dumped ==
    /\ pc \notin {"dumpp", "compare", "list"} => blkdata0 = NoDump
    /\ pc \notin {"compare", "list"} => blkdatap = NoDump
    /\ ~hasParent => blkdatap = NoDump /\ pc # "dumpp"
    /\ Full(blkdata0) /\ Full(blkdatap)
    /\ pc \in {"dumpp", "compare", "list"} /\ Analysed = "volume" => Complete(blkdata0)
    /\ pc \in {"compare", "list"} /\ Analysed = "parent" => Complete(blkdatap)

Listing ==
    /\ dirfiles \intersect hidden = {}
    /\ pc = "list" => Chosen.ok
    /\ pc = "list" => \A f \in Names :
          <<dir, f>> \in plain \/ (dir \in quiet /\ files[dir][f] # 0)
              => f \in todo \union dirfiles

Verdicts ==
    /\ pc = "sync" => dir = 1 /\ reported = {} /\ suspicious = {}
    /\ reported \intersect plain = {}
    /\ suspicious \intersect quiet = {}

Settled ==
    \A d \in Dirs, f \in Names : <<d, f>> \in owed =>
        pc # "sync" /\ (d < dir \/ pc = "done" => <<d, f>> \in reported)

-----------------------------------------------------------------------------
(* The forms that query_blocks gives to the list of blocks.                *)
LEMMA OneExtentList ==
    ASSUME NEW k \in 0..NBlocks
    PROVE  LET s == <<0>> \o SubSeq(InOrder, 1, k)
           IN  /\ s \in Seq(0..NBlocks) /\ Len(s) = k + 1
               /\ \A i \in 1..(k + 1) : s[i] = i - 1
<1> DEFINE t == SubSeq(InOrder, 1, k)
           s == <<0>> \o t
<1> USE FileAssumption
<1>1. InOrder \in Seq(0..NBlocks) /\ Len(InOrder) = NBlocks
    BY DEF InOrder
<1>2. t \in Seq(0..NBlocks) /\ Len(t) = k /\ \A i \in 1..k : t[i] = i
    BY <1>1 DEF InOrder
<1> HIDE DEF t
<1>3. s \in Seq(0..NBlocks) /\ Len(s) = k + 1
    BY <1>2
<1>4. \A i \in 1..(k + 1) : s[i] = i - 1
    BY <1>2
<1> QED
    BY <1>3, <1>4, Zenon DEF t

LEMMA WholeList ==
    /\ <<0>> \o InOrder \in Seq(0..NBlocks) /\ Len(<<0>> \o InOrder) = NBlocks + 1
    /\ \A i \in 1..(NBlocks + 1) : (<<0>> \o InOrder)[i] = i - 1
<1> USE FileAssumption
<1>1. InOrder \in Seq(0..NBlocks) /\ Len(InOrder) = NBlocks
       /\ \A i \in 1..NBlocks : InOrder[i] = i
    BY DEF InOrder
<1> QED
    BY <1>1

LEMMA SplitList ==
    ASSUME NEW s, s = [i \in 1..(2 * NBlocks) |-> IF i % 2 = 1 THEN 0 ELSE i \div 2]
    PROVE  /\ s \in Seq(0..NBlocks) /\ Len(s) = 2 * NBlocks
           /\ \A i \in 1..NBlocks : s[2 * i - 1] = 0 /\ s[2 * i] = i
<1> USE FileAssumption
<1>1. \A i \in 1..(2 * NBlocks) : i \div 2 \in 0..NBlocks
    OBVIOUS
<1>2. \A i \in 1..NBlocks : (2 * i - 1) % 2 = 1 /\ (2 * i) % 2 = 0 /\ (2 * i) \div 2 = i
    OBVIOUS
<1>3. \A i \in 1..NBlocks : 2 * i - 1 \in 1..(2 * NBlocks) /\ 2 * i \in 1..(2 * NBlocks)
    OBVIOUS
<1> QED
    BY <1>1, <1>2, <1>3

-----------------------------------------------------------------------------
LEMMA NoDumpTyped == NoDump \in Dumps /\ Len(NoDump.data) = 0 /\ NoDump.ok = FALSE
    BY DEF NoDump, Dumps

LEMMA NextDirTyped == Typed /\ NextDir =>
    /\ pc' \in {"query", "done"} /\ dir' \in Dirs
    /\ dir' = (IF dir < NDirs THEN dir + 1 ELSE dir) /\ (pc' = "done" => dir = NDirs)
    /\ blknums' \in Seq(0..NBlocks) /\ blkcount' \in Nat /\ n' \in 1..(Len(blknums') + 1)
    /\ n' = 1 /\ mem' = NoDump /\ blkdata0' = NoDump /\ blkdatap' = NoDump
    /\ mem' \in Dumps /\ blkdata0' \in Dumps /\ blkdatap' \in Dumps
    /\ todo' = {} /\ dirfiles' = {}
    BY NoDumpTyped, FileAssumption DEF NextDir, Typed, Dirs

LEMMA ContentTyped == ASSUME Typed, NEW b \in Blocks, NEW d
                      PROVE  Content(d, b) \in SUBSET Names
    BY DEF Typed, Content, InMemory

LEMMA TypedStays == Typed /\ [Next]_vars => Typed'
<1> SUFFICES ASSUME Typed, [Next]_vars PROVE Typed'
    OBVIOUS
<1> USE FileAssumption DEF Dumping
<1>1. CASE Sync
  <2>1. disk' \in [Dirs -> [Blocks -> SUBSET Names]]
    BY <1>1 DEF Sync, Flushed, InMemory
  <2>2. plain' \subseteq Dirs \X Names /\ owed' \subseteq Dirs \X Names /\ quiet' \subseteq Dirs
    BY <1>1 DEF Sync
  <2> QED
    BY <1>1, <2>1, <2>2 DEF Sync, Typed, machine
<1>2. CASE QueryFails
    BY <1>2, NextDirTyped DEF QueryFails, Excuse, Typed, machine, world
<1>3. ASSUME NEW nums \in Seq(0..NBlocks), NEW count \in Nat, Found(nums, count),
             owed' \subseteq owed, plain' = plain, quiet' = quiet,
             pc \in {"query", "retry"}
      PROVE  Typed'
  <2>1. n' \in 1..(Len(blknums') + 1)
    BY <1>3 DEF Found, Typed
  <2> QED
    BY <1>3, <2>1 DEF Found, Typed, machine, world
<1>4. CASE QueryXfs
  <2>1. PICK nums \in XfsLayouts : Found(nums, NBlocks)
    BY <1>4 DEF QueryXfs
  <2>2. nums \in Seq(0..NBlocks)
    BY WholeList, SplitList, Zenon DEF XfsLayouts
  <2> QED
    BY <1>3, <1>4, <2>1, <2>2 DEF QueryXfs, history
<1>5. CASE QueryExt
    BY <1>3, <1>5, WholeList, Zenon DEF QueryExt, history
<1>6. CASE RetryExt
    BY <1>3, <1>6, WholeList, Zenon DEF RetryExt, history
<1>7. CASE DebugfsFails
  <2>1. PICK k \in 0..NBlocks : blknums' = <<0>> \o SubSeq(InOrder, 1, k) /\ blkcount' = k
    BY <1>7 DEF DebugfsFails
  <2>2. blknums' \in Seq(0..NBlocks) /\ Len(blknums') = k + 1 /\ blkcount' \in Nat
    BY <2>1, OneExtentList
  <2>3. n' \in 1..(Len(blknums') + 1)
    BY <1>7, <2>2 DEF DebugfsFails, Typed
  <2> QED
    BY <1>7, <2>2, <2>3 DEF DebugfsFails, Typed, machine, world, history
<1>8. CASE LsblksFails
  <2>0. pc = "query" /\ owed' \subseteq owed /\ plain' = plain /\ quiet' = quiet
    BY <1>8 DEF LsblksFails, Excuse
  <2>1. CASE Found(<<>>, 0)
    <3>1. <<>> \in Seq(0..NBlocks) /\ 0 \in Nat
      OBVIOUS
    <3> QED
      BY <1>3, <2>0, <2>1, <3>1, Zenon
  <2>2. ASSUME NEW k \in 0..(NBlocks - 1), Found(<< 0 >> \o SubSeq(InOrder, 1, k), k)
        PROVE  Typed'
    <3>1. <<0>> \o SubSeq(InOrder, 1, k) \in Seq(0..NBlocks) /\ k \in Nat
      BY OneExtentList
    <3> QED
      BY <1>3, <2>0, <2>2, <3>1, Zenon
  <2> QED
    BY <1>8, <2>1, <2>2 DEF LsblksFails
<1>9. CASE DumpStep
  <2>0. blknums \in Seq(0..NBlocks) /\ n \in 1..(Len(blknums) + 1)
    BY DEF Typed
  <2>1. blknums[n] \in 0..NBlocks
    <3>1. n <= Len(blknums)
      BY <1>9 DEF DumpStep
    <3>2. n \in 1..Len(blknums)
      BY <2>0, <3>1
    <3> QED
      BY <2>0, <3>2
  <2>2. blknums[n] # 0 => Content(Device, blknums[n]) \in SUBSET Names
    BY <2>1, ContentTyped DEF Blocks
  <2>3. /\ mem \in Dumps /\ mem.data \in Seq(SUBSET Names) /\ mem.extents \in Seq(Nat)
        /\ Len(mem.data) \in Nat
    BY DEF Typed, Dumps
  <2>4. mem' \in Dumps
    <3>1. CASE blknums[n] = 0
      <4>1. Append(mem.extents, Len(mem.data)) \in Seq(Nat)
        BY <2>3
      <4> QED
        BY <1>9, <2>3, <3>1, <4>1, Zenon DEF DumpStep, Dumps
    <3>2. CASE blknums[n] # 0
      <4>1. Append(mem.data, Content(Device, blknums[n])) \in Seq(SUBSET Names)
        BY <2>2, <2>3, <3>2
      <4> QED
        BY <1>9, <2>3, <3>2, <4>1, Zenon DEF DumpStep, Dumps
    <3> QED
      BY <3>1, <3>2
  <2>5. n' \in 1..(Len(blknums') + 1)
    <3>1. n <= Len(blknums) /\ n' = n + 1 /\ blknums' = blknums
      BY <1>9 DEF DumpStep
    <3>2. Len(blknums) \in Nat
      BY <2>0
    <3> QED
      BY <2>0, <3>1, <3>2
  <2> QED
    BY <1>9, <2>4, <2>5, Zenon DEF DumpStep, Typed, machine, world, history
<1>10. ASSUME NEW result \in Dumps, Dumping, DumpEnds(result), owed' \subseteq owed PROVE Typed'
    BY <1>10, NoDumpTyped DEF DumpEnds, Typed, machine, world
<1>11. CASE DumpDone
  <2>1. [mem EXCEPT !.ok = TRUE] \in Dumps
    BY Zenon DEF Typed, Dumps
  <2> QED
    BY <1>10, <1>11, <2>1 DEF DumpDone, Dumping
<1>12. CASE DumpFails
    BY <1>10, <1>12, NoDumpTyped DEF DumpFails, Dumping, Excuse
<1>13. CASE Compare
  <2>1. CASE Chosen.ok
    BY <1>13, <2>1 DEF Compare, Typed, machine, world, history
  <2>2. CASE ~Chosen.ok
    BY <1>13, <2>2, NextDirTyped, Zenon DEF Compare, Typed, machine, world, history
  <2> QED
    BY <2>1, <2>2
<1>14. CASE OpenDirFails
    BY <1>14 DEF OpenDirFails, Typed, machine, world
<1>15. CASE Verdict
    BY <1>15, NextDirTyped, Zenon DEF Verdict, Typed, machine, world, history
<1>16. ASSUME NEW f \in Names, ReadDir(f) PROVE Typed'
    BY <1>16 DEF ReadDir, Typed, machine, world, history
<1>17. ASSUME NEW d \in Dirs, NEW f \in Names, Change(d, f) PROVE Typed'
  <2>1. PICK b \in 0..NBlocks : files' = [files EXCEPT ![d][f] = b]
    BY <1>17, Zenon DEF Change
  <2>2. files' \in [Dirs -> [Names -> 0..NBlocks]]
    BY <2>1 DEF Typed
  <2> QED
    BY <1>17, <2>2 DEF Change, Typed, scan, machine
<1>18. ASSUME NEW d \in Dirs, NEW b \in Blocks, Writeback(d, b) PROVE Typed'
  <2>1. disk' \in [Dirs -> [Blocks -> SUBSET Names]]
    BY <1>18 DEF Writeback, Typed, InMemory
  <2> QED
    BY <1>18, <2>1, Zenon DEF Writeback, Typed, scan, machine, history
<1>19. CASE Finished \/ UNCHANGED vars
    BY <1>19 DEF Finished, vars, scan, machine, world, history, Typed
<1> QED
    BY <1>1, <1>2, <1>4, <1>5, <1>6, <1>7, <1>8, <1>9, <1>11, <1>12, <1>13, <1>14, <1>15,
       <1>16, <1>17, <1>18, <1>19 DEF Next, Fhf, FileSystem

-----------------------------------------------------------------------------
(* fhf changes neither the directories nor the machine, and the history    *)
(* only forgets.                                                           *)
LEMMA FhfSteps == Fhf \/ Finished \/ UNCHANGED vars =>
    /\ UNCHANGED <<machine, world>>
    /\ plain' \subseteq plain /\ owed' \subseteq owed /\ quiet' \subseteq quiet
<1> SUFFICES ASSUME Fhf \/ Finished \/ UNCHANGED vars
             PROVE  /\ UNCHANGED <<machine, world>>
                    /\ plain' \subseteq plain /\ owed' \subseteq owed /\ quiet' \subseteq quiet
    OBVIOUS
<1>1. CASE QueryFails
    BY <1>1 DEF QueryFails, Excuse
<1>2. CASE QueryXfs \/ QueryExt \/ RetryExt
    BY <1>2 DEF QueryXfs, QueryExt, RetryExt, Found, history
<1>3. CASE DebugfsFails \/ DumpStep
    BY <1>3 DEF DebugfsFails, DumpStep, history
<1>4. CASE LsblksFails
    BY <1>4 DEF LsblksFails, Found, Excuse
<1>5. CASE DumpDone \/ DumpFails
    BY <1>5 DEF DumpDone, DumpFails, DumpEnds, Excuse
<1>6. CASE Compare \/ Verdict \/ OpenDirFails
    BY <1>6 DEF Compare, Verdict, OpenDirFails, history
<1>7. CASE \E f \in Names : ReadDir(f)
    BY <1>7 DEF ReadDir, history
<1>8. CASE Finished \/ UNCHANGED vars
    BY <1>8 DEF Finished, vars, history
<1> QED
    BY <1>1, <1>2, <1>3, <1>4, <1>5, <1>6, <1>7, <1>8 DEF Fhf

LEMMA NextCases == [Next]_vars =>
    \/ Sync
    \/ Fhf \/ Finished \/ UNCHANGED vars
    \/ \E d \in Dirs, f \in Names : Change(d, f)
    \/ \E d \in Dirs, b \in Blocks : Writeback(d, b)
    BY DEF Next, FileSystem

LEMMA ChangeEffect ==
    ASSUME Typed, NEW d \in Dirs, NEW f \in Names, Change(d, f)
    PROVE  /\ \A e \in Dirs, g \in Names : <<e, g>> # <<d, f>> => files'[e][g] = files[e][g]
           /\ <<d, f>> \in plain' => files'[d][f] # 0
           /\ plain' \subseteq plain /\ owed' = owed \ {<<d, f>>} /\ quiet' = quiet \ {d}
<1>1. PICK b \in 0..NBlocks : /\ files' = [files EXCEPT ![d][f] = b]
                              /\ plain' = IF b = 0 THEN plain \ {<<d, f>>} ELSE plain
    BY Zenon DEF Change
<1>2. files'[d][f] = b
    BY <1>1 DEF Typed
<1>3. \A e \in Dirs, g \in Names : <<e, g>> # <<d, f>> => files'[e][g] = files[e][g]
    BY <1>1 DEF Typed
<1> QED
    BY <1>1, <1>2, <1>3 DEF Change

LEMMA WorldStays == Typed /\ World /\ [Next]_vars => World'
<1> SUFFICES ASSUME Typed, World, [Next]_vars PROVE World'
    OBVIOUS
<1>1. CASE Sync
  <2>1. UNCHANGED <<files, hidden, filtered>> /\ Analysed' = Analysed
    BY <1>1 DEF Sync, machine, Analysed
  <2>2. disk' = [d \in Dirs |-> [b \in Blocks |-> InMemory(d, b)]]
    BY <1>1 DEF Sync, Flushed
  <2>3. \A d \in Dirs, b \in Blocks : disk'[d][b] = InMemory(d, b) /\ InMemory(d, b)' = InMemory(d, b)
    BY <2>1, <2>2 DEF InMemory
  <2>4. \A d \in Dirs, f \in Names : <<d, f>> \in owed' =>
            f \in hidden /\ Analysed \notin filtered /\ files[d][f] # 0
    BY <1>1 DEF Sync
  <2>5. \A d \in Dirs, f \in Names : files[d][f] # 0 =>
            files[d][f] \in Blocks /\ f \in InMemory(d, files[d][f])
    BY FileAssumption DEF Typed, Blocks, InMemory
  <2>6. \A d \in Dirs, f \in Names : <<d, f>> \in plain' => files[d][f] # 0 /\ f \notin hidden
    BY <1>1 DEF Sync
  <2>7. quiet' \subseteq Dirs /\ \A d \in quiet' : \A f \in hidden : files[d][f] = 0
    BY <1>1 DEF Sync
  <2> QED
    BY <2>1, <2>3, <2>4, <2>5, <2>6, <2>7 DEF World
<1>2. CASE Fhf \/ Finished \/ UNCHANGED vars
  <2>1. /\ UNCHANGED <<files, disk, hidden, filtered>> /\ Analysed' = Analysed
        /\ plain' \subseteq plain /\ owed' \subseteq owed /\ quiet' \subseteq quiet
    BY <1>2, FhfSteps DEF machine, world, Analysed
  <2> QED
    BY <2>1 DEF World, InMemory
<1>3. ASSUME NEW d \in Dirs, NEW f \in Names, Change(d, f) PROVE World'
  <2>0. /\ \A e \in Dirs, g \in Names : <<e, g>> # <<d, f>> => files'[e][g] = files[e][g]
        /\ <<d, f>> \in plain' => files'[d][f] # 0
        /\ plain' \subseteq plain /\ owed' = owed \ {<<d, f>>} /\ quiet' = quiet \ {d}
    BY <1>3, ChangeEffect
  <2>1. UNCHANGED <<disk, hidden, filtered>> /\ Analysed' = Analysed
    BY <1>3 DEF Change, machine, Analysed
  <2>2. \A e \in Dirs, g \in Names : <<e, g>> \in plain' => files'[e][g] # 0 /\ g \notin hidden'
    BY <2>0, <2>1 DEF World
  <2>3. \A e \in Dirs, g \in Names : <<e, g>> \in owed' =>
          /\ g \in hidden' /\ Analysed' \notin filtered'
          /\ files'[e][g] \in Blocks /\ g \in disk'[e][files'[e][g]]
    BY <2>0, <2>1 DEF World
  <2>4. ASSUME NEW e \in quiet'
        PROVE  /\ \A g \in hidden' : g \in Names => files'[e][g] = 0
               /\ \A b \in Blocks : disk'[e][b] = InMemory(e, b)'
    <3>1. e \in quiet /\ e # d /\ e \in Dirs
      BY <2>0, <2>4 DEF Typed
    <3>2. \A g \in Names : files'[e][g] = files[e][g]
      BY <2>0, <3>1
    <3>3. \A b \in Blocks : InMemory(e, b)' = InMemory(e, b)
      BY <3>2 DEF InMemory
    <3> QED
      BY <2>1, <3>1, <3>2, <3>3 DEF World
  <2> QED
    BY <2>2, <2>3, <2>4 DEF World
<1>4. ASSUME NEW d \in Dirs, NEW b \in Blocks, Writeback(d, b) PROVE World'
  <2>1. /\ UNCHANGED <<files, hidden, filtered, plain, owed, quiet>> /\ Analysed' = Analysed
        /\ \A e \in Dirs, c \in Blocks : InMemory(e, c)' = InMemory(e, c)
    BY <1>4 DEF Writeback, machine, history, Analysed, InMemory
  <2>2. \A e \in Dirs, c \in Blocks :
            disk'[e][c] = IF e = d /\ c = b THEN InMemory(d, b) ELSE disk[e][c]
    BY <1>4 DEF Writeback, Typed
  <2>3. \A e \in Dirs, g \in Names : files[e][g] = b => g \in InMemory(e, b)
    BY DEF InMemory
  <2>4. quiet \subseteq Dirs
    BY DEF Typed
  <2> QED
    BY <2>1, <2>2, <2>3, <2>4 DEF World
<1> QED
    BY <1>1, <1>2, <1>3, <1>4, NextCases

-----------------------------------------------------------------------------
(* Empty, OneExtent and Split depend on the list only.                     *)
LEMMA SameList == UNCHANGED <<blknums, blkcount>> =>
    (Empty' <=> Empty) /\ (OneExtent' <=> OneExtent) /\ (Split' <=> Split)
    BY DEF Empty, OneExtent, Split

(* The block at which dump_blocks is comes after those it has read.        *)
LEMMA BlockInOrder ==
    ASSUME Typed, Position, Dumping, n <= Len(blknums)
    PROVE  \/ /\ blknums[n] = 0
              /\ \/ OneExtent /\ n = 1 /\ Len(mem.data) = 0
                 \/ Split /\ n = 2 * Len(mem.data) + 1
           \/ /\ blknums[n] = Len(mem.data) + 1 /\ n > 1
              /\ \/ OneExtent /\ n = Len(mem.data) + 2
                 \/ Split /\ n = 2 * Len(mem.data) + 2
<1> DEFINE k == Len(mem.data)
<1>1. n \in 1..Len(blknums) /\ k \in Nat /\ blkcount \in Nat /\ NBlocks \in Nat
    BY FileAssumption DEF Typed, Dumps
<1> HIDE DEF k
<1>2. CASE Empty
    BY <1>1, <1>2 DEF Empty
<1>3. CASE OneExtent /\ k = IF n = 1 THEN 0 ELSE n - 2
  <2>1. blknums[n] = n - 1
    BY <1>1, <1>3 DEF OneExtent
  <2> QED
    BY <1>1, <1>3, <2>1 DEF k
<1>4. CASE Split /\ n \in {2 * k + 1, 2 * k + 2}
  <2>1. k + 1 \in 1..NBlocks
    BY <1>1, <1>4 DEF Split
  <2>2. blknums[2 * (k + 1) - 1] = 0 /\ blknums[2 * (k + 1)] = k + 1
    BY <1>4, <2>1 DEF Split
  <2>3. 2 * (k + 1) - 1 = 2 * k + 1 /\ 2 * (k + 1) = 2 * k + 2
    BY <1>1
  <2>4. CASE n = 2 * k + 1
    BY <1>4, <2>2, <2>3, <2>4 DEF k
  <2>5. CASE n = 2 * k + 2
    BY <1>1, <1>4, <2>2, <2>3, <2>5 DEF k
  <2> QED
    BY <1>4, <2>4, <2>5
<1> QED
    BY <1>2, <1>3, <1>4 DEF Position, k

LEMMA PositionStays == Typed /\ Position /\ [Next]_vars => Position'
<1> SUFFICES ASSUME Typed, Position, [Next]_vars PROVE Position'
    OBVIOUS
<1> USE FileAssumption
<1>0. ASSUME ~Dumping' PROVE Position'
    BY <1>0 DEF Position
<1>1. CASE Sync \/ QueryFails \/ DebugfsFails \/ Compare \/ Verdict
    BY <1>0, <1>1, NextDirTyped, Zenon
       DEF Sync, QueryFails, DebugfsFails, Compare, Verdict, Dumping
<1>2. CASE OpenDirFails \/ \E f \in Names : ReadDir(f)
    BY <1>0, <1>2 DEF OpenDirFails, ReadDir, Dumping
<1>3. ASSUME NEW nums, NEW count, Found(nums, count), pc \in {"query", "retry"},
             Empty' \/ OneExtent' \/ Split',
             (\E f \in Names : <<dir, f>> \in owed') => count = NBlocks
      PROVE  Position'
  <2>1. n' = 1 /\ mem' = NoDump /\ Len(mem'.data) = 0 /\ dir' = dir /\ blkcount' = count
    BY <1>3, NoDumpTyped DEF Found, Typed, Dumping
  <2>2. blkcount' = NBlocks => ~Empty'
    BY DEF Empty
  <2>3. n' \in {2 * Len(mem'.data) + 1, 2 * Len(mem'.data) + 2} /\ ~(n' > 1)
    BY <2>1
  <2> QED
    BY <1>3, <2>1, <2>2, <2>3 DEF Position
<1>4. CASE QueryExt \/ RetryExt
  <2>1. Found(<<0>> \o InOrder, NBlocks) /\ pc \in {"query", "retry"}
    BY <1>4 DEF QueryExt, RetryExt
  <2>2. blknums' = <<0>> \o InOrder /\ blkcount' = NBlocks
    BY <2>1 DEF Found
  <2>3. Len(blknums') = NBlocks + 1 /\ \A i \in 1..(NBlocks + 1) : blknums'[i] = i - 1
    BY <2>2, WholeList
  <2>4. OneExtent'
    BY <2>2, <2>3 DEF OneExtent
  <2> QED
    BY <1>3, <2>1, <2>4
<1>5. CASE QueryXfs
  <2>1. PICK nums \in XfsLayouts : Found(nums, NBlocks)
    BY <1>5 DEF QueryXfs
  <2>2. CASE nums = <<0>> \o InOrder
    <3>1. OneExtent'
      BY <2>1, <2>2, WholeList DEF Found, OneExtent
    <3> QED
      BY <1>3, <1>5, <2>1, <3>1 DEF QueryXfs
  <2>3. CASE nums = [i \in 1..(2 * NBlocks) |-> IF i % 2 = 1 THEN 0 ELSE i \div 2]
    <3>1. Len(nums) = 2 * NBlocks /\ \A i \in 1..NBlocks : nums[2 * i - 1] = 0 /\ nums[2 * i] = i
      BY <2>3, SplitList
    <3>2. Split'
      BY <2>1, <3>1 DEF Found, Split
    <3> QED
      BY <1>3, <1>5, <2>1, <3>2 DEF QueryXfs
  <2> QED
    BY <2>1, <2>2, <2>3 DEF XfsLayouts
<1>6. CASE LsblksFails
  <2>1. pc = "query" /\ ~\E f \in Names : <<dir, f>> \in owed'
    BY <1>6, Zenon DEF LsblksFails, Excuse
  <2>2. CASE Found(<<>>, 0)
    <3>1. Empty'
      BY <2>2 DEF Found, Empty
    <3> QED
      BY <1>3, <2>1, <2>2, <3>1
  <2>3. ASSUME NEW k \in 0..(NBlocks - 1), Found(<< 0 >> \o SubSeq(InOrder, 1, k), k)
        PROVE  Position'
    <3>1. k \in 0..NBlocks
      OBVIOUS
    <3>2. blknums' = <<0>> \o SubSeq(InOrder, 1, k) /\ blkcount' = k
      BY <2>3 DEF Found
    <3>3. Len(blknums') = k + 1 /\ \A i \in 1..(k + 1) : blknums'[i] = i - 1
      BY <3>1, <3>2, OneExtentList, Zenon
    <3>4. OneExtent'
      BY <3>1, <3>2, <3>3 DEF OneExtent
    <3> QED
      BY <1>3, <2>1, <2>3, <3>4
  <2> QED
    BY <1>6, <2>2, <2>3 DEF LsblksFails
<1>7. CASE DumpStep
  <2> DEFINE k == Len(mem.data)
  <2>1. /\ Dumping /\ Dumping' /\ n \in 1..Len(blknums) /\ n' = n + 1 /\ k \in Nat
        /\ mem.data \in Seq(SUBSET Names) /\ mem.extents \in Seq(Nat)
        /\ blkcount \in Nat /\ dir' = dir /\ owed' = owed
        /\ (Empty' <=> Empty) /\ (OneExtent' <=> OneExtent) /\ (Split' <=> Split)
    BY <1>7, SameList DEF DumpStep, Dumping, Typed, Dumps, history
  <2>2. CASE blknums[n] = 0
    <3>1. Len(mem'.data) = k /\ mem'.extents = Append(mem.extents, k)
      BY <1>7, <2>2 DEF DumpStep, Typed, Dumps
    <3>2. mem'.extents # <<>> /\ mem'.extents[1] = 0
      <4>1. CASE n = 1
        BY <2>1, <3>1, <4>1 DEF Position, NoDump
      <4>2. CASE n # 1
        <5>1. mem.extents # <<>> /\ mem.extents[1] = 0
          BY <2>1, <4>2 DEF Position
        <5>2. 1 \in 1..Len(mem.extents)
          BY <2>1, <5>1
        <5>3. Append(mem.extents, k)[1] = mem.extents[1] /\ Append(mem.extents, k) # <<>>
          BY <2>1, <5>2
        <5> QED
          BY <3>1, <5>1, <5>3
      <4> QED
        BY <4>1, <4>2
    <3>3. \/ OneExtent /\ n = 1 /\ k = 0
          \/ Split /\ n = 2 * k + 1
      BY <2>1, <2>2, BlockInOrder
    <3> HIDE DEF k
    <3>4. \/ OneExtent' /\ Len(mem'.data) = IF n' = 1 THEN 0 ELSE n' - 2
          \/ Split' /\ n' \in {2 * Len(mem'.data) + 1, 2 * Len(mem'.data) + 2}
      BY <2>1, <3>1, <3>3
    <3>5. n' > 1 /\ n' # 1
      BY <2>1
    <3> QED
      BY <1>7, <2>1, <3>2, <3>4, <3>5, Zenon DEF Position, DumpStep
  <2>3. CASE blknums[n] # 0
    <3>1. Len(mem'.data) = k + 1 /\ mem'.extents = mem.extents
      BY <1>7, <2>1, <2>3 DEF DumpStep, Typed, Dumps
    <3>2. /\ n > 1
          /\ \/ OneExtent /\ n = k + 2
             \/ Split /\ n = 2 * k + 2
      BY <2>1, <2>3, BlockInOrder
    <3> HIDE DEF k
    <3>3. \/ OneExtent' /\ Len(mem'.data) = IF n' = 1 THEN 0 ELSE n' - 2
          \/ Split' /\ n' \in {2 * Len(mem'.data) + 1, 2 * Len(mem'.data) + 2}
      <4>1. CASE OneExtent /\ n = k + 2
        BY <2>1, <3>1, <4>1
      <4>2. CASE Split /\ n = 2 * k + 2
        BY <2>1, <3>1, <4>2
      <4> QED
        BY <3>2, <4>1, <4>2
    <3>4. mem'.extents # <<>> /\ mem'.extents[1] = 0
      BY <2>1, <3>1, <3>2 DEF Position
    <3>5. n' > 1 /\ n' # 1
      BY <2>1
    <3> QED
      BY <1>7, <2>1, <3>3, <3>4, <3>5, Zenon DEF Position, DumpStep
  <2> QED
    BY <2>2, <2>3
<1>8. CASE DumpDone \/ DumpFails
  <2>1. /\ Dumping /\ n' = 1 /\ mem' = NoDump /\ dir' = dir /\ owed' \subseteq owed
        /\ UNCHANGED <<blknums, blkcount>>
    BY <1>8 DEF DumpDone, DumpFails, DumpEnds, Dumping, Excuse
  <2>2. Empty' \/ OneExtent' \/ Split'
    BY <2>1, SameList DEF Position
  <2>3. Len(mem'.data) = 0 /\ n' \in {2 * Len(mem'.data) + 1, 2 * Len(mem'.data) + 2}
        /\ ~(n' > 1)
    BY <2>1, NoDumpTyped
  <2>4. (\E f \in Names : <<dir', f>> \in owed') => blkcount' = NBlocks /\ ~Empty'
    BY <2>1, SameList DEF Position
  <2> QED
    BY <2>1, <2>2, <2>3, <2>4, Zenon DEF Position
<1>9. CASE FileSystem \/ Finished \/ UNCHANGED vars
  <2>1. UNCHANGED <<pc, dir, n, mem, blknums, blkcount>> /\ owed' \subseteq owed
    BY <1>9 DEF FileSystem, Change, Writeback, Finished, vars, scan, history
  <2> QED
    BY <2>1, SameList DEF Position, Dumping
<1> QED
    BY <1>1, <1>2, <1>4, <1>5, <1>6, <1>7, <1>8, <1>9 DEF Next, Fhf

-----------------------------------------------------------------------------
(* A change to a directory makes the history forget it.                    *)
LEMMA FileSystemSteps == Typed /\ FileSystem =>
    /\ UNCHANGED <<scan, machine>>
    /\ plain' \subseteq plain /\ owed' \subseteq owed /\ quiet' \subseteq quiet
    /\ \A d \in Dirs, f \in Names :
          <<d, f>> \in owed' \/ d \in quiet' => files'[d][f] = files[d][f]
<1> SUFFICES ASSUME Typed, FileSystem
             PROVE  /\ UNCHANGED <<scan, machine>>
                    /\ plain' \subseteq plain /\ owed' \subseteq owed /\ quiet' \subseteq quiet
                    /\ \A d \in Dirs, f \in Names :
                          <<d, f>> \in owed' \/ d \in quiet' => files'[d][f] = files[d][f]
    OBVIOUS
<1>1. ASSUME NEW d \in Dirs, NEW f \in Names, Change(d, f)
      PROVE  /\ UNCHANGED <<scan, machine>>
             /\ plain' \subseteq plain /\ owed' \subseteq owed /\ quiet' \subseteq quiet
             /\ \A e \in Dirs, g \in Names :
                   <<e, g>> \in owed' \/ e \in quiet' => files'[e][g] = files[e][g]
  <2>1. /\ \A e \in Dirs, g \in Names : <<e, g>> # <<d, f>> => files'[e][g] = files[e][g]
        /\ plain' \subseteq plain /\ owed' = owed \ {<<d, f>>} /\ quiet' = quiet \ {d}
    BY <1>1, ChangeEffect, ZenonT(60)
  <2> QED
    BY <1>1, <2>1 DEF Change
<1>2. ASSUME NEW d \in Dirs, NEW b \in Blocks, Writeback(d, b)
      PROVE  UNCHANGED <<scan, machine, files, history>>
    BY <1>2 DEF Writeback
<1> QED
    BY <1>1, <1>2 DEF FileSystem, history

(* What the block read next holds.                                         *)
LEMMA ContentRead ==
    ASSUME Typed, World, NEW b \in Blocks
    PROVE  /\ dir \in quiet => Content(Device, b) = InMemory(dir, b)
           /\ \A f \in Names : <<dir, f>> \in owed /\ Device = Analysed /\ files[dir][f] = b
                                  => f \in Content(Device, b)
<1>0. dir \in Dirs /\ b # 0
    BY FileAssumption DEF Typed, Blocks
<1>1. ASSUME dir \in quiet PROVE Content(Device, b) = InMemory(dir, b)
  <2>1. disk[dir][b] = InMemory(dir, b) /\ InMemory(dir, b) \intersect hidden = {}
    BY <1>0, <1>1 DEF World, InMemory
  <2> QED
    BY <2>1 DEF Content
<1>2. ASSUME NEW f \in Names, <<dir, f>> \in owed, Device = Analysed, files[dir][f] = b
      PROVE  f \in Content(Device, b)
  <2>1. Device \notin filtered /\ f \in disk[dir][b] /\ f \in InMemory(dir, b)
    BY <1>0, <1>2 DEF World, InMemory
  <2> QED
    BY <2>1 DEF Content
<1> QED
    BY <1>1, <1>2

LEMMA ReadingStays == Typed /\ World /\ Position /\ Reading /\ [Next]_vars => Reading'
<1> SUFFICES ASSUME Typed, World, Position, Reading, [Next]_vars PROVE Reading'
    OBVIOUS
<1> USE FileAssumption
<1>t. Typed' /\ World'
    BY TypedStays, WorldStays
<1>0. ASSUME ~Dumping' PROVE Reading'
    BY <1>0 DEF Reading
<1>1. ASSUME mem' = NoDump PROVE Reading'
  <2>1. Len(mem'.data) = 0
    BY <1>1, NoDumpTyped
  <2>2. \A f \in Names : <<dir', f>> \in owed' => files'[dir'][f] \in Blocks
    BY <1>t, Zenon DEF Typed, World
  <2>3. \A f \in Names : <<dir', f>> \in owed' => ~(files'[dir'][f] <= Len(mem'.data))
    BY <2>1, <2>2 DEF Blocks
  <2> QED
    BY <2>1, <2>3 DEF Reading, Same, Holds
<1>2. CASE Sync \/ QueryFails \/ DebugfsFails \/ Compare \/ Verdict
    BY <1>0, <1>2, NextDirTyped
       DEF Sync, QueryFails, DebugfsFails, Compare, Verdict, Dumping
<1>3. CASE OpenDirFails \/ \E f \in Names : ReadDir(f)
    BY <1>0, <1>3, Zenon DEF OpenDirFails, ReadDir, Dumping
<1>4. CASE QueryExt \/ RetryExt \/ QueryXfs \/ LsblksFails
  <2>1. ~Dumping /\ mem' = mem
    BY <1>4 DEF QueryExt, RetryExt, QueryXfs, LsblksFails, Found, Dumping
  <2> QED
    BY <1>1, <2>1 DEF Typed
<1>5. CASE DumpStep
  <2> DEFINE k == Len(mem.data)
  <2>0. UNCHANGED <<pc, dir, owed, quiet, files, hasParent>> /\ Dumping /\ n <= Len(blknums)
    BY <1>5 DEF DumpStep, Dumping, machine, world, history
  <2>1. /\ Dumping /\ n <= Len(blknums) /\ k \in Nat
        /\ mem.data \in Seq(SUBSET Names) /\ dir \in Dirs /\ blknums[n] \in 0..NBlocks
        /\ UNCHANGED <<pc, dir, owed, quiet, files>> /\ Device' = Device /\ Analysed' = Analysed
    <3>1. k \in Nat /\ mem.data \in Seq(SUBSET Names)
      BY DEF Typed, Dumps
    <3>2. dir \in Dirs /\ blknums[n] \in 0..NBlocks
      BY <2>0 DEF Typed
    <3>3. Device' = Device /\ Analysed' = Analysed
      BY <2>0 DEF Device, Analysed
    <3> QED
      BY <2>0, <3>1, <3>2, <3>3
  <2>2. \A j : InMemory(dir, j)' = InMemory(dir, j)
    BY <2>1 DEF InMemory
  <2>3. CASE blknums[n] = 0
    <3>1. mem'.data = mem.data
      BY <1>5, <2>3 DEF DumpStep, Typed, Dumps
    <3> QED
      BY <2>1, <2>2, <3>1 DEF Reading, Same, Holds
  <2>4. CASE blknums[n] # 0
    <3>1. mem'.data = Append(mem.data, Content(Device, blknums[n]))
      BY <1>5, <2>4 DEF DumpStep, Typed, Dumps
    <3>2. blknums[n] = k + 1 /\ blknums[n] \in Blocks
      BY <2>1, <2>4, BlockInOrder DEF Blocks
    <3> DEFINE c == Content(Device, blknums[n])
    <3>3. /\ dir \in quiet => c = InMemory(dir, k + 1)
          /\ \A f \in Names : <<dir, f>> \in owed /\ Device = Analysed /\ files[dir][f] = k + 1
                                 => f \in c
      BY <3>2, ContentRead
    <3>4. /\ Len(mem'.data) = k + 1 /\ mem'.data[k + 1] = c
          /\ \A j \in 1..k : mem'.data[j] = mem.data[j]
      <4> HIDE DEF c
      <4>1. mem'.data = Append(mem.data, c)
        BY <3>1 DEF c
      <4> QED
        BY <2>1, <4>1
    <3> HIDE DEF c
    <3>5. ASSUME dir \in quiet, NEW j \in 1..(k + 1) PROVE mem'.data[j] = InMemory(dir, j)
      <4>1. CASE j = k + 1
        BY <3>3, <3>4, <3>5, <4>1
      <4>2. CASE j \in 1..k
        BY <2>1, <3>4, <3>5, <4>2, Zenon DEF Reading, Same
      <4> QED
        BY <2>1, <4>1, <4>2
    <3>6. ASSUME NEW f \in Names, <<dir, f>> \in owed, Device = Analysed, files[dir][f] <= k + 1
          PROVE  f \in mem'.data[files[dir][f]]
      <4>1. files[dir][f] \in Blocks
        BY <2>1, <3>6 DEF World
      <4>2. CASE files[dir][f] = k + 1
        BY <3>3, <3>4, <3>6, <4>2
      <4>3. CASE files[dir][f] \in 1..k
        <5>1. Holds(mem)
          BY <2>0, <3>6 DEF Reading
        <5>2. files[dir][f] <= k
          BY <2>1, <4>3
        <5>3. f \in mem.data[files[dir][f]]
          BY <3>6, <5>1, <5>2 DEF Holds
        <5> QED
          BY <3>4, <4>3, <5>3
      <4> QED
        BY <2>1, <3>6, <4>1, <4>2, <4>3 DEF Blocks
    <3>7. Same(mem)'
      BY <2>1, <2>2, <3>4, <3>5 DEF Same
    <3>8. Device' = Analysed' => Holds(mem)'
      BY <2>1, <3>4, <3>6, Zenon DEF Holds
    <3> QED
      BY <3>7, <3>8 DEF Reading
  <2> QED
    BY <2>3, <2>4
<1>6. CASE DumpDone \/ DumpFails
    BY <1>1, <1>6 DEF DumpDone, DumpFails, DumpEnds
<1>7. CASE FileSystem
  <2>1. /\ UNCHANGED <<pc, dir, mem>> /\ Device' = Device /\ Analysed' = Analysed
        /\ dir \in Dirs /\ owed' \subseteq owed /\ quiet' \subseteq quiet
        /\ \A f \in Names :
              <<dir, f>> \in owed' \/ dir \in quiet' => files'[dir][f] = files[dir][f]
    <3>1. dir \in Dirs
      BY DEF Typed
    <3>2. UNCHANGED <<scan, machine>>
      BY <1>7, FileSystemSteps
    <3>3. UNCHANGED <<pc, dir, mem, hasParent>>
      BY <3>2 DEF scan, machine
    <3>4. Device' = Device /\ Analysed' = Analysed
      BY <3>3 DEF Device, Analysed
    <3> QED
      BY <1>7, <3>1, <3>3, <3>4, FileSystemSteps
  <2>2. dir \in quiet' => \A j : InMemory(dir, j)' = InMemory(dir, j)
    BY <2>1, Zenon DEF InMemory
  <2> QED
    BY <2>1, <2>2, Zenon DEF Reading, Dumping, Same, Holds
<1>8. CASE Finished \/ UNCHANGED vars
  <2>1. UNCHANGED <<pc, dir, mem, hasParent, files, owed, quiet>>
    BY <1>8 DEF Finished, vars, scan, machine, world, history
  <2>2. Device' = Device /\ Analysed' = Analysed /\ (Dumping' <=> Dumping)
    BY <2>1 DEF Device, Analysed, Dumping
  <2>3. \A j : InMemory(dir, j)' = InMemory(dir, j)
    BY <2>1 DEF InMemory
  <2> QED
    BY <2>1, <2>2, <2>3 DEF Reading, Same, Holds
<1> QED
    BY <1>2, <1>3, <1>4, <1>5, <1>6, <1>7, <1>8 DEF Next, Fhf

-----------------------------------------------------------------------------
(* The buffer of dump_blocks is large enough, and full in the end.         *)
LEMMA Fits ==
    ASSUME Typed, Position
    PROVE  /\ Len(mem.data) <= blkcount
           /\ Dumping /\ n > Len(blknums) => Len(mem.data) = blkcount
<1> DEFINE k == Len(mem.data)
<1>1. n \in 1..(Len(blknums) + 1) /\ k \in Nat /\ blkcount \in Nat /\ NBlocks \in Nat
      /\ Len(blknums) \in Nat
    BY FileAssumption DEF Typed, Dumps
<1>2. CASE ~Dumping
    BY <1>1, <1>2, NoDumpTyped DEF Typed
<1>3. CASE Dumping
  <2> HIDE DEF k
  <2>1. CASE Empty /\ k = 0
    BY <1>1, <2>1 DEF Empty, k
  <2>2. CASE OneExtent /\ k = IF n = 1 THEN 0 ELSE n - 2
    BY <1>1, <2>2 DEF OneExtent, k
  <2>3. CASE Split /\ n \in {2 * k + 1, 2 * k + 2}
    <3>1. k <= blkcount
      BY <1>1, <2>3 DEF Split
    <3>2. n > Len(blknums) => k = blkcount
      BY <1>1, <2>3 DEF Split
    <3> QED
      BY <3>1, <3>2 DEF k
  <2> QED
    BY <1>3, <2>1, <2>2, <2>3 DEF Position, k
<1> QED
    BY <1>2, <1>3

(* A dump that has come to its end holds every owed entry.                 *)
LEMMA AllParsed ==
    ASSUME Typed, World, Position, Reading, Dumping, n > Len(blknums), Device = Analysed,
           NEW f \in Names, <<dir, f>> \in owed
    PROVE  f \in Parsed([mem EXCEPT !.ok = TRUE])
<1> DEFINE b == files[dir][f]
<1>1. blkcount = NBlocks /\ ~Empty /\ Len(mem.data) = NBlocks
    BY Fits DEF Position
<1>2. b \in 1..Len(mem.data) /\ f \in mem.data[b]
  <2>1. dir \in Dirs /\ b \in 1..NBlocks
    BY Zenon DEF World, Typed, Blocks
  <2>2. b \in 1..Len(mem.data) /\ b <= Len(mem.data)
    <3>1. NBlocks \in Nat /\ Len(mem.data) = NBlocks
      BY <1>1, FileAssumption
    <3> QED
      BY <2>1, <3>1
  <2> QED
    BY <2>2 DEF Reading, Holds
<1>3. blknums # <<>> /\ Len(blknums) > 0
    BY <1>1, FileAssumption DEF Typed, Position, Empty, OneExtent, Split
<1>4. n > 1
    BY <1>3 DEF Typed
<1>5. mem.extents # <<>> /\ mem.extents[1] = 0
    BY <1>4 DEF Position
<1>6. /\ [mem EXCEPT !.ok = TRUE].data = mem.data
      /\ [mem EXCEPT !.ok = TRUE].extents = mem.extents
    BY DEF Typed, Dumps
<1> HIDE DEF b
<1>7. Parsed([mem EXCEPT !.ok = TRUE]) = UNION {mem.data[i] : i \in (0 + 1)..Len(mem.data)}
    BY <1>5, <1>6 DEF Parsed
<1>8. b \in (0 + 1)..Len(mem.data)
    BY <1>2
<1>9. mem.data[b] \in {mem.data[i] : i \in (0 + 1)..Len(mem.data)}
    BY <1>8, Zenon
<1> QED
    BY <1>2, <1>7, <1>9, Zenon

(* A step that leaves the dumps as they are.                               *)
DumpsKept ==
    /\ UNCHANGED <<dir, blkcount, blkdata0, blkdatap, hasParent>>
    /\ owed' \subseteq owed /\ quiet' \subseteq quiet
    /\ dir \in quiet' => \A f \in Names : files'[dir][f] = files[dir][f]
    /\ pc' = pc \/ (pc = "compare" /\ pc' = "list")

(* A dump that is full, or not there, and holds what it must.              *)
GoodDump(result) ==
    /\ result.ok => Len(result.data) = blkcount /\ Same(result)
    /\ Device = Analysed =>
          \A f \in Names : <<dir, f>> \in owed' => result.ok /\ f \in Parsed(result)

LEMMA DumpedStays ==
    Typed /\ World /\ Position /\ Reading /\ Dumped /\ [Next]_vars => Dumped'
<1> SUFFICES ASSUME Typed, World, Position, Reading, Dumped, [Next]_vars PROVE Dumped'
    OBVIOUS
<1>1. ASSUME blkdata0' = NoDump, blkdatap' = NoDump, pc' \notin {"dumpp", "compare", "list"}
      PROVE  Dumped'
    BY <1>1, NoDumpTyped DEF Dumped, Full
<1>2. ASSUME DumpsKept PROVE Dumped'
  <2>1. Analysed' = Analysed
    BY <1>2 DEF DumpsKept, Analysed
  <2>2. dir \in quiet' => \A j : InMemory(dir, j)' = InMemory(dir, j)
    BY <1>2, Zenon DEF DumpsKept, InMemory
  <2>3. Full(blkdata0)' /\ Full(blkdatap)'
    BY <1>2, <2>2 DEF DumpsKept, Dumped, Full, Same
  <2>4. (Complete(blkdata0) => Complete(blkdata0)') /\ (Complete(blkdatap) => Complete(blkdatap)')
    BY <1>2, Zenon DEF DumpsKept, Complete, Parsed
  <2> QED
    BY <1>2, <2>1, <2>3, <2>4 DEF DumpsKept, Dumped
<1>3. CASE Sync \/ DebugfsFails
    BY <1>1, <1>3, Zenon DEF Sync, DebugfsFails, Dumped
<1>4. CASE QueryFails \/ Verdict
    BY <1>1, <1>4, NextDirTyped, Zenon DEF QueryFails, Verdict
<1>5. CASE QueryExt \/ RetryExt \/ QueryXfs \/ LsblksFails
    BY <1>1, <1>5 DEF QueryExt, RetryExt, QueryXfs, LsblksFails, Found, Dumped
<1>6. CASE Compare
  <2>1. CASE Chosen.ok
    BY <1>2, <1>6, <2>1, ZenonT(60) DEF DumpsKept, Compare, machine, world, history
  <2>2. CASE ~Chosen.ok
    BY <1>1, <1>6, <2>2, NextDirTyped DEF Compare
  <2> QED
    BY <2>1, <2>2
<1>7. CASE DumpStep
    BY <1>2, <1>7, Zenon DEF DumpsKept, DumpStep, machine, world, history
<1>8. CASE OpenDirFails \/ \E f \in Names : ReadDir(f)
    BY <1>2, <1>8, Zenon DEF DumpsKept, OpenDirFails, ReadDir, machine, world, history
<1>9. CASE FileSystem
    BY <1>2, <1>9, FileSystemSteps, ZenonT(60) DEF DumpsKept, scan, machine, Typed
<1>10. CASE Finished \/ UNCHANGED vars
    BY <1>2, <1>10 DEF DumpsKept, Finished, vars, scan, machine, world, history
<1>11. ASSUME NEW result \in Dumps, Dumping, DumpEnds(result), owed' \subseteq owed,
              GoodDump(result)
       PROVE  Dumped'
  <2>1. /\ UNCHANGED <<dir, blkcount, hasParent, files, quiet>> /\ Analysed' = Analysed
        /\ \A j : InMemory(dir, j)' = InMemory(dir, j)
    BY <1>11 DEF DumpEnds, machine, world, Analysed, InMemory
  <2>2. NoDump.ok = FALSE /\ GoodDump(result)
    BY <1>11, NoDumpTyped
  <2>3. CASE pc = "dump0"
    <3>1. /\ blkdata0' = result /\ blkdatap' = NoDump
          /\ pc' = IF hasParent THEN "dumpp" ELSE "compare"
      BY <1>11, <2>3, Zenon DEF DumpEnds, Dumped
    <3>2. Full(blkdata0)' /\ Full(blkdatap)'
      BY <2>1, <2>2, <3>1, Zenon DEF GoodDump, Full, Same
    <3>3. Analysed = "volume" => Complete(blkdata0)'
      BY <2>1, <2>2, <2>3, <3>1, <1>11 DEF GoodDump, Complete, Parsed, Device
    <3>4. Analysed = "parent" => pc' = "dumpp"
      BY <3>1 DEF Analysed
    <3> QED
      BY <2>1, <3>1, <3>2, <3>3, <3>4 DEF Dumped
  <2>4. CASE pc = "dumpp"
    <3>1. blkdatap' = result /\ blkdata0' = blkdata0 /\ pc' = "compare" /\ hasParent
      BY <1>11, <2>4, Zenon DEF DumpEnds, Dumped
    <3>2. Full(blkdata0)' /\ Full(blkdatap)'
      BY <2>1, <2>2, <3>1 DEF GoodDump, Full, Same, Dumped
    <3>3. Analysed = "volume" => Complete(blkdata0)'
      BY <1>11, <2>1, <2>4, <3>1, ZenonT(60) DEF Complete, Parsed, Dumped
    <3>4. Analysed = "parent" => Complete(blkdatap)'
      BY <1>11, <2>1, <2>4, <3>1, Zenon DEF GoodDump, Complete, Parsed, Device
    <3> QED
      BY <2>1, <3>1, <3>2, <3>3, <3>4 DEF Dumped
  <2> QED
    BY <1>11, <2>3, <2>4 DEF Dumping
<1>12. CASE DumpDone
  <2> DEFINE result == [mem EXCEPT !.ok = TRUE]
  <2>1. result \in Dumps /\ result.ok /\ result.data = mem.data
    BY Zenon DEF Typed, Dumps
  <2>2. Dumping /\ n > Len(blknums) /\ DumpEnds(result) /\ owed' = owed
    BY <1>12 DEF DumpDone, Dumping
  <2>3. Len(result.data) = blkcount /\ Same(result)
    BY <2>1, <2>2, Fits DEF Reading, Same
  <2>4. Device = Analysed => \A f \in Names : <<dir, f>> \in owed' => f \in Parsed(result)
    BY <2>2, AllParsed, Zenon
  <2> HIDE DEF result
  <2> QED
    BY <1>11, <2>1, <2>2, <2>3, <2>4, Zenon DEF GoodDump
<1>13. CASE DumpFails
  <2>1. Dumping /\ DumpEnds(NoDump) /\ owed' \subseteq owed
    BY <1>13 DEF DumpFails, Dumping, Excuse
  <2>2. Device = Analysed => \A f \in Names : <<dir, f>> \notin owed'
    BY <1>13 DEF DumpFails, Excuse
  <2> QED
    BY <1>11, <2>1, <2>2, NoDumpTyped DEF GoodDump
<1> QED
    BY <1>3, <1>4, <1>5, <1>6, <1>7, <1>8, <1>9, <1>10, <1>12, <1>13 DEF Next, Fhf

-----------------------------------------------------------------------------
LEMMA ListingStays == Typed /\ World /\ Listing /\ [Next]_vars => Listing'
<1> SUFFICES ASSUME Typed, World, Listing, [Next]_vars PROVE Listing'
    BY Zenon
<1>h. hidden' = hidden
    BY NextCases, FhfSteps, FileSystemSteps DEF Sync, machine, FileSystem
<1>1. ASSUME pc' # "list", dirfiles' = dirfiles \/ dirfiles' = {} PROVE Listing'
    BY <1>1, <1>h, Zenon DEF Listing
<1>2. CASE Sync \/ QueryFails \/ DebugfsFails \/ Verdict
    BY <1>1, <1>2, NextDirTyped, Zenon DEF Sync, QueryFails, DebugfsFails, Verdict
<1>3. CASE QueryExt \/ RetryExt \/ QueryXfs \/ LsblksFails
    BY <1>1, <1>3 DEF QueryExt, RetryExt, QueryXfs, LsblksFails, Found
<1>4. CASE DumpStep \/ DumpDone \/ DumpFails
    BY <1>1, <1>4 DEF DumpStep, DumpDone, DumpFails, DumpEnds
<1>5. CASE Compare
  <2>1. CASE Chosen.ok
    BY <1>5, <1>h, <2>1, ZenonT(60) DEF Compare, Listing, Chosen
  <2>2. CASE ~Chosen.ok
    BY <1>1, <1>5, <2>2, NextDirTyped, Zenon DEF Compare
  <2> QED
    BY <2>1, <2>2
<1>6. CASE OpenDirFails
    BY <1>6, <1>h, Zenon DEF OpenDirFails, Listing, Chosen
<1>7. ASSUME NEW f \in Names, ReadDir(f) PROVE Listing'
  <2>1. /\ UNCHANGED <<dir, files, plain, quiet, blkdata0, blkdatap>> /\ pc = "list" /\ dir \in Dirs
        /\ quiet \subseteq Dirs
    BY <1>7 DEF ReadDir, world, history, Typed
  <2>2. <<dir, f>> \in plain \/ (dir \in quiet /\ files[dir][f] # 0) =>
            files[dir][f] # 0 /\ f \notin hidden
    BY <1>7, <2>1, ZenonT(60) DEF World
  <2>3. /\ dirfiles' \intersect hidden' = {}
        /\ <<dir, f>> \in plain \/ (dir \in quiet /\ files[dir][f] # 0) => f \in dirfiles'
        /\ dirfiles \subseteq dirfiles' /\ todo' = todo \ {f}
    BY <1>7, <1>h, <2>2, Zenon DEF ReadDir, Listing
  <2> QED
    BY <2>1, <2>3 DEF Listing, Chosen
<1>8. CASE FileSystem
  <2>1. /\ UNCHANGED <<pc, dir, todo, dirfiles, blkdata0, blkdatap>> /\ dir \in Dirs
        /\ plain' \subseteq plain /\ quiet' \subseteq quiet
        /\ \A f \in Names : dir \in quiet' => files'[dir][f] = files[dir][f]
    BY <1>8, FileSystemSteps, ZenonT(60) DEF scan, Typed
  <2> QED
    BY <1>h, <2>1 DEF Listing, Chosen
<1>9. CASE Finished \/ UNCHANGED vars
    BY <1>9 DEF Finished, vars, scan, machine, world, history, Listing, Chosen
<1> QED
    BY <1>2, <1>3, <1>4, <1>5, <1>6, <1>7, <1>8, <1>9 DEF Next, Fhf

LEMMA VerdictsStay == Typed /\ World /\ Dumped /\ Listing /\ Verdicts /\ [Next]_vars => Verdicts'
<1> SUFFICES ASSUME Typed, World, Dumped, Listing, Verdicts, [Next]_vars PROVE Verdicts'
    OBVIOUS
<1>1. ASSUME pc' # "sync" \/ (pc' = pc /\ dir' = dir), reported' = reported,
             suspicious' = suspicious, plain' \subseteq plain, quiet' \subseteq quiet
      PROVE  Verdicts'
    BY <1>1, Zenon DEF Verdicts
<1>2. CASE Sync
    BY <1>2 DEF Sync, Verdicts
<1>3. CASE QueryFails
  <2>1. /\ pc' # "sync" /\ reported' = reported /\ suspicious' = suspicious
        /\ plain' \subseteq plain /\ quiet' \subseteq quiet
    BY <1>3, NextDirTyped, Zenon DEF QueryFails
  <2> QED
    BY <1>1, <2>1
<1>4. CASE QueryExt \/ RetryExt \/ QueryXfs \/ LsblksFails \/ DebugfsFails
    BY <1>1, <1>4 DEF QueryExt, RetryExt, QueryXfs, LsblksFails, Found, DebugfsFails, history
<1>5. CASE DumpStep \/ DumpDone \/ DumpFails
  <2>1. /\ pc' # "sync" /\ reported' = reported /\ suspicious' = suspicious
        /\ plain' \subseteq plain /\ quiet' \subseteq quiet
    BY <1>5 DEF DumpStep, DumpDone, DumpFails, DumpEnds, history
  <2> QED
    BY <1>1, <2>1
<1>6. CASE Compare
  <2>1. pc' # "sync" /\ UNCHANGED <<reported, plain, quiet>>
    BY <1>6, NextDirTyped DEF Compare, history
  <2>2. ASSUME dir \in quiet, blkdata0.ok, blkdatap.ok PROVE blkdata0.data = blkdatap.data
    <3>1. blkdata0.data \in Seq(SUBSET Names) /\ blkdatap.data \in Seq(SUBSET Names)
      BY DEF Typed, Dumps
    <3>2. Len(blkdata0.data) = Len(blkdatap.data)
      BY <2>2, Zenon DEF Dumped, Full
    <3>3. \A j \in 1..Len(blkdata0.data) : blkdata0.data[j] = blkdatap.data[j]
      BY <2>2, <3>2 DEF Dumped, Full, Same
    <3> QED
      BY <3>1, <3>2, <3>3
  <2>3. suspicious' \intersect quiet = {}
    BY <1>6, <2>2, Zenon DEF Compare, Verdicts
  <2> QED
    BY <2>1, <2>3 DEF Verdicts
<1>7. CASE OpenDirFails \/ \E f \in Names : ReadDir(f)
    BY <1>1, <1>7 DEF OpenDirFails, ReadDir, history
<1>8. CASE Verdict
  <2>1. /\ pc' # "sync" /\ UNCHANGED <<plain, quiet>> /\ todo = {} /\ pc = "list"
        /\ reported' = reported \union ({dir} \X HiddenFiles)
        /\ suspicious' = IF HiddenFiles # {} THEN suspicious \union {dir} ELSE suspicious
    BY <1>8, NextDirTyped DEF Verdict, history
  <2>2. \A f \in HiddenFiles : <<dir, f>> \notin plain
  <3> SUFFICES ASSUME NEW f \in HiddenFiles, <<dir, f>> \in plain PROVE FALSE
    OBVIOUS
  <3>1. f \in Names
    BY DEF Typed
  <3>2. f \in dirfiles
    BY <2>1, <3>1 DEF Listing
  <3> QED
    BY <3>2 DEF HiddenFiles
  <2>3. reported' \intersect plain' = {}
    BY <2>1, <2>2 DEF Verdicts
  <2>4. ASSUME dir \in quiet, NEW f \in HiddenFiles PROVE FALSE
    <3>1. Chosen \in Dumps /\ Full(Chosen) /\ Chosen.ok
      BY <2>1 DEF Chosen, Typed, Dumped, Listing
    <3>2. PICK i \in (Chosen.extents[1] + 1)..Len(Chosen.data) : f \in Chosen.data[i]
      BY <2>4, Zenon DEF HiddenFiles, Parsed
    <3>3. Chosen.extents # <<>>
      BY <2>4 DEF HiddenFiles, Parsed
    <3>4. Chosen.extents[1] \in Nat
      BY <3>1, <3>3 DEF Dumps
    <3>5. i \in 1..Len(Chosen.data)
      BY <3>1, <3>2, <3>4 DEF Dumps
    <3>6. f \in InMemory(dir, i) /\ i # 0
      BY <2>4, <3>1, <3>2, <3>5 DEF Full, Same
    <3>7. f \in Names /\ files[dir][f] # 0
      BY <3>6 DEF InMemory
    <3>8. f \in dirfiles
      BY <2>1, <2>4, <3>7, Zenon DEF Listing
    <3> QED
      BY <2>4, <3>8, Zenon DEF HiddenFiles
  <2>5. suspicious' \intersect quiet' = {}
    BY <2>1, <2>4, Zenon DEF Verdicts
  <2> QED
    BY <2>1, <2>3, <2>5, Zenon DEF Verdicts
<1>9. CASE FileSystem
    BY <1>1, <1>9, FileSystemSteps, Zenon DEF scan
<1>10. CASE Finished \/ UNCHANGED vars
    BY <1>1, <1>10 DEF Finished, vars, scan, history
<1> QED
    BY <1>2, <1>3, <1>4, <1>5, <1>6, <1>7, <1>8, <1>9, <1>10 DEF Next, Fhf

-----------------------------------------------------------------------------
(* The dump that is analysed is the one that was to be, if that was made.  *)
LEMMA ChosenComplete ==
    ASSUME ReadParent < 2, Dumped, pc \in {"compare", "list"}
    PROVE  Complete(Chosen)
<1>1. CASE Analysed = "parent"
  <2>1. ReadParent = 1 /\ Complete(blkdatap)
    BY <1>1, FileAssumption DEF Analysed, Dumped
  <2> QED
    BY <2>1 DEF Complete, Chosen
<1>2. CASE Analysed = "volume"
  <2>1. Complete(blkdata0) /\ (ReadParent = 0 \/ (ReadParent = 1 /\ blkdatap = NoDump))
    BY <1>2, FileAssumption DEF Analysed, Dumped
  <2>2. Chosen = blkdata0
    BY <2>1, NoDumpTyped DEF Chosen
  <2> QED
    BY <2>1, <2>2
<1> QED
    BY <1>1, <1>2 DEF Analysed

LEMMA SettledStays == ReadParent < 2 =>
    (Typed /\ World /\ Dumped /\ Listing /\ Verdicts /\ Settled /\ [Next]_vars => Settled')
<1> SUFFICES ASSUME ReadParent < 2, Typed, World, Dumped, Listing, Verdicts, Settled, [Next]_vars
             PROVE  Settled'
    OBVIOUS
<1> USE FileAssumption
<1>1. ASSUME dir' = dir, reported' = reported, owed' \subseteq owed,
             pc' = pc \/ pc' \notin {"sync", "done"}
      PROVE  Settled'
    BY <1>1 DEF Settled
<1>2. ASSUME NextDir, owed' \subseteq owed, reported \subseteq reported',
             \A f \in Names : <<dir, f>> \in owed' => <<dir, f>> \in reported'
      PROVE  Settled'
  <2>1. /\ pc' # "sync" /\ dir \in 1..NDirs
        /\ dir' = (IF dir < NDirs THEN dir + 1 ELSE dir) /\ (pc' = "done" => dir = NDirs)
    BY <1>2, NextDirTyped DEF Typed, Dirs
  <2>2. ASSUME NEW d \in Dirs, NEW f \in Names, <<d, f>> \in owed', d < dir' \/ pc' = "done"
        PROVE  <<d, f>> \in reported'
    <3>1. d = dir \/ d < dir
      BY <2>1, <2>2 DEF Dirs
    <3> QED
      BY <1>2, <2>2, <3>1 DEF Settled
  <2> QED
    BY <2>1, <2>2, Zenon DEF Settled
<1>3. CASE Sync
  <2>1. pc' = "query" /\ dir' = 1
    BY <1>3 DEF Sync, Verdicts
  <2>2. \A d \in Dirs : ~(d < dir')
    BY <2>1 DEF Dirs
  <2> QED
    BY <2>1, <2>2, Zenon DEF Settled
<1>4. CASE QueryFails
    BY <1>2, <1>4, Zenon DEF QueryFails, Excuse
<1>5. CASE QueryExt \/ RetryExt \/ QueryXfs \/ DebugfsFails
    BY <1>1, <1>5 DEF QueryExt, RetryExt, QueryXfs, Found, DebugfsFails, history
<1>6. CASE LsblksFails
    BY <1>1, <1>6 DEF LsblksFails, Found, Excuse
<1>7. CASE DumpStep
    BY <1>1, <1>7 DEF DumpStep, history
<1>8. CASE DumpDone \/ DumpFails
  <2>1. dir' = dir /\ reported' = reported /\ owed' \subseteq owed /\ pc' \notin {"sync", "done"}
    BY <1>8 DEF DumpDone, DumpFails, DumpEnds, Excuse
  <2> QED
    BY <1>1, <2>1
<1>9. CASE Compare
  <2>1. CASE Chosen.ok
    BY <1>1, <1>9, <2>1, ZenonT(60) DEF Compare, history
  <2>2. CASE ~Chosen.ok
    <3>1. \A f \in Names : <<dir, f>> \notin owed
      BY <1>9, <2>2, ChosenComplete, Zenon DEF Compare, Complete
    <3> QED
      BY <1>2, <1>9, <2>2, <3>1, ZenonT(60) DEF Compare, history
  <2> QED
    BY <2>1, <2>2
<1>10. CASE OpenDirFails \/ \E f \in Names : ReadDir(f)
    BY <1>1, <1>10, Zenon DEF OpenDirFails, ReadDir, history
<1>11. CASE Verdict
  <2>1. /\ NextDir /\ owed' = owed /\ pc = "list"
        /\ reported' = reported \union ({dir} \X HiddenFiles)
    BY <1>11 DEF Verdict, history
  <2>2. ASSUME NEW f \in Names, <<dir, f>> \in owed PROVE <<dir, f>> \in reported'
    <3>1. f \in Parsed(Chosen)
      BY <2>1, <2>2, ChosenComplete, Zenon DEF Complete
    <3>2. f \notin dirfiles
      BY <2>2 DEF World, Listing, Typed
    <3> QED
      BY <2>1, <3>1, <3>2 DEF HiddenFiles
  <2>3. reported \subseteq reported' /\ owed' \subseteq owed
    BY <2>1, Zenon
  <2> QED
    BY <1>2, <2>1, <2>2, <2>3
<1>12. CASE FileSystem
    BY <1>1, <1>12, FileSystemSteps, Zenon DEF scan
<1>13. CASE Finished \/ UNCHANGED vars
    BY <1>1, <1>13 DEF Finished, vars, scan, history
<1> QED
    BY <1>3, <1>4, <1>5, <1>6, <1>7, <1>8, <1>9, <1>10, <1>11, <1>12, <1>13
       DEF Next, Fhf

-----------------------------------------------------------------------------
IInv == Typed /\ World /\ Position /\ Reading /\ Dumped /\ Listing /\ Verdicts

LEMMA InitInv == Init => IInv /\ Settled
<1> SUFFICES ASSUME Init PROVE IInv /\ Settled
    OBVIOUS
<1> USE NoDumpTyped, FileAssumption
<1>1. ~Dumping /\ pc = "sync"
    BY DEF Init, Dumping
<1>2. Typed
    BY <1>1 DEF Init, Typed, Dirs
<1>3. World /\ Settled
    BY DEF Init, World, Settled
<1>4. Position /\ Reading
    BY <1>1 DEF Position, Reading
<1>5. Dumped
    BY DEF Init, Dumped, Full
<1>6. Listing /\ Verdicts
    BY DEF Init, Listing, Verdicts
<1> QED
    BY <1>2, <1>3, <1>4, <1>5, <1>6 DEF IInv

LEMMA SpecInv == Spec => []IInv
<1>1. IInv /\ [Next]_vars => IInv'
    BY TypedStays, WorldStays, PositionStays, ReadingStays, DumpedStays, ListingStays,
       VerdictsStay DEF IInv
<1> QED
    BY InitInv, <1>1, PTL DEF Spec

-----------------------------------------------------------------------------
(* The extents of a dump start within it.                                  *)
InBounds(d) == \A i \in DOMAIN d.extents : d.extents[i] <= Len(d.data)

(* The types of what the other parts of the invariant do not speak of.     *)
Bounded ==
    /\ InBounds(mem) /\ InBounds(blkdata0) /\ InBounds(blkdatap)
    /\ dirfiles \subseteq Names /\ reported \subseteq Dirs \X Names /\ suspicious \subseteq Dirs

Machine ==
    /\ build \in Builds /\ fstype \in {"ext", "xfs"}
    /\ hasParent \in BOOLEAN /\ cached \in BOOLEAN
    /\ hidden \subseteq Names /\ filtered \subseteq Devices
    /\ changes \in 0..MaxChanges

LEMMA NoDumpInBounds == InBounds(NoDump)
    BY DEF InBounds, NoDump

LEMMA MachineStays == Machine /\ [Next]_vars => Machine'
<1> SUFFICES ASSUME Machine, [Next]_vars PROVE Machine'
    OBVIOUS
<1>1. CASE Sync
    BY <1>1 DEF Sync, machine, Machine
<1>2. CASE Fhf \/ Finished \/ UNCHANGED vars
    BY <1>2, FhfSteps DEF machine, world, Machine
<1>3. ASSUME NEW d \in Dirs, NEW f \in Names, Change(d, f) PROVE Machine'
  <2>1. changes' \in 0..MaxChanges
    BY <1>3, FileAssumption DEF Change, Machine
  <2> QED
    BY <1>3, <2>1 DEF Change, machine, Machine
<1>4. ASSUME NEW d \in Dirs, NEW b \in Blocks, Writeback(d, b) PROVE Machine'
    BY <1>4 DEF Writeback, machine, Machine
<1> QED
    BY <1>1, <1>2, <1>3, <1>4, NextCases, Zenon

(* An extent starts at the end of what has been read, and reading goes on. *)
LEMMA DumpStepInBounds == Typed /\ InBounds(mem) /\ DumpStep => InBounds(mem')
<1> SUFFICES ASSUME Typed, InBounds(mem), DumpStep PROVE InBounds(mem')
    BY Zenon
<1>1. /\ mem \in Dumps /\ mem.data \in Seq(SUBSET Names) /\ mem.extents \in Seq(Nat)
      /\ Len(mem.data) \in Nat
    BY DEF Typed, Dumps
<1>2. CASE blknums[n] = 0
  <2>1. mem'.data = mem.data /\ mem'.extents = Append(mem.extents, Len(mem.data))
    BY <1>1, <1>2 DEF DumpStep, Dumps
  <2>2. \A i \in DOMAIN mem'.extents :
            mem'.extents[i] = Len(mem.data) \/ (i \in DOMAIN mem.extents /\ mem'.extents[i] = mem.extents[i])
    BY <1>1, <2>1
  <2> QED
    BY <1>1, <2>1, <2>2 DEF InBounds
<1>3. CASE blknums[n] # 0
  <2> DEFINE c == Content(Device, blknums[n])
  <2>1. mem'.data = Append(mem.data, c) /\ mem'.extents = mem.extents
    BY <1>1, <1>3 DEF DumpStep, Dumps
  <2> HIDE DEF c
  <2>2. Len(mem'.data) = Len(mem.data) + 1
    BY <1>1, <2>1
  <2>3. \A i \in DOMAIN mem.extents : mem.extents[i] \in Nat
    BY <1>1
  <2> QED
    BY <1>1, <2>1, <2>2, <2>3 DEF InBounds
<1> QED
    BY <1>2, <1>3

LEMMA ParsedNames == Typed => Parsed(Chosen) \subseteq Names
<1> SUFFICES ASSUME Typed PROVE Parsed(Chosen) \subseteq Names
    OBVIOUS
<1>1. Chosen \in Dumps
    BY DEF Typed, Chosen
<1>2. ASSUME NEW d \in Dumps PROVE Parsed(d) \subseteq Names
  <2>1. d.data \in Seq(SUBSET Names) /\ d.extents \in Seq(Nat)
    BY DEF Dumps
  <2>2. CASE d.extents = <<>>
    BY <2>2 DEF Parsed
  <2>3. CASE d.extents # <<>>
    <3>1. d.extents[1] \in Nat
      BY <2>1, <2>3
    <3>2. \A i \in (d.extents[1] + 1)..Len(d.data) : d.data[i] \subseteq Names
      BY <2>1, <3>1
    <3> QED
      BY <2>3, <3>2 DEF Parsed
  <2> QED
    BY <2>2, <2>3
<1> QED
    BY <1>1, <1>2

LEMMA BoundedStays == Typed /\ Bounded /\ [Next]_vars => Bounded'
<1> SUFFICES ASSUME Typed, Bounded, [Next]_vars PROVE Bounded'
    OBVIOUS
<1>0. ASSUME UNCHANGED <<mem, blkdata0, blkdatap, dirfiles, reported, suspicious>> PROVE Bounded'
    BY <1>0 DEF Bounded, InBounds
<1>1. CASE Sync \/ QueryXfs \/ QueryExt \/ DebugfsFails \/ RetryExt \/ LsblksFails \/ OpenDirFails
    BY <1>0, <1>1, ZenonT(60)
       DEF Sync, QueryXfs, QueryExt, DebugfsFails, RetryExt, LsblksFails, Found,
                      OpenDirFails
<1>2. CASE FileSystem
    BY <1>0, <1>2, FileSystemSteps DEF scan
<1>3. CASE Finished \/ UNCHANGED vars
    BY <1>0, <1>3 DEF Finished, vars, scan
<1>4. ASSUME NextDir, reported' \subseteq Dirs \X Names, suspicious' \subseteq Dirs PROVE Bounded'
    BY <1>4, NextDirTyped, NoDumpInBounds DEF Bounded
<1>5. CASE QueryFails
    BY <1>4, <1>5 DEF QueryFails, Bounded
<1>6. CASE DumpStep
  <2>1. InBounds(mem')
    BY <1>6, DumpStepInBounds DEF Bounded
  <2>2. UNCHANGED <<blkdata0, blkdatap, dirfiles, reported, suspicious>>
    BY <1>6 DEF DumpStep
  <2> QED
    BY <2>1, <2>2 DEF Bounded, InBounds
<1>7. ASSUME NEW result, InBounds(result), DumpEnds(result) PROVE Bounded'
  <2>1. mem' = NoDump /\ UNCHANGED <<dirfiles, reported, suspicious>>
    BY <1>7 DEF DumpEnds
  <2>2. blkdata0' \in {blkdata0, result} /\ blkdatap' \in {blkdatap, result}
    BY <1>7 DEF DumpEnds
  <2> QED
    BY <1>7, <2>1, <2>2, NoDumpInBounds DEF Bounded
<1>8. CASE DumpDone
  <2> DEFINE result == [mem EXCEPT !.ok = TRUE]
  <2>1. result.extents = mem.extents /\ result.data = mem.data
    BY DEF Typed, Dumps
  <2>2. InBounds(result)
    BY <2>1 DEF Bounded, InBounds
  <2> QED
    BY <1>7, <1>8, <2>2 DEF DumpDone
<1>9. CASE DumpFails
    BY <1>7, <1>9, NoDumpInBounds DEF DumpFails
<1>10. CASE Compare
  <2>1. suspicious' \subseteq Dirs /\ reported' = reported
    BY <1>10, Zenon DEF Compare, Typed, Bounded
  <2>2. CASE Chosen.ok
    BY <1>10, <2>1, <2>2 DEF Compare, Bounded, InBounds
  <2>3. CASE ~Chosen.ok
    BY <1>4, <1>10, <2>1, <2>3 DEF Compare, Bounded
  <2> QED
    BY <2>2, <2>3
<1>11. CASE Verdict
  <2>1. HiddenFiles \subseteq Names /\ dir \in Dirs
    BY ParsedNames DEF HiddenFiles, Typed
  <2>2. reported' \subseteq Dirs \X Names /\ suspicious' \subseteq Dirs
    BY <1>11, <2>1, Zenon DEF Verdict, Bounded
  <2> QED
    BY <1>4, <1>11, <2>2 DEF Verdict
<1>12. ASSUME NEW f \in Names, ReadDir(f) PROVE Bounded'
    BY <1>12 DEF ReadDir, Bounded, InBounds
<1> QED
    BY <1>1, <1>2, <1>3, <1>5, <1>6, <1>8, <1>9, <1>10, <1>11, <1>12, Zenon DEF Next, Fhf

(* The block list, the dumps, the positions of their extents and the names *)
(* collected have the types and the bounds that fhf relies on when it      *)
(* indexes one with the other, for every number of directories, blocks,    *)
(* names and changes.                                                      *)
THEOREM TypeCorrect == Spec => []TypeOK
<1>1. Init => Machine /\ Bounded
  <2> SUFFICES ASSUME Init PROVE Machine /\ Bounded
    OBVIOUS
  <2>1. cached \in BOOLEAN
    BY Zenon DEF Init
  <2>2. build \in Builds /\ fstype \in {"ext", "xfs"} /\ hasParent \in BOOLEAN
    BY Zenon DEF Init
  <2>3. hidden \subseteq Names /\ filtered \subseteq Devices
    BY Zenon DEF Init
  <2>4. changes \in 0..MaxChanges
    BY FileAssumption DEF Init
  <2>5. Bounded
    BY NoDumpInBounds, Zenon DEF Init, Bounded
  <2> QED
    BY <2>1, <2>2, <2>3, <2>4, <2>5, Zenon DEF Machine
<1>2. IInv /\ Machine /\ Bounded /\ [Next]_vars => Machine' /\ Bounded'
    BY MachineStays, BoundedStays DEF IInv
<1>3. ASSUME NEW d \in Dumps, InBounds(d) PROVE IsDump(d)
  <2>1. d.ok \in BOOLEAN /\ d.data \in Seq(SUBSET Names) /\ d.extents \in Seq(Nat)
    BY Zenon DEF Dumps
  <2> QED
    BY <1>3, <2>1 DEF IsDump, InBounds
<1>4. IInv /\ Machine /\ Bounded => TypeOK
  <2> SUFFICES ASSUME Typed, Machine, Bounded PROVE TypeOK
    BY DEF IInv
  <2>1. IsDump(mem) /\ IsDump(blkdata0) /\ IsDump(blkdatap)
    BY <1>3 DEF Typed, Bounded
  <2>2. \A i \in DOMAIN blknums : blknums[i] \in Blocks \union {0}
    BY FileAssumption DEF Typed, Blocks
  <2> QED
    BY <2>1, <2>2 DEF TypeOK, Typed, Machine, Bounded
<1> QED
    BY SpecInv, <1>1, <1>2, <1>3, <1>4, PTL DEF Spec

(* dump_blocks stays within the buffer of blkcount blocks, for every list  *)
(* of blocks that query_blocks can leave, retries and failures included.   *)
THEOREM DumpFitsHolds == Spec => []DumpFits
<1>1. IInv => DumpFits
    BY Fits DEF IInv, DumpFits
<1> QED
    BY SpecInv, <1>1, PTL

(* fhf does not report a name that readdir returns from the script's sync  *)
(* on, whatever moves in the directories and whatever is read from disk.   *)
THEOREM PlainNotReportedHolds == Spec => []PlainNotReported
<1>1. IInv => PlainNotReported
    BY DEF IInv, Verdicts, PlainNotReported
<1> QED
    BY SpecInv, <1>1, PTL

(* Neither the comparison of the two dumps nor the one with readdir makes  *)
(* a directory suspicious that has no hidden name and does not change.     *)
THEOREM QuietNotSuspiciousHolds == Spec => []QuietNotSuspicious
<1>1. IInv => QuietNotSuspicious
    BY DEF IInv, Verdicts, QuietNotSuspicious
<1> QED
    BY SpecInv, <1>1, PTL

(* With at most one -p, as the script calls fhf, every hidden name that    *)
(* stays in place and that the analysed device gives away is reported,     *)
(* unless a call for its directory failed.                                 *)
THEOREM HiddenFoundHolds == ReadParent < 2 => (Spec => []HiddenFound)
<1> SUFFICES ASSUME ReadParent < 2 PROVE Spec => []HiddenFound
    OBVIOUS
<1>1. IInv /\ Settled /\ [Next]_vars => (IInv /\ Settled)'
    BY TypedStays, WorldStays, PositionStays, ReadingStays, DumpedStays, ListingStays,
       VerdictsStay, SettledStays DEF IInv
<1>2. IInv /\ Settled => HiddenFound
  <2> SUFFICES ASSUME IInv, Settled, pc = "done", NEW x \in owed PROVE x \in reported
    BY DEF HiddenFound
  <2>1. PICK d \in Dirs, f \in Names : x = <<d, f>>
    BY DEF IInv, Typed
  <2> QED
    BY <2>1 DEF Settled
<1> QED
    BY InitInv, <1>1, <1>2, PTL DEF Spec

=============================================================================
