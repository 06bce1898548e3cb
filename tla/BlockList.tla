------------------------------- MODULE BlockList -------------------------------
(***************************************************************************)
(* The list of the data blocks of a directory: lsblks of                   *)
(* src/e2fsprogs/stat/lsblks.c over libext2fs (extent.c, block.c), and the *)
(* callback lsb_cb of src/src/blk.c that collects it.                      *)
(*                                                                         *)
(* An inode maps its blocks by a tree of extents or by indirect blocks.    *)
(* The extents are visited by a cursor, one call of ext2fs_extent_get per  *)
(* step; the indirect blocks by ext2fs_block_iterate3, one pointer per     *)
(* step.  Nodes may be damaged and reads may fail: neither is reported,    *)
(* the list that was made so far is used.                                  *)
(*                                                                         *)
(* line is what debugfs prints for the same inode by the same calls        *)
(* (src/e2fsprogs/debugfs/debugfs.c); the build without libext2fs takes    *)
(* the list from it.                                                       *)
(***************************************************************************)
EXTENDS Integers, Sequences

CONSTANTS
    Inodes,      \* inodes, with the nodes that their maps reach
    NDirect,     \* 12: EXT2_NDIR_BLOCKS
    MaxDepth     \* bound on eh_depth, and on the levels of indirect blocks

VARIABLES
    inode,
    walk,        \* "open", "extents", "slots" or "listed"
    path,        \* extents: handle->path up to level; else the blocks being read
    slot,        \* i of ext2fs_block_iterate3
    blknums,     \* the blocks listed, -1 before the first
    line,        \* what debugfs prints
    places,      \* history: where the map holds each member of blknums
    failed       \* history: the environment failed a call

listVars == <<inode, walk, path, slot, blknums, line, places, failed>>

(* map is how the inode maps its blocks, "xfs" as xfs_bmap prints it.      *)
(* An entry of a leaf is [start, len, uninit], a row of xfs_bmap [start,   *)
(* len], with start 0 for a hole; an entry of a node above a leaf is the   *)
(* number of a block, a pointer of an indirect block a number or 0.  disk  *)
(* holds the nodes: [ok, entries], ok if the header can be verified.       *)
EXT_INIT_MAX_LEN == 32768

Extent == [start : Nat \ {0}, len : 0..EXT_INIT_MAX_LEN, uninit : {FALSE}]
            \union [start : Nat \ {0}, len : 1..(EXT_INIT_MAX_LEN - 1), uninit : {TRUE}]
Row == [start : Nat, len : Nat \ {0}]

ExtMaps == {"extents", "indirect", "inline"}

-----------------------------------------------------------------------------
(* The data blocks of an inode, by the definition of its map               *)

Entries(n, b) == IF b = 0 THEN n.root ELSE n.disk[b].entries

(* A route leads from the inode (0) to an entry: the nodes, and the entry  *)
(* that is taken in each.                                                  *)
Hop(b, k) == [blk |-> b, curr |-> k]
ChildOf(n, r) == Entries(n, r[Len(r)].blk)[r[Len(r)].curr]

(* The height of what a slot of an inode with indirect blocks points to.   *)
HeightOf(k) == IF k > NDirect THEN k - NDirect ELSE 0

(* The node that a route leads to can be used, and is none of those before.*)
Opens(n, r) ==
    LET b == ChildOf(n, r)
    IN  \/ /\ n.map = "extents" /\ Len(r) <= n.depth
           /\ b \in DOMAIN n.disk /\ n.disk[b].ok
           /\ \A k \in 2..Len(r) : r[k].blk # b
        \/ n.map = "indirect" /\ Len(r) <= HeightOf(r[1].curr) /\ b \in DOMAIN n.disk

Enter(n, r, b) == {Append(r, Hop(b, k)) : k \in DOMAIN Entries(n, b)}
Deeper(n, R) == UNION {Enter(n, r, ChildOf(n, r)) : r \in {r \in R : Opens(n, r)}}

(* The routes, by their length.                                            *)
Routes(n) ==
    LET R[m \in 1..(MaxDepth + 1)] == IF m = 1 THEN Enter(n, <<>>, 0) ELSE Deeper(n, R[m - 1])
    IN  R

(* The blocks at the end of a route.                                       *)
DataAt(n, r) ==
    LET x == ChildOf(n, r)
    IN  IF n.map = "indirect"
        THEN IF Len(r) = HeightOf(r[1].curr) + 1 /\ x # 0 THEN <<x>> ELSE <<>>
        ELSE IF Len(r) = n.depth + 1 /\ x.start # 0 THEN [k \in 1..x.len |-> x.start + k - 1]
        ELSE <<>>

Place(r, k) == [at |-> r, k |-> k]
NoPlace == Place(<<>>, 0)

Places(n) == UNION {UNION {{Place(r, k) : k \in DOMAIN DataAt(n, r)} : r \in Routes(n)[m]} : m \in 1..(MaxDepth + 1)}

(* The order of the file.                                                  *)
Before(r, s) ==
    \E k \in DOMAIN r \intersect DOMAIN s :
        r[k].curr < s[k].curr /\ \A l \in 1..(k - 1) : r[l] = s[l]
Precedes(p, q) == Before(p.at, q.at) \/ (p.at = q.at /\ p.k < q.k)

(* No node that the map reaches, by slot k of the inode or at all, is      *)
(* damaged.                                                                *)
SlotIntact(n, k) ==
    \A m \in 1..(MaxDepth + 1) : \A r \in Routes(n)[m] :
        r[1].curr = k /\ m <= (IF n.map = "indirect" THEN HeightOf(k) ELSE n.depth) =>
            \/ n.map = "indirect" /\ ChildOf(n, r) = 0
            \/ Opens(n, r) /\ (n.map = "extents" => Entries(n, ChildOf(n, r)) # <<>>)

Intact(n) == \A k \in DOMAIN n.root : SlotIntact(n, k)

-----------------------------------------------------------------------------
(* The entries that a route leads to have the form its length asks for.    *)
IsList(s) == Len(s) \in Nat /\ s = [k \in 1..Len(s) |-> s[k]]

IsInode(n) ==
    /\ n.map \in ExtMaps \union {"xfs", "other"}
    /\ n.depth \in 0..MaxDepth /\ (n.map # "extents" => n.depth = 0)
    /\ IsList(n.root)
    /\ n.map = "indirect" => Len(n.root) = NDirect + 3
    /\ n.map \in {"inline", "other"} => n.root = <<>>
    /\ \A b \in DOMAIN n.disk :
          b \in Nat \ {0} /\ n.disk[b].ok \in BOOLEAN /\ IsList(n.disk[b].entries)
    /\ \A m \in 1..(MaxDepth + 1) : \A r \in Routes(n)[m] :
          /\ n.map = "indirect" => ChildOf(n, r) \in Nat
          /\ n.map = "xfs" => ChildOf(n, r) \in Row
          /\ n.map = "extents" => ChildOf(n, r) \in (IF m <= n.depth THEN Nat ELSE Extent)

ASSUME DepthAssumption == MaxDepth \in Nat /\ MaxDepth >= 3
ASSUME ListAssumption == NDirect \in Nat /\ \A n \in Inodes : IsInode(n)

-----------------------------------------------------------------------------
Frame(b, k, visited) == [blk |-> b, curr |-> k, visit_num |-> visited]

ListTypeOK ==
    /\ inode \in Inodes
    /\ walk \in {"open", "extents", "slots", "listed"}
    /\ Len(path) <= (IF inode.map = "extents" THEN inode.depth + 1 ELSE 3)
    /\ \A k \in DOMAIN path :
          /\ path[k].blk \in DOMAIN inode.disk \union {0}
          /\ path[k].curr \in Nat /\ path[k].visit_num \in BOOLEAN
          /\ walk # "listed" => path[k].curr \in 1..(Len(Entries(inode, path[k].blk)) + 1)
    /\ slot \in Nat \ {0}
    /\ slot > 1 => inode.map \in {"indirect", "xfs"} /\ slot <= Len(inode.root) + 1
    /\ \A k \in DOMAIN blknums :
          blknums[k] \in Nat \ {0} \/ (blknums[k] = -1 /\ (k = 1 \/ inode.map = "xfs"))
    /\ Len(places) = Len(blknums)
    /\ \A k \in DOMAIN line : line[k].tag \in {"ETB", "IND", "data"}
    /\ failed \in BOOLEAN

ListInit ==
    /\ inode \in Inodes
    /\ walk = "open" /\ path = <<>> /\ slot = 1
    /\ blknums = <<>> /\ line = <<>> /\ places = <<>> /\ failed = FALSE

-----------------------------------------------------------------------------
(* lsb_cb.  Mutant: every extent is marked.                                *)
PushedMarks(bs) == blknums \o <<-1>> \o bs

Pushed(bs) ==
    IF bs = <<>> THEN blknums ELSE (IF blknums = <<>> THEN <<-1>> ELSE blknums) \o bs

(* The places of the blocks bs, all at the end of route r.                 *)
Marked == IF blknums = <<>> THEN <<NoPlace>> ELSE places
Noted(r, bs) == IF bs = <<>> THEN places ELSE Marked \o [k \in DOMAIN bs |-> Place(r, k)]

Tokens(tag, bs) == [k \in DOMAIN bs |-> [tag |-> tag, blk |-> bs[k]]]

(* The blocks of an extent: to the length of an unwritten one is added the *)
(* greatest that a written one can have.                                   *)
EeLen(x) == x.len + (IF x.uninit THEN EXT_INIT_MAX_LEN ELSE 0)

ELen(raw) == IF raw > EXT_INIT_MAX_LEN THEN raw - EXT_INIT_MAX_LEN ELSE raw

BlocksOf(x) == [k \in 1..ELen(EeLen(x)) |-> x.start + k - 1]

-----------------------------------------------------------------------------
(* ext2fs_extent_get                                                       *)

Top == path[Len(path)]
Above(pth) == SubSeq(pth, 1, Len(pth) - 1)
Node(f) == Entries(inode, f.blk)
RouteOf(pth) == [k \in DOMAIN pth |-> Hop(pth[k].blk, pth[k].curr)]

(* Mutant of Left: one entry too few.                                      *)
LeftShort == IF Len(Node(Top)) > Top.curr + 1 THEN Len(Node(Top)) - Top.curr - 1 ELSE 0

Left == Len(Node(Top)) - Top.curr
AtLeaf(pth) == Len(pth) = inode.depth + 1

(* The loop of dump_extents with the extent to which the cursor has moved: *)
(* a leaf is listed, an index and a second visit are not.                  *)
Visit(pth) ==
    LET f == pth[Len(pth)]
        x == Node(f)[f.curr]
    IN  /\ path' = pth
        /\ blknums' = IF AtLeaf(pth) THEN Pushed(BlocksOf(x)) ELSE blknums
        /\ places' = IF AtLeaf(pth) THEN Noted(RouteOf(pth), BlocksOf(x)) ELSE places
        /\ line' = line \o (IF f.visit_num THEN <<>>
                            ELSE IF AtLeaf(pth) THEN Tokens("data", BlocksOf(x))
                            ELSE Tokens("ETB", <<x>>))
        /\ walk' = "extents"
        /\ UNCHANGED <<inode, slot, failed>>

(* The loop ends: at the end of the tree as at an error.                   *)
StopList ==
    /\ walk' = "listed"
    /\ UNCHANGED <<inode, path, slot, blknums, line, places>>

(* lsblks cannot open the volume or read the inode.                        *)
OpenFails ==
    /\ walk = "open"
    /\ failed' = TRUE
    /\ StopList

Inline ==
    /\ walk = "open" /\ inode.map = "inline"
    /\ StopList
    /\ UNCHANGED failed

GetRoot ==
    /\ walk = "open" /\ inode.map = "extents" /\ inode.root # <<>>
    /\ Visit(<<Frame(0, 1, FALSE)>>)

GetRootEmpty ==
    /\ walk = "open" /\ inode.map = "extents" /\ inode.root = <<>>
    /\ StopList
    /\ UNCHANGED failed

(* EXT2_EXTENT_DOWN: the child is not a node of the path (the root is not  *)
(* compared), its header can be verified and it has an entry.              *)
Usable(b) ==
    /\ \A k \in 2..Len(path) : path[k].blk # b
    /\ b \in DOMAIN inode.disk /\ inode.disk[b].ok /\ inode.disk[b].entries # <<>>

GoesDown == walk = "extents" /\ ~AtLeaf(path) /\ ~Top.visit_num
Child == Node(Top)[Top.curr]

(* Mutant of Down: the visit is not counted.                               *)
DownUncounted ==
    /\ GoesDown /\ Usable(Child)
    /\ Visit(Append(path, Frame(Child, 1, FALSE)))

Down ==
    /\ GoesDown /\ Usable(Child)
    /\ Visit(Append(Above(path) \o <<Frame(Top.blk, Top.curr, TRUE)>>, Frame(Child, 1, FALSE)))

DownFails ==
    /\ GoesDown
    /\ \/ ~Usable(Child) /\ UNCHANGED failed
       \/ failed' = TRUE
    /\ StopList

NextSib ==
    /\ walk = "extents" /\ ~GoesDown /\ Left > 0
    /\ Visit(Append(Above(path), Frame(Top.blk, Top.curr + 1, FALSE)))

Up ==
    /\ walk = "extents" /\ ~GoesDown /\ Left = 0 /\ Len(path) > 1
    /\ Visit(Above(path))

NoNext ==
    /\ walk = "extents" /\ ~GoesDown /\ Left = 0 /\ Len(path) = 1
    /\ StopList
    /\ UNCHANGED failed

-----------------------------------------------------------------------------
(* ext2fs_block_iterate3, with list_blocks_proc as its callback            *)

Iterate ==
    /\ walk = "open" /\ inode.map = "indirect"
    /\ walk' = "slots"
    /\ UNCHANGED <<inode, path, slot, blknums, line, places, failed>>

(* The pointer to look at, and the height of what it points to: a slot of  *)
(* the inode, or a pointer of the innermost indirect block.                *)
Pointer == IF path = <<>> THEN inode.root[slot] ELSE Node(Top)[Top.curr]
Height == HeightOf(slot) - Len(path)
Here == <<Hop(0, slot)>> \o RouteOf(path)
MorePointers ==
    /\ walk = "slots"
    /\ IF path = <<>> THEN slot <= NDirect + 3 ELSE Top.curr <= Len(Node(Top))

(* On to the next slot, or to the next pointer of a block.                 *)
Step(pth) ==
    IF pth = <<>> THEN path' = <<>> /\ slot' = slot + 1
    ELSE LET f == pth[Len(pth)]
         IN  path' = Append(Above(pth), Frame(f.blk, f.curr + 1, FALSE)) /\ UNCHANGED slot

Sparse ==
    /\ MorePointers /\ Pointer = 0
    /\ Step(path)
    /\ UNCHANGED <<inode, walk, blknums, line, places, failed>>

DataBlock ==
    /\ MorePointers /\ Pointer # 0 /\ Height = 0
    /\ Step(path)
    /\ blknums' = Pushed(<<Pointer>>)
    /\ places' = Noted(Here, <<Pointer>>)
    /\ line' = line \o Tokens("data", <<Pointer>>)
    /\ UNCHANGED <<inode, walk, failed>>

(* block_iterate_ind, _dind, _tind: the callback sees the indirect block,  *)
(* with a negative count, before it is tested and read.                    *)
EnterIndirect ==
    /\ MorePointers /\ Pointer # 0 /\ Height > 0
    /\ line' = line \o Tokens("IND", <<Pointer>>)
    /\ UNCHANGED <<inode, walk, blknums, places>>

ReadIndirect ==
    /\ EnterIndirect
    /\ Pointer \in DOMAIN inode.disk
    /\ path' = Append(path, Frame(Pointer, 1, FALSE))
    /\ UNCHANGED <<slot, failed>>

(* Mutant of BadIndirect: an error ends the iteration.                     *)
BadIndirectStops ==
    /\ EnterIndirect
    /\ \/ Pointer \notin DOMAIN inode.disk /\ UNCHANGED failed
       \/ failed' = TRUE
    /\ path' = <<>> /\ slot' = NDirect + 4

(* BLOCK_ERROR ends the loops of the blocks around it; the loop over the   *)
(* slots of the inode only ends at BLOCK_ABORT.                            *)
BadIndirect ==
    /\ EnterIndirect
    /\ \/ Pointer \notin DOMAIN inode.disk /\ UNCHANGED failed
       \/ failed' = TRUE
    /\ path' = <<>> /\ slot' = slot + 1

LeaveIndirect ==
    /\ walk = "slots" /\ path # <<>> /\ Top.curr > Len(Node(Top))
    /\ Step(Above(path))
    /\ UNCHANGED <<inode, walk, blknums, line, places, failed>>

Iterated ==
    /\ walk = "slots" /\ path = <<>> /\ slot > NDirect + 3
    /\ StopList
    /\ UNCHANGED failed

-----------------------------------------------------------------------------
Lsblks ==
    \/ OpenFails \/ Inline \/ GetRoot \/ GetRootEmpty
    \/ Down \/ DownFails \/ NextSib \/ Up \/ NoNext
    \/ Iterate \/ Sparse \/ DataBlock \/ ReadIndirect \/ BadIndirect
    \/ LeaveIndirect \/ Iterated

(* ext_get_inode_datablocks of the build that parses debugfs: the loop     *)
(* over the tokens keeps those with a tag of T.                            *)
Kept(l, T) ==
    LET K[m \in 0..Len(l)] ==
            IF m = 0 THEN <<>>
            ELSE IF l[m].tag \in T THEN Append(K[m - 1], l[m].blk) ELSE K[m - 1]
    IN  K[Len(l)]

(* If there is a token, there is a marker; "(ETB" is skipped, "(IND" is    *)
(* not.  Mutant: neither is.                                               *)
ParsedAll(l) == IF l = <<>> THEN <<>> ELSE <<-1>> \o Kept(l, {"ETB", "IND", "data"})

Parsed(l) == IF l = <<>> THEN <<>> ELSE <<-1>> \o Kept(l, {"IND", "data"})

-----------------------------------------------------------------------------
(* What is listed: the members of blknums but the markers.                 *)
Blocks == {x \in DOMAIN blknums : blknums[x] # -1}
AllListed == {places[x] : x \in Blocks} = Places(inode)

(* Every data block of an undamaged directory is listed, if no read fails. *)
BlocksListed == walk = "listed" /\ ~failed /\ Intact(inode) => AllListed

(* At any moment, and whatever is damaged or fails, only data blocks are   *)
(* listed, in order and none twice.  Extents stop at the first failure,    *)
(* so that the list is the start of the directory.                         *)
ListedInOrder ==
    /\ \A x \in Blocks :
          /\ places[x] \in Places(inode)
          /\ blknums[x] = DataAt(inode, places[x].at)[places[x].k]
    /\ \A x, y \in Blocks : x < y => Precedes(places[x], places[y])
    /\ inode.map = "extents" =>
          \A q \in Places(inode), x \in Blocks :
              Precedes(q, places[x]) => \E y \in Blocks : places[y] = q

(* The slots of the inode fail one by one: what is mapped by a slot all of *)
(* whose blocks can be read is listed, also after a slot that cannot.      *)
SlotsIndependent ==
    walk = "listed" /\ inode.map = "indirect" /\ ~failed =>
        \A q \in Places(inode) :
            SlotIntact(inode, q.at[1].curr) => \E x \in Blocks : places[x] = q

(* Both builds take the same list from an inode with extents, but that a   *)
(* list without blocks may have a marker in the one that parses debugfs.   *)
(* From an inode with indirect blocks this one takes these too.            *)
BuildsAgree ==
    inode.map \in ExtMaps /\ walk = "listed" =>
        LET data == Kept(line, {"data"})
        IN  /\ blknums = (IF data = <<>> THEN <<>> ELSE <<-1>> \o data)
            /\ inode.map = "extents" =>
                  Parsed(line) = blknums \/ (blknums = <<>> /\ Parsed(line) = <<-1>>)

-----------------------------------------------------------------------------
(* How far a walk has come.  An entry is before the next one of its node,  *)
(* and an index before itself on the second visit.  The extents below an   *)
(* index are visited before its second visit, the pointers of an indirect  *)
(* block after the pointer to it.                                          *)
Marks(pth) ==
    [k \in DOMAIN pth |-> Hop(pth[k].blk, 2 * pth[k].curr + (IF pth[k].visit_num THEN 1 ELSE 0))]

IsAbove(pth, q) == Len(pth) < Len(q) /\ \A k \in DOMAIN pth : pth[k] = q[k]

WalkNearer ==
    \/ walk' # walk /\ (walk = "open" \/ walk' = "listed")
    \/ walk' = walk /\ slot' > slot
    \/ /\ UNCHANGED <<walk, slot>>
       /\ \/ Before(Marks(path), Marks(path'))
          \/ IF walk = "extents" THEN IsAbove(path', path) ELSE IsAbove(path, path')

=============================================================================
