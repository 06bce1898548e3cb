-------------------------------- MODULE RawRead --------------------------------
(***************************************************************************)
(* Where fhf reads a directory: src/src/fhf.c query_blocks and             *)
(* dump_blocks, over the block lists of BlockList (or of xfs_bmap, read by *)
(* src/src/blk.c xfs_get_path_extents) and the offsets of BlockDev.        *)
(*                                                                         *)
(* A directory is read twice, from its volume and from the device the      *)
(* volume is a part of, and the two are compared.  The second reading is   *)
(* at one offset, for every block, that query_blocks finds by the type of  *)
(* the volume.  Positions are sectors of 512 bytes.                        *)
(***************************************************************************)
EXTENDS BlockList, BlockDev

CONSTANTS
    Volumes,     \* volumes the directory may be on
    PerBlock     \* sectors of a block of ext

VARIABLES
    vol,          \* the volume
    stage,        \* "query", "list", "offset", "dump" or "done"
    ret,          \* what query_blocks returned
    blkunitsz,
    parentoffset,
    on,           \* the device dump_blocks reads: "volume" or "parent"
    n,            \* its n, counted from 1
    reads         \* the positions read, by device, -1 where an extent starts

rawVars == <<vol, stage, ret, blkunitsz, parentoffset, on, n, reads>>
vars == <<listVars, rawVars>>

ASSUME VolAssumption == PerBlock \in Nat \ {0} /\ \A v \in Volumes : IsVolume(v)

TypeOK ==
    /\ ListTypeOK
    /\ vol \in Volumes
    /\ stage \in {"query", "list", "offset", "dump", "done"}
    /\ ret \in {0, 1, 2, 101}
    /\ blkunitsz \in {0, 1, PerBlock}
    /\ parentoffset \in Nat
    /\ on \in {"volume", "parent"}
    /\ n \in 1..(Len(blknums) + 1)
    /\ \A d \in {"volume", "parent"} : Len(reads[d]) <= Len(blknums)

Init ==
    /\ ListInit
    /\ vol \in Volumes
    /\ stage = "query" /\ ret = 0 /\ blkunitsz = 0 /\ parentoffset = 0
    /\ on = "volume" /\ n = 1 /\ reads = [volume |-> <<>>, parent |-> <<>>]

-----------------------------------------------------------------------------
(* query_blocks fails: of itself if refused, else the environment failed.  *)
Fail(code, refused) ==
    /\ stage' = "done" /\ ret' = code
    /\ \/ refused /\ UNCHANGED failed
       \/ failed' = TRUE
    /\ UNCHANGED <<inode, walk, path, slot, blknums, line, places, vol, blkunitsz,
                   parentoffset, on, n, reads>>

(* stat, access or myLsblk fails.                                          *)
QueryFails == stage = "query" /\ Fail(2, ParentFails(vol))

(* myLsblk succeeds.                                                       *)
Query ==
    /\ stage = "query" /\ ~ParentFails(vol)
    /\ stage' = "list"
    /\ UNCHANGED <<listVars, vol, ret, blkunitsz, parentoffset, on, n, reads>>

-----------------------------------------------------------------------------
(* The lists                                                               *)

(* ext_get_inode_datablocks returns 0, whatever lsblks returned.           *)
ListExt ==
    /\ stage = "list" /\ inode.map \in ExtMaps /\ Lsblks
    /\ IF walk' = "listed"
       THEN stage' = "offset" /\ blkunitsz' = PerBlock
       ELSE UNCHANGED <<stage, blkunitsz>>
    /\ UNCHANGED <<vol, ret, parentoffset, on, n, reads>>

(* xfs_get_path_extents, one line of xfs_bmap: -1 before each extent, a    *)
(* hole is left out, and the numbers are sectors.                          *)
ListXfs ==
    /\ stage = "list" /\ inode.map = "xfs" /\ slot <= Len(inode.root)
    /\ LET x == inode.root[slot]
           bs == [k \in 1..x.len |-> x.start + k - 1]
       IN  IF x.start = 0 THEN UNCHANGED <<blknums, places>>
           ELSE /\ blknums' = blknums \o <<-1>> \o bs
                /\ places' = places \o <<NoPlace>> \o [k \in DOMAIN bs |-> Place(Here, k)]
    /\ slot' = slot + 1
    /\ UNCHANGED <<inode, walk, path, line, failed, vol, stage, ret, blkunitsz, parentoffset,
                   on, n, reads>>

(* The output has ended, and there were extents.                           *)
XfsListed ==
    /\ stage = "list" /\ inode.map = "xfs" /\ slot > Len(inode.root) /\ blknums # <<>>
    /\ walk' = "listed" /\ stage' = "offset" /\ blkunitsz' = 1
    /\ UNCHANGED <<inode, path, slot, blknums, line, places, failed, vol, ret, parentoffset,
                   on, n, reads>>

(* xfs_bmap fails or prints no extent; the file system is another one.     *)
ListFails ==
    /\ stage = "list" /\ inode.map \in {"xfs", "other"}
    /\ Fail(1, inode.map = "other" \/ (slot > Len(inode.root) /\ blknums = <<>>))

-----------------------------------------------------------------------------
(* The offset                                                              *)

(* query_blocks returns; fhf goes on to read the volume.                   *)
Return(code, offset) ==
    /\ stage' = "dump" /\ ret' = code /\ parentoffset' = offset
    /\ UNCHANGED <<listVars, vol, blkunitsz, on, n, reads>>

NoParent == stage = "offset" /\ ~HasParent(vol) /\ Return(101, 0)

(* Mutant of Offset: a volume that is not located is read at offset 0.     *)
OffsetAny ==
    /\ stage = "offset" /\ HasParent(vol)
    /\ Return(0, IF Located(vol) THEN OffsetOf(vol) ELSE 0)

Offset ==
    /\ stage = "offset" /\ HasParent(vol) /\ Located(vol)
    /\ Return(0, OffsetOf(vol))

(* The type is not known, pvdisplay does not name the volume, or sysfs,    *)
(* pvs or pvdisplay cannot be read.                                        *)
OffsetFails ==
    /\ stage = "offset" /\ HasParent(vol)
    /\ Fail(1, ~Located(vol))

-----------------------------------------------------------------------------
(* dump_blocks                                                             *)

(* The next device, or the comparison.                                     *)
NextDump ==
    IF on = "volume" /\ ret = 0
    THEN on' = "parent" /\ n' = 1 /\ UNCHANGED stage
    ELSE stage' = "done" /\ UNCHANGED <<on, n>>

(* Mutant of Position: blocks of ext are taken for sectors.                *)
PositionSectors(b) == IF on = "parent" THEN parentoffset + b ELSE b

Position(b) == (IF on = "parent" THEN parentoffset ELSE 0) + b * blkunitsz

(* Mutant of ReadBlock: a marker is not passed.                            *)
ReadBlockStays ==
    /\ stage = "dump" /\ n <= Len(blknums)
    /\ IF blknums[n] = -1 THEN UNCHANGED <<n, reads>>
       ELSE n' = n + 1 /\ reads' = [reads EXCEPT ![on] = Append(@, Position(blknums[n]))]
    /\ UNCHANGED <<listVars, vol, stage, ret, blkunitsz, parentoffset, on>>

ReadBlock ==
    /\ stage = "dump" /\ n <= Len(blknums)
    /\ reads' = [reads EXCEPT ![on] =
                    Append(@, IF blknums[n] = -1 THEN -1 ELSE Position(blknums[n]))]
    /\ n' = n + 1
    /\ UNCHANGED <<listVars, vol, stage, ret, blkunitsz, parentoffset, on>>

DumpEnds ==
    /\ stage = "dump" /\ n > Len(blknums)
    /\ NextDump
    /\ UNCHANGED <<listVars, vol, ret, blkunitsz, parentoffset, reads>>

(* fopen, fseeko or fread fails: there is no dump of this device.          *)
DumpFails ==
    /\ stage = "dump"
    /\ reads' = [reads EXCEPT ![on] = <<>>]
    /\ failed' = TRUE
    /\ NextDump
    /\ UNCHANGED <<inode, walk, path, slot, blknums, line, places, vol, ret, blkunitsz,
                   parentoffset>>

-----------------------------------------------------------------------------
Fhf ==
    \/ QueryFails \/ Query \/ ListExt \/ ListXfs \/ XfsListed \/ ListFails
    \/ NoParent \/ Offset \/ OffsetFails
    \/ ReadBlock \/ DumpEnds \/ DumpFails

Finished == stage = "done" /\ UNCHANGED vars

Next == Fhf \/ Finished

(* Sequential code, and the commands it waits for end.  Nothing is assumed *)
(* to fail.                                                                *)
Spec == Init /\ [][Next]_vars /\ WF_vars(Fhf /\ failed' = failed)

-----------------------------------------------------------------------------
(* The sectors of an extent of xfs are numbered one by one, the blocks of  *)
(* ext are PerBlock sectors.                                               *)
SectorAt(q) ==
    IF q = NoPlace THEN -1
    ELSE DataAt(inode, q.at)[q.k] * (IF inode.map = "xfs" THEN 1 ELSE PerBlock)

Below(s) == IF s = -1 THEN -1 ELSE Backing(vol, s)

(* The blocks listed are blocks of the volume.                             *)
OnVolume == \A x \in Blocks : Backing(vol, blknums[x] * blkunitsz) # Elsewhere

(* The volume is read at every block of an undamaged directory, in order,  *)
(* and the device below at the sectors that hold those blocks, if the      *)
(* volume lies there in one piece and nothing failed on the way.           *)
DirectoryRead ==
    stage = "done" /\ ret = 0 /\ ~failed /\ Intact(inode) =>
        /\ AllListed
        /\ reads.volume = [x \in DOMAIN places |-> SectorAt(places[x])]
        /\ Straight(vol) /\ OnVolume => reads.parent = [x \in DOMAIN places |-> Below(SectorAt(places[x]))]

(* The two readings are of the same blocks, also when the list is short:   *)
(* a directory that is damaged, or that could not be read to its end, does *)
(* not by itself look as if somebody had changed it.                       *)
ReadingsAgree ==
    stage = "done" /\ Straight(vol) /\ OnVolume /\ reads.volume # <<>> /\ reads.parent # <<>> =>
        reads.parent = [x \in DOMAIN reads.volume |-> Below(reads.volume[x])]

(* What is not on one device in the clear is not compared: a mapped device *)
(* over several others, of another target or that has no segment below it, *)
(* an array of whole disks.                                                *)
SpreadRefused ==
    reads.parent # <<>> =>
        \/ vol.kind = "part"
        \/ vol.kind = "lvm" /\ vol.slaves = 1 /\ Own(vol) # {}
        \/ vol.kind = "md" /\ vol.memberpart

Order == [query |-> 0, list |-> 1, offset |-> 2, dump |-> 3, done |-> 4]

Nearer ==
    \/ Order[stage'] > Order[stage]
    \/ stage' = stage /\ stage = "list" /\ WalkNearer
    \/ /\ stage' = stage /\ stage = "dump"
       /\ (on = "volume" /\ on' = "parent") \/ (on' = on /\ n' > n)

(* Every step comes nearer to the end, in an order that has an end: also   *)
(* where nodes are shared, are damaged or lead back to a node above, the   *)
(* cursor comes by one route to no entry for a third time.                 *)
FhfAdvances == [][Nearer]_vars

(* fhf comes to its end, on damaged maps too.                              *)
FhfTerminates == <>(stage = "done")

=============================================================================
