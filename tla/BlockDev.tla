-------------------------------- MODULE BlockDev --------------------------------
(***************************************************************************)
(* The block devices: what src/src/blk.c makes of sysfs, pvs and pvdisplay *)
(* (get_blkdev_type, get_blkdev_parent, lvm_parse_pvs_pestart,             *)
(* lvm_parse_volume_range, ext_parse_volume_range), the offset that        *)
(* query_blocks of src/src/fhf.c computes from it, and where the blocks of *)
(* a volume really are.  Positions are sectors of 512 bytes.               *)
(***************************************************************************)
EXTENDS Integers, Sequences

(* A volume as the kernel and LVM keep it.                                 *)
(*  kind     a partition, an LVM volume, another mapped device, an md      *)
(*           array or a whole disk                                         *)
(*  slaves   devices below it; the members of md may be partitions         *)
(*  start    first sector of the partition, or of the member that is read  *)
(*  pe_start, pe_size, segs   the LVM layout of the device below, segs in  *)
(*           the order of the device: n extents of volume lv, from its     *)
(*           extent le on, at extent pe                                    *)
(*  data, chunk   md: where the data of a member starts; 0 for a mirror,   *)
(*           else the sectors of a chunk                                   *)
Segment == [lv : {"this", "other"}, le : Nat, pe : Nat, n : Nat]

IsVolume(v) ==
    /\ v.kind \in {"part", "lvm", "dm", "md", "disk"}
    /\ v.slaves \in Nat /\ v.memberpart \in BOOLEAN
    /\ v.start \in Nat /\ v.pe_start \in Nat /\ v.pe_size \in Nat \ {0}
    /\ v.segs \in Seq(Segment)
    /\ v.data \in Nat /\ v.chunk \in Nat

(* The segments of the volume itself.                                      *)
Own(v) == {k \in DOMAIN v.segs : v.segs[k].lv = "this"}

-----------------------------------------------------------------------------
(* get_blkdev_type: "part", the start of the uuid of a mapped device, or   *)
(* "raid" if a member of the array is a partition.                         *)
TypeOf(v) ==
    IF v.kind \in {"part", "lvm"} THEN v.kind
    ELSE IF v.kind = "md" /\ v.memberpart THEN "raid"
    ELSE "unknown"

HasParent(v) == v.kind = "part" \/ v.slaves > 0

(* get_blkdev_parent: a mapped device on several others has no parent that *)
(* can be named; of an array the parent is the disk of a member, if the    *)
(* member is a partition.                                                  *)
ParentFails(v) ==
    /\ HasParent(v)
    /\ \/ v.kind \in {"lvm", "dm"} /\ v.slaves # 1
       \/ v.kind = "md" /\ ~v.memberpart

(* lvm_parse_volume_range: the first segment of the volume that pvdisplay  *)
(* prints.                                                                 *)
FirstSegment(v) == v.segs[CHOOSE k \in Own(v) : \A j \in Own(v) : k <= j]

(* Mutant of OffsetOf: pe_start is overwritten, not added to.              *)
OffsetOfNoStart(v) ==
    IF TypeOf(v) = "lvm" THEN FirstSegment(v).pe * v.pe_size ELSE v.start

(* parentoffset, for the types part, raid and lvm                          *)
OffsetOf(v) ==
    IF TypeOf(v) = "lvm" THEN v.pe_start + FirstSegment(v).pe * v.pe_size ELSE v.start

(* The offset is found: the type is known, and pvdisplay names the volume. *)
Located(v) == TypeOf(v) # "unknown" /\ (TypeOf(v) = "lvm" => Own(v) # {})

-----------------------------------------------------------------------------
Elsewhere == -1

(* Where sector s of the volume is on the device below, by the layout.     *)
HoldsSector(v, g, s) ==
    g.le * v.pe_size <= s /\ s < (g.le + g.n) * v.pe_size

LvmBacking(v, s) ==
    LET held == {k \in Own(v) : HoldsSector(v, v.segs[k], s)}
        g == v.segs[CHOOSE k \in held : TRUE]
    IN  IF held = {} THEN Elsewhere
        ELSE v.pe_start + g.pe * v.pe_size + (s - g.le * v.pe_size)

MdBacking(v, s) ==
    IF v.chunk = 0 THEN v.start + v.data + s
    ELSE IF (s \div v.chunk) % v.slaves = 0
         THEN v.start + v.data + (s \div (v.chunk * v.slaves)) * v.chunk + (s % v.chunk)
         ELSE Elsewhere

Backing(v, s) ==
    IF v.kind = "part" THEN v.start + s
    ELSE IF v.kind = "lvm" THEN LvmBacking(v, s)
    ELSE IF v.kind = "md" THEN MdBacking(v, s)
    ELSE Elsewhere

(* The volumes that lie on the device below in one piece, from the start.  *)
Straight(v) ==
    \/ v.kind = "part"
    \/ v.kind = "lvm" /\ v.slaves = 1 /\ \E k \in Own(v) : Own(v) = {k} /\ v.segs[k].le = 0
    \/ v.kind = "md" /\ v.memberpart /\ v.chunk = 0 /\ v.data = 0

=============================================================================
