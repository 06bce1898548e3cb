------------------------------- MODULE MCRawRead -------------------------------
(***************************************************************************)
(* RawRead on directories with maps of every form and height, whole and    *)
(* damaged, on one volume of each kind.                                    *)
(***************************************************************************)
EXTENDS RawRead, FiniteSets, TLC

Empty == [b \in {} |-> {}]
Inode(map, depth, root, disk) == [map |-> map, depth |-> depth, root |-> root, disk |-> disk]
Rows(start, len) == [start |-> start, len |-> len]
X(start, len, uninit) == [start |-> start, len |-> len, uninit |-> uninit]

(* disk without the nodes of missing, and with the headers of bad damaged. *)
Damaged(disk, missing, bad) ==
    [b \in DOMAIN disk \ missing |-> [ok |-> b \notin bad, entries |-> disk[b]]]

Harms(disk) ==
    {Damaged(disk, missing, bad) :
        missing \in {m \in SUBSET DOMAIN disk : Cardinality(m) <= 1},
        bad \in {m \in SUBSET DOMAIN disk : Cardinality(m) <= 1}}

-----------------------------------------------------------------------------
Leaf(b) == X(b, 1, FALSE)

(* Extents in the inode, some of them unwritten or of no length.           *)
Flat ==
    {Inode("extents", 0, r, Empty) :
        r \in {<<>>, <<X(20, 3, FALSE)>>, <<X(20, 2, TRUE), X(30, 0, FALSE), X(24, 1, FALSE)>>}}

(* One and two levels of nodes.  A node of the second tree may be its own  *)
(* child.                                                                  *)
OneLevel == 10 :> <<X(20, 2, FALSE), X(30, 1, FALSE)>> @@ 11 :> <<X(25, 2, TRUE)>>
              @@ 12 :> <<>>
TwoLevels == 10 :> <<12, 13>> @@ 11 :> <<14>>
              @@ 12 :> <<Leaf(20)>> @@ 13 :> <<Leaf(21), Leaf(30)>> @@ 14 :> <<Leaf(22)>>
Cyclic == [TwoLevels EXCEPT ![10] = <<12, 10>>]

Trees ==
    {Inode("extents", 1, r, d) : r \in {<<10, 11>>, <<11, 12, 10>>}, d \in Harms(OneLevel)}
    \union {Inode("extents", 2, <<10, 11>>, d) : d \in Harms(TwoLevels) \union Harms(Cyclic)}

(* Two direct blocks and indirect blocks of two pointers, with holes.      *)
Pointers == 10 :> <<22, 23>>
         @@ 11 :> <<12, 13>> @@ 12 :> <<24, 0>> @@ 13 :> <<25, 26>>
         @@ 14 :> <<15, 16>> @@ 15 :> <<17, 0>> @@ 16 :> <<0, 18>>
         @@ 17 :> <<27, 28>> @@ 18 :> <<0, 29>>

Indirect ==
    {Inode("indirect", 0, <<20, 21, 0, 0, 0>>, Empty)}
    \union {Inode("indirect", 0, <<0, 21, 10, 0, 14>>, Damaged(Pointers, {b}, {})) : b \in 10..18}
    \union {Inode("indirect", 0, <<20, 21, 10, 11, 14>>, Damaged(Pointers, m, {})) :
               m \in {m \in SUBSET DOMAIN Pointers : Cardinality(m) <= 2}}

MCInodes ==
    Flat \union Trees \union Indirect
    \union {Inode(map, 0, <<>>, Empty) : map \in {"inline", "xfs", "other"}}
    \union {Inode("xfs", 0, <<Rows(160, 4), Rows(0, 8), Rows(240, 2)>>, Empty)}

-----------------------------------------------------------------------------
Seg(lv, le, pe, len) == [lv |-> lv, le |-> le, pe |-> pe, n |-> len]

Volume(kind, slaves, start) ==
    [kind |-> kind, slaves |-> slaves, memberpart |-> FALSE, start |-> start,
     pe_start |-> 0, pe_size |-> 1, segs |-> <<>>, data |-> 0, chunk |-> 0]
Lvm(slaves, segs) ==
    [Volume("lvm", slaves, 0) EXCEPT !.pe_start = 16, !.pe_size = 64, !.segs = segs]
Md(part, data, chunk) ==
    [Volume("md", 2, 32) EXCEPT !.memberpart = part, !.data = data, !.chunk = chunk]

MCVolumes ==
    { Volume("disk", 0, 0), Volume("part", 0, 24), Volume("dm", 1, 0), Volume("dm", 2, 0),
      Lvm(1, <<Seg("other", 0, 0, 2), Seg("this", 0, 2, 8)>>),
      Lvm(1, <<Seg("this", 3, 0, 5), Seg("other", 0, 5, 1), Seg("this", 0, 6, 3)>>),
      Lvm(1, <<Seg("other", 0, 0, 8)>>), Lvm(2, <<Seg("this", 0, 0, 3)>>),
      Md(TRUE, 0, 0), Md(TRUE, 8, 0), Md(TRUE, 0, 16), Md(FALSE, 0, 0) }

=============================================================================
