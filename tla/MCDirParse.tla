------------------------------ MODULE MCDirParse ------------------------------
(***************************************************************************)
(* DirParse on every directory that fills a few short blocks with free     *)
(* space and two names, and on some whose blocks have 64 KiB.              *)
(***************************************************************************)
EXTENDS DirParse, SequencesExt

MCNames == {"a", "hello"}
MCNameLen == [a |-> 1, hello |-> 5]

Rec(kind, name, len) == [kind |-> kind, name |-> name, len |-> len]

(* The ways to fill n bytes with free space and entries of the lengths     *)
(* that Lens gives a name: at most two entries, with free space before,    *)
(* between and after them.                                                 *)
Fillings(space, step, Lens(_)) ==
    LET sizes == {len \in 0..space : len % step = 0}
        free(len) == IF len = 0 THEN <<>> ELSE <<Rec("free", "", len)>>
        entries == {Rec("entry", f, len) : f \in MCNames, len \in sizes}
        right == {r \in entries : r.len \in Lens(r.name)}
    IN  {free(space)}
        \union UNION {{free(a) \o <<r>> \o free(space - a - r.len) :
                          a \in {a \in sizes : a + r.len <= space}} : r \in right}
        \union UNION {{free(x[1]) \o <<r>> \o free(x[2]) \o <<s>>
                            \o free(space - x[1] - x[2] - r.len - s.len) :
                          x \in {x \in sizes \X sizes : x[1] + x[2] + r.len + s.len <= space}} :
                      r \in right, s \in right}

(* No name is in a directory twice.                                        *)
Proper(recs) ==
    \A f \in MCNames : \A j, k \in DOMAIN recs :
        recs[j].name = f /\ recs[k].name = f => j = k

(* Put records one after the other.                                        *)
Placed(recs) ==
    FoldLeft(LAMBDA done, r :
                Append(done, [kind |-> r.kind, name |-> r.name, len |-> r.len,
                              at |-> IF done = <<>> THEN 0
                                     ELSE done[Len(done)].at + done[Len(done)].len]),
             <<>>, recs)

Dump(fs, ftype, block, recs, extents) ==
    [fs |-> fs, ftype |-> ftype, block |-> block, recs |-> Placed(recs), extents |-> extents]

-----------------------------------------------------------------------------
Block == 48
ExtLens(f) == {len \in 12..Block : 8 + MCNameLen[f] <= len}

ExtFirst ==
    {<<Rec("entry", ".", 12), Rec("entry", "..", 12)>> \o b : b \in Fillings(24, 12, ExtLens)}
    \union {<<Rec("entry", ".", 12), Rec("entry", "..", 36)>>}
ExtSecond ==
    {b \in Fillings(Block, 4, ExtLens) : \A j \in DOMAIN b : b[j].len >= 12}
    \union {<<Rec("zero", "", Block)>>}

ExtDumps ==
    {Dump("ext", FALSE, Block, recs, <<0>>) :
        recs \in {r \in {a \o b : a \in ExtFirst, b \in ExtSecond} : Proper(r)}}

(* Blocks of 64 KiB: an index block, and a block with one name.            *)
BigDumps ==
    {Dump("ext", FALSE, 65536,
          <<Rec("entry", ".", 12), Rec("entry", "..", 65524), r,
            Rec("entry", "a", 12), Rec("free", "", 65524)>>, <<0>>) :
        r \in {Rec("free", "", 65536), Rec("entry", "hello", 65536)}}

-----------------------------------------------------------------------------
Space == 56
Leaf == 24

Magics == [block |-> [v2 |-> "XD2B", v3 |-> "XDB3"], data |-> [v2 |-> "XD2D", v3 |-> "XDD3"]]
Header(form, v) == Rec(Magics[form][v], "", HdrLen[Magics[form][v]])
Dots(t) == <<Rec("entry", ".", XfsSize(".", t)), Rec("entry", "..", XfsSize("..", t))>>
XfsFill(space, t) == Fillings(space, 8, LAMBDA f : {XfsSize(f, t)})

(* Versions and whether they have types.                                   *)
Volumes == {<<"v2", FALSE>>, <<"v2", TRUE>>, <<"v3", TRUE>>}

BlockDumps ==
    UNION {{Dump("xfs", v[2], Space, recs, <<0>>) :
               recs \in {<<Header("block", v[1])>> \o Dots(v[2]) \o b
                             \o <<Rec("leaf", "", Leaf)>> :
                             b \in {b \in XfsFill(Space - 32 + 16, v[2]) : Proper(b)}}} :
              v \in Volumes}

(* Two blocks of data, in one extent or in two, and one of index.          *)
DataDumps ==
    UNION {LET h == Header("data", v[1])
               size == h.len + Space
               first == {<<h>> \o Dots(v[2]) \o b : b \in XfsFill(Space - 32, v[2])}
               second == {<<h>> \o b : b \in XfsFill(Space, v[2])}
                         \union {<<Rec("zero", "", size)>>}
               index == <<Rec("index", "", size)>>
           IN  {Dump("xfs", v[2], size, recs, ext) :
                   recs \in {r \in {a \o b \o index : a \in first, b \in second} : Proper(r)},
                   ext \in {<<0, 2 * size>>, <<0, size, 2 * size>>}} :
              v \in Volumes}

MCDirectories == ExtDumps \union BigDumps \union BlockDumps \union DataDumps

=============================================================================
