------------------------------- MODULE DirParse -------------------------------
(***************************************************************************)
(* The directory parsers: src/src/fs.c parse_ext2_dir and parse_xfs_dir,   *)
(* and the loop of src/src/fhf.c find_hidden_files that calls them, once   *)
(* per extent of the dump.                                                 *)
(*                                                                         *)
(* A dump is the blocks of a directory, one after the other.  The file     *)
(* system (the environment) has filled each block with records: names,     *)
(* free space, headers and its own index.  The parsers go from record to   *)
(* record by the lengths they read or compute.  A parser that is not at    *)
(* the start of a record reads what happens to be there.                   *)
(*                                                                         *)
(* Positions and lengths are bytes, as in the code.                        *)
(***************************************************************************)
EXTENDS Integers, Sequences, Functions

CONSTANTS
    Names,        \* file names
    NameLen,      \* their lengths in bytes
    Directories   \* dumps to parse

VARIABLES
    dir,          \* the dump
    pc,           \* "extent", "walk" or "done"
    i,            \* find_hidden_files: the extent that is parsed
    p,            \* the position of the parser
    multiblock,
    files         \* names found

vars == <<dir, pc, i, p, multiblock, files>>

(* Records.  A free record of ext has inode 0; a zero record is a block    *)
(* that was allocated and not written yet; an index is a block of an xfs   *)
(* directory without names, a leaf the index at the end of a block that    *)
(* has both.                                                               *)
HdrLen == [XD2B |-> 16, XD2D |-> 16, XDB3 |-> 64, XDD3 |-> 64]
RecKinds == DOMAIN HdrLen \union {"entry", "free", "zero", "index", "leaf"}
LenOf == [f \in Names \union {".", ".."} |->
             IF f = "." THEN 1 ELSE IF f = ".." THEN 2 ELSE NameLen[f]]

RoundUp8(n) == ((n + 7) \div 8) * 8

(* The size of an entry of an xfs directory: inode number, length, name,   *)
(* type if the volume has types, tag.                                      *)
XfsSize(f, ftype) == RoundUp8(8 + 1 + LenOf[f] + (IF ftype THEN 1 ELSE 0) + 2)

Recs(d) == Range(d.recs)
End(d) == d.recs[Len(d.recs)].at + d.recs[Len(d.recs)].len

(* Record j is in extent k of the dump.                                    *)
InExtent(d, k, j) ==
    /\ d.extents[k] <= d.recs[j].at
    /\ k < Len(d.extents) => d.recs[j].at < d.extents[k + 1]

(* A directory of xfs is one block, with its index at the end, or it is    *)
(* blocks of data and, in extents of their own, blocks of index.           *)
BlockForm(d) ==
    /\ d.recs[1].kind \in {"XD2B", "XDB3"} /\ Len(d.extents) = 1
    /\ \A j \in 2..Len(d.recs) :
          d.recs[j].kind \in {"entry", "free"} \/ (d.recs[j].kind = "leaf" /\ j = Len(d.recs))

DataForm(d) ==
    \A j \in DOMAIN d.recs :
        /\ d.recs[j].kind \in {"XD2D", "XDD3", "entry", "free", "zero", "index"}
        /\ \A k \in DOMAIN d.extents : d.recs[j].at = d.extents[k] =>
              /\ d.recs[j].kind \in {"XD2D", "XDD3", "zero", "index"}
              /\ \A l \in DOMAIN d.recs : InExtent(d, k, l) =>
                    (d.recs[j].kind = "index" <=> d.recs[l].kind = "index")

Record == [kind : RecKinds, name : DOMAIN LenOf \union {""}, at : Nat, len : Nat]

(* What the file systems write.  block is the size of a block of ext,      *)
(* extents are the positions at which the extents of the dump start.       *)
WellFormed(d) ==
    /\ d.fs \in {"ext", "xfs"} /\ d.ftype \in BOOLEAN /\ d.block \in Nat
    /\ d.recs \in Seq(Record) /\ d.recs # <<>> /\ d.recs[1].at = 0
    /\ \A j \in 1..(Len(d.recs) - 1) : d.recs[j + 1].at = d.recs[j].at + d.recs[j].len
    /\ d.extents \in Seq(Nat) /\ d.extents # <<>> /\ d.extents[1] = 0
    /\ \A k \in 1..(Len(d.extents) - 1) : d.extents[k] < d.extents[k + 1]
    /\ Range(d.extents) \subseteq {r.at : r \in Recs(d)}
    /\ \A r \in Recs(d) :
          /\ r.kind = "entry" => r.name \in DOMAIN LenOf
          /\ r.kind \in DOMAIN HdrLen => r.len = HdrLen[r.kind]
          /\ d.fs = "ext" => r.kind \in {"entry", "free", "zero"} /\ r.len % 4 = 0 /\ r.len >= 12
          /\ d.fs = "ext" /\ r.kind = "entry" => LenOf[r.name] + 8 <= r.len
          /\ d.fs = "xfs" => r.len % 8 = 0 /\ r.len >= 8
          /\ d.fs = "xfs" /\ r.kind = "entry" => r.len = XfsSize(r.name, d.ftype)
    /\ d.fs = "xfs" => BlockForm(d) \/ DataForm(d)

ASSUME DirAssumption ==
    /\ NameLen \in [Names -> 1..255]
    /\ \A d \in Directories : WellFormed(d)

TypeOK ==
    /\ dir \in Directories
    /\ pc \in {"extent", "walk", "done"}
    /\ i \in 1..(Len(dir.extents) + 1)
    /\ p \in Nat
    /\ multiblock \in BOOLEAN
    /\ \A j \in DOMAIN files : files[j] \in Names \union {"junk"}

Init ==
    /\ dir \in Directories
    /\ pc = "extent" /\ i = 1 /\ p = 0 /\ multiblock = FALSE /\ files = <<>>

-----------------------------------------------------------------------------
(* find_hidden_files                                                       *)

(* pos + poslen                                                            *)
ExtentEnd(k) ==
    IF k < Len(dir.extents) THEN dir.extents[k + 1] ELSE dir.extents[1] + End(dir)

OnRecord(q) == \E r \in Recs(dir) : r.at = q
RecAt(q) == CHOOSE r \in Recs(dir) : r.at = q

(* A parser returns: on to the next extent.                                *)
Return ==
    /\ pc' = "extent" /\ i' = i + 1
    /\ UNCHANGED <<dir, p, multiblock, files>>

AllParsed ==
    /\ pc = "extent" /\ i > Len(dir.extents)
    /\ pc' = "done"
    /\ UNCHANGED <<dir, i, p, multiblock, files>>

(* The loop of a parser goes on at q, with what it has found.              *)
Advance(q, found) ==
    /\ pc' = "walk" /\ p' = q /\ files' = files \o found
    /\ UNCHANGED <<dir, i>>

(* Mutant of Visible: "." and ".." are files like others.                  *)
VisibleDots(r) == <<r.name>>

Visible(r) == IF r.name \in {".", ".."} THEN <<>> ELSE <<r.name>>

-----------------------------------------------------------------------------
(* parse_ext2_dir                                                          *)

ParseExt ==
    /\ pc = "extent" /\ i <= Len(dir.extents) /\ dir.fs = "ext"
    /\ Advance(dir.extents[i], <<>>)
    /\ UNCHANGED multiblock

(* Mutant of ExtMore: the last record is not looked at.                    *)
ExtMoreShort == p < ExtentEnd(i) - 12

ExtMore == p < ExtentEnd(i) - 8

(* rec_len is 0 in a block that was not written, 65535 if the record is as *)
(* long as a block of 64 KiB.  The other tests protect against a record    *)
(* that does not fit.                                                      *)
ExtStops(r) ==
    \/ r.kind = "zero" \/ r.len = 65536
    \/ r.len < 8 \/ r.len % 4 # 0 \/ p + r.len > ExtentEnd(i)
    \/ r.kind = "entry" /\ LenOf[r.name] + 8 > r.len

ExtTurn ==
    /\ pc = "walk" /\ dir.fs = "ext" /\ ExtMore
    /\ LET r == RecAt(p)
       IN  /\ ~ExtStops(r)
           /\ Advance(p + r.len, IF r.kind = "entry" THEN Visible(r) ELSE <<>>)
    /\ UNCHANGED multiblock

ExtEnds ==
    /\ pc = "walk" /\ dir.fs = "ext"
    /\ ExtMore => ExtStops(RecAt(p))
    /\ Return

-----------------------------------------------------------------------------
(* parse_xfs_dir                                                           *)

(* switch (magic)                                                          *)
ParseXfs ==
    /\ pc = "extent" /\ i <= Len(dir.extents) /\ dir.fs = "xfs"
    /\ LET r == RecAt(dir.extents[i])
       IN  /\ r.kind \in DOMAIN HdrLen
           /\ Advance(r.at + HdrLen[r.kind], <<>>)
           /\ multiblock' = (r.kind \in {"XD2D", "XDD3"})

(* The extent starts with something else: return 1.                        *)
ParseXfsOther ==
    /\ pc = "extent" /\ i <= Len(dir.extents) /\ dir.fs = "xfs"
    /\ RecAt(dir.extents[i]).kind \notin DOMAIN HdrLen
    /\ Return

XfsMore == p < ExtentEnd(i) - 9

(* Mutant of XfsEntrySize: the type of the inode is forgotten.             *)
XfsEntrySizeNoType(f) == RoundUp8(8 + 1 + LenOf[f] + 2)

(* rec_len = 8 + 1 + entry->namelen + 3, rounded up                        *)
XfsEntrySize(f) == RoundUp8(8 + 1 + LenOf[f] + 3)

(* Mutant of XfsTurn: free space is not skipped.                          *)
XfsTurnStays ==
    /\ pc = "walk" /\ dir.fs = "xfs" /\ XfsMore /\ OnRecord(p)
    /\ LET r == RecAt(p)
       IN  \/ multiblock /\ r.kind \in {"XD2D", "XDD3"} /\ Advance(p + HdrLen[r.kind], <<>>)
           \/ r.kind = "free" /\ Advance(p, <<>>)
           \/ r.kind = "entry" /\ Advance(p + XfsEntrySize(r.name), Visible(r))
    /\ UNCHANGED multiblock

(* A header of the next block of the extent, free space, or an entry.      *)
XfsTurn ==
    /\ pc = "walk" /\ dir.fs = "xfs" /\ XfsMore /\ OnRecord(p)
    /\ LET r == RecAt(p)
       IN  \/ multiblock /\ r.kind \in {"XD2D", "XDD3"} /\ Advance(p + HdrLen[r.kind], <<>>)
           \/ r.kind = "free" /\ Advance(p + r.len, <<>>)
           \/ r.kind = "entry" /\ Advance(p + XfsEntrySize(r.name), Visible(r))
    /\ UNCHANGED multiblock

(* namelen is 0: in a block of zeros, and in a leaf.  The entries of a     *)
(* leaf are sorted by hash and include those of "." and "..", 0x2e and     *)
(* 0x172e, so the byte read as namelen, the first of the second hash, is 0 *)
(* (and the first two bytes of the first hash are not the free tag).       *)
XfsEnds ==
    /\ pc = "walk" /\ dir.fs = "xfs"
    /\ ~XfsMore \/ (OnRecord(p) /\ RecAt(p).kind \in {"zero", "leaf"})
    /\ Return

(* The parser has lost its place: what it reads there is taken for a       *)
(* header, free space of any length, an entry or its end.                  *)
XfsLost ==
    /\ pc = "walk" /\ dir.fs = "xfs" /\ XfsMore /\ ~OnRecord(p)
    /\ \/ Return
       \/ \E q \in {q \in p..(ExtentEnd(i) + 8) : (q - p) % 8 = 0} :
             \/ Advance(q, <<>>) /\ UNCHANGED multiblock
             \/ q >= p + 16 /\ Advance(q, <<"junk">>) /\ UNCHANGED multiblock

-----------------------------------------------------------------------------
Parser ==
    \/ AllParsed \/ ParseExt \/ ExtTurn \/ ExtEnds
    \/ ParseXfs \/ ParseXfsOther \/ XfsTurn \/ XfsEnds \/ XfsLost

Finished == pc = "done" /\ UNCHANGED vars

Next == Parser \/ Finished

(* The parsers are sequential code without blocking calls.                 *)
Spec == Init /\ [][Next]_vars /\ WF_vars(Parser)

-----------------------------------------------------------------------------
(* The records before position q with the names that are to be found.      *)
IsLive(r) == r.kind = "entry" /\ r.name \notin {".", ".."}
LiveBefore(d, q) == {j \in DOMAIN d.recs : IsLive(d.recs[j]) /\ d.recs[j].at < q}

(* s is the names of the records K of a dump, each once, in its order.     *)
NamesOf(s, d, K) ==
    \E e \in [1..Len(s) -> K] :
        /\ \A a, b \in 1..Len(s) : a < b => e[a] < e[b]
        /\ \A k \in K : \E a \in 1..Len(s) : e[a] = k
        /\ \A a \in 1..Len(s) : s[a] = d.recs[e[a]].name

(* The dumps on which the parsers are right: no record of ext as long as a *)
(* block of 64 KiB, no name of xfs whose entry is longer with a type than  *)
(* without on a volume without types, and no name behind a block that was  *)
(* not written yet in the same extent.                                     *)
Sound(d) ==
    /\ \A r \in Recs(d) :
          /\ d.fs = "ext" => r.len # 65536
          /\ d.fs = "xfs" /\ r.kind = "entry" => d.ftype \/ LenOf[r.name] % 8 # 5
    /\ \A j \in DOMAIN d.recs : d.recs[j].kind = "zero" =>
          \A k \in DOMAIN d.extents, l \in j..Len(d.recs) :
              InExtent(d, k, j) /\ InExtent(d, k, l) => ~IsLive(d.recs[l])

(* The parsers find every name of a directory once, in order, and nothing  *)
(* else: across blocks, extents, free space, headers and indexes.          *)
NamesParsed == pc = "done" /\ Sound(dir) => NamesOf(files, dir, LiveBefore(dir, End(dir)))

(* The dumps on which they find their way; that of ext always does.        *)
Traced(d) == d.fs = "ext" \/ Sound(d)

(* The parsers never leave the records: wherever the loop goes on, a       *)
(* record starts, or the extent ends.                                      *)
StaysOnRecords == pc = "walk" /\ Traced(dir) => OnRecord(p) \/ p = ExtentEnd(i)

(* Every turn of a loop comes nearer to the end of the extent, and never   *)
(* passes it: no record makes a parser stay where it is.                   *)
ParseAdvances ==
    [][Traced(dir) =>
          \/ pc' = "done" \/ i' > i
          \/ i' = i /\ pc' = "walk" /\ (pc = "extent" \/ (p < p' /\ p' <= ExtentEnd(i)))]_vars

(* The parsers come to an end, also on a block that was not written yet.   *)
ParseTerminates == Traced(dir) => <>(pc = "done")

=============================================================================
