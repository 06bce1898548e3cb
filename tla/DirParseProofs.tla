---------------------------- MODULE DirParseProofs ----------------------------
(***************************************************************************)
(* The parsers of directories are right on every dump that a file system   *)
(* writes and that is Sound, whatever its names, their number, the blocks  *)
(* and the extents.                                                        *)
(***************************************************************************)
EXTENDS DirParse, WellFoundedInduction, TLAPS

-----------------------------------------------------------------------------
(* Records                                                                 *)

(* Induction over a set of numbers.                                        *)
LEMMA Induction ==
    ASSUME NEW S, 0 \in S, \A m \in Nat : m \in S => m + 1 \in S
    PROVE  \A m \in Nat : m \in S
<1> DEFINE T == Nat \ S
           R == OpToRel(<, Nat)
<1> SUFFICES ASSUME T # {} PROVE FALSE
  OBVIOUS
<1>1. IsWellFoundedOn(R, Nat)
  BY NatLessThanWellFounded, Zenon
<1>2. T \subseteq Nat
  OBVIOUS
<1> HIDE DEF R
<1>3. PICK x \in T : \A y \in T : ~(<<y, x>> \in R)
  BY <1>1, <1>2, WFMin, Zenon
<1>4. x # 0 /\ x - 1 \in Nat /\ x - 1 \in T
  OBVIOUS
<1>5. <<x - 1, x>> \in R
  BY <1>4 DEF R, OpToRel
<1> QED
  BY <1>3, <1>4, <1>5

(* What is known of a record of a dump.                                    *)
LEMMA RecordOf ==
    ASSUME NEW d, WellFormed(d), NEW j \in DOMAIN d.recs
    PROVE  /\ d.recs[j] \in Recs(d) /\ d.recs[j] \in Record
           /\ DOMAIN d.recs = 1..Len(d.recs) /\ Len(d.recs) \in Nat
           /\ d.recs[j].at \in Nat /\ d.recs[j].len \in Nat /\ d.recs[j].len >= 8
<1>1. d.recs \in Seq(Record)
  BY DEF WellFormed
<1>2. d.recs[j] \in Recs(d)
  BY <1>1 DEF Recs, Range
<1>3. d.recs[j] \in Record /\ DOMAIN d.recs = 1..Len(d.recs) /\ Len(d.recs) \in Nat
  BY <1>1
<1>4. d.recs[j].at \in Nat /\ d.recs[j].len \in Nat
  BY <1>3, Zenon DEF Record
<1>5. d.recs[j].len >= 8
  BY <1>2, <1>4 DEF WellFormed
<1> QED
  BY <1>2, <1>3, <1>4, <1>5

(* Records follow each other.                                              *)
LEMMA Later ==
    ASSUME NEW d, WellFormed(d), NEW j \in DOMAIN d.recs, NEW k \in DOMAIN d.recs, j < k
    PROVE  d.recs[j].at + d.recs[j].len <= d.recs[k].at
<1> DEFINE S == {m \in Nat : j + m + 1 \in DOMAIN d.recs =>
                                 d.recs[j].at + d.recs[j].len <= d.recs[j + m + 1].at}
<1>0. /\ DOMAIN d.recs = 1..Len(d.recs) /\ Len(d.recs) \in Nat /\ j \in Nat /\ k \in Nat
      /\ \A l \in DOMAIN d.recs : d.recs[l].at \in Nat /\ d.recs[l].len \in Nat
  BY RecordOf
<1>1. \A l \in 1..(Len(d.recs) - 1) : d.recs[l + 1].at = d.recs[l].at + d.recs[l].len
  BY DEF WellFormed
<1>2. 0 \in S
  BY <1>0, <1>1
<1>3. ASSUME NEW m \in Nat, m \in S PROVE m + 1 \in S
  <2> SUFFICES ASSUME j + (m + 1) + 1 \in DOMAIN d.recs
               PROVE  d.recs[j].at + d.recs[j].len <= d.recs[j + (m + 1) + 1].at
    OBVIOUS
  <2> DEFINE l == j + m + 1
  <2>1. l \in 1..(Len(d.recs) - 1) /\ j + (m + 1) + 1 = l + 1
    BY <1>0
  <2>2. l \in DOMAIN d.recs
    BY <1>0, <2>1
  <2>3. d.recs[j].at + d.recs[j].len <= d.recs[l].at
    BY <1>3, <2>2
  <2> HIDE DEF l
  <2>4. d.recs[l + 1].at = d.recs[l].at + d.recs[l].len
    BY <1>1, <2>1
  <2>5. d.recs[j].at \in Nat /\ d.recs[j].len \in Nat /\ d.recs[l].at \in Nat /\ d.recs[l].len \in Nat
    BY <1>0, <2>2
  <2>6. d.recs[j].at + d.recs[j].len <= d.recs[l + 1].at
    BY <2>3, <2>4, <2>5
  <2> QED
    BY <2>1, <2>6
<1> HIDE DEF S
<1>4. \A m \in Nat : m \in S
  BY <1>2, <1>3, Induction
<1>5. k - j - 1 \in Nat /\ j + (k - j - 1) + 1 = k
  BY <1>0
<1> QED
  BY <1>4, <1>5 DEF S

(* A position at which a record starts or the dump ends.                   *)
Boundary(d, q) == q = End(d) \/ \E j \in DOMAIN d.recs : d.recs[j].at = q

LEMMA LastRecord ==
    ASSUME NEW d, WellFormed(d)
    PROVE  /\ Len(d.recs) \in DOMAIN d.recs /\ End(d) \in Nat
           /\ \A j \in DOMAIN d.recs : d.recs[j].at + d.recs[j].len <= End(d)
<1>1. d.recs \in Seq(Record) /\ d.recs # <<>>
  BY DEF WellFormed
<1>2. Len(d.recs) \in DOMAIN d.recs
  BY <1>1
<1>3. End(d) \in Nat
  BY <1>2, RecordOf DEF End
<1>4. ASSUME NEW j \in DOMAIN d.recs PROVE d.recs[j].at + d.recs[j].len <= End(d)
  <2>1. j \in 1..Len(d.recs) /\ Len(d.recs) \in Nat
    BY <1>1
  <2>2. CASE j = Len(d.recs)
    BY <1>2, <2>2, RecordOf DEF End
  <2>3. CASE j < Len(d.recs)
    <3>1. d.recs[j].at + d.recs[j].len <= d.recs[Len(d.recs)].at
      BY <1>2, <2>3, Later
    <3> QED
      BY <1>2, <3>1, RecordOf DEF End
  <2> QED
    BY <2>1, <2>2, <2>3
<1> QED
  BY <1>2, <1>3, <1>4

(* A record that starts before a boundary ends before it.                  *)
LEMMA Fits ==
    ASSUME NEW d, WellFormed(d), NEW q, Boundary(d, q),
           NEW j \in DOMAIN d.recs, d.recs[j].at < q
    PROVE  d.recs[j].at + d.recs[j].len <= q
<1>1. CASE q = End(d)
  BY <1>1, LastRecord
<1>2. ASSUME NEW k \in DOMAIN d.recs, d.recs[k].at = q
      PROVE  d.recs[j].at + d.recs[j].len <= q
  <2>1. j \in Nat /\ k \in Nat
    BY RecordOf
  <2>2. CASE j < k
    BY <1>2, <2>2, Later
  <2>3. CASE k < j
    <3>1. d.recs[k].at + d.recs[k].len <= d.recs[j].at
      BY <2>3, Later
    <3> QED
      BY <1>2, <3>1, RecordOf
  <2>4. CASE j = k
    BY <1>2, <2>4, RecordOf
  <2> QED
    BY <2>1, <2>2, <2>3, <2>4
<1> QED
  BY <1>1, <1>2 DEF Boundary

(* Where a record ends there is a boundary.                                *)
LEMMA NextBoundary ==
    ASSUME NEW d, WellFormed(d), NEW j \in DOMAIN d.recs
    PROVE  Boundary(d, d.recs[j].at + d.recs[j].len)
<1>1. j \in 1..Len(d.recs) /\ Len(d.recs) \in Nat /\ DOMAIN d.recs = 1..Len(d.recs)
  BY RecordOf
<1>2. CASE j = Len(d.recs)
  BY <1>2 DEF Boundary, End
<1>3. CASE j < Len(d.recs)
  <2>1. j \in 1..(Len(d.recs) - 1) /\ j + 1 \in DOMAIN d.recs
    BY <1>1, <1>3
  <2>2. d.recs[j + 1].at = d.recs[j].at + d.recs[j].len
    BY <2>1, Zenon DEF WellFormed
  <2> QED
    BY <2>1, <2>2 DEF Boundary
<1> QED
  BY <1>1, <1>2, <1>3

-----------------------------------------------------------------------------
(* Names                                                                   *)

(* A name is found behind the others.                                      *)
LEMMA NamesAppend ==
    ASSUME NEW d, NEW K \in SUBSET Nat, NEW k \in Nat, \A x \in K : x < k,
           NEW T, NEW s \in Seq(T), NEW f \in T, f = d.recs[k].name, NamesOf(s, d, K)
    PROVE  NamesOf(s \o <<f>>, d, K \union {k})
<1> DEFINE t == s \o <<f>>
           m == Len(s)
<1>1. m \in Nat /\ Len(t) = m + 1 /\ t[m + 1] = f /\ \A a \in 1..m : t[a] = s[a]
  OBVIOUS
<1>2. PICK e \in [1..m -> K] :
        /\ \A a, b \in 1..m : a < b => e[a] < e[b]
        /\ \A x \in K : \E a \in 1..m : e[a] = x
        /\ \A a \in 1..m : s[a] = d.recs[e[a]].name
  BY DEF NamesOf
<1> DEFINE g == [a \in 1..(m + 1) |-> IF a = m + 1 THEN k ELSE e[a]]
<1> HIDE DEF t, m
<1>3. g \in [1..(m + 1) -> K \union {k}]
  BY <1>1, <1>2
<1>4. g[m + 1] = k /\ \A a \in 1..m : g[a] = e[a] /\ a # m + 1 /\ e[a] \in K
  BY <1>1, <1>2
<1> HIDE DEF g
<1>5. \A a \in 1..(m + 1) : a = m + 1 \/ a \in 1..m
  BY <1>1
<1>6. ASSUME NEW a \in 1..(m + 1), NEW b \in 1..(m + 1), a < b PROVE g[a] < g[b]
  <2>1. a \in 1..m
    BY <1>1, <1>6
  <2>2. CASE b = m + 1
    BY <1>4, <2>1, <2>2, Zenon
  <2>3. CASE b \in 1..m
    BY <1>2, <1>4, <1>6, <2>1, <2>3
  <2> QED
    BY <1>5, <2>2, <2>3
<1>7. ASSUME NEW x \in K \union {k} PROVE \E a \in 1..(m + 1) : g[a] = x
  <2>1. CASE x = k
    BY <1>1, <1>4, <2>1
  <2>2. CASE x \in K
    <3>1. PICK a \in 1..m : e[a] = x
      BY <1>2, <2>2
    <3>2. a \in 1..(m + 1) /\ g[a] = x
      BY <1>1, <1>4, <3>1
    <3> QED
      BY <3>2
  <2> QED
    BY <2>1, <2>2
<1>8. ASSUME NEW a \in 1..(m + 1) PROVE t[a] = d.recs[g[a]].name
  <2>1. CASE a = m + 1
    BY <1>1, <1>4, <2>1
  <2>2. CASE a \in 1..m
    BY <1>1, <1>2, <1>4, <2>2
  <2> QED
    BY <1>5, <2>1, <2>2
<1>9. NamesOf(t, d, K \union {k})
  <2>1. Len(t) = m + 1
    BY <1>1
  <2>2. g \in [1..Len(t) -> K \union {k}]
    BY <1>3, <2>1
  <2>3. \A a, b \in 1..Len(t) : a < b => g[a] < g[b]
    BY <1>6, <2>1
  <2>4. \A x \in K \union {k} : \E a \in 1..Len(t) : g[a] = x
    BY <1>7, <2>1
  <2>5. \A a \in 1..Len(t) : t[a] = d.recs[g[a]].name
    BY <1>8, <2>1
  <2> QED
    BY <2>2, <2>3, <2>4, <2>5, Zenon DEF NamesOf
<1> QED
  BY <1>9 DEF t

(* Over one record, the names grow by its name if it has one.              *)
LEMMA LiveStep ==
    ASSUME NEW d, WellFormed(d), NEW j \in DOMAIN d.recs
    PROVE  LET K == LiveBefore(d, d.recs[j].at)
           IN  /\ LiveBefore(d, d.recs[j].at + d.recs[j].len)
                    = IF IsLive(d.recs[j]) THEN K \union {j} ELSE K
               /\ K \subseteq Nat /\ \A x \in K : x < j
<1> DEFINE r == d.recs[j]
           K == LiveBefore(d, r.at)
<1>1. j \in Nat /\ r.at \in Nat /\ r.len \in Nat /\ r.len >= 8
  BY RecordOf
<1>2. ASSUME NEW x \in DOMAIN d.recs
      PROVE  /\ x \in Nat /\ d.recs[x].at \in Nat
             /\ d.recs[x].at < r.at <=> x < j
             /\ d.recs[x].at < r.at + r.len <=> x < j \/ x = j
  <2>1. x \in Nat /\ d.recs[x].at \in Nat /\ d.recs[x].len \in Nat /\ d.recs[x].len >= 8
    BY RecordOf
  <2>2. CASE x < j
    <3>1. d.recs[x].at + d.recs[x].len <= r.at
      BY <2>2, Later
    <3> QED
      BY <1>1, <2>1, <2>2, <3>1
  <2>3. CASE x = j
    BY <1>1, <2>1, <2>3
  <2>4. CASE j < x
    <3>1. r.at + r.len <= d.recs[x].at
      BY <2>4, Later
    <3> QED
      BY <1>1, <2>1, <2>4, <3>1
  <2> QED
    BY <1>1, <2>1, <2>2, <2>3, <2>4
<1> HIDE DEF r
<1>3. K \subseteq Nat /\ \A x \in K : x < j
  BY <1>2 DEF LiveBefore
<1>4. LiveBefore(d, r.at + r.len) = IF IsLive(r) THEN K \union {j} ELSE K
  <2>1. \A x \in DOMAIN d.recs :
            x \in LiveBefore(d, r.at + r.len) <=> x \in K \/ (x = j /\ IsLive(d.recs[x]))
    BY <1>2 DEF LiveBefore
  <2>2. LiveBefore(d, r.at + r.len) \subseteq DOMAIN d.recs /\ K \subseteq DOMAIN d.recs
    BY DEF LiveBefore
  <2> QED
    BY <2>1, <2>2, Zenon DEF r
<1> QED
  BY <1>3, <1>4 DEF r

-----------------------------------------------------------------------------
(* Sizes                                                                   *)

LEMMA NameLengths == \A f \in DOMAIN LenOf : LenOf[f] \in Nat /\ LenOf[f] >= 1
  BY DirAssumption DEF LenOf

LEMMA Rounding ==
    /\ \A m \in Nat : m >= 9 => RoundUp8(m) \in Nat /\ RoundUp8(m) >= 16
    /\ \A m \in Nat : m % 8 # 5 => RoundUp8(m + 11) = RoundUp8(m + 12)
  BY DEF RoundUp8

(* The parser computes the size that an entry has.                         *)
LEMMA EntrySize ==
    ASSUME NEW f \in DOMAIN LenOf, NEW ftype \in BOOLEAN
    PROVE  /\ XfsSize(f, ftype) \in Nat /\ XfsSize(f, ftype) >= 16
           /\ XfsEntrySize(f) \in Nat
           /\ ftype \/ LenOf[f] % 8 # 5 => XfsEntrySize(f) = XfsSize(f, ftype)
<1> DEFINE m == LenOf[f]
<1>1. m \in Nat /\ m >= 1
  BY NameLengths
<1> HIDE DEF m
<1>2. 8 + 1 + m + 3 = m + 12 /\ 8 + 1 + m + 1 + 2 = m + 12 /\ 8 + 1 + m + 0 + 2 = m + 11
  BY <1>1
<1>3. XfsEntrySize(f) = RoundUp8(m + 12)
  BY <1>2 DEF XfsEntrySize, m
<1>4. CASE ftype
  <2>1. XfsSize(f, ftype) = RoundUp8(m + 12)
    BY <1>2, <1>4 DEF XfsSize, m
  <2> QED
    BY <1>1, <1>3, <2>1, Rounding
<1>5. CASE ~ftype
  <2>1. XfsSize(f, ftype) = RoundUp8(m + 11)
    BY <1>2, <1>5 DEF XfsSize, m
  <2>2. m + 11 \in Nat /\ m + 11 >= 9 /\ m + 12 \in Nat /\ m + 12 >= 9
    BY <1>1
  <2>3. RoundUp8(m + 11) \in Nat /\ RoundUp8(m + 11) >= 16 /\ RoundUp8(m + 12) \in Nat
    BY <2>2, Rounding
  <2>4. m % 8 # 5 => RoundUp8(m + 11) = RoundUp8(m + 12)
    BY <1>1, Rounding
  <2> QED
    BY <1>3, <1>5, <2>1, <2>3, <2>4 DEF m
<1> QED
  BY <1>4, <1>5

-----------------------------------------------------------------------------
(* Extents                                                                 *)

LEMMA ExtentOf ==
    ASSUME dir \in Directories, NEW k \in 1..Len(dir.extents)
    PROVE  /\ WellFormed(dir) /\ Len(dir.extents) \in Nat /\ Len(dir.extents) >= 1
           /\ dir.extents[k] \in Nat /\ ExtentEnd(k) \in Nat /\ dir.extents[k] < ExtentEnd(k)
           /\ \E j \in DOMAIN dir.recs : dir.recs[j].at = dir.extents[k]
           /\ Boundary(dir, ExtentEnd(k))
           /\ ExtentEnd(k) = IF k + 1 <= Len(dir.extents) THEN dir.extents[k + 1] ELSE End(dir)
<1>1. WellFormed(dir)
  BY DirAssumption
<1>2. /\ dir.extents \in Seq(Nat) /\ dir.extents # <<>> /\ dir.extents[1] = 0
      /\ \A l \in 1..(Len(dir.extents) - 1) : dir.extents[l] < dir.extents[l + 1]
  BY <1>1, Zenon DEF WellFormed
<1>3. /\ Len(dir.extents) \in Nat /\ Len(dir.extents) >= 1
      /\ DOMAIN dir.extents = 1..Len(dir.extents)
      /\ \A l \in 1..Len(dir.extents) : dir.extents[l] \in Nat
  BY <1>2
<1>4. ASSUME NEW l \in 1..Len(dir.extents)
      PROVE  \E j \in DOMAIN dir.recs : dir.recs[j].at = dir.extents[l]
  <2>1. dir.extents[l] \in Range(dir.extents)
    BY <1>3 DEF Range
  <2>2. PICK r \in Recs(dir) : r.at = dir.extents[l]
    BY <1>1, <2>1 DEF WellFormed
  <2> QED
    BY <2>2 DEF Recs, Range
<1>5. End(dir) \in Nat
  BY <1>1, LastRecord
<1>6. CASE k < Len(dir.extents)
  <2>1. k + 1 \in 1..Len(dir.extents) /\ k \in 1..(Len(dir.extents) - 1) /\ k + 1 <= Len(dir.extents)
    BY <1>3, <1>6
  <2>2. ExtentEnd(k) = dir.extents[k + 1]
    BY <1>6 DEF ExtentEnd
  <2>3. Boundary(dir, ExtentEnd(k))
    BY <1>4, <2>1, <2>2 DEF Boundary
  <2>4. dir.extents[k] < ExtentEnd(k)
    BY <1>2, <2>1, <2>2
  <2> QED
    BY <1>1, <1>3, <1>4, <2>1, <2>2, <2>3, <2>4
<1>7. CASE k = Len(dir.extents)
  <2>1. ~(k + 1 <= Len(dir.extents)) /\ ~(k < Len(dir.extents))
    BY <1>3, <1>7
  <2>2. ExtentEnd(k) = End(dir)
    BY <1>2, <1>5, <2>1 DEF ExtentEnd
  <2>3. PICK j \in DOMAIN dir.recs : dir.recs[j].at = dir.extents[k]
    BY <1>4
  <2>4. dir.extents[k] < End(dir)
    BY <1>1, <1>5, <2>3, LastRecord, RecordOf
  <2> QED
    BY <1>1, <1>3, <1>4, <1>5, <2>1, <2>2, <2>4 DEF Boundary
<1> QED
  BY <1>3, <1>6, <1>7

(* What is at the position of a record.                                    *)
LEMMA AtRecord ==
    ASSUME dir \in Directories, NEW q, OnRecord(q)
    PROVE  \E j \in DOMAIN dir.recs : RecAt(q) = dir.recs[j] /\ dir.recs[j].at = q
<1>1. PICK r \in Recs(dir) : r.at = q
  BY DEF OnRecord
<1>2. RecAt(q) \in Recs(dir) /\ RecAt(q).at = q
  BY <1>1 DEF RecAt
<1> QED
  BY <1>2 DEF Recs, Range

(* Of a boundary before the end of an extent a record is known.            *)
LEMMA BoundaryIsRecord ==
    ASSUME dir \in Directories, NEW k \in 1..Len(dir.extents), NEW q \in Nat,
           Boundary(dir, q), q < ExtentEnd(k)
    PROVE  OnRecord(q)
<1>1. WellFormed(dir) /\ Boundary(dir, ExtentEnd(k)) /\ ExtentEnd(k) \in Nat
  BY ExtentOf
<1>2. ExtentEnd(k) <= End(dir) /\ End(dir) \in Nat
  <2>1. CASE ExtentEnd(k) = End(dir)
    BY <1>1, <2>1
  <2>2. ASSUME NEW j \in DOMAIN dir.recs, dir.recs[j].at = ExtentEnd(k)
        PROVE  ExtentEnd(k) <= End(dir) /\ End(dir) \in Nat
    BY <1>1, <2>2, LastRecord, RecordOf
  <2> QED
    BY <1>1, <2>1, <2>2 DEF Boundary
<1>3. PICK j \in DOMAIN dir.recs : dir.recs[j].at = q
  BY <1>1, <1>2 DEF Boundary
<1>4. dir.recs[j] \in Recs(dir)
  BY <1>1, RecordOf
<1> QED
  BY <1>3, <1>4 DEF OnRecord

LEMMA RecordIsBoundary == ASSUME NEW q, OnRecord(q) PROVE Boundary(dir, q)
  BY DEF OnRecord, Boundary, Recs, Range

(* A record of the extent: it fits, and behind it the extent goes on or    *)
(* ends.                                                                   *)
LEMMA RecordInExtent ==
    ASSUME dir \in Directories, NEW k \in 1..Len(dir.extents), NEW j \in DOMAIN dir.recs,
           dir.extents[k] <= dir.recs[j].at, dir.recs[j].at < ExtentEnd(k)
    PROVE  /\ InExtent(dir, k, j)
           /\ dir.recs[j].at + dir.recs[j].len <= ExtentEnd(k)
           /\ Boundary(dir, dir.recs[j].at + dir.recs[j].len)
<1>1. WellFormed(dir) /\ Boundary(dir, ExtentEnd(k)) /\ Len(dir.extents) \in Nat
  BY ExtentOf
<1>2. InExtent(dir, k, j)
  BY DEF InExtent, ExtentEnd
<1> QED
  BY <1>1, <1>2, Fits, NextBoundary

(* The parser may leave an extent where no name follows in it.             *)
NoneLeft(k, q) ==
    \A l \in DOMAIN dir.recs :
        q <= dir.recs[l].at /\ dir.recs[l].at < ExtentEnd(k) => ~IsLive(dir.recs[l])

LEMMA LeaveExtent ==
    ASSUME dir \in Directories, NEW k \in 1..Len(dir.extents), NEW q \in Nat,
           q <= ExtentEnd(k), NoneLeft(k, q)
    PROVE  LiveBefore(dir, ExtentEnd(k)) = LiveBefore(dir, q)
<1>1. WellFormed(dir) /\ ExtentEnd(k) \in Nat
  BY ExtentOf
<1>2. \A l \in DOMAIN dir.recs : dir.recs[l].at \in Nat
  BY <1>1, RecordOf
<1>3. \A l \in DOMAIN dir.recs :
         IsLive(dir.recs[l]) => (dir.recs[l].at < q <=> dir.recs[l].at < ExtentEnd(k))
  BY <1>1, <1>2 DEF NoneLeft
<1> QED
  BY <1>3 DEF LiveBefore

(* A block that was not written yet: Sound says that no name follows.      *)
LEMMA NoneLeftZero ==
    ASSUME dir \in Directories, Sound(dir), NEW k \in 1..Len(dir.extents),
           NEW j \in DOMAIN dir.recs, dir.recs[j].kind = "zero",
           dir.extents[k] <= dir.recs[j].at, dir.recs[j].at < ExtentEnd(k)
    PROVE  NoneLeft(k, dir.recs[j].at)
<1>1. WellFormed(dir) /\ dir.extents \in Seq(Nat)
  BY DirAssumption, Zenon DEF WellFormed
<1>2. k \in DOMAIN dir.extents /\ dir.extents[k] \in Nat
  BY <1>1
<1> SUFFICES ASSUME NEW l \in DOMAIN dir.recs,
                    dir.recs[j].at <= dir.recs[l].at, dir.recs[l].at < ExtentEnd(k)
             PROVE  ~IsLive(dir.recs[l])
  BY DEF NoneLeft
<1>3. /\ j \in Nat /\ dir.recs[j].at \in Nat /\ l \in 1..Len(dir.recs) /\ Len(dir.recs) \in Nat
      /\ dir.recs[l].at \in Nat /\ dir.recs[l].len \in Nat /\ dir.recs[l].len >= 8
  BY <1>1, RecordOf
<1>4. ~(l < j)
  <2> SUFFICES ASSUME l < j PROVE FALSE
    OBVIOUS
  <2>1. dir.recs[l].at + dir.recs[l].len <= dir.recs[j].at
    BY <1>1, Later
  <2> QED
    BY <1>3, <2>1
<1>5. l \in j..Len(dir.recs)
  BY <1>3, <1>4
<1>6. dir.extents[k] <= dir.recs[l].at
  BY <1>2, <1>3
<1>7. InExtent(dir, k, j) /\ InExtent(dir, k, l)
  BY <1>6, RecordInExtent
<1> QED
  BY <1>2, <1>5, <1>7 DEF Sound

(* Behind the index at the end of a block there is nothing.                *)
LEMMA NoneLeftLeaf ==
    ASSUME dir \in Directories, dir.fs = "xfs", NEW k \in 1..Len(dir.extents),
           NEW j \in DOMAIN dir.recs, dir.recs[j].kind = "leaf"
    PROVE  NoneLeft(k, dir.recs[j].at)
<1>1. WellFormed(dir)
  BY DirAssumption
<1> SUFFICES ASSUME NEW l \in DOMAIN dir.recs, dir.recs[j].at <= dir.recs[l].at
             PROVE  ~IsLive(dir.recs[l])
  BY DEF NoneLeft
<1>2. /\ j \in 1..Len(dir.recs) /\ l \in 1..Len(dir.recs) /\ Len(dir.recs) \in Nat
      /\ dir.recs[j].at \in Nat
      /\ dir.recs[l].at \in Nat /\ dir.recs[l].len \in Nat /\ dir.recs[l].len >= 8
  BY <1>1, RecordOf
<1>3. BlockForm(dir) \/ DataForm(dir)
  BY <1>1, Zenon DEF WellFormed
<1>4. BlockForm(dir)
  BY <1>3 DEF DataForm
<1>5. j = Len(dir.recs)
  BY <1>2, <1>4 DEF BlockForm
<1>6. l = j
  <2> SUFFICES ASSUME l < j PROVE FALSE
    BY <1>2, <1>5
  <2>1. dir.recs[l].at + dir.recs[l].len <= dir.recs[j].at
    BY <1>1, Later
  <2> QED
    BY <1>2, <2>1
<1> QED
  BY <1>6 DEF IsLive

(* An extent of xfs that starts with no header has no names.               *)
LEMMA NoneLeftOther ==
    ASSUME dir \in Directories, dir.fs = "xfs", Sound(dir), NEW k \in 1..Len(dir.extents),
           NEW j \in DOMAIN dir.recs, dir.recs[j].at = dir.extents[k],
           dir.recs[j].kind \notin DOMAIN HdrLen
    PROVE  NoneLeft(k, dir.recs[j].at)
<1>1. WellFormed(dir) /\ dir.extents[k] < ExtentEnd(k) /\ dir.extents[k] \in Nat
  BY ExtentOf
<1>2. DOMAIN HdrLen = {"XD2B", "XD2D", "XDB3", "XDD3"}
  BY DEF HdrLen
<1>3. /\ dir.recs[1].at = 0 /\ dir.extents[1] = 0 /\ dir.extents \in Seq(Nat)
      /\ BlockForm(dir) \/ DataForm(dir)
  BY <1>1, Zenon DEF WellFormed
<1>4. k \in DOMAIN dir.extents
  BY <1>3
<1>5. DataForm(dir)
  <2> SUFFICES ASSUME BlockForm(dir) PROVE FALSE
    BY <1>3
  <2>1. k = 1 /\ dir.recs[1].kind \in DOMAIN HdrLen
    BY <1>2 DEF BlockForm
  <2>2. j \in 1..Len(dir.recs) /\ Len(dir.recs) \in Nat /\ j # 1 /\ 1 \in DOMAIN dir.recs
    BY <1>1, <2>1, RecordOf
  <2>3. dir.recs[1].at + dir.recs[1].len <= dir.recs[j].at
    BY <1>1, <2>2, Later
  <2> QED
    BY <1>1, <1>3, <2>1, <2>2, <2>3, RecordOf
<1>6. dir.recs[j].kind \in {"zero", "index"}
  BY <1>2, <1>4, <1>5 DEF DataForm
<1>7. CASE dir.recs[j].kind = "zero"
  BY <1>1, <1>7, NoneLeftZero
<1>8. CASE dir.recs[j].kind = "index"
  <2> SUFFICES ASSUME NEW l \in DOMAIN dir.recs,
                      dir.recs[j].at <= dir.recs[l].at, dir.recs[l].at < ExtentEnd(k)
               PROVE  ~IsLive(dir.recs[l])
    BY DEF NoneLeft
  <2>1. InExtent(dir, k, l)
    BY RecordInExtent
  <2>2. dir.recs[l].kind = "index"
    BY <1>4, <1>5, <1>8, <2>1 DEF DataForm
  <2> QED
    BY <2>2 DEF IsLive
<1> QED
  BY <1>6, <1>7, <1>8

(* At the end of the loops no entry fits any more.                         *)
LEMMA NoneLeftEnd ==
    ASSUME dir \in Directories, NEW k \in 1..Len(dir.extents), NEW q \in Nat,
           \/ dir.fs = "ext" /\ ~(q < ExtentEnd(k) - 8)
           \/ dir.fs = "xfs" /\ ~(q < ExtentEnd(k) - 9)
    PROVE  NoneLeft(k, q)
<1>1. WellFormed(dir) /\ ExtentEnd(k) \in Nat /\ Boundary(dir, ExtentEnd(k))
  BY ExtentOf
<1> SUFFICES ASSUME NEW l \in DOMAIN dir.recs, q <= dir.recs[l].at,
                    dir.recs[l].at < ExtentEnd(k), IsLive(dir.recs[l])
             PROVE  FALSE
  BY DEF NoneLeft
<1>2. dir.recs[l].at + dir.recs[l].len <= ExtentEnd(k)
  BY <1>1, Fits
<1>3. dir.recs[l] \in Recs(dir) /\ dir.recs[l].at \in Nat /\ dir.recs[l].len \in Nat
  BY <1>1, RecordOf
<1>4. CASE dir.fs = "ext"
  <2>1. dir.recs[l].len >= 12
    BY <1>1, <1>3, <1>4 DEF WellFormed
  <2> QED
    BY <1>1, <1>2, <1>3, <1>4, <2>1
<1>5. CASE dir.fs = "xfs"
  <2>1. dir.recs[l].kind = "entry"
    BY DEF IsLive
  <2>2. /\ dir.recs[l].name \in DOMAIN LenOf /\ dir.ftype \in BOOLEAN
        /\ dir.recs[l].len = XfsSize(dir.recs[l].name, dir.ftype)
    BY <1>1, <1>3, <1>5, <2>1, Zenon DEF WellFormed
  <2>3. dir.recs[l].len >= 16
    BY <2>2, EntrySize
  <2> QED
    BY <1>1, <1>2, <1>3, <1>5, <2>3
<1> QED
  BY <1>4, <1>5

-----------------------------------------------------------------------------
(* The invariant                                                           *)

Found == Names \union {"junk"}

Typed ==
    /\ dir \in Directories
    /\ pc \in {"extent", "walk", "done"}
    /\ i \in 1..(Len(dir.extents) + 1)
    /\ p \in Nat
    /\ multiblock \in BOOLEAN
    /\ files \in Seq(Found)
    /\ pc = "walk" => i <= Len(dir.extents)
    /\ pc = "done" => i > Len(dir.extents)

(* The parser is at a boundary of its extent.  That of ext always is.      *)
Placed ==
    pc = "walk" /\ Traced(dir) =>
        Boundary(dir, p) /\ dir.extents[i] <= p /\ p <= ExtentEnd(i)

(* Up to where the dump has been parsed, and what has been found there.    *)
Done ==
    IF pc = "walk" THEN p
    ELSE IF i <= Len(dir.extents) THEN dir.extents[i] ELSE End(dir)

Collected == Sound(dir) => NamesOf(files, dir, LiveBefore(dir, Done))

IInv == Typed /\ Placed /\ Collected

(* The position in an extent, from the type invariant.                     *)
LEMMA InWalk ==
    ASSUME Typed
    PROVE  /\ dir \in Directories /\ WellFormed(dir) /\ Len(dir.extents) \in Nat
           /\ i \in Nat /\ (i <= Len(dir.extents) => i \in 1..Len(dir.extents))
<1>1. dir \in Directories /\ WellFormed(dir)
  BY DirAssumption DEF Typed
<1>2. dir.extents \in Seq(Nat)
  BY <1>1, Zenon DEF WellFormed
<1> QED
  BY <1>1, <1>2 DEF Typed

LEMMA NameOfEntry ==
    ASSUME dir \in Directories, NEW r \in Recs(dir), r.kind = "entry"
    PROVE  /\ r.name \in DOMAIN LenOf
           /\ Visible(r) = IF IsLive(r) THEN <<r.name>> ELSE <<>>
           /\ IsLive(r) => r.name \in Names
           /\ Visible(r) \in Seq(Found)
<1>1. r.name \in DOMAIN LenOf
  BY DirAssumption, Zenon DEF WellFormed
<1>2. r.name \in Names \union {".", ".."}
  BY <1>1 DEF LenOf
<1>3. Visible(r) = IF IsLive(r) THEN <<r.name>> ELSE <<>>
  BY DEF Visible, IsLive
<1>4. IsLive(r) => r.name \in Names
  BY <1>2 DEF IsLive
<1>5. Visible(r) \in Seq(Found)
  <2>1. CASE IsLive(r)
    <3>1. r.name \in Found
      BY <1>4, <2>1 DEF Found
    <3>2. Visible(r) = <<r.name>>
      BY <1>3, <2>1
    <3> QED
      BY <3>1, <3>2
  <2>2. CASE ~IsLive(r)
    BY <1>3, <2>2
  <2> QED
    BY <2>1, <2>2
<1> QED
  BY <1>1, <1>3, <1>4, <1>5

(* The names found grow by that of the record that is passed.              *)
LEMMA Grow ==
    ASSUME Typed, NEW j \in DOMAIN dir.recs,
           NamesOf(files, dir, LiveBefore(dir, dir.recs[j].at))
    PROVE  NamesOf(files \o (IF IsLive(dir.recs[j]) THEN <<dir.recs[j].name>> ELSE <<>>), dir,
                   LiveBefore(dir, dir.recs[j].at + dir.recs[j].len))
<1> DEFINE K == LiveBefore(dir, dir.recs[j].at)
<1>1. WellFormed(dir) /\ dir \in Directories /\ files \in Seq(Found)
  BY InWalk DEF Typed
<1>2. j \in Nat /\ dir.recs[j] \in Recs(dir)
  BY <1>1, RecordOf
<1>3. /\ LiveBefore(dir, dir.recs[j].at + dir.recs[j].len)
            = IF IsLive(dir.recs[j]) THEN K \union {j} ELSE K
      /\ K \subseteq Nat /\ \A x \in K : x < j
  BY <1>1, LiveStep, Zenon
<1> HIDE DEF K
<1>4. CASE IsLive(dir.recs[j])
  <2>1. dir.recs[j].name \in Found
    BY <1>1, <1>2, <1>4, NameOfEntry DEF IsLive, Found
  <2>2. NamesOf(files, dir, K)
    BY DEF K
  <2>3. NamesOf(files \o <<dir.recs[j].name>>, dir, K \union {j})
    BY <1>1, <1>2, <1>3, <2>1, <2>2, NamesAppend, Zenon
  <2> QED
    BY <1>3, <1>4, <2>3
<1>5. CASE ~IsLive(dir.recs[j])
  <2>1. files \o <<>> = files
    BY <1>1
  <2> QED
    BY <1>3, <1>5, <2>1 DEF K
<1> QED
  BY <1>4, <1>5

(* A parser returns.                                                       *)
LEMMA ReturnTyped ==
    ASSUME Typed, i <= Len(dir.extents), Return
    PROVE  Typed' /\ Placed'
<1>1. i + 1 \in 1..(Len(dir.extents) + 1)
  BY InWalk DEF Typed
<1> QED
  BY <1>1 DEF Return, Typed, Placed

LEMMA ReturnCollects ==
    ASSUME Typed, Collected, i <= Len(dir.extents), Return,
           Sound(dir) => Done \in Nat /\ Done <= ExtentEnd(i) /\ NoneLeft(i, Done)
    PROVE  Collected'
<1> SUFFICES ASSUME Sound(dir) PROVE NamesOf(files', dir', LiveBefore(dir', Done'))
  BY DEF Collected, Return
<1>1. i \in 1..Len(dir.extents) /\ dir \in Directories
  BY InWalk
<1>2. Done' = ExtentEnd(i)
  <2>1. ExtentEnd(i) = IF i + 1 <= Len(dir.extents) THEN dir.extents[i + 1] ELSE End(dir)
    BY <1>1, ExtentOf
  <2> QED
    BY <2>1 DEF Return, Done
<1>3. LiveBefore(dir, ExtentEnd(i)) = LiveBefore(dir, Done)
  BY <1>1, LeaveExtent
<1> QED
  BY <1>2, <1>3 DEF Collected, Return

(* A parser goes on.                                                       *)
LEMMA AdvanceTyped ==
    ASSUME Typed, i <= Len(dir.extents), NEW q \in Nat, NEW found \in Seq(Found),
           Advance(q, found), multiblock' \in BOOLEAN
    PROVE  Typed'
<1>1. files \o found \in Seq(Found)
  BY DEF Typed
<1> QED
  BY <1>1 DEF Typed, Advance

(* It passes record j of the extent.                                       *)
LEMMA AdvancePlaced ==
    ASSUME Typed, i <= Len(dir.extents), NEW j \in DOMAIN dir.recs, NEW found,
           dir.extents[i] <= dir.recs[j].at, dir.recs[j].at < ExtentEnd(i),
           Advance(dir.recs[j].at + dir.recs[j].len, found)
    PROVE  Placed'
<1> DEFINE q == dir.recs[j].at + dir.recs[j].len
<1>1. i \in 1..Len(dir.extents) /\ dir \in Directories /\ WellFormed(dir)
  BY InWalk
<1>2. q <= ExtentEnd(i) /\ Boundary(dir, q)
  BY <1>1, RecordInExtent
<1>3. dir.extents[i] <= q
  <2>1. dir.extents[i] \in Nat
    BY <1>1, ExtentOf
  <2>2. dir.recs[j].at \in Nat /\ dir.recs[j].len \in Nat
    BY <1>1, RecordOf
  <2> QED
    BY <2>1, <2>2
<1>4. p' = q /\ dir' = dir /\ i' = i
  BY DEF Advance
<1> HIDE DEF q
<1> QED
  BY <1>2, <1>3, <1>4 DEF Placed, ExtentEnd

LEMMA AdvanceCollects ==
    ASSUME Typed, Collected, i <= Len(dir.extents), NEW j \in DOMAIN dir.recs, NEW found,
           Done = dir.recs[j].at,
           found = IF IsLive(dir.recs[j]) THEN <<dir.recs[j].name>> ELSE <<>>,
           Advance(dir.recs[j].at + dir.recs[j].len, found)
    PROVE  Collected'
<1> DEFINE q == dir.recs[j].at + dir.recs[j].len
<1>1. pc' = "walk" /\ p' = q /\ dir' = dir /\ files' = files \o found
  BY DEF Advance
<1>2. Done' = q
  BY <1>1 DEF Done
<1>3. Sound(dir) => NamesOf(files \o found, dir, LiveBefore(dir, q))
  BY Grow, Zenon DEF Collected
<1> HIDE DEF q
<1> QED
  BY <1>1, <1>2, <1>3 DEF Collected

-----------------------------------------------------------------------------
(* parse_ext2_dir                                                          *)

LEMMA ParseExtKeeps == ASSUME IInv, ParseExt PROVE IInv'
<1>1. Typed /\ Placed /\ Collected /\ i <= Len(dir.extents)
  BY DEF IInv, ParseExt
<1>2. i \in 1..Len(dir.extents) /\ dir \in Directories
  BY <1>1, InWalk
<1>3. dir.extents[i] \in Nat /\ dir.extents[i] < ExtentEnd(i) /\ Boundary(dir, dir.extents[i])
  BY <1>2, ExtentOf, Zenon DEF Boundary
<1>4. Advance(dir.extents[i], <<>>) /\ multiblock' = multiblock
  BY DEF ParseExt
<1>5. Typed'
  <2>1. multiblock' \in BOOLEAN /\ <<>> \in Seq(Found)
    BY <1>1, <1>4 DEF Typed
  <2> QED
    BY <1>1, <1>3, <1>4, <2>1, AdvanceTyped, Zenon
<1>6. p' = dir.extents[i] /\ dir' = dir /\ i' = i /\ pc' = "walk" /\ files' = files
  BY <1>1, <1>4 DEF Advance, Typed
<1>7. Placed'
  BY <1>2, <1>3, <1>6, ExtentOf DEF Placed, ExtentEnd
<1>8. Done' = Done
  BY <1>1, <1>6 DEF Done, ParseExt
<1>9. Collected'
  BY <1>1, <1>6, <1>8 DEF Collected
<1> QED
  BY <1>5, <1>7, <1>9 DEF IInv

(* The record at which the parser of ext is.                               *)
LEMMA ExtAt ==
    ASSUME IInv, pc = "walk", dir.fs = "ext", ExtMore
    PROVE  \E j \in DOMAIN dir.recs :
              /\ RecAt(p) = dir.recs[j] /\ dir.recs[j].at = p
              /\ dir.extents[i] <= p /\ p < ExtentEnd(i)
<1>1. Typed /\ Placed /\ i <= Len(dir.extents) /\ p \in Nat
  BY DEF IInv, Typed
<1>2. i \in 1..Len(dir.extents) /\ dir \in Directories
  BY <1>1, InWalk
<1>3. p < ExtentEnd(i)
  BY <1>1, <1>2, ExtentOf DEF ExtMore
<1>4. Boundary(dir, p) /\ dir.extents[i] <= p
  BY <1>1 DEF Placed, Traced
<1>5. OnRecord(p)
  BY <1>1, <1>2, <1>3, <1>4, BoundaryIsRecord
<1> QED
  BY <1>2, <1>3, <1>4, <1>5, AtRecord

LEMMA ExtTurnKeeps == ASSUME IInv, ExtTurn PROVE IInv'
<1>1. /\ Typed /\ Placed /\ Collected /\ i <= Len(dir.extents) /\ pc = "walk" /\ dir.fs = "ext"
      /\ ExtMore /\ dir \in Directories
  BY DEF IInv, ExtTurn, Typed
<1>2. PICK j \in DOMAIN dir.recs :
              /\ RecAt(p) = dir.recs[j] /\ dir.recs[j].at = p
              /\ dir.extents[i] <= p /\ p < ExtentEnd(i)
  BY <1>1, ExtAt
<1> DEFINE r == dir.recs[j]
           found == IF r.kind = "entry" THEN Visible(r) ELSE <<>>
<1>3. Advance(r.at + r.len, found) /\ multiblock' = multiblock
  BY <1>2 DEF ExtTurn
<1>4. r \in Recs(dir) /\ r.at \in Nat /\ r.len \in Nat
  BY <1>1, InWalk, RecordOf
<1>5. found = IF IsLive(r) THEN <<r.name>> ELSE <<>>
  BY <1>1, <1>4, NameOfEntry DEF IsLive
<1>6. found \in Seq(Found)
  BY <1>1, <1>4, NameOfEntry
<1> HIDE DEF found
<1>7. Typed'
  <2>1. r.at + r.len \in Nat /\ multiblock' \in BOOLEAN
    BY <1>1, <1>3, <1>4 DEF Typed
  <2> QED
    BY <1>1, <1>3, <1>6, <2>1, AdvanceTyped
<1>8. Placed'
  BY <1>1, <1>2, <1>3, AdvancePlaced, Zenon
<1>9. Collected'
  BY <1>1, <1>2, <1>3, <1>5, AdvanceCollects DEF Done
<1> QED
  BY <1>7, <1>8, <1>9 DEF IInv

LEMMA ExtEndsKeeps == ASSUME IInv, ExtEnds PROVE IInv'
<1>1. /\ Typed /\ Placed /\ Collected /\ i <= Len(dir.extents) /\ pc = "walk" /\ dir.fs = "ext"
      /\ Return /\ (ExtMore => ExtStops(RecAt(p))) /\ p \in Nat
  BY DEF IInv, ExtEnds, Typed
<1>2. i \in 1..Len(dir.extents) /\ dir \in Directories /\ WellFormed(dir)
  BY <1>1, InWalk
<1>3. Done = p /\ p <= ExtentEnd(i)
  BY <1>1 DEF Done, Placed, Traced
<1>4. ASSUME Sound(dir) PROVE NoneLeft(i, p)
  <2>1. CASE ~ExtMore
    BY <1>1, <1>2, <2>1, NoneLeftEnd DEF ExtMore
  <2>2. CASE ExtMore
    <3>1. PICK j \in DOMAIN dir.recs :
              /\ RecAt(p) = dir.recs[j] /\ dir.recs[j].at = p
              /\ dir.extents[i] <= p /\ p < ExtentEnd(i)
      BY <1>1, <2>2, ExtAt
    <3> DEFINE r == dir.recs[j]
    <3>2. r \in Recs(dir) /\ r.len \in Nat
      BY <1>2, RecordOf
    <3>3. p + r.len <= ExtentEnd(i)
      BY <1>2, <3>1, RecordInExtent
    <3>4. r.len # 65536
      BY <1>1, <1>4, <3>2 DEF Sound
    <3>5. /\ r.len % 4 = 0 /\ r.len >= 12
          /\ r.kind = "entry" => LenOf[r.name] + 8 <= r.len /\ r.name \in DOMAIN LenOf
      BY <1>1, <1>2, <3>2, Zenon DEF WellFormed
    <3>6. ExtStops(r)
      BY <1>1, <2>2, <3>1
    <3>7. ExtentEnd(i) \in Nat
      BY <1>2, ExtentOf
    <3>8. r.kind = "zero"
      BY <1>1, <3>2, <3>3, <3>4, <3>5, <3>6, <3>7, NameLengths DEF ExtStops
    <3> QED
      BY <1>2, <1>4, <3>1, <3>8, NoneLeftZero
  <2> QED
    BY <2>1, <2>2
<1>5. Typed' /\ Placed'
  BY <1>1, ReturnTyped
<1>6. Collected'
  BY <1>1, <1>3, <1>4, ReturnCollects
<1> QED
  BY <1>5, <1>6 DEF IInv

-----------------------------------------------------------------------------
(* parse_xfs_dir                                                           *)

(* The record at the start of an extent.                                   *)
LEMMA FirstOfExtent ==
    ASSUME IInv, i <= Len(dir.extents)
    PROVE  \E j \in DOMAIN dir.recs :
              /\ RecAt(dir.extents[i]) = dir.recs[j] /\ dir.recs[j].at = dir.extents[i]
<1>1. i \in 1..Len(dir.extents) /\ dir \in Directories /\ WellFormed(dir)
  BY InWalk DEF IInv
<1>2. PICK j \in DOMAIN dir.recs : dir.recs[j].at = dir.extents[i]
  BY <1>1, ExtentOf, Zenon
<1>3. dir.recs[j] \in Recs(dir)
  BY <1>1, RecordOf
<1>4. OnRecord(dir.extents[i])
  BY <1>2, <1>3 DEF OnRecord
<1> QED
  BY <1>1, <1>4, AtRecord

LEMMA ParseXfsKeeps == ASSUME IInv, ParseXfs PROVE IInv'
<1>1. /\ Typed /\ Collected /\ i <= Len(dir.extents) /\ pc = "extent"
  BY DEF IInv, ParseXfs
<1>2. i \in 1..Len(dir.extents) /\ dir \in Directories /\ WellFormed(dir)
  BY <1>1, InWalk
<1>3. PICK j \in DOMAIN dir.recs :
          RecAt(dir.extents[i]) = dir.recs[j] /\ dir.recs[j].at = dir.extents[i]
  BY <1>1, FirstOfExtent
<1> DEFINE r == dir.recs[j]
<1>4. /\ r.kind \in DOMAIN HdrLen /\ Advance(r.at + HdrLen[r.kind], <<>>)
      /\ multiblock' = (r.kind \in {"XD2D", "XDD3"})
  BY <1>3 DEF ParseXfs
<1>5. r \in Recs(dir) /\ r.at \in Nat /\ r.len \in Nat
  BY <1>2, RecordOf
<1>6. Advance(r.at + r.len, <<>>)
  <2>1. HdrLen[r.kind] = r.len
    BY <1>2, <1>4, <1>5, Zenon DEF WellFormed
  <2> QED
    BY <1>4, <2>1
<1>7. r.kind # "entry"
  BY <1>4 DEF HdrLen
<1>8. Typed'
  <2>1. r.at + r.len \in Nat /\ <<>> \in Seq(Found) /\ multiblock' \in BOOLEAN
    BY <1>4, <1>5
  <2> QED
    BY <1>1, <1>6, <2>1, AdvanceTyped, Zenon
<1>9. Placed'
  <2>1. dir.extents[i] <= r.at /\ r.at < ExtentEnd(i)
    BY <1>2, <1>3, ExtentOf
  <2> QED
    BY <1>1, <1>6, <2>1, AdvancePlaced, Zenon
<1>10. Collected'
  <2>1. Done = r.at
    BY <1>1, <1>3 DEF Done
  <2>2. <<>> = IF IsLive(r) THEN <<r.name>> ELSE <<>>
    BY <1>7 DEF IsLive
  <2> QED
    BY <1>1, <1>6, <2>1, <2>2, AdvanceCollects, Zenon
<1> QED
  BY <1>8, <1>9, <1>10 DEF IInv

LEMMA ParseXfsOtherKeeps == ASSUME IInv, ParseXfsOther PROVE IInv'
<1>1. /\ Typed /\ Collected /\ i <= Len(dir.extents) /\ pc = "extent" /\ dir.fs = "xfs"
      /\ Return /\ RecAt(dir.extents[i]).kind \notin DOMAIN HdrLen
  BY DEF IInv, ParseXfsOther
<1>2. i \in 1..Len(dir.extents) /\ dir \in Directories
  BY <1>1, InWalk
<1>3. PICK j \in DOMAIN dir.recs :
          RecAt(dir.extents[i]) = dir.recs[j] /\ dir.recs[j].at = dir.extents[i]
  BY <1>1, FirstOfExtent
<1>4. Done = dir.recs[j].at
  BY <1>1, <1>3 DEF Done
<1>5. Done \in Nat /\ Done <= ExtentEnd(i)
  BY <1>2, <1>3, <1>4, ExtentOf
<1>6. Sound(dir) => NoneLeft(i, Done)
  BY <1>1, <1>2, <1>3, <1>4, NoneLeftOther, Zenon
<1>7. Typed' /\ Placed'
  BY <1>1, ReturnTyped
<1>8. Collected'
  BY <1>1, <1>5, <1>6, ReturnCollects
<1> QED
  BY <1>7, <1>8 DEF IInv

(* On a dump that is not Sound only the types are kept.                    *)
LEMMA Unsound ==
    ASSUME Typed', dir' = dir, dir.fs = "xfs", ~Sound(dir)
    PROVE  IInv'
  BY DEF IInv, Placed, Collected, Traced

LEMMA XfsTurnKeeps == ASSUME IInv, XfsTurn PROVE IInv'
<1>1. /\ Typed /\ Placed /\ Collected /\ i <= Len(dir.extents) /\ pc = "walk" /\ dir.fs = "xfs"
      /\ XfsMore /\ OnRecord(p) /\ p \in Nat
  BY DEF IInv, XfsTurn, Typed
<1>2. i \in 1..Len(dir.extents) /\ dir \in Directories /\ WellFormed(dir)
  BY <1>1, InWalk
<1>3. PICK j \in DOMAIN dir.recs : RecAt(p) = dir.recs[j] /\ dir.recs[j].at = p
  BY <1>1, <1>2, AtRecord
<1> DEFINE r == dir.recs[j]
<1>4. r \in Recs(dir) /\ r.at \in Nat /\ r.len \in Nat /\ r.at = p
  BY <1>2, <1>3, RecordOf
<1>5. ASSUME NEW size \in Nat, NEW found \in Seq(Found), Advance(p + size, found),
             multiblock' = multiblock, Sound(dir) => size = r.len,
             found = IF IsLive(r) THEN <<r.name>> ELSE <<>>
      PROVE  IInv'
  <2>1. Typed'
    <3>1. p + size \in Nat /\ multiblock' \in BOOLEAN
      BY <1>1, <1>5 DEF Typed
    <3> QED
      BY <1>1, <1>5, <3>1, AdvanceTyped, Zenon
  <2>2. CASE ~Sound(dir)
    <3>1. dir' = dir
      BY <1>5 DEF Advance
    <3> QED
      BY <1>1, <2>1, <2>2, <3>1, Unsound
  <2>3. CASE Sound(dir)
    <3>1. Advance(r.at + r.len, found)
      BY <1>4, <1>5, <2>3
    <3>2. dir.extents[i] <= r.at /\ r.at < ExtentEnd(i)
      <4>1. dir.extents[i] <= p
        BY <1>1, <2>3 DEF Placed, Traced
      <4>2. p < ExtentEnd(i)
        BY <1>1, <1>2, ExtentOf DEF XfsMore
      <4> QED
        BY <1>4, <4>1, <4>2
    <3>3. Placed'
      BY <1>1, <3>1, <3>2, AdvancePlaced, Zenon
    <3>4. Done = r.at
      BY <1>1, <1>4 DEF Done
    <3>5. Collected'
      BY <1>1, <1>5, <3>1, <3>4, AdvanceCollects, Zenon
    <3> QED
      BY <2>1, <3>3, <3>5 DEF IInv
  <2> QED
    BY <2>2, <2>3
<1>6. multiblock' = multiblock
  BY DEF XfsTurn
<1>7. \/ r.kind \in {"XD2D", "XDD3"} /\ Advance(p + HdrLen[r.kind], <<>>)
      \/ r.kind = "free" /\ Advance(p + r.len, <<>>)
      \/ r.kind = "entry" /\ Advance(p + XfsEntrySize(r.name), Visible(r))
  BY <1>3 DEF XfsTurn
<1>8. r.kind # "entry" => <<>> = IF IsLive(r) THEN <<r.name>> ELSE <<>>
  BY DEF IsLive
<1>9. <<>> \in Seq(Found)
  OBVIOUS
<1>10. CASE r.kind \in {"XD2D", "XDD3"} /\ Advance(p + HdrLen[r.kind], <<>>)
  <2>1. r.kind \in DOMAIN HdrLen /\ r.kind # "entry"
    BY <1>10 DEF HdrLen
  <2>2. HdrLen[r.kind] = r.len
    BY <1>2, <1>4, <2>1, Zenon DEF WellFormed
  <2> QED
    BY <1>4, <1>5, <1>6, <1>8, <1>9, <1>10, <2>1, <2>2, Zenon
<1>11. CASE r.kind = "free" /\ Advance(p + r.len, <<>>)
  <2>1. r.kind # "entry"
    BY <1>11
  <2> QED
    BY <1>4, <1>5, <1>6, <1>8, <1>9, <1>11, <2>1, Zenon
<1>12. CASE r.kind = "entry" /\ Advance(p + XfsEntrySize(r.name), Visible(r))
  <2>1. /\ r.name \in DOMAIN LenOf /\ Visible(r) \in Seq(Found)
        /\ Visible(r) = IF IsLive(r) THEN <<r.name>> ELSE <<>>
    BY <1>2, <1>4, <1>12, NameOfEntry
  <2>2. dir.ftype \in BOOLEAN /\ r.len = XfsSize(r.name, dir.ftype)
    BY <1>1, <1>2, <1>4, <1>12, Zenon DEF WellFormed
  <2>3. XfsEntrySize(r.name) \in Nat
    BY <2>1, <2>2, EntrySize
  <2>4. Sound(dir) => XfsEntrySize(r.name) = r.len
    <3>1. Sound(dir) => dir.ftype \/ LenOf[r.name] % 8 # 5
      BY <1>1, <1>4, <1>12 DEF Sound
    <3> QED
      BY <2>1, <2>2, <3>1, EntrySize
  <2> QED
    BY <1>5, <1>6, <1>12, <2>1, <2>3, <2>4, Zenon
<1> QED
  BY <1>7, <1>10, <1>11, <1>12

LEMMA XfsEndsKeeps == ASSUME IInv, XfsEnds PROVE IInv'
<1>1. /\ Typed /\ Placed /\ Collected /\ i <= Len(dir.extents) /\ pc = "walk" /\ dir.fs = "xfs"
      /\ Return /\ (~XfsMore \/ (OnRecord(p) /\ RecAt(p).kind \in {"zero", "leaf"})) /\ p \in Nat
  BY DEF IInv, XfsEnds, Typed
<1>2. i \in 1..Len(dir.extents) /\ dir \in Directories
  BY <1>1, InWalk
<1>3. Done = p
  BY <1>1 DEF Done
<1>4. ASSUME Sound(dir) PROVE p <= ExtentEnd(i) /\ NoneLeft(i, p)
  <2>1. p <= ExtentEnd(i) /\ dir.extents[i] <= p
    BY <1>1, <1>4 DEF Placed, Traced
  <2>2. CASE ~XfsMore
    BY <1>1, <1>2, <2>1, <2>2, NoneLeftEnd DEF XfsMore
  <2>3. CASE XfsMore /\ OnRecord(p) /\ RecAt(p).kind \in {"zero", "leaf"}
    <3>1. PICK j \in DOMAIN dir.recs : RecAt(p) = dir.recs[j] /\ dir.recs[j].at = p
      BY <1>2, <2>3, AtRecord
    <3>2. p < ExtentEnd(i)
      BY <1>1, <1>2, <2>3, ExtentOf DEF XfsMore
    <3>3. CASE dir.recs[j].kind = "zero"
      BY <1>2, <1>4, <2>1, <3>1, <3>2, <3>3, NoneLeftZero
    <3>4. CASE dir.recs[j].kind = "leaf"
      BY <1>1, <1>2, <2>1, <3>1, <3>4, NoneLeftLeaf
    <3> QED
      BY <2>3, <3>1, <3>3, <3>4
  <2> QED
    BY <1>1, <2>2, <2>3
<1>5. Typed' /\ Placed'
  BY <1>1, ReturnTyped
<1>6. Collected'
  BY <1>1, <1>3, <1>4, ReturnCollects
<1> QED
  BY <1>5, <1>6 DEF IInv

(* On a Sound dump the parser is never lost.                               *)
LEMMA XfsLostKeeps == ASSUME IInv, XfsLost PROVE IInv'
<1>1. /\ Typed /\ Placed /\ i <= Len(dir.extents) /\ pc = "walk" /\ dir.fs = "xfs"
      /\ XfsMore /\ ~OnRecord(p) /\ p \in Nat /\ multiblock \in BOOLEAN
  BY DEF IInv, XfsLost, Typed
<1>2. i \in 1..Len(dir.extents) /\ dir \in Directories
  BY <1>1, InWalk
<1>3. ExtentEnd(i) \in Nat
  BY <1>2, ExtentOf
<1>4. ~Sound(dir)
  <2> SUFFICES ASSUME Sound(dir) PROVE FALSE
    OBVIOUS
  <2>1. Boundary(dir, p) /\ p < ExtentEnd(i)
    BY <1>1, <1>3 DEF Placed, Traced, XfsMore
  <2> QED
    BY <1>1, <1>2, <2>1, BoundaryIsRecord
<1>5. CASE Return
  <2>1. Typed' /\ dir' = dir
    BY <1>1, <1>5, ReturnTyped DEF Return
  <2> QED
    BY <1>1, <1>4, <2>1, Unsound
<1>6. ASSUME NEW q \in p..(ExtentEnd(i) + 8), NEW found \in {<<>>, <<"junk">>},
             Advance(q, found), multiblock' = multiblock
      PROVE  IInv'
  <2>1. q \in Nat
    BY <1>1, <1>3
  <2>2. found \in Seq(Found)
    <3>1. <<>> \in Seq(Found)
      OBVIOUS
    <3>2. "junk" \in Found
      BY DEF Found
    <3>3. <<"junk">> \in Seq(Found)
      BY <3>2
    <3> QED
      BY <3>1, <3>3, Zenon
  <2>3. Typed'
    BY <1>1, <1>6, <2>1, <2>2, AdvanceTyped, Zenon
  <2>4. dir' = dir
    BY <1>6 DEF Advance
  <2> QED
    BY <1>1, <1>4, <2>3, <2>4, Unsound
<1> QED
  BY <1>5, <1>6 DEF XfsLost

-----------------------------------------------------------------------------
(* Theorems                                                                *)

LEMMA InitInv == Init => IInv
<1> SUFFICES ASSUME Init PROVE IInv
  OBVIOUS
<1>1. dir \in Directories /\ pc = "extent" /\ i = 1 /\ files = <<>>
  BY DEF Init
<1>2. WellFormed(dir)
  BY <1>1, DirAssumption
<1>3. dir.extents \in Seq(Nat) /\ dir.extents # <<>> /\ dir.extents[1] = 0
  BY <1>2, Zenon DEF WellFormed
<1>4. Typed /\ Placed
  <2>1. i \in 1..(Len(dir.extents) + 1)
    BY <1>1, <1>3
  <2>2. files \in Seq(Found)
    BY <1>1
  <2>3. p \in Nat /\ multiblock \in BOOLEAN
    BY Zenon DEF Init
  <2> QED
    BY <1>1, <2>1, <2>2, <2>3 DEF Typed, Placed
<1>5. Done = 0
  BY <1>1, <1>3 DEF Done
<1>6. LiveBefore(dir, 0) = {}
  BY <1>2, RecordOf DEF LiveBefore
<1>7. NamesOf(<<>>, dir, {})
  <2>1. 1..Len(<<>>) = {}
    OBVIOUS
  <2> DEFINE e == [a \in 1..Len(<<>>) |-> 0]
  <2>2. e \in [1..Len(<<>>) -> {}]
    BY <2>1
  <2>3. \A a \in 1..Len(<<>>) : FALSE
    BY <2>1
  <2> HIDE DEF e
  <2> QED
    BY <2>2, <2>3, Zenon DEF NamesOf
<1> QED
  BY <1>1, <1>4, <1>5, <1>6, <1>7 DEF IInv, Collected

LEMMA StepInv == IInv /\ [Next]_vars => IInv'
<1> SUFFICES ASSUME IInv, [Next]_vars PROVE IInv'
  OBVIOUS
<1>1. CASE AllParsed
  <2>1. /\ dir' = dir /\ i' = i /\ p' = p /\ files' = files /\ multiblock' = multiblock
        /\ pc' = "done" /\ pc = "extent" /\ i > Len(dir.extents)
    BY <1>1 DEF AllParsed
  <2>2. Len(dir.extents) \in Nat /\ i \in Nat
    BY InWalk DEF IInv
  <2>3. Done' = Done
    BY <2>1, <2>2 DEF Done
  <2>4. Typed' /\ Placed'
    BY <2>1 DEF IInv, Typed, Placed
  <2> QED
    BY <2>1, <2>3, <2>4 DEF IInv, Collected
<1>2. CASE ParseExt \/ ExtTurn \/ ExtEnds
  BY <1>2, ParseExtKeeps, ExtTurnKeeps, ExtEndsKeeps
<1>3. CASE ParseXfs \/ ParseXfsOther \/ XfsTurn \/ XfsEnds \/ XfsLost
  BY <1>3, ParseXfsKeeps, ParseXfsOtherKeeps, XfsTurnKeeps, XfsEndsKeeps, XfsLostKeeps
<1>4. CASE UNCHANGED vars
  BY <1>4 DEF vars, IInv, Typed, Placed, Collected, Done, ExtentEnd
<1> QED
  BY <1>1, <1>2, <1>3, <1>4 DEF Next, Parser, Finished

LEMMA SpecInv == Spec => []IInv
  BY InitInv, StepInv, PTL DEF Spec

(* The position, the extent and the names found have their types on every  *)
(* dump, also where a parser of xfs has lost its place.                    *)
THEOREM TypeCorrect == Spec => []TypeOK
<1>1. IInv => TypeOK
  BY DEF IInv, Typed, TypeOK, Found
<1> QED
  BY SpecInv, <1>1, PTL

(* Wherever the loop of parse_ext2_dir or parse_xfs_dir goes on, a record  *)
(* starts or the extent ends.                                              *)
THEOREM StaysOnRecordsHolds == Spec => []StaysOnRecords
<1>1. IInv => StaysOnRecords
  <2> SUFFICES ASSUME IInv, pc = "walk", Traced(dir), p # ExtentEnd(i) PROVE OnRecord(p)
    BY DEF StaysOnRecords
  <2>1. i \in 1..Len(dir.extents) /\ dir \in Directories /\ p \in Nat
    BY InWalk DEF IInv, Typed
  <2>2. Boundary(dir, p) /\ p <= ExtentEnd(i)
    BY DEF IInv, Placed
  <2>3. p < ExtentEnd(i)
    BY <2>1, <2>2, ExtentOf
  <2> QED
    BY <2>1, <2>2, <2>3, BoundaryIsRecord
<1> QED
  BY SpecInv, <1>1, PTL

(* When find_hidden_files has been through the extents, it has every name  *)
(* of the directory, once, in order, and nothing else.                     *)
THEOREM NamesParsedHolds == Spec => []NamesParsed
<1>1. IInv => NamesParsed
  <2> SUFFICES ASSUME IInv, pc = "done", Sound(dir)
               PROVE  NamesOf(files, dir, LiveBefore(dir, End(dir)))
    BY DEF NamesParsed
  <2>1. Len(dir.extents) \in Nat /\ i \in Nat /\ i > Len(dir.extents)
    BY InWalk DEF IInv, Typed
  <2>2. Done = End(dir)
    BY <2>1 DEF Done
  <2> QED
    BY <2>2 DEF IInv, Collected
<1> QED
  BY SpecInv, <1>1, PTL

(* Each turn of the loops of parse_ext2_dir and parse_xfs_dir comes nearer *)
(* to the end of the extent, for every dump on which they find their way.  *)
THEOREM ParseAdvancesHolds == Spec => ParseAdvances
<1> DEFINE On == Traced(dir) =>
                     \/ pc' = "done" \/ i' > i
                     \/ i' = i /\ pc' = "walk" /\ (pc = "extent" \/ (p < p' /\ p' <= ExtentEnd(i)))
<1>1. ASSUME IInv, IInv', Next, Traced(dir), ~UNCHANGED vars PROVE On
  <2>1. Typed /\ i \in Nat /\ p \in Nat
    BY <1>1 DEF IInv, Typed
  <2>2. CASE AllParsed \/ ParseExt \/ ParseXfs
    BY <2>2 DEF AllParsed, ParseExt, ParseXfs, Advance
  <2>3. CASE ExtEnds \/ ParseXfsOther \/ XfsEnds
    BY <2>1, <2>3 DEF ExtEnds, ParseXfsOther, XfsEnds, Return
  <2>4. ASSUME NEW q, NEW found, Advance(q, found), p < q PROVE On
    <3>1. p' = q /\ pc' = "walk" /\ i' = i /\ dir' = dir
      BY <2>4 DEF Advance
    <3>2. p' <= ExtentEnd(i)'
      BY <1>1, <3>1 DEF IInv, Placed
    <3>3. ExtentEnd(i)' = ExtentEnd(i)
      BY <3>1 DEF ExtentEnd
    <3>4. pc = "walk" \/ pc = "extent"
      BY <1>1
         DEF Next, Parser, AllParsed, ParseExt, ExtTurn, ExtEnds, ParseXfs, ParseXfsOther,
                  XfsTurn, XfsEnds, XfsLost, Finished
    <3> QED
      BY <2>4, <3>1, <3>2, <3>3, <3>4
  <2>5. CASE ExtTurn
    <3>1. PICK j \in DOMAIN dir.recs : RecAt(p) = dir.recs[j] /\ dir.recs[j].at = p
      BY <1>1, <2>5, ExtAt DEF ExtTurn
    <3>2. dir.recs[j].len \in Nat /\ ~(dir.recs[j].len < 8)
      BY <2>1, <2>5, <3>1, InWalk, RecordOf DEF ExtTurn, ExtStops
    <3>3. p < p + dir.recs[j].len
      BY <2>1, <3>2
    <3> QED
      BY <2>4, <2>5, <3>1, <3>3 DEF ExtTurn
  <2>6. CASE XfsTurn
    <3>1. OnRecord(p) /\ dir \in Directories /\ WellFormed(dir) /\ dir.fs = "xfs"
      BY <2>1, <2>6, InWalk DEF XfsTurn
    <3>2. PICK j \in DOMAIN dir.recs : RecAt(p) = dir.recs[j] /\ dir.recs[j].at = p
      BY <3>1, AtRecord
    <3> DEFINE r == dir.recs[j]
    <3>3. r \in Recs(dir) /\ r.len \in Nat
      BY <3>1, RecordOf
    <3>4. r.len >= 8
      BY <3>1, <3>3, Zenon DEF WellFormed
    <3>5. r.kind \in DOMAIN HdrLen => HdrLen[r.kind] = r.len
      BY <3>1, <3>3, Zenon DEF WellFormed
    <3>6. r.kind = "entry" => XfsEntrySize(r.name) = r.len
      <4> SUFFICES ASSUME r.kind = "entry" PROVE XfsEntrySize(r.name) = r.len
        OBVIOUS
      <4>1. r.name \in DOMAIN LenOf
        BY <3>1, <3>3, NameOfEntry
      <4>2. dir.ftype \in BOOLEAN /\ r.len = XfsSize(r.name, dir.ftype)
        BY <3>1, <3>3, Zenon DEF WellFormed
      <4>3. dir.ftype \/ LenOf[r.name] % 8 # 5
        BY <1>1, <3>1, <3>3 DEF Traced, Sound
      <4> QED
        BY <4>1, <4>2, <4>3, EntrySize
    <3>7. p < p + r.len
      BY <2>1, <3>3, <3>4
    <3>8. \/ r.kind \in {"XD2D", "XDD3"} /\ Advance(p + HdrLen[r.kind], <<>>)
          \/ r.kind = "free" /\ Advance(p + r.len, <<>>)
          \/ r.kind = "entry" /\ Advance(p + XfsEntrySize(r.name), Visible(r))
      BY <2>6, <3>2 DEF XfsTurn
    <3>9. r.kind \in {"XD2D", "XDD3"} => r.kind \in DOMAIN HdrLen
      BY DEF HdrLen
    <3> QED
      BY <2>4, <3>5, <3>6, <3>7, <3>8, <3>9, Zenon
  <2>7. CASE XfsLost
    <3>1. Sound(dir) /\ i <= Len(dir.extents) /\ pc = "walk" /\ XfsMore /\ ~OnRecord(p)
      BY <1>1, <2>7 DEF XfsLost, Traced, IInv, Typed
    <3>2. i \in 1..Len(dir.extents) /\ dir \in Directories /\ Boundary(dir, p)
      BY <1>1, <2>1, <3>1, InWalk DEF IInv, Placed
    <3>3. p < ExtentEnd(i)
      BY <2>1, <3>1, <3>2, ExtentOf DEF XfsMore
    <3> QED
      BY <2>1, <3>1, <3>2, <3>3, BoundaryIsRecord
  <2> QED
    BY <1>1, <2>2, <2>3, <2>5, <2>6, <2>7 DEF Next, Parser, Finished
<1>2. IInv /\ IInv' /\ [Next]_vars => [On]_vars
  BY <1>1
<1> QED
  BY <1>2, SpecInv, PTL DEF Spec, ParseAdvances

=============================================================================
