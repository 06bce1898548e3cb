---------------------------- MODULE RawReadProofs ----------------------------
(***************************************************************************)
(* Theorems about RawRead and the block lists it reads, for every inode,   *)
(* whole or damaged, and every volume.                                     *)
(***************************************************************************)
EXTENDS RawRead, BlockListProofs

-----------------------------------------------------------------------------
(* The two builds                                                          *)

(* What the loop over the tokens has kept after each of them.              *)
KeepsOf(l, T, f, m) ==
    f = [k \in 0..m |-> IF k = 0 THEN <<>>
                        ELSE IF l[k].tag \in T THEN Append(f[k - 1], l[k].blk) ELSE f[k - 1]]

LEMMA KeepsExist ==
    ASSUME NEW l, NEW T
    PROVE  \A m \in Nat : \E f : KeepsOf(l, T, f, m)
<1> DEFINE S == {m \in Nat : \E f : KeepsOf(l, T, f, m)}
<1>1. 0 \in S
  <2> DEFINE f == [k \in 0..0 |-> <<>>]
  <2>1. f = [k \in 0..0 |-> IF k = 0 THEN <<>>
                            ELSE IF l[k].tag \in T THEN Append(f[k - 1], l[k].blk) ELSE f[k - 1]]
    OBVIOUS
  <2> HIDE DEF f
  <2>2. KeepsOf(l, T, f, 0)
    BY <2>1, Zenon DEF KeepsOf
  <2> QED BY <2>2
<1>2. ASSUME NEW m \in Nat, m \in S PROVE m + 1 \in S
  <2>1. PICK f : KeepsOf(l, T, f, m)
    BY <1>2
  <2> DEFINE e == IF l[m + 1].tag \in T THEN Append(f[m], l[m + 1].blk) ELSE f[m]
             g == [k \in 0..(m + 1) |-> IF k = m + 1 THEN e ELSE f[k]]
  <2>2. ASSUME NEW k \in 0..(m + 1)
        PROVE  g[k] = IF k = 0 THEN <<>>
                      ELSE IF l[k].tag \in T THEN Append(g[k - 1], l[k].blk) ELSE g[k - 1]
    <3>1. CASE k = m + 1
      <4>1. g[k] = e /\ g[k - 1] = f[m] /\ k # 0
        BY <3>1
      <4> HIDE DEF g
      <4> QED BY <3>1, <4>1
    <3>2. CASE k # m + 1
      <4>1. k \in 0..m /\ g[k] = f[k] /\ (k # 0 => g[k - 1] = f[k - 1])
        BY <3>2
      <4>2. f[k] = IF k = 0 THEN <<>>
                   ELSE IF l[k].tag \in T THEN Append(f[k - 1], l[k].blk) ELSE f[k - 1]
        BY <2>1, <4>1, Zenon DEF KeepsOf
      <4> HIDE DEF g
      <4> QED BY <4>1, <4>2, Zenon
    <3> QED BY <3>1, <3>2
  <2>3. g = [k \in 0..(m + 1) |-> g[k]]
    OBVIOUS
  <2> HIDE DEF g
  <2>4. KeepsOf(l, T, g, m + 1)
    BY <2>2, <2>3, Zenon DEF KeepsOf
  <2> QED BY <2>4
<1> HIDE DEF S
<1>3. \A m \in Nat : m \in S
  BY <1>1, <1>2, Induction, Zenon
<1> QED BY <1>3, Zenon DEF S

LEMMA KeptIs ==
    ASSUME NEW l, NEW T, Len(l) \in Nat
    PROVE  \E f : KeepsOf(l, T, f, Len(l)) /\ Kept(l, T) = f[Len(l)]
<1> DEFINE f == CHOOSE g : KeepsOf(l, T, g, Len(l))
<1>1. KeepsOf(l, T, f, Len(l))
  BY KeepsExist, Zenon
<1>2. Kept(l, T) = f[Len(l)]
  BY DEF Kept, KeepsOf
<1> QED BY <1>1, <1>2, Zenon

(* What it keeps of the tokens of some blocks, after those of l.           *)
LEMMA SubSeqNext ==
    ASSUME NEW S, NEW s \in Seq(S), NEW m \in Nat, m < Len(s)
    PROVE  SubSeq(s, 1, m + 1) = Append(SubSeq(s, 1, m), s[m + 1])
OBVIOUS

LEMMA ConcatAppend ==
    ASSUME NEW S, NEW a \in Seq(S), NEW b \in Seq(S), NEW e \in S
    PROVE  a \o Append(b, e) = Append(a \o b, e)
OBVIOUS

LEMMA KeptNat ==
    ASSUME NEW l \in Seq(Token), NEW T
    PROVE  Kept(l, T) \in Seq(Nat)
<1>1. PICK f : KeepsOf(l, T, f, Len(l)) /\ Kept(l, T) = f[Len(l)]
  BY KeptIs
<1>2. \A k \in 0..Len(l) : f[k] = IF k = 0 THEN <<>>
          ELSE IF l[k].tag \in T THEN Append(f[k - 1], l[k].blk) ELSE f[k - 1]
  BY <1>1, Zenon DEF KeepsOf
<1> DEFINE S == {m \in Nat : m <= Len(l) => f[m] \in Seq(Nat)}
<1>3. 0 \in S
  <2>1. 0 \in 0..Len(l) /\ 0 \in Nat /\ <<>> \in Seq(Nat)
    OBVIOUS
  <2>2. f[0] = <<>>
    BY <1>2, <2>1, Zenon
  <2> QED BY <2>1, <2>2, Zenon
<1>4. ASSUME NEW m \in Nat, m \in S PROVE m + 1 \in S
  <2> SUFFICES ASSUME m + 1 <= Len(l) PROVE f[m + 1] \in Seq(Nat)
    OBVIOUS
  <2>1. m + 1 \in 0..Len(l) /\ m + 1 # 0 /\ m + 1 - 1 = m /\ m <= Len(l) /\ m + 1 \in 1..Len(l)
    OBVIOUS
  <2>2. f[m] \in Seq(Nat) /\ l[m + 1].blk \in Nat
    <3>1. l[m + 1] \in Token
      BY <2>1
    <3>2. l[m + 1].blk \in Nat
      BY <3>1, Zenon DEF Token
    <3> QED BY <1>4, <2>1, <3>2, Zenon
  <2>3. Append(f[m], l[m + 1].blk) \in Seq(Nat)
    BY <2>2
  <2>4. f[m + 1] = IF l[m + 1].tag \in T THEN Append(f[m], l[m + 1].blk) ELSE f[m]
    BY <1>2, <2>1
  <2> QED BY <2>2, <2>3, <2>4, Zenon
<1> HIDE DEF S
<1>5. \A m \in Nat : m \in S
  BY <1>3, <1>4, Induction, Zenon
<1>6. Len(l) \in Nat /\ Len(l) <= Len(l)
  OBVIOUS
<1> QED BY <1>1, <1>5, <1>6, Zenon DEF S

LEMMA KeptTokens ==
    ASSUME NEW l \in Seq(Token), NEW T, NEW tag \in {"ETB", "IND", "data"}, NEW bs \in Seq(Nat)
    PROVE  Kept(l \o Tokens(tag, bs), T) = IF tag \in T THEN Kept(l, T) \o bs ELSE Kept(l, T)
<1> DEFINE lt == l \o Tokens(tag, bs)
           a == Len(l)
           b == Len(bs)
<1>1. /\ a \in Nat /\ b \in Nat /\ Len(lt) = a + b /\ Len(lt) \in Nat
      /\ \A k \in 1..a : lt[k] = l[k]
      /\ \A k \in 1..b : lt[a + k].tag = tag /\ lt[a + k].blk = bs[k]
  <2> DEFINE t == Tokens(tag, bs)
  <2>1. t = [k \in 1..Len(bs) |-> [tag |-> tag, blk |-> bs[k]]] /\ Len(bs) \in Nat
    BY DEF Tokens
  <2>2. \A k \in 1..Len(bs) : [tag |-> tag, blk |-> bs[k]] \in Token
    BY DEF Token
  <2>3. t \in Seq(Token) /\ Len(t) = Len(bs)
        /\ \A k \in 1..Len(bs) : t[k].tag = tag /\ t[k].blk = bs[k]
    BY <2>1, <2>2
  <2> HIDE DEF t
  <2>4. /\ Len(l \o t) = Len(l) + Len(t)
        /\ \A k \in 1..Len(l) : (l \o t)[k] = l[k]
        /\ \A k \in 1..Len(t) : (l \o t)[Len(l) + k] = t[k]
    <3>1. t \in Seq(Token)
      BY <2>3, Zenon
    <3> QED BY <3>1, ConcatAt
  <2>5. Len(l) \in Nat /\ Len(l) + Len(bs) \in Nat
    BY <2>1
  <2> QED BY <2>1, <2>3, <2>4, <2>5, Zenon DEF t
<1> HIDE DEF lt, a, b
<1>2. PICK f : KeepsOf(l, T, f, a) /\ Kept(l, T) = f[a]
  BY <1>1, KeptIs, Zenon DEF a
<1>3. PICK g : KeepsOf(lt, T, g, a + b) /\ Kept(lt, T) = g[a + b]
  <2>1. \E g : KeepsOf(lt, T, g, Len(lt)) /\ Kept(lt, T) = g[Len(lt)]
    BY <1>1, KeptIs, Zenon
  <2> QED BY <1>1, <2>1, Zenon
<1>4. \A k \in 0..a : f[k] = IF k = 0 THEN <<>>
          ELSE IF l[k].tag \in T THEN Append(f[k - 1], l[k].blk) ELSE f[k - 1]
  BY <1>2, Zenon DEF KeepsOf
<1>5. \A k \in 0..(a + b) : g[k] = IF k = 0 THEN <<>>
          ELSE IF lt[k].tag \in T THEN Append(g[k - 1], lt[k].blk) ELSE g[k - 1]
  BY <1>3, Zenon DEF KeepsOf
<1>6. g[a] = f[a]
  <2> DEFINE S == {m \in Nat : m <= a => g[m] = f[m]}
  <2>1. 0 \in S
    BY <1>1, <1>4, <1>5
  <2>2. ASSUME NEW m \in Nat, m \in S PROVE m + 1 \in S
    <3> SUFFICES ASSUME m + 1 <= a PROVE g[m + 1] = f[m + 1]
      OBVIOUS
    <3>1. /\ m + 1 \in 0..a /\ m + 1 \in 0..(a + b) /\ m + 1 \in 1..a /\ m + 1 # 0
          /\ m + 1 - 1 = m /\ m <= a
      BY <1>1
    <3>2. g[m] = f[m] /\ lt[m + 1] = l[m + 1]
      BY <1>1, <2>2, <3>1, Zenon
    <3>3. f[m + 1] = IF l[m + 1].tag \in T THEN Append(f[m], l[m + 1].blk) ELSE f[m]
      BY <1>4, <3>1
    <3>4. g[m + 1] = IF lt[m + 1].tag \in T THEN Append(g[m], lt[m + 1].blk) ELSE g[m]
      BY <1>5, <3>1
    <3> QED BY <3>2, <3>3, <3>4, Zenon
  <2> HIDE DEF S
  <2>3. \A m \in Nat : m \in S
    BY <2>1, <2>2, Induction, Zenon
  <2>4. a \in Nat /\ a <= a
    BY <1>1
  <2> QED BY <2>3, <2>4, Zenon DEF S
<1>7. f[a] \in Seq(Nat)
  BY <1>2, KeptNat, Zenon
<1> DEFINE F == f[a]
<1> HIDE DEF F
<1>8. g[a + b] = IF tag \in T THEN F \o SubSeq(bs, 1, b) ELSE F
  <2> DEFINE S == {m \in Nat : m <= b =>
                      g[a + m] = IF tag \in T THEN F \o SubSeq(bs, 1, m) ELSE F}
  <2>1. 0 \in S
    <3>1. F \o SubSeq(bs, 1, 0) = F /\ a + 0 = a /\ 0 \in Nat
      BY <1>1, <1>7 DEF F
    <3> QED BY <1>6, <3>1, Zenon DEF F
  <2>2. ASSUME NEW m \in Nat, m \in S PROVE m + 1 \in S
    <3> SUFFICES ASSUME m + 1 <= b
                 PROVE  g[a + (m + 1)] = IF tag \in T THEN F \o SubSeq(bs, 1, m + 1) ELSE F
      OBVIOUS
    <3> DEFINE k == a + (m + 1)
    <3>1. /\ k \in 0..(a + b) /\ k # 0 /\ k - 1 = a + m /\ m <= b /\ m + 1 \in 1..b /\ m < b
      BY <1>1
    <3>2. lt[k].tag = tag /\ lt[k].blk = bs[m + 1]
      BY <1>1, <3>1, Zenon
    <3>3. g[a + m] = IF tag \in T THEN F \o SubSeq(bs, 1, m) ELSE F
      BY <2>2, <3>1, Zenon
    <3> HIDE DEF k
    <3>4. g[k] = IF lt[k].tag \in T THEN Append(g[a + m], lt[k].blk) ELSE g[a + m]
      BY <1>5, <3>1
    <3>5. SubSeq(bs, 1, m + 1) = Append(SubSeq(bs, 1, m), bs[m + 1])
      BY <3>1, SubSeqNext, Zenon DEF b
    <3>6. SubSeq(bs, 1, m) \in Seq(Nat) /\ bs[m + 1] \in Nat /\ F \in Seq(Nat)
      BY <1>7, <3>1 DEF F, b
    <3>7. F \o SubSeq(bs, 1, m + 1) = Append(F \o SubSeq(bs, 1, m), bs[m + 1])
      <4> DEFINE s == SubSeq(bs, 1, m)
                 e == bs[m + 1]
      <4>1. s \in Seq(Nat) /\ e \in Nat /\ F \in Seq(Nat) /\ SubSeq(bs, 1, m + 1) = Append(s, e)
        BY <3>5, <3>6, Zenon
      <4> HIDE DEF s, e
      <4>2. F \o Append(s, e) = Append(F \o s, e)
        BY <4>1, ConcatAppend
      <4> QED BY <4>1, <4>2, Zenon DEF s, e
    <3>8. g[k] = IF tag \in T THEN F \o SubSeq(bs, 1, m + 1) ELSE F
      BY <3>2, <3>3, <3>4, <3>7, Zenon
    <3> QED BY <3>8, Zenon DEF k
  <2> HIDE DEF S
  <2>3. \A m \in Nat : m \in S
    BY <2>1, <2>2, Induction, Zenon
  <2>4. b \in Nat /\ b <= b
    BY <1>1
  <2> QED BY <2>3, <2>4, Zenon DEF S
<1>9. SubSeq(bs, 1, b) = bs
  BY DEF b
<1> QED BY <1>2, <1>3, <1>8, <1>9, Zenon DEF F, lt

LEMMA KeptNone == \A T : Kept(<<>>, T) = <<>>
<1> SUFFICES ASSUME NEW T PROVE Kept(<<>>, T) = <<>>
  BY Zenon
<1>1. Len(<<>>) = 0 /\ Len(<<>>) \in Nat /\ 0 \in 0..0
  OBVIOUS
<1>2. PICK f : KeepsOf(<<>>, T, f, Len(<<>>)) /\ Kept(<<>>, T) = f[Len(<<>>)]
  BY <1>1, KeptIs, Zenon
<1>3. \A k \in 0..0 : f[k] = IF k = 0 THEN <<>>
          ELSE IF <<>>[k].tag \in T THEN Append(f[k - 1], <<>>[k].blk) ELSE f[k - 1]
  BY <1>1, <1>2, Zenon DEF KeepsOf
<1> QED BY <1>1, <1>2, <1>3, Zenon

(* What debugfs has printed: the same data blocks, and for extents none    *)
(* but nodes of the tree besides.                                          *)
Printed ==
    inode.map \in ExtMaps =>
        LET data == Kept(line, {"data"})
        IN  /\ blknums = (IF data = <<>> THEN <<>> ELSE <<-1>> \o data)
            /\ inode.map = "extents" => Kept(line, {"IND", "data"}) = data

LEMMA PushedMore ==
    ASSUME NEW data \in Seq(Nat), blknums = (IF data = <<>> THEN <<>> ELSE <<-1>> \o data),
           NEW bs \in Seq(Nat)
    PROVE  Pushed(bs) = (IF data \o bs = <<>> THEN <<>> ELSE <<-1>> \o (data \o bs))
<1>1. CASE bs = <<>>
  <2>1. data \o bs = data
    BY <1>1
  <2> QED BY <1>1, <2>1, Zenon DEF Pushed
<1>2. CASE bs # <<>> /\ data = <<>>
  <2>1. data \o bs = bs /\ blknums = <<>>
    BY <1>2
  <2> QED BY <1>2, <2>1, Zenon DEF Pushed
<1>3. CASE bs # <<>> /\ data # <<>>
  <2>1. blknums = <<-1>> \o data /\ blknums # <<>> /\ data \o bs # <<>>
    BY <1>3
  <2>2. (<<-1>> \o data) \o bs = <<-1>> \o (data \o bs)
    <3>1. <<-1>> \in Seq(Int) /\ data \in Seq(Int) /\ bs \in Seq(Int)
      OBVIOUS
    <3> QED BY <3>1
  <2>3. Pushed(bs) = blknums \o bs
    BY <1>3, <2>1, Zenon DEF Pushed
  <2> QED BY <2>1, <2>2, <2>3, Zenon
<1> QED BY <1>1, <1>2, <1>3, Zenon

(* More data blocks are printed and listed.                                *)
LEMMA DataPrints ==
    ASSUME Typed, Printed, inode.map \in ExtMaps, inode' = inode, NEW bs \in Seq(Nat),
           blknums' = Pushed(bs), line' = line \o Tokens("data", bs)
    PROVE  Printed'
<1> DEFINE data == Kept(line, {"data"})
<1>1. line \in Seq(Token)
  BY Zenon DEF Typed
<1>2. data \in Seq(Nat)
  BY <1>1, KeptNat, Zenon
<1>3. /\ blknums = (IF data = <<>> THEN <<>> ELSE <<-1>> \o data)
      /\ inode.map = "extents" => Kept(line, {"IND", "data"}) = data
  BY Zenon DEF Printed
<1>4. Kept(line', {"data"}) = data \o bs
  <2>1. "data" \in {"data"} /\ "data" \in {"ETB", "IND", "data"}
    OBVIOUS
  <2> QED BY <1>1, <2>1, KeptTokens, Zenon
<1>5. Kept(line', {"IND", "data"}) = Kept(line, {"IND", "data"}) \o bs
  <2>1. "data" \in {"IND", "data"} /\ "data" \in {"ETB", "IND", "data"}
    OBVIOUS
  <2> QED BY <1>1, <2>1, KeptTokens, Zenon
<1> HIDE DEF data
<1>6. Pushed(bs) = (IF data \o bs = <<>> THEN <<>> ELSE <<-1>> \o (data \o bs))
  BY <1>2, <1>3, PushedMore, Zenon
<1> QED BY <1>3, <1>4, <1>5, <1>6, Zenon DEF Printed

(* Nodes of the tree are printed, or indirect blocks.                      *)
LEMMA NodePrints ==
    ASSUME Typed, Printed, inode' = inode, NEW x \in Nat, blknums' = blknums,
           NEW tag, tag = "ETB" \/ (tag = "IND" /\ inode.map # "extents"),
           line' = line \o Tokens(tag, <<x>>)
    PROVE  Printed'
<1> DEFINE bs == <<x>>
<1>1. line \in Seq(Token) /\ line' = line \o Tokens(tag, bs)
  BY Zenon DEF Typed
<1>2. bs \in Seq(Nat)
  OBVIOUS
<1>3. /\ tag \in {"ETB", "IND", "data"} /\ tag \notin {"data"}
      /\ inode.map = "extents" => tag \notin {"IND", "data"}
  OBVIOUS
<1> HIDE DEF bs
<1>k. \A T : tag \notin T => Kept(line', T) = Kept(line, T)
  <2> SUFFICES ASSUME NEW T, tag \notin T PROVE Kept(line', T) = Kept(line, T)
    BY Zenon
  <2>1. Kept(line \o Tokens(tag, bs), T) = IF tag \in T THEN Kept(line, T) \o bs ELSE Kept(line, T)
    BY <1>1, <1>2, <1>3, KeptTokens
  <2> QED BY <1>1, <2>1, Zenon
<1>4. Kept(line', {"data"}) = Kept(line, {"data"})
  BY <1>3, <1>k, Zenon
<1>5. inode.map = "extents" => Kept(line', {"IND", "data"}) = Kept(line, {"IND", "data"})
  BY <1>3, <1>k, Zenon
<1> QED BY <1>4, <1>5, Zenon DEF Printed

LEMMA VisitPrints ==
    ASSUME Typed, Printed, inode.map = "extents", NEW pth, Arrives(pth), Visit(pth)
    PROVE  Printed'
<1> DEFINE m == Len(pth)
           c == RouteOf(pth)
           x == Node(pth[m])[pth[m].curr]
<1>1. /\ inode' = inode
      /\ blknums' = IF AtLeaf(pth) THEN Pushed(BlocksOf(x)) ELSE blknums
      /\ line' = line \o (IF pth[m].visit_num THEN <<>>
                          ELSE IF AtLeaf(pth) THEN Tokens("data", BlocksOf(x))
                          ELSE Tokens("ETB", <<x>>))
  BY Zenon DEF Visit
<1>2. m \in 1..(MaxDepth + 1) /\ c \in Routes(inode)[m] /\ (pth[m].visit_num => ~AtLeaf(pth))
  BY Zenon DEF Arrives
<1>3. (AtLeaf(pth) => BlocksOf(x) = DataAt(inode, c)) /\ (~AtLeaf(pth) => x \in Nat)
  BY PathEntry, Zenon
<1>4. IsInode(inode) /\ line \in Seq(Token) /\ inode.map \in ExtMaps
  BY InodeForm, Zenon DEF Typed, ExtMaps
<1> HIDE DEF m, c, x
<1>5. CASE AtLeaf(pth)
  <2> DEFINE bs == BlocksOf(x)
  <2>1. bs \in Seq(Nat \ {0})
    BY <1>2, <1>3, <1>4, <1>5, DataBlocksNat, Zenon
  <2>2. blknums' = Pushed(bs) /\ line' = line \o Tokens("data", bs)
    BY <1>1, <1>2, <1>5, Zenon
  <2> HIDE DEF bs
  <2>3. bs \in Seq(Nat)
    BY <2>1
  <2> QED BY <1>1, <1>4, <2>2, <2>3, DataPrints, Zenon
<1>6. CASE ~AtLeaf(pth) /\ pth[m].visit_num
  <2>1. line' = line \o <<>> /\ blknums' = blknums
    BY <1>1, <1>6, Zenon
  <2>2. line' = line
    BY <1>4, <2>1
  <2> QED BY <1>1, <2>1, <2>2, Zenon DEF Printed
<1>7. CASE ~AtLeaf(pth) /\ ~pth[m].visit_num
  <2>1. line' = line \o Tokens("ETB", <<x>>) /\ blknums' = blknums /\ x \in Nat
    BY <1>1, <1>3, <1>7, Zenon
  <2> QED BY <1>1, <2>1, NodePrints, Zenon
<1> QED BY <1>5, <1>6, <1>7, Zenon

LEMMA LsblksPrints ==
    ASSUME Listing, Printed, Lsblks
    PROVE  Printed'
<1>1. Typed
  BY Zenon DEF Listing
<1>2. CASE GetRoot
  <2>1. inode.map = "extents" /\ Visit(<<Frame(0, 1, FALSE)>>)
    BY <1>2, Zenon DEF GetRoot
  <2> QED BY <1>1, <1>2, <2>1, RootArrives, VisitPrints, Zenon
<1>3. ASSUME walk = "extents" PROVE inode.map = "extents"
  BY <1>1, <1>3, Zenon DEF Typed
<1>4. CASE Down
  <2>1. inode.map = "extents"
        /\ Visit(Append(Above(path) \o <<Frame(Top.blk, Top.curr, TRUE)>>, Frame(Child, 1, FALSE)))
    BY <1>3, <1>4, Zenon DEF Down, GoesDown
  <2> QED BY <1>1, <1>4, <2>1, DownArrives, VisitPrints, Zenon
<1>5. CASE NextSib
  <2>1. inode.map = "extents"
        /\ Visit(Append(Above(path), Frame(Top.blk, Top.curr + 1, FALSE)))
    BY <1>3, <1>5, Zenon DEF NextSib
  <2> QED BY <1>1, <1>5, <2>1, NextSibArrives, VisitPrints, Zenon
<1>6. CASE Up
  <2>1. inode.map = "extents" /\ Visit(Above(path))
    BY <1>3, <1>6, Zenon DEF Up
  <2> QED BY <1>1, <1>6, <2>1, UpArrives, VisitPrints, Zenon
<1>7. CASE OpenFails \/ Inline \/ GetRootEmpty \/ DownFails \/ NoNext \/ Iterated \/ Iterate
           \/ Sparse \/ LeaveIndirect
  <2>1. UNCHANGED <<inode, blknums, line>>
    BY <1>7, Zenon DEF OpenFails, Inline, GetRootEmpty, DownFails, NoNext, Iterated, Iterate,
                       Sparse, LeaveIndirect, StopList
  <2> QED BY <2>1, Zenon DEF Printed
<1>8. ASSUME MorePointers PROVE Pointer \in Nat /\ inode.map = "indirect"
  <2>1. OnPointer(Len(path))
    BY <1>8, HasPointer, Zenon
  <2> QED BY <2>1, Zenon DEF OnPointer
<1>9. CASE DataBlock
  <2> DEFINE bs == <<Pointer>>
  <2>1. inode' = inode /\ blknums' = Pushed(bs) /\ line' = line \o Tokens("data", bs)
        /\ Pointer \in Nat /\ inode.map \in ExtMaps
    BY <1>8, <1>9, Zenon DEF DataBlock, ExtMaps
  <2>2. \A p \in Nat : <<p>> \in Seq(Nat)
    OBVIOUS
  <2>3. bs \in Seq(Nat)
    BY <2>1, <2>2, Zenon
  <2> HIDE DEF bs
  <2> QED BY <1>1, <2>1, <2>3, DataPrints, Zenon
<1>10. CASE ReadIndirect \/ BadIndirect
  <2>1. /\ inode' = inode /\ blknums' = blknums /\ line' = line \o Tokens("IND", <<Pointer>>)
        /\ Pointer \in Nat /\ inode.map # "extents"
    <3>1. EnterIndirect
      BY <1>10, Zenon DEF ReadIndirect, BadIndirect
    <3> QED BY <1>8, <3>1, Zenon DEF EnterIndirect
  <2> QED BY <1>1, <2>1, NodePrints, Zenon
<1> QED BY <1>2, <1>4, <1>5, <1>6, <1>7, <1>9, <1>10, Zenon DEF Lsblks

LEMMA InitPrinted == ListInit => Printed
<1> SUFFICES ASSUME ListInit PROVE Printed
  BY Zenon
<1>1. blknums = <<>> /\ line = <<>> /\ Len(<<>>) = 0 /\ 0 \in Nat /\ 0 \in 0..0
  BY DEF ListInit
<1>2. \A T : Kept(<<>>, T) = <<>>
  BY KeptNone, Zenon
<1> QED BY <1>1, <1>2, Zenon DEF Printed

LEMMA PrintedAgree == Printed => BuildsAgree
<1> SUFFICES ASSUME Printed, inode.map \in ExtMaps
             PROVE  LET data == Kept(line, {"data"})
                    IN  /\ blknums = (IF data = <<>> THEN <<>> ELSE <<-1>> \o data)
                        /\ inode.map = "extents" =>
                              Parsed(line) = blknums \/ (blknums = <<>> /\ Parsed(line) = <<-1>>)
  BY Zenon DEF BuildsAgree
<1> DEFINE data == Kept(line, {"data"})
<1>1. /\ blknums = (IF data = <<>> THEN <<>> ELSE <<-1>> \o data)
      /\ inode.map = "extents" => Kept(line, {"IND", "data"}) = data
  BY Zenon DEF Printed
<1>2. line = <<>> => data = <<>>
  BY KeptNone, Zenon
<1>3. <<-1>> \o <<>> = <<-1>>
  OBVIOUS
<1> HIDE DEF data
<1>4. inode.map = "extents" => Parsed(line) = IF line = <<>> THEN <<>> ELSE <<-1>> \o data
  BY <1>1, Zenon DEF Parsed
<1>5. inode.map = "extents" => Parsed(line) = blknums \/ (blknums = <<>> /\ Parsed(line) = <<-1>>)
  BY <1>1, <1>2, <1>3, <1>4, Zenon
<1> QED BY <1>1, <1>5, Zenon DEF data

-----------------------------------------------------------------------------
(* Every step comes nearer to the end: the order of the marks on a path.   *)

Mark(f) == 2 * f.curr + (IF f.visit_num THEN 1 ELSE 0)

LEMMA MarksRise ==
    ASSUME NEW p \in Seq(Frames), NEW q \in Seq(Frames),
           NEW k \in 1..Len(p), k \in 1..Len(q), \A l \in 1..(k - 1) : p[l] = q[l],
           Mark(p[k]) < Mark(q[k])
    PROVE  Before(Marks(p), Marks(q))
<1>1. /\ DOMAIN p = 1..Len(p) /\ DOMAIN q = 1..Len(q)
      /\ Len(p) \in Nat /\ Len(q) \in Nat
  OBVIOUS
<1>2. /\ Marks(p) = [l \in 1..Len(p) |-> Hop(p[l].blk, Mark(p[l]))]
      /\ Marks(q) = [l \in 1..Len(q) |-> Hop(q[l].blk, Mark(q[l]))]
  BY <1>1 DEF Marks, Mark
<1> HIDE DEF Mark
<1>3. DOMAIN Marks(p) = 1..Len(p) /\ DOMAIN Marks(q) = 1..Len(q)
  BY <1>2
<1>4. \A l \in 1..(k - 1) : Marks(p)[l] = Marks(q)[l]
  <2> SUFFICES ASSUME NEW l \in 1..(k - 1) PROVE Marks(p)[l] = Marks(q)[l]
    OBVIOUS
  <2>1. l \in 1..Len(p) /\ l \in 1..Len(q)
    BY <1>1
  <2>2. /\ Marks(p)[l] = Hop(p[l].blk, Mark(p[l]))
        /\ Marks(q)[l] = Hop(q[l].blk, Mark(q[l]))
    BY <1>2, <2>1
  <2> QED BY <2>2
<1>5. Marks(p)[k].curr = Mark(p[k]) /\ Marks(q)[k].curr = Mark(q[k])
  <2>1. Marks(p)[k] = Hop(p[k].blk, Mark(p[k])) /\ Marks(q)[k] = Hop(q[k].blk, Mark(q[k]))
    BY <1>2
  <2> QED BY <2>1, HopFields
<1>6. Marks(p)[k].curr < Marks(q)[k].curr
  BY <1>5
<1> QED BY <1>3, <1>4, <1>6, Zenon DEF Before

(* The top of a path is replaced by a frame further on.                    *)
LEMMA TopRises ==
    ASSUME NEW p \in Seq(Frames), p # <<>>, NEW f \in Frames, Mark(p[Len(p)]) < Mark(f)
    PROVE  /\ Append(Above(p), f) \in Seq(Frames)
           /\ Before(Marks(p), Marks(Append(Above(p), f)))
<1> DEFINE q == Append(Above(p), f)
           m == Len(p)
<1>1. /\ Above(p) \in Seq(Frames) /\ Len(Above(p)) = m - 1 /\ m \in Nat \ {0}
      /\ \A k \in 1..(m - 1) : Above(p)[k] = p[k]
  BY FrontIs, Zenon
<1>2. /\ q \in Seq(Frames) /\ Len(q) = Len(Above(p)) + 1
      /\ \A k \in 1..Len(Above(p)) : q[k] = Above(p)[k]
      /\ q[Len(Above(p)) + 1] = f
  BY <1>1, AppendAt, Zenon
<1> HIDE DEF q, m
<1>3. m - 1 + 1 = m /\ m \in 1..m
  BY <1>1
<1>4. Len(q) = m /\ q[m] = f /\ \A l \in 1..(m - 1) : p[l] = q[l]
  BY <1>1, <1>2, <1>3, Zenon
<1>5. Mark(p[m]) < Mark(q[m])
  BY <1>4 DEF m
<1>6. Before(Marks(p), Marks(q))
  BY <1>2, <1>3, <1>4, <1>5, MarksRise, Zenon DEF m
<1> QED BY <1>2, <1>6, Zenon DEF q

(* A frame on the next entry, and a frame that is visited.                 *)
LEMMA NextMark ==
    ASSUME NEW f \in Frames
    PROVE  /\ Frame(f.blk, f.curr + 1, FALSE) \in Frames
           /\ Mark(f) < Mark(Frame(f.blk, f.curr + 1, FALSE))
<1>1. f.blk \in Nat /\ f.curr \in Nat \ {0} /\ f.visit_num \in BOOLEAN
  BY DEF Frames
<1>2. f.curr + 1 \in Nat \ {0}
  BY <1>1
<1> DEFINE g == Frame(f.blk, f.curr + 1, FALSE)
<1>3. g \in Frames /\ g.curr = f.curr + 1 /\ g.visit_num = FALSE
  BY <1>1, <1>2, FrameIs, Zenon
<1> HIDE DEF g
<1>4. Mark(f) < Mark(g)
  BY <1>1, <1>3 DEF Mark
<1> QED BY <1>3, <1>4, Zenon DEF g

LEMMA VisitMark ==
    ASSUME NEW f \in Frames, ~f.visit_num
    PROVE  /\ Frame(f.blk, f.curr, TRUE) \in Frames
           /\ Mark(f) < Mark(Frame(f.blk, f.curr, TRUE))
<1>1. f.blk \in Nat /\ f.curr \in Nat \ {0} /\ f.visit_num \in BOOLEAN
  BY DEF Frames
<1> DEFINE g == Frame(f.blk, f.curr, TRUE)
<1>3. g \in Frames /\ g.curr = f.curr /\ g.visit_num = TRUE
  BY <1>1, FrameIs, Zenon
<1> HIDE DEF g
<1>4. Mark(f) < Mark(g)
  BY <1>1, <1>3 DEF Mark
<1> QED BY <1>3, <1>4, Zenon DEF g

(* What is put on a path does not change the order of what is below.       *)
LEMMA RisesBelow ==
    ASSUME NEW p \in Seq(Frames), NEW q \in Seq(Frames), NEW f \in Frames,
           Len(p) = Len(q), p # <<>>,
           \A l \in 1..(Len(p) - 1) : p[l] = q[l], Mark(p[Len(p)]) < Mark(q[Len(p)])
    PROVE  Before(Marks(p), Marks(Append(q, f)))
<1>1. Len(p) \in 1..Len(p) /\ Len(p) \in Nat
  OBVIOUS
<1> DEFINE r == Append(q, f)
<1>2. r \in Seq(Frames) /\ Len(r) = Len(q) + 1 /\ \A k \in 1..Len(q) : r[k] = q[k]
  BY AppendAt, Zenon
<1> HIDE DEF r
<1>3. Len(p) \in 1..Len(r)
  BY <1>1, <1>2
<1>4. \A l \in 1..(Len(p) - 1) : p[l] = r[l]
  BY <1>1, <1>2
<1>5. Mark(p[Len(p)]) < Mark(r[Len(p)])
  BY <1>1, <1>2
<1>6. Before(Marks(p), Marks(r))
  BY <1>1, <1>2, <1>3, <1>4, <1>5, MarksRise, Zenon
<1> QED BY <1>6, Zenon DEF r

(* Step: on to the next pointer of a block, or the next slot.              *)
LEMMA StepNearer ==
    ASSUME Typed, walk = "slots", walk' = walk,
           NEW pth, pth = path \/ (pth = Above(path) /\ path # <<>>), Step(pth)
    PROVE  WalkNearer
<1>1. path \in Seq(Frames) /\ slot \in Nat
  BY Zenon DEF Typed
<1>2. CASE pth = <<>>
  <2>1. slot' > slot
    BY <1>1, <1>2 DEF Step
  <2> QED BY <2>1, Zenon DEF WalkNearer
<1>3. CASE pth # <<>>
  <2> DEFINE f == pth[Len(pth)]
             g == Frame(f.blk, f.curr + 1, FALSE)
  <2>1. path' = Append(Above(pth), g) /\ UNCHANGED slot
    BY <1>3, Zenon DEF Step
  <2>2. pth \in Seq(Frames)
    BY <1>1, FrontIs, Zenon
  <2>3. Len(pth) \in 1..Len(pth)
    BY <1>3, <2>2
  <2>4. f \in Frames
    BY <2>2, <2>3, FrameAt, Zenon
  <2> HIDE DEF f
  <2>5. g \in Frames /\ Mark(f) < Mark(g)
    BY <2>4, NextMark, Zenon
  <2> HIDE DEF g
  <2>6. CASE pth = path
    <3>1. Mark(path[Len(path)]) < Mark(g)
      BY <2>5, <2>6, Zenon DEF f
    <3>2. Before(Marks(path), Marks(path'))
      BY <1>1, <1>3, <2>1, <2>5, <2>6, <3>1, TopRises, Zenon
    <3> QED BY <2>1, <3>2, Zenon DEF WalkNearer
  <2>7. CASE pth = Above(path) /\ path # <<>>
    <3> DEFINE m == Len(pth)
    <3>1. /\ Len(pth) = Len(path) - 1 /\ Len(path) \in Nat \ {0}
          /\ \A k \in 1..(Len(path) - 1) : pth[k] = path[k]
      BY <1>1, <2>7, FrontIs, Zenon
    <3>2. /\ Above(pth) \in Seq(Frames) /\ Len(Above(pth)) = m - 1 /\ m \in Nat \ {0}
          /\ \A k \in 1..(m - 1) : Above(pth)[k] = pth[k]
      BY <1>3, <2>2, FrontIs, Zenon
    <3>3. /\ path' \in Seq(Frames) /\ Len(path') = Len(Above(pth)) + 1
          /\ \A k \in 1..Len(Above(pth)) : path'[k] = Above(pth)[k]
          /\ path'[Len(Above(pth)) + 1] = g
      BY <2>1, <2>5, <3>2, AppendAt, Zenon
    <3>4. path[m] = f
      BY <2>3, <3>1, Zenon DEF f
    <3> HIDE DEF m
    <3>5. m \in 1..Len(path) /\ m \in 1..Len(path') /\ path'[m] = g
      BY <3>1, <3>2, <3>3 DEF m
    <3>6. \A l \in 1..(m - 1) : path[l] = path'[l]
      BY <3>1, <3>2, <3>3 DEF m
    <3>7. Mark(path[m]) < Mark(path'[m])
      BY <2>5, <3>4, <3>5
    <3>8. Before(Marks(path), Marks(path'))
      BY <1>1, <3>3, <3>5, <3>6, <3>7, MarksRise, Zenon
    <3> QED BY <2>1, <3>8, Zenon DEF WalkNearer
  <2> QED BY <2>6, <2>7
<1> QED BY <1>2, <1>3

(* ext2fs_extent_get: down, on and up.                                     *)
LEMMA ExtentsNearer ==
    ASSUME Listing, Down \/ NextSib \/ Up
    PROVE  WalkNearer
<1> DEFINE m == Len(path)
<1>1. Typed
  BY Zenon DEF Listing
<1>2. walk = "extents" /\ UNCHANGED <<walk, slot>>
  BY Zenon DEF Down, GoesDown, NextSib, Up, Visit
<1>3. path \in Seq(Frames) /\ m \in 1..(MaxDepth + 1) /\ path # <<>> /\ Top = path[m] /\ Top \in Frames
  BY <1>2, HasCursor, Zenon DEF Cursor
<1>4. /\ Above(path) \in Seq(Frames) /\ Len(Above(path)) = m - 1 /\ m \in Nat \ {0}
      /\ \A k \in 1..(m - 1) : Above(path)[k] = path[k]
  BY <1>3, FrontIs, Zenon
<1>5. CASE Down
  <2> DEFINE f == Frame(Top.blk, Top.curr, TRUE)
             g == Frame(Child, 1, FALSE)
             q == Above(path) \o <<f>>
  <2>1. ~Top.visit_num /\ Child \in DOMAIN inode.disk /\ path' = Append(q, g)
    BY <1>5, Zenon DEF Down, GoesDown, Usable, Visit
  <2>2. f \in Frames /\ Mark(Top) < Mark(f)
    BY <1>3, <2>1, VisitMark, Zenon
  <2>3. g \in Frames
    <3>1. Child \in Nat
      BY <1>1, <2>1, InodeForm DEF IsInode
    <3>2. 1 \in Nat \ {0} /\ FALSE \in BOOLEAN
      OBVIOUS
    <3> QED BY <3>1, <3>2, FrameIs, Zenon
  <2> HIDE DEF f, g
  <2>4. /\ q \in Seq(Frames) /\ Len(q) = Len(Above(path)) + 1
        /\ \A k \in 1..Len(Above(path)) : q[k] = Above(path)[k]
        /\ q[Len(Above(path)) + 1] = f
    BY <1>4, <2>2
  <2> HIDE DEF q, m
  <2>5. Len(q) = m /\ q[m] = f /\ \A l \in 1..(m - 1) : path[l] = q[l]
    BY <1>4, <2>4
  <2>6. Mark(path[m]) < Mark(q[m])
    BY <1>3, <2>2, <2>5, Zenon
  <2>7. Before(Marks(path), Marks(Append(q, g)))
    BY <1>3, <2>3, <2>4, <2>5, <2>6, RisesBelow, Zenon DEF m
  <2> QED BY <1>2, <2>1, <2>7, Zenon DEF WalkNearer
<1>6. CASE NextSib
  <2> DEFINE f == Frame(Top.blk, Top.curr + 1, FALSE)
  <2>1. path' = Append(Above(path), f)
    BY <1>6, Zenon DEF NextSib, Visit
  <2>2. f \in Frames /\ Mark(path[Len(path)]) < Mark(f)
    BY <1>3, NextMark, Zenon
  <2> HIDE DEF f
  <2>3. Before(Marks(path), Marks(path'))
    BY <1>3, <2>1, <2>2, TopRises, Zenon
  <2> QED BY <1>2, <2>3, Zenon DEF WalkNearer
<1>7. CASE Up
  <2>1. path' = Above(path)
    BY <1>7, Zenon DEF Up, Visit
  <2> HIDE DEF m
  <2>2. Len(path') < Len(path) /\ \A k \in DOMAIN path' : path'[k] = path[k]
    BY <1>4, <2>1 DEF m
  <2>3. IsAbove(path', path)
    BY <2>2, Zenon DEF IsAbove
  <2> QED BY <1>2, <2>3, Zenon DEF WalkNearer
<1> QED BY <1>5, <1>6, <1>7, Zenon

(* block_iterate_ind, _dind and _tind: in and on.                          *)
LEMMA SlotsNearer ==
    ASSUME Listing, Sparse \/ DataBlock \/ ReadIndirect \/ BadIndirect \/ LeaveIndirect
    PROVE  WalkNearer
<1>1. Typed
  BY Zenon DEF Listing
<1>2. path \in Seq(Frames) /\ slot \in Nat
  BY <1>1, Zenon DEF Typed
<1>3. walk = "slots" /\ walk' = walk
  BY Zenon DEF Sparse, DataBlock, ReadIndirect, BadIndirect, LeaveIndirect, EnterIndirect, MorePointers
<1>4. CASE Sparse \/ DataBlock
  <2>1. Step(path)
    BY <1>4, Zenon DEF Sparse, DataBlock
  <2> QED BY <1>1, <1>3, <2>1, StepNearer, Zenon
<1>5. CASE ReadIndirect
  <2> DEFINE g == Frame(Pointer, 1, FALSE)
  <2>1. Pointer \in DOMAIN inode.disk /\ path' = Append(path, g) /\ UNCHANGED slot
    BY <1>5, Zenon DEF ReadIndirect
  <2>2. g \in Frames
    <3>1. Pointer \in Nat
      BY <1>1, <2>1, InodeForm DEF IsInode
    <3>2. 1 \in Nat \ {0} /\ FALSE \in BOOLEAN
      OBVIOUS
    <3> QED BY <3>1, <3>2, FrameIs, Zenon
  <2> HIDE DEF g
  <2>3. Len(path') = Len(path) + 1 /\ \A k \in 1..Len(path) : path'[k] = path[k]
    BY <1>2, <2>1, <2>2, AppendAt, Zenon
  <2>4. Len(path) < Len(path') /\ \A k \in DOMAIN path : path[k] = path'[k]
    BY <1>2, <2>3
  <2>5. IsAbove(path, path') /\ walk # "extents"
    BY <1>3, <2>4, Zenon DEF IsAbove
  <2> QED BY <1>3, <2>1, <2>5, Zenon DEF WalkNearer
<1>6. CASE BadIndirect
  <2>1. slot' > slot
    BY <1>2, <1>6 DEF BadIndirect
  <2> QED BY <1>3, <2>1, Zenon DEF WalkNearer
<1>7. CASE LeaveIndirect
  BY <1>1, <1>3, <1>7, StepNearer, Zenon DEF LeaveIndirect
<1> QED BY <1>4, <1>5, <1>6, <1>7, Zenon

LEMMA LsblksNearer ==
    ASSUME Listing, Lsblks, walk' # "listed"
    PROVE  WalkNearer
<1>1. CASE OpenFails \/ Inline \/ GetRootEmpty \/ DownFails \/ NoNext \/ Iterated
  BY <1>1, Zenon DEF OpenFails, Inline, GetRootEmpty, DownFails, NoNext, Iterated, StopList
<1>2. CASE GetRoot \/ Iterate
  <2>1. walk = "open" /\ walk' # walk
    <3>1. walk = "open" /\ walk' \in {"extents", "slots"}
      BY <1>2, Zenon DEF GetRoot, Iterate, Visit
    <3> QED BY <3>1
  <2> QED BY <2>1, Zenon DEF WalkNearer
<1>3. CASE Down \/ NextSib \/ Up
  BY <1>3, ExtentsNearer, Zenon
<1>4. CASE Sparse \/ DataBlock \/ ReadIndirect \/ BadIndirect \/ LeaveIndirect
  BY <1>4, SlotsNearer, Zenon
<1> QED BY <1>1, <1>2, <1>3, <1>4, Zenon DEF Lsblks

-----------------------------------------------------------------------------
(* The offset                                                              *)

(* On a partition, on an LVM volume of one segment and on a mirror whose   *)
(* members start with the data, the one offset that query_blocks computes  *)
(* leads from every sector of the volume to the sector below that holds    *)
(* it.                                                                     *)
THEOREM OffsetIsBacking ==
    ASSUME NEW v, IsVolume(v), Straight(v), NEW s \in Nat, Backing(v, s) # Elsewhere
    PROVE  OffsetOf(v) + s = Backing(v, s)
<1>1. CASE v.kind = "part"
  BY <1>1 DEF OffsetOf, TypeOf, Backing
<1>2. CASE v.kind = "lvm"
  <2>1. PICK k \in Own(v) : Own(v) = {k} /\ v.segs[k].le = 0
    BY <1>2 DEF Straight
  <2>2. FirstSegment(v) = v.segs[k]
    <3>1. v.segs \in Seq(Segment) /\ k \in DOMAIN v.segs
      BY <2>1 DEF IsVolume, Own
    <3>2. k \in Nat /\ k <= k
      BY <3>1
    <3>3. (CHOOSE j \in Own(v) : \A i \in Own(v) : j <= i) = k
      BY <2>1, <3>2
    <3> QED BY <3>3, Zenon DEF FirstSegment
  <2> DEFINE held == {j \in Own(v) : HoldsSector(v, v.segs[j], s)}
  <2>4. held = {k}
    BY <1>2, <2>1 DEF Backing, LvmBacking
  <2>5. Backing(v, s) = v.pe_start + v.segs[k].pe * v.pe_size + (s - v.segs[k].le * v.pe_size)
    <3>1. (CHOOSE j \in held : TRUE) = k
      BY <2>4
    <3>2. Backing(v, s) = LvmBacking(v, s)
      BY <1>2 DEF Backing
    <3> QED BY <2>4, <3>1, <3>2 DEF LvmBacking
  <2>6. v.segs[k] \in Segment /\ v.pe_size \in Nat /\ v.pe_start \in Nat
    BY <2>1 DEF IsVolume, Own
  <2>7. v.segs[k].le * v.pe_size = 0 /\ v.segs[k].pe * v.pe_size \in Nat
    BY <2>1, <2>6 DEF Segment
  <2>8. OffsetOf(v) = v.pe_start + v.segs[k].pe * v.pe_size
    BY <1>2, <2>2 DEF OffsetOf, TypeOf
  <2> QED BY <2>5, <2>6, <2>7, <2>8
<1>3. CASE v.kind = "md"
  BY <1>3 DEF Straight, OffsetOf, TypeOf, Backing, MdBacking, IsVolume
<1> QED BY <1>1, <1>2, <1>3 DEF Straight

LEMMA LeastOf ==
    ASSUME NEW S \in SUBSET Nat, S # {}
    PROVE  \E k \in S : \A j \in S : k <= j
<1> DEFINE R == OpToRel(<, Nat)
<1>1. IsWellFoundedOn(R, Nat)
  BY NatLessThanWellFounded, Zenon
<1> HIDE DEF R
<1>2. PICK x \in S : \A y \in S : ~(<<y, x>> \in R)
  BY <1>1, WFMin, Zenon
<1>3. \A y \in S : ~(y < x)
  <2> SUFFICES ASSUME NEW y \in S, y < x PROVE FALSE
    OBVIOUS
  <2>1. <<y, x>> \in R
    BY DEF R, OpToRel
  <2> QED BY <1>2, <2>1
<1> QED BY <1>3

(* query_blocks computes a position, for every volume that it locates.     *)
LEMMA OffsetNat ==
    ASSUME NEW v, IsVolume(v), Located(v)
    PROVE  OffsetOf(v) \in Nat
<1>1. CASE TypeOf(v) = "lvm"
  <2>1. v.segs \in Seq(Segment) /\ v.pe_size \in Nat /\ v.pe_start \in Nat
    BY DEF IsVolume
  <2>2. Own(v) \in SUBSET Nat /\ Own(v) # {} /\ \A k \in Own(v) : v.segs[k] \in Segment
    BY <1>1, <2>1 DEF Located, Own
  <2>3. \E k \in Own(v) : \A j \in Own(v) : k <= j
    BY <2>2, LeastOf
  <2> DEFINE k == CHOOSE k \in Own(v) : \A j \in Own(v) : k <= j
  <2>4. k \in Own(v)
    BY <2>3, Zenon
  <2>5. FirstSegment(v) = v.segs[k]
    BY DEF FirstSegment
  <2> HIDE DEF k
  <2>6. FirstSegment(v) \in Segment
    BY <2>2, <2>4, <2>5, Zenon
  <2>7. FirstSegment(v).pe \in Nat
    BY <2>6 DEF Segment
  <2>8. FirstSegment(v).pe * v.pe_size \in Nat
    BY <2>1, <2>7
  <2>9. v.pe_start + FirstSegment(v).pe * v.pe_size \in Nat
    BY <2>1, <2>8
  <2> QED BY <1>1, <2>9, Zenon DEF OffsetOf
<1>2. CASE TypeOf(v) # "lvm"
  BY <1>2 DEF OffsetOf, IsVolume
<1> QED BY <1>1, <1>2

-----------------------------------------------------------------------------
(* The readings                                                            *)

Unit == IF inode.map = "xfs" THEN 1 ELSE PerBlock

(* What dump_blocks reads for the members of list B, of units of u         *)
(* sectors, at an offset.                                                  *)
At(B, u, offset, x) == IF B[x] = -1 THEN -1 ELSE offset + B[x] * u
ReadTo(B, u, offset, m) == [x \in 1..m |-> At(B, u, offset, x)]

Counted == blknums \in Seq(Int) /\ failed \in BOOLEAN

(* What query_blocks has found out at each stage.                          *)
Staged ==
    /\ vol \in Volumes
    /\ stage \in {"query", "list", "offset", "dump", "done"}
    /\ ret \in {0, 1, 2, 101} /\ parentoffset \in Nat
    /\ blkunitsz \in {0, 1, PerBlock}
    /\ on \in {"volume", "parent"}
    /\ n \in 1..(Len(blknums) + 1)
    /\ stage \in {"query", "list"} => walk # "listed"
    /\ stage \in {"query", "list", "offset"} => ret = 0
    /\ stage \in {"list", "offset", "dump"} => ~ParentFails(vol)
    /\ stage \in {"offset", "dump"} => walk = "listed" /\ blkunitsz = Unit
    /\ stage = "dump" => ret \in {0, 101}
    /\ stage = "done" /\ ret = 0 => walk = "listed" /\ blkunitsz = Unit /\ ~ParentFails(vol)
    /\ stage \in {"dump", "done"} /\ ret = 0 =>
          HasParent(vol) /\ Located(vol) /\ parentoffset = OffsetOf(vol)

(* The volume is read first, and the device below only if there is an      *)
(* offset; a reading is the whole list unless a call failed.               *)
Reading ==
    /\ reads \in [volume : Seq(Int), parent : Seq(Int)]
    /\ stage \in {"query", "list", "offset"} \/ (stage = "done" /\ ret \in {1, 2}) =>
          on = "volume" /\ n = 1 /\ reads.volume = <<>> /\ reads.parent = <<>>
    /\ ret = 101 => on = "volume" /\ reads.parent = <<>>
    /\ stage = "dump" /\ on = "volume" =>
          reads.volume = ReadTo(blknums, blkunitsz, 0, n - 1) /\ reads.parent = <<>>
    /\ stage = "dump" /\ on = "parent" =>
          ret = 0 /\ reads.parent = ReadTo(blknums, blkunitsz, parentoffset, n - 1)
    /\ on = "parent" \/ (stage = "done" /\ ret = 101) =>
          \/ reads.volume = ReadTo(blknums, blkunitsz, 0, Len(blknums))
          \/ failed /\ reads.volume = <<>>
    /\ stage = "done" /\ ret = 0 =>
          /\ on = "parent"
          /\ \/ reads.parent = ReadTo(blknums, blkunitsz, parentoffset, Len(blknums))
             \/ failed /\ reads.parent = <<>>

LEMMA ReadNone == \A B, u, offset : ReadTo(B, u, offset, 0) = <<>>
BY DEF ReadTo

LEMMA AtInt ==
    ASSUME NEW B \in Seq(Int), NEW u \in Nat, NEW offset \in Nat, NEW x \in 1..Len(B)
    PROVE  At(B, u, offset, x) \in Int
<1>1. B[x] \in Int
  OBVIOUS
<1>2. B[x] * u \in Int
  BY <1>1
<1> QED BY <1>2 DEF At

LEMMA ReadOne ==
    ASSUME NEW B \in Seq(Int), NEW u \in Nat, NEW offset \in Nat, NEW m \in 1..Len(B)
    PROVE  /\ ReadTo(B, u, offset, m) = Append(ReadTo(B, u, offset, m - 1), At(B, u, offset, m))
           /\ ReadTo(B, u, offset, m) \in Seq(Int)
<1>1. \A x \in 1..m : At(B, u, offset, x) \in Int
  BY AtInt
<1> DEFINE s == ReadTo(B, u, offset, m - 1)
           e == At(B, u, offset, m)
<1>2. s \in Seq(Int) /\ Len(s) = m - 1 /\ \A x \in 1..(m - 1) : s[x] = At(B, u, offset, x)
  BY <1>1 DEF ReadTo
<1>3. ReadTo(B, u, offset, m) \in Seq(Int) /\ Len(ReadTo(B, u, offset, m)) = m
  BY <1>1 DEF ReadTo
<1>4. e \in Int
  BY <1>1
<1> HIDE DEF s, e
<1>5. Append(s, e) \in Seq(Int) /\ Len(Append(s, e)) = m
  BY <1>2, <1>4
<1>6. \A x \in 1..m : Append(s, e)[x] = At(B, u, offset, x)
  <2> SUFFICES ASSUME NEW x \in 1..m PROVE Append(s, e)[x] = At(B, u, offset, x)
    BY Zenon
  <2>1. CASE x = m
    BY <1>2, <1>4, <2>1 DEF e
  <2>2. CASE x # m
    <3>1. x \in 1..(m - 1)
      BY <2>2
    <3>2. Append(s, e)[x] = s[x]
      BY <1>2, <1>4, <3>1
    <3> QED BY <1>2, <3>1, <3>2, Zenon
  <2> QED BY <2>1, <2>2, Zenon
<1>7. Append(s, e) = ReadTo(B, u, offset, m)
  <2> DEFINE t == Append(s, e)
  <2>1. t \in Seq(Int) /\ Len(t) = m /\ \A x \in 1..m : t[x] = At(B, u, offset, x)
    BY <1>5, <1>6, Zenon
  <2> HIDE DEF t
  <2>2. t = [x \in 1..m |-> t[x]]
    BY <2>1
  <2>3. [x \in 1..m |-> t[x]] = [x \in 1..m |-> At(B, u, offset, x)]
    BY <2>1, Zenon
  <2>4. t = ReadTo(B, u, offset, m)
    BY <2>2, <2>3, Zenon DEF ReadTo
  <2> QED BY <2>4, Zenon DEF t
<1> QED BY <1>3, <1>7 DEF s, e

LEMMA ReadsOf ==
    ASSUME NEW r \in [volume : Seq(Int), parent : Seq(Int)], NEW s \in Seq(Int)
    PROVE  /\ [r EXCEPT !["volume"] = s] \in [volume : Seq(Int), parent : Seq(Int)]
           /\ [r EXCEPT !["volume"] = s].volume = s /\ [r EXCEPT !["volume"] = s].parent = r.parent
           /\ [r EXCEPT !["parent"] = s] \in [volume : Seq(Int), parent : Seq(Int)]
           /\ [r EXCEPT !["parent"] = s].volume = r.volume /\ [r EXCEPT !["parent"] = s].parent = s
           /\ r["volume"] = r.volume /\ r["parent"] = r.parent
BY Zenon

LEMMA LsblksFrame == Lsblks => inode' = inode
<1>1. \A pth : Visit(pth) => inode' = inode
  BY Zenon DEF Visit
<1>2. StopList => inode' = inode
  BY Zenon DEF StopList
<1>3. EnterIndirect => inode' = inode
  BY Zenon DEF EnterIndirect
<1>4. GetRoot \/ Down \/ NextSib \/ Up => inode' = inode
  BY <1>1, Zenon DEF GetRoot, Down, NextSib, Up
<1>5. OpenFails \/ Inline \/ GetRootEmpty \/ DownFails \/ NoNext \/ Iterated => inode' = inode
  BY <1>2, Zenon DEF OpenFails, Inline, GetRootEmpty, DownFails, NoNext, Iterated
<1>6. ReadIndirect \/ BadIndirect => inode' = inode
  BY <1>3, Zenon DEF ReadIndirect, BadIndirect
<1>7. Iterate \/ Sparse \/ DataBlock \/ LeaveIndirect => inode' = inode
  BY Zenon DEF Iterate, Sparse, DataBlock, LeaveIndirect
<1> QED BY <1>4, <1>5, <1>6, <1>7, Zenon DEF Lsblks

LEMMA UnitForm ==
    ASSUME Staged
    PROVE  Unit \in {1, PerBlock} /\ blkunitsz \in Nat /\ 0 \in Nat
BY VolAssumption DEF Unit, Staged

(* query_blocks ends with an error: nothing is read.                       *)
LEMMA FailSteps ==
    ASSUME Counted, Staged, Reading, stage \in {"query", "list", "offset"},
           NEW code \in {1, 2}, NEW refused, Fail(code, refused)
    PROVE  Staged' /\ Reading'
<1>1. /\ stage' = "done" /\ ret' = code
      /\ UNCHANGED <<inode, walk, blknums, vol, blkunitsz, parentoffset, on, n, reads>>
  BY Zenon DEF Fail
<1>2. code # 0 /\ code # 101 /\ ret' \in {0, 1, 2, 101} /\ ret' \in {1, 2}
  BY <1>1
<1>3. Staged'
  BY <1>1, <1>2 DEF Staged
<1>4. on = "volume" /\ n = 1 /\ reads.volume = <<>> /\ reads.parent = <<>>
      /\ reads \in [volume : Seq(Int), parent : Seq(Int)]
  BY Zenon DEF Reading
<1>5. Reading'
  BY <1>1, <1>2, <1>4 DEF Reading
<1> QED BY <1>3, <1>5

LEMMA QuerySteps ==
    ASSUME Counted, Staged, Reading, Query
    PROVE  Staged' /\ Reading'
<1>1. /\ stage = "query" /\ stage' = "list" /\ ~ParentFails(vol)
      /\ UNCHANGED <<inode, walk, blknums, failed, vol, ret, blkunitsz, parentoffset, on, n, reads>>
  BY Zenon DEF Query, listVars
<1>2. Staged'
  BY <1>1 DEF Staged
<1>3. Reading'
  BY <1>1 DEF Reading, Staged
<1> QED BY <1>2, <1>3

(* The list grows, or is complete.                                         *)
LEMMA ListSteps ==
    ASSUME Counted, Counted', Staged, Reading, stage = "list",
           inode' = inode, UNCHANGED <<vol, ret, parentoffset, on, n, reads>>,
           \/ walk' # "listed" /\ UNCHANGED <<stage, blkunitsz>>
           \/ walk' = "listed" /\ stage' = "offset" /\ blkunitsz' = Unit
    PROVE  Staged' /\ Reading'
<1>1. n = 1 /\ on = "volume" /\ reads.volume = <<>> /\ reads.parent = <<>>
      /\ reads \in [volume : Seq(Int), parent : Seq(Int)]
  BY Zenon DEF Reading
<1>2. n' \in 1..(Len(blknums') + 1)
  BY <1>1 DEF Counted
<1>3. Unit' = Unit /\ Unit \in {0, 1, PerBlock}
  BY UnitForm DEF Unit
<1>4. ret' = 0 /\ stage' \in {"list", "offset"}
  BY DEF Staged
<1>5. Staged'
  BY <1>2, <1>3, <1>4 DEF Staged
<1>6. Reading'
  BY <1>1, <1>4 DEF Reading
<1> QED BY <1>5, <1>6

LEMMA ReturnSteps ==
    ASSUME Counted, Staged, Reading, stage = "offset", NEW code, NEW offset \in Nat,
           Return(code, offset),
           code = 101 \/ (code = 0 /\ HasParent(vol) /\ Located(vol) /\ offset = OffsetOf(vol))
    PROVE  Staged' /\ Reading'
<1>1. /\ stage' = "dump" /\ ret' = code /\ parentoffset' = offset
      /\ UNCHANGED <<inode, walk, blknums, failed, vol, blkunitsz, on, n, reads>>
  BY Zenon DEF Return, listVars
<1>2. n = 1 /\ on = "volume" /\ reads.volume = <<>> /\ reads.parent = <<>>
      /\ reads \in [volume : Seq(Int), parent : Seq(Int)]
  BY Zenon DEF Reading
<1>3. Unit' = Unit /\ code \in {0, 101}
  BY <1>1 DEF Unit
<1>4. Staged'
  BY <1>1, <1>3 DEF Staged
<1>5. n' - 1 = 0 /\ ret' # 1 /\ ret' # 2
  BY <1>1, <1>2, <1>3
<1>6. ReadTo(blknums', blkunitsz', 0, n' - 1) = <<>>
  BY <1>5, ReadNone, Zenon
<1>7. Reading'
  BY <1>1, <1>2, <1>5, <1>6 DEF Reading
<1> QED BY <1>4, <1>7

LEMMA DumpForm ==
    ASSUME Counted, Staged, Reading, stage = "dump"
    PROVE  /\ reads \in [volume : Seq(Int), parent : Seq(Int)]
           /\ Len(blknums) \in Nat /\ n \in 1..(Len(blknums) + 1)
           /\ on \in {"volume", "parent"} /\ ret \in {0, 101}
           /\ walk = "listed" /\ blkunitsz = Unit /\ ~ParentFails(vol)
           /\ ret = 0 => HasParent(vol) /\ Located(vol) /\ parentoffset = OffsetOf(vol)
           /\ ret = 101 => on = "volume" /\ reads.parent = <<>>
           /\ on = "volume" => reads.volume = ReadTo(blknums, blkunitsz, 0, n - 1) /\ reads.parent = <<>>
           /\ on = "parent" => ret = 0 /\ reads.parent = ReadTo(blknums, blkunitsz, parentoffset, n - 1)
           /\ on = "parent" => \/ reads.volume = ReadTo(blknums, blkunitsz, 0, Len(blknums))
                               \/ failed /\ reads.volume = <<>>
<1>1. Len(blknums) \in Nat
  BY DEF Counted
<1> QED BY <1>1, Zenon DEF Staged, Reading

(* What a step of dump_blocks has to show.                                 *)
LEMMA DumpStaged ==
    ASSUME Counted, Staged, Reading, stage = "dump",
           UNCHANGED <<inode, walk, blknums, vol, ret, blkunitsz, parentoffset>>,
           stage' \in {"dump", "done"}, on' \in {"volume", "parent"},
           n' \in 1..(Len(blknums) + 1)
    PROVE  Staged'
<1>1. Unit' = Unit
  BY DEF Unit
<1> QED BY <1>1 DEF Staged

LEMMA ReadBlockSteps ==
    ASSUME Counted, Staged, Reading, ReadBlock
    PROVE  Staged' /\ Reading'
<1>1. /\ stage = "dump" /\ n <= Len(blknums) /\ n' = n + 1
      /\ UNCHANGED <<inode, walk, blknums, failed, vol, stage, ret, blkunitsz, parentoffset, on>>
  BY Zenon DEF ReadBlock, listVars
<1> DEFINE offset == IF on = "parent" THEN parentoffset ELSE 0
           e == At(blknums, blkunitsz, offset, n)
<1>2. reads' = [reads EXCEPT ![on] = Append(reads[on], e)]
  BY Zenon DEF ReadBlock, Position, At
<1>3. /\ reads \in [volume : Seq(Int), parent : Seq(Int)]
      /\ Len(blknums) \in Nat /\ n \in 1..(Len(blknums) + 1)
      /\ on \in {"volume", "parent"} /\ ret \in {0, 101}
  BY <1>1, DumpForm, Zenon
<1>4. n \in 1..Len(blknums) /\ n' - 1 = n /\ n' \in 1..(Len(blknums) + 1)
  BY <1>1, <1>3
<1>5. blkunitsz \in Nat /\ offset \in Nat /\ parentoffset \in Nat /\ 0 \in Nat
  BY UnitForm, Zenon DEF Staged
<1>6. blknums \in Seq(Int)
  BY Zenon DEF Counted
<1>7. Staged'
  BY <1>1, <1>3, <1>4, DumpStaged, Zenon
<1>8. CASE on = "volume"
  <2>1. reads.volume = ReadTo(blknums, blkunitsz, 0, n - 1) /\ reads.parent = <<>> /\ offset = 0
    BY <1>1, <1>8, DumpForm, Zenon
  <2>2. e = At(blknums, blkunitsz, 0, n) /\ reads[on] = reads.volume
    BY <1>3, <1>8, <2>1, ReadsOf, Zenon
  <2>3. /\ ReadTo(blknums, blkunitsz, 0, n) = Append(ReadTo(blknums, blkunitsz, 0, n - 1), At(blknums, blkunitsz, 0, n))
        /\ ReadTo(blknums, blkunitsz, 0, n) \in Seq(Int)
    BY <1>4, <1>5, <1>6, ReadOne, Zenon
  <2>4. Append(reads[on], e) = ReadTo(blknums, blkunitsz, 0, n)
    BY <2>1, <2>2, <2>3, Zenon
  <2>5. reads' = [reads EXCEPT !["volume"] = ReadTo(blknums, blkunitsz, 0, n)]
    BY <1>2, <1>8, <2>4, Zenon
  <2>6. /\ reads' \in [volume : Seq(Int), parent : Seq(Int)]
        /\ reads'.volume = ReadTo(blknums, blkunitsz, 0, n) /\ reads'.parent = reads.parent
    BY <1>3, <2>3, <2>5, ReadsOf, Zenon
  <2> HIDE DEF e, offset
  <2>7. Reading'
    BY <1>1, <1>3, <1>4, <1>8, <2>1, <2>6 DEF Reading
  <2> QED BY <1>7, <2>7
<1>9. CASE on = "parent"
  <2>1. /\ reads.parent = ReadTo(blknums, blkunitsz, parentoffset, n - 1) /\ ret = 0
        /\ offset = parentoffset
        /\ \/ reads.volume = ReadTo(blknums, blkunitsz, 0, Len(blknums))
           \/ failed /\ reads.volume = <<>>
    BY <1>1, <1>9, DumpForm, Zenon
  <2>2. e = At(blknums, blkunitsz, parentoffset, n) /\ reads[on] = reads.parent
    BY <1>3, <1>9, <2>1, ReadsOf, Zenon
  <2>3. /\ ReadTo(blknums, blkunitsz, parentoffset, n)
             = Append(ReadTo(blknums, blkunitsz, parentoffset, n - 1), At(blknums, blkunitsz, parentoffset, n))
        /\ ReadTo(blknums, blkunitsz, parentoffset, n) \in Seq(Int)
    BY <1>4, <1>5, <1>6, ReadOne, Zenon
  <2>4. Append(reads[on], e) = ReadTo(blknums, blkunitsz, parentoffset, n)
    BY <2>1, <2>2, <2>3, Zenon
  <2>5. reads' = [reads EXCEPT !["parent"] = ReadTo(blknums, blkunitsz, parentoffset, n)]
    BY <1>2, <1>9, <2>4, Zenon
  <2>6. /\ reads' \in [volume : Seq(Int), parent : Seq(Int)]
        /\ reads'.parent = ReadTo(blknums, blkunitsz, parentoffset, n) /\ reads'.volume = reads.volume
    BY <1>3, <2>3, <2>5, ReadsOf, Zenon
  <2> HIDE DEF e, offset
  <2>7. Reading'
    BY <1>1, <1>3, <1>4, <1>9, <2>1, <2>6 DEF Reading
  <2> QED BY <1>7, <2>7
<1> QED BY <1>3, <1>8, <1>9, Zenon

(* The next device, or the end, once the reading of this one is whole or   *)
(* has failed.                                                             *)
LEMMA NextDumpSteps ==
    ASSUME Counted, Staged, Reading, stage = "dump", NextDump,
           UNCHANGED <<inode, walk, blknums, vol, ret, blkunitsz, parentoffset>>,
           failed => failed', reads' \in [volume : Seq(Int), parent : Seq(Int)],
           on = "volume" =>
               /\ reads'.parent = reads.parent
               /\ \/ reads'.volume = ReadTo(blknums, blkunitsz, 0, Len(blknums))
                  \/ failed' /\ reads'.volume = <<>>,
           on = "parent" =>
               /\ reads'.volume = reads.volume
               /\ \/ reads'.parent = ReadTo(blknums, blkunitsz, parentoffset, Len(blknums))
                  \/ failed' /\ reads'.parent = <<>>
    PROVE  Staged' /\ Reading'
<1>1. /\ reads \in [volume : Seq(Int), parent : Seq(Int)]
      /\ Len(blknums) \in Nat /\ n \in 1..(Len(blknums) + 1)
      /\ on \in {"volume", "parent"} /\ ret \in {0, 101}
      /\ ret = 101 => on = "volume" /\ reads.parent = <<>>
      /\ on = "volume" => reads.parent = <<>>
      /\ on = "parent" => ret = 0
      /\ on = "parent" => \/ reads.volume = ReadTo(blknums, blkunitsz, 0, Len(blknums))
                          \/ failed /\ reads.volume = <<>>
  BY DumpForm, Zenon
<1>2. CASE on = "volume" /\ ret = 0
  <2>1. on' = "parent" /\ n' = 1 /\ stage' = "dump"
    BY <1>2, Zenon DEF NextDump
  <2>2. n' \in 1..(Len(blknums) + 1) /\ n' - 1 = 0
    BY <1>1, <2>1
  <2>3. Staged'
    BY <2>1, <2>2, DumpStaged, Zenon
  <2>4. ReadTo(blknums', blkunitsz', parentoffset', n' - 1) = <<>>
    BY <2>2, ReadNone, Zenon
  <2>5. Reading'
    BY <1>1, <1>2, <2>1, <2>4 DEF Reading
  <2> QED BY <2>3, <2>5
<1>3. CASE ~(on = "volume" /\ ret = 0)
  <2>1. stage' = "done" /\ on' = on /\ n' = n
    BY <1>3, Zenon DEF NextDump
  <2>2. Staged'
    BY <1>1, <2>1, DumpStaged, Zenon
  <2>3. CASE ret = 101
    BY <1>1, <2>1, <2>2, <2>3 DEF Reading
  <2>4. CASE ret = 0
    <3>1. on = "parent"
      BY <1>1, <1>3, <2>4, Zenon
    <3> QED BY <1>1, <2>1, <2>2, <2>4, <3>1 DEF Reading
  <2> QED BY <1>1, <2>3, <2>4
<1> QED BY <1>2, <1>3

LEMMA DumpEndsSteps ==
    ASSUME Counted, Staged, Reading, DumpEnds
    PROVE  Staged' /\ Reading'
<1>1. /\ stage = "dump" /\ n > Len(blknums) /\ NextDump
      /\ UNCHANGED <<inode, walk, blknums, failed, vol, ret, blkunitsz, parentoffset, reads>>
  BY Zenon DEF DumpEnds, listVars
<1>2. /\ reads \in [volume : Seq(Int), parent : Seq(Int)]
      /\ Len(blknums) \in Nat /\ n \in 1..(Len(blknums) + 1)
      /\ on = "volume" => reads.volume = ReadTo(blknums, blkunitsz, 0, n - 1)
      /\ on = "parent" => reads.parent = ReadTo(blknums, blkunitsz, parentoffset, n - 1)
  BY <1>1, DumpForm, Zenon
<1>3. n - 1 = Len(blknums)
  BY <1>1, <1>2
<1> QED BY <1>1, <1>2, <1>3, NextDumpSteps, Zenon

LEMMA DumpFailsSteps ==
    ASSUME Counted, Staged, Reading, DumpFails
    PROVE  Staged' /\ Reading'
<1>1. /\ stage = "dump" /\ failed' = TRUE /\ NextDump
      /\ reads' = [reads EXCEPT ![on] = <<>>]
      /\ UNCHANGED <<inode, walk, blknums, vol, ret, blkunitsz, parentoffset>>
  BY Zenon DEF DumpFails
<1>2. reads \in [volume : Seq(Int), parent : Seq(Int)] /\ on \in {"volume", "parent"}
  BY <1>1, DumpForm, Zenon
<1>3. <<>> \in Seq(Int)
  OBVIOUS
<1>4. CASE on = "volume"
  <2>1. reads' = [reads EXCEPT !["volume"] = <<>>]
    BY <1>1, <1>4, Zenon
  <2>2. /\ reads' \in [volume : Seq(Int), parent : Seq(Int)]
        /\ reads'.volume = <<>> /\ reads'.parent = reads.parent
    BY <1>2, <1>3, <2>1, ReadsOf, Zenon
  <2> QED BY <1>1, <1>4, <2>2, NextDumpSteps, Zenon
<1>5. CASE on = "parent"
  <2>1. reads' = [reads EXCEPT !["parent"] = <<>>]
    BY <1>1, <1>5, Zenon
  <2>2. /\ reads' \in [volume : Seq(Int), parent : Seq(Int)]
        /\ reads'.parent = <<>> /\ reads'.volume = reads.volume
    BY <1>2, <1>3, <2>1, ReadsOf, Zenon
  <2> QED BY <1>1, <1>5, <2>2, NextDumpSteps, Zenon
<1> QED BY <1>2, <1>4, <1>5, Zenon

LEMMA RawSteps ==
    ASSUME Counted, Counted', Staged, Reading, [Next]_vars,
           stage = "list" /\ inode.map = "xfs" => walk = "open"
    PROVE  Staged' /\ Reading'
<1>1. CASE QueryFails
  <2>1. stage = "query" /\ Fail(2, ParentFails(vol))
    BY <1>1, Zenon DEF QueryFails
  <2>2. 2 \in {1, 2} /\ stage \in {"query", "list", "offset"}
    BY <2>1, Zenon
  <2> QED BY <2>1, <2>2, FailSteps, Zenon
<1>2. CASE Query
  BY <1>2, QuerySteps, Zenon
<1>3. CASE ListExt
  <2>1. /\ stage = "list" /\ inode' = inode /\ inode.map # "xfs"
        /\ UNCHANGED <<vol, ret, parentoffset, on, n, reads>>
        /\ IF walk' = "listed" THEN stage' = "offset" /\ blkunitsz' = PerBlock
           ELSE UNCHANGED <<stage, blkunitsz>>
    BY <1>3, LsblksFrame DEF ListExt, ExtMaps
  <2>2. \/ walk' # "listed" /\ UNCHANGED <<stage, blkunitsz>>
        \/ walk' = "listed" /\ stage' = "offset" /\ blkunitsz' = Unit
    BY <2>1, Zenon DEF Unit
  <2> QED BY <2>1, <2>2, ListSteps, Zenon
<1>4. CASE ListXfs
  <2>1. /\ stage = "list" /\ inode' = inode /\ inode.map = "xfs"
        /\ UNCHANGED <<walk, vol, stage, ret, blkunitsz, parentoffset, on, n, reads>>
    BY <1>4, Zenon DEF ListXfs
  <2>2. walk' # "listed"
    BY <2>1
  <2> QED BY <2>1, <2>2, ListSteps, Zenon
<1>5. CASE XfsListed
  <2>1. /\ stage = "list" /\ inode' = inode /\ inode.map = "xfs"
        /\ walk' = "listed" /\ stage' = "offset" /\ blkunitsz' = 1
        /\ UNCHANGED <<vol, ret, parentoffset, on, n, reads>>
    BY <1>5, Zenon DEF XfsListed
  <2>2. blkunitsz' = Unit
    BY <2>1, Zenon DEF Unit
  <2> QED BY <2>1, <2>2, ListSteps, Zenon
<1>6. CASE ListFails \/ OffsetFails
  <2>1. PICK refused : Fail(1, refused) /\ stage \in {"list", "offset"}
    BY <1>6, Zenon DEF ListFails, OffsetFails
  <2>2. 1 \in {1, 2} /\ stage \in {"query", "list", "offset"}
    BY <2>1, Zenon
  <2> QED BY <2>1, <2>2, FailSteps, Zenon
<1>7. CASE NoParent
  <2>1. stage = "offset" /\ Return(101, 0) /\ 0 \in Nat
    BY <1>7 DEF NoParent
  <2> QED BY <2>1, ReturnSteps, Zenon
<1>8. CASE Offset
  <2>1. stage = "offset" /\ HasParent(vol) /\ Located(vol) /\ Return(0, OffsetOf(vol))
    BY <1>8, Zenon DEF Offset
  <2>2. IsVolume(vol)
    BY VolAssumption, Zenon DEF Staged
  <2>3. OffsetOf(vol) \in Nat
    BY <2>1, <2>2, OffsetNat, Zenon
  <2> QED BY <2>1, <2>3, ReturnSteps, Zenon
<1>9. CASE ReadBlock
  BY <1>9, ReadBlockSteps, Zenon
<1>10. CASE DumpEnds
  BY <1>10, DumpEndsSteps, Zenon
<1>11. CASE DumpFails
  BY <1>11, DumpFailsSteps, Zenon
<1>12. CASE Finished \/ UNCHANGED vars
  <2>1. UNCHANGED vars
    BY <1>12, Zenon DEF Finished
  <2>2. UNCHANGED <<inode, walk, blknums, failed, vol, stage, ret, blkunitsz, parentoffset, on, n, reads>>
    BY <2>1, Zenon DEF vars, listVars, rawVars
  <2>3. Unit' = Unit
    BY <2>2, Zenon DEF Unit
  <2>4. Staged'
    BY <2>2, <2>3, Zenon DEF Staged
  <2>5. Reading'
    BY <2>2, Zenon DEF Reading
  <2> QED BY <2>4, <2>5
<1> QED BY <1>1, <1>2, <1>3, <1>4, <1>5, <1>6, <1>7, <1>8, <1>9, <1>10, <1>11, <1>12, Zenon
        DEF Next, Fhf

(* What the device below was read for, there was an offset for.            *)
LEMMA ParentRead ==
    ASSUME Staged, Reading, reads.parent # <<>>
    PROVE  /\ stage \in {"dump", "done"} /\ ret = 0
           /\ HasParent(vol) /\ Located(vol) /\ ~ParentFails(vol) /\ parentoffset = OffsetOf(vol)
<1>1. stage \in {"dump", "done"} /\ ret # 101 /\ ~(stage = "done" /\ ret \in {1, 2})
  BY Zenon DEF Staged, Reading
<1>2. ret = 0
  BY <1>1 DEF Staged
<1> QED BY <1>1, <1>2, Zenon DEF Staged

LEMMA RefusesSpread == Staged /\ Reading => SpreadRefused
<1> SUFFICES ASSUME Staged, Reading, reads.parent # <<>>
             PROVE  \/ vol.kind = "part"
                    \/ vol.kind = "lvm" /\ vol.slaves = 1 /\ Own(vol) # {}
                    \/ vol.kind = "md" /\ vol.memberpart
  BY Zenon DEF SpreadRefused
<1>1. HasParent(vol) /\ Located(vol) /\ ~ParentFails(vol)
  BY ParentRead, Zenon
<1>2. vol.kind \in {"part", "lvm"} \/ (vol.kind = "md" /\ vol.memberpart)
  BY <1>1, Zenon DEF Located, TypeOf
<1>3. CASE vol.kind = "lvm"
  <2>1. TypeOf(vol) = "lvm"
    BY <1>3 DEF TypeOf
  <2>2. Own(vol) # {}
    BY <1>1, <2>1, Zenon DEF Located
  <2>3. vol.slaves = 1
    BY <1>1, <1>3, Zenon DEF ParentFails
  <2> QED BY <1>3, <2>2, <2>3, Zenon
<1> QED BY <1>2, <1>3, Zenon

LEMMA ReadShort ==
    ASSUME NEW B \in Seq(Int), NEW u \in Nat, NEW offset \in Nat, NEW m \in 0..Len(B)
    PROVE  Len(ReadTo(B, u, offset, m)) <= Len(B)
<1>1. \A x \in 1..m : At(B, u, offset, x) \in Int
  BY AtInt
<1> QED BY <1>1 DEF ReadTo

LEMMA ReadsBounded ==
    ASSUME Counted, Staged, Reading
    PROVE  \A d \in {"volume", "parent"} : Len(reads[d]) <= Len(blknums)
<1>1. /\ blknums \in Seq(Int) /\ Len(blknums) \in Nat /\ Len(<<>>) = 0
      /\ 0 <= Len(blknums) /\ Len(blknums) <= Len(blknums) /\ Len(blknums) \in 0..Len(blknums)
  BY DEF Counted
<1>2. blkunitsz \in Nat /\ parentoffset \in Nat /\ 0 \in Nat
  BY UnitForm, Zenon DEF Staged
<1>3. n - 1 \in 0..Len(blknums)
  BY <1>1 DEF Staged
<1>4. /\ Len(<<>>) <= Len(blknums)
      /\ Len(ReadTo(blknums, blkunitsz, 0, Len(blknums))) <= Len(blknums)
      /\ Len(ReadTo(blknums, blkunitsz, parentoffset, Len(blknums))) <= Len(blknums)
      /\ Len(ReadTo(blknums, blkunitsz, 0, n - 1)) <= Len(blknums)
      /\ Len(ReadTo(blknums, blkunitsz, parentoffset, n - 1)) <= Len(blknums)
  <2>1. Len(<<>>) <= Len(blknums)
    BY <1>1
  <2>2. Len(ReadTo(blknums, blkunitsz, 0, Len(blknums))) <= Len(blknums)
    BY <1>1, <1>2, ReadShort, Zenon
  <2>3. Len(ReadTo(blknums, blkunitsz, parentoffset, Len(blknums))) <= Len(blknums)
    BY <1>1, <1>2, ReadShort, Zenon
  <2>4. Len(ReadTo(blknums, blkunitsz, 0, n - 1)) <= Len(blknums)
    BY <1>1, <1>2, <1>3, ReadShort, Zenon
  <2>5. Len(ReadTo(blknums, blkunitsz, parentoffset, n - 1)) <= Len(blknums)
    BY <1>1, <1>2, <1>3, ReadShort, Zenon
  <2> QED BY <2>1, <2>2, <2>3, <2>4, <2>5, Zenon
<1>5. Len(reads.volume) <= Len(blknums) /\ Len(reads.parent) <= Len(blknums)
  <2>1. CASE stage \in {"query", "list", "offset"} \/ (stage = "done" /\ ret \in {1, 2})
    BY <1>4, <2>1, Zenon DEF Reading
  <2>2. CASE stage = "dump"
    <3>1. reads.volume \in {<<>>, ReadTo(blknums, blkunitsz, 0, n - 1), ReadTo(blknums, blkunitsz, 0, Len(blknums))}
      BY <2>2, Zenon DEF Reading, Staged
    <3>2. reads.parent \in {<<>>, ReadTo(blknums, blkunitsz, parentoffset, n - 1)}
      BY <2>2, Zenon DEF Reading, Staged
    <3> QED BY <1>4, <3>1, <3>2, Zenon
  <2>3. CASE stage = "done" /\ ret \in {0, 101}
    <3>1. reads.volume \in {<<>>, ReadTo(blknums, blkunitsz, 0, Len(blknums))}
      BY <2>3, Zenon DEF Reading
    <3>2. reads.parent \in {<<>>, ReadTo(blknums, blkunitsz, parentoffset, Len(blknums))}
      BY <2>3, Zenon DEF Reading
    <3> QED BY <1>4, <3>1, <3>2, Zenon
  <2> QED BY <2>1, <2>2, <2>3, Zenon DEF Staged
<1>6. reads["volume"] = reads.volume /\ reads["parent"] = reads.parent
  BY Zenon DEF Reading
<1> QED BY <1>5, <1>6, Zenon

(* The two readings, block by block.                                       *)
LEMMA SameBlocks ==
    ASSUME Counted, Staged, Reading, stage = "done", ret = 0, Straight(vol), OnVolume,
           \A x \in 1..Len(blknums) : blknums[x] \in Nat \union {-1}
    PROVE  \A x \in 1..Len(blknums) :
              At(blknums, blkunitsz, parentoffset, x) = Below(At(blknums, blkunitsz, 0, x))
<1> SUFFICES ASSUME NEW x \in 1..Len(blknums)
             PROVE  At(blknums, blkunitsz, parentoffset, x) = Below(At(blknums, blkunitsz, 0, x))
  BY Zenon
<1>1. CASE blknums[x] = -1
  BY <1>1, Zenon DEF At, Below
<1>2. CASE blknums[x] # -1
  <2> DEFINE s == blknums[x] * blkunitsz
  <2>1. blkunitsz \in Nat /\ blknums[x] \in Nat
    BY <1>2, UnitForm, Zenon
  <2>2. s \in Nat
    BY <2>1
  <2>3. x \in Blocks
    BY <1>2 DEF Blocks, Counted
  <2>4. Backing(vol, s) # Elsewhere
    BY <2>3, Zenon DEF OnVolume
  <2>5. At(blknums, blkunitsz, parentoffset, x) = parentoffset + s
        /\ At(blknums, blkunitsz, 0, x) = 0 + s
    BY <1>2, Zenon DEF At
  <2> HIDE DEF s
  <2>6. 0 + s = s /\ s # -1
    BY <2>2
  <2>7. Below(s) = Backing(vol, s)
    BY <2>6, Zenon DEF Below
  <2>8. IsVolume(vol) /\ parentoffset = OffsetOf(vol)
    BY VolAssumption, Zenon DEF Staged
  <2>9. OffsetOf(vol) + s = Backing(vol, s)
    BY <2>2, <2>4, <2>8, OffsetIsBacking, Zenon
  <2> QED BY <2>5, <2>6, <2>7, <2>8, <2>9, Zenon
<1> QED BY <1>1, <1>2, Zenon

LEMMA Agreement ==
    ASSUME Counted, Staged, Reading, \A x \in 1..Len(blknums) : blknums[x] \in Nat \union {-1}
    PROVE  ReadingsAgree
<1> SUFFICES ASSUME stage = "done", Straight(vol), OnVolume, reads.volume # <<>>, reads.parent # <<>>
             PROVE  reads.parent = [x \in DOMAIN reads.volume |-> Below(reads.volume[x])]
  BY Zenon DEF ReadingsAgree
<1>1. ret = 0
  BY ParentRead, Zenon
<1>2. /\ reads.volume = ReadTo(blknums, blkunitsz, 0, Len(blknums))
      /\ reads.parent = ReadTo(blknums, blkunitsz, parentoffset, Len(blknums))
  BY <1>1, Zenon DEF Reading
<1>3. /\ DOMAIN reads.volume = 1..Len(blknums)
      /\ \A x \in 1..Len(blknums) : reads.volume[x] = At(blknums, blkunitsz, 0, x)
  <2>1. /\ DOMAIN ReadTo(blknums, blkunitsz, 0, Len(blknums)) = 1..Len(blknums)
        /\ \A x \in 1..Len(blknums) :
              ReadTo(blknums, blkunitsz, 0, Len(blknums))[x] = At(blknums, blkunitsz, 0, x)
    BY Zenon DEF ReadTo
  <2> QED BY <1>2, <2>1, Zenon
<1>4. \A x \in 1..Len(blknums) :
          At(blknums, blkunitsz, parentoffset, x) = Below(At(blknums, blkunitsz, 0, x))
  BY <1>1, SameBlocks, Zenon
<1>5. \A x \in 1..Len(blknums) : At(blknums, blkunitsz, parentoffset, x) = Below(reads.volume[x])
  BY <1>3, <1>4, Zenon
<1>6. [x \in 1..Len(blknums) |-> At(blknums, blkunitsz, parentoffset, x)]
        = [x \in 1..Len(blknums) |-> Below(reads.volume[x])]
  BY <1>5, Zenon
<1> QED BY <1>2, <1>3, <1>6, Zenon DEF ReadTo

-----------------------------------------------------------------------------
(* The extents of xfs_bmap.                                                *)

LEMMA SlotNext ==
    ASSUME path = <<>>, path' = <<>>, slot \in Nat \ {0}, slot' = slot + 1
    PROVE  IsNext(Here, Here', 1)
<1> DEFINE c == RouteFrom(slot, <<>>)
           d == RouteFrom(slot + 1, <<>>)
<1>1. Here = c /\ Here' = d
  BY DEF Here, RouteFrom, RouteOf
<1>2. slot + 1 \in Nat \ {0} /\ <<>> \in Seq(Frames) /\ Len(<<>>) + 1 = 1 /\ 1..(1 - 1) = {}
  OBVIOUS
<1>3. c[1] = Hop(0, slot)
  BY <1>2, RouteFromIs, Zenon
<1>4. d \in Seq(Hops) /\ Len(d) = Len(<<>>) + 1 /\ d[1] = Hop(0, slot + 1)
  BY <1>2, RouteFromIs, Zenon
<1> HIDE DEF c, d
<1>5. d[1].blk = c[1].blk /\ d[1].curr = c[1].curr + 1
  BY <1>3, <1>4 DEF Hop
<1>6. IsNext(c, d, 1)
  BY <1>2, <1>4, <1>5, Zenon DEF IsNext
<1> QED BY <1>1, <1>6, Zenon

LEMMA RowListed ==
    ASSUME Typed, Good, inode.map = "xfs", NEW c \in Routes(inode)[1],
           Behind(Listed, c, FALSE), NEW bs, bs = DataAt(inode, c), inode' = inode,
           blknums' = blknums \o <<-1>> \o bs,
           places' = places \o <<NoPlace>> \o [k \in DOMAIN bs |-> Place(c, k)]
    PROVE  Good' /\ Listed' = Listed \union {Place(c, k) : k \in DOMAIN bs}
<1> DEFINE B == blknums \o << -1 >>
           P == places \o << NoPlace >>
           ps == [k \in DOMAIN bs |-> Place(c, k)]
<1>1. IsInode(inode) /\ GoodList(inode, blknums, places)
  BY InodeForm DEF Good
<1>2. GoodList(inode, B, P) /\ ListedIn(B, P) = ListedIn(blknums, places)
  BY <1>1, MarkList, Zenon
<1>3. blknums' = B \o bs /\ places' = P \o ps
  BY Zenon
<1>4. ps = [k \in DOMAIN bs |-> Place(c, k)]
  OBVIOUS
<1> HIDE DEF B, P, ps
<1>5. Behind(ListedIn(B, P), c, FALSE)
  BY <1>2, Zenon DEF Listed
<1>0. 1 \in 1..(MaxDepth + 1)
  BY DepthAssumption
<1>6. Extends(inode, B, P, c, bs, B \o bs, P \o ps)
  BY <1>0, <1>1, <1>2, <1>4, <1>5, ExtendList, Zenon
<1>7. /\ GoodList(inode, blknums', places')
      /\ ListedIn(blknums', places') = ListedIn(blknums, places) \union {Place(c, k) : k \in DOMAIN bs}
  BY <1>2, <1>3, <1>6, Zenon DEF Extends
<1>8. Good'
  BY <1>7, Zenon DEF Good
<1> QED BY <1>7, <1>8, Zenon DEF Listed

LEMMA ListXfsKeeps ==
    ASSUME Listing, walk = "open", ListXfs
    PROVE  Listing'
<1> DEFINE c == Here
           x == inode.root[slot]
           row == [k \in 1..x.len |-> x.start + k - 1]
<1>1. /\ inode.map = "xfs" /\ slot <= Len(inode.root) /\ slot' = slot + 1
      /\ IF x.start = 0 THEN blknums' = blknums /\ places' = places
         ELSE /\ blknums' = blknums \o <<-1>> \o row
              /\ places' = places \o <<NoPlace>> \o [k \in DOMAIN row |-> Place(c, k)]
      /\ inode' = inode /\ walk' = walk /\ path' = path /\ line' = line /\ failed' = failed
  BY Zenon DEF ListXfs
<1>2. Typed /\ Good /\ OnSlots /\ failed' \in BOOLEAN /\ line' \in Seq(Token)
  BY <1>1, Zenon DEF Listing, Typed
<1>3. IsInode(inode) /\ path = <<>> /\ slot \in Nat \ {0}
  BY <1>2, InodeForm, Zenon DEF Typed
<1>4. (~failed => Passed(Whole, Listed, c)) /\ Behind(Listed, c, FALSE)
  <2>1. walk # "listed" /\ inode.map \in {"indirect", "xfs"}
    BY <1>1
  <2> QED BY <1>2, <2>1, Zenon DEF OnSlots
<1>5. c \in Seq(Hops) /\ Len(c) = 1 /\ c[1] = Hop(0, slot)
  BY <1>3, HereEmpty, Zenon
<1>6. DOMAIN inode.root = 1..Len(inode.root) /\ Len(inode.root) \in Nat
  BY <1>3, Zenon DEF IsInode, IsList
<1>n. IsNext(c, Here', 1)
  BY <1>1, <1>3, SlotNext, Zenon
<1> HIDE DEF c
<1>7. c \in Routes(inode)[1]
  <2>1. c = <<Hop(0, slot)>>
    BY <1>5
  <2>2. slot \in DOMAIN inode.root
    <3>1. slot <= Len(inode.root) /\ slot \in Nat \ {0}
      BY <1>1, <1>3, Zenon
    <3> QED BY <1>6, <3>1
  <2> QED BY <2>1, <2>2, FirstRoutes, Zenon
<1>8. ChildOf(inode, c) = x
  <2>1. c[1].blk = 0 /\ c[1].curr = slot
    BY <1>5 DEF Hop
  <2> QED BY <1>5, <2>1, Zenon DEF ChildOf, Entries
<1>9. inode.depth = 0 /\ inode.map # "indirect" /\ inode.map # "extents" /\ Len(c) = inode.depth + 1
  <2>1. inode.map # "extents" /\ inode.map # "indirect"
    BY <1>1, Zenon
  <2>2. inode.depth = 0
    BY <1>3, <2>1, Zenon DEF IsInode
  <2>3. Len(c) = 1 /\ 0 + 1 = 1
    BY <1>5
  <2> QED BY <2>1, <2>2, <2>3, Zenon
<1>10. DataAt(inode, c) = IF x.start # 0 THEN row ELSE <<>>
  BY <1>8, <1>9, Zenon DEF DataAt
<1> HIDE DEF x, row
<1>11. Good' /\ Listed' = Listed \union {Place(c, k) : k \in DOMAIN DataAt(inode, c)}
  <2>1. CASE x.start = 0
    <3>1. DataAt(inode, c) = <<>>
      BY <1>10, <2>1, Zenon
    <3>2. {Place(c, k) : k \in DOMAIN <<>>} = {}
      OBVIOUS
    <3>3. Good' /\ Listed' = Listed
      BY <1>1, <1>2, <2>1, Zenon DEF Good, Listed
    <3> QED BY <3>1, <3>2, <3>3, Zenon
  <2>2. CASE x.start # 0
    <3>1. row = DataAt(inode, c)
      BY <1>10, <2>2, Zenon
    <3>2. /\ blknums' = blknums \o <<-1>> \o row
          /\ places' = places \o <<NoPlace>> \o [k \in DOMAIN row |-> Place(c, k)]
      BY <1>1, <2>2, Zenon
    <3>3. Good' /\ Listed' = Listed \union {Place(c, k) : k \in DOMAIN row}
      BY <1>1, <1>2, <1>4, <1>7, <3>1, <3>2, RowListed, Zenon
    <3> QED BY <3>1, <3>3, Zenon
  <2> QED BY <2>1, <2>2, Zenon
<1>12. ~failed' => Passed(Whole, Listed', c)
  BY <1>1, <1>4, <1>11, Zenon DEF Passed
<1>13. Behind(Listed', c, TRUE)
  <2> SUFFICES ASSUME NEW q \in Listed' PROVE Before(q.at, c) \/ Prefix(c, q.at)
    BY Zenon DEF Behind
  <2>1. CASE q \in Listed
    BY <1>4, <2>1, Zenon DEF Behind
  <2>2. CASE q \in {Place(c, k) : k \in DOMAIN DataAt(inode, c)}
    <3>1. q.at = c
      BY <2>2, PlaceIs, Zenon
    <3> QED BY <1>5, <3>1, PrefixSelf, Zenon
  <2> QED BY <1>11, <2>1, <2>2, Zenon
<1>14. Under(Whole, Listed', c)
  <2> SUFFICES ASSUME NEW q \in Whole, Prefix(c, q.at) PROVE q \in Listed'
    BY Zenon DEF Under
  <2>0. q \in Places(inode)
    BY DEF Whole
  <2>1. /\ q.at \in Seq(Hops) /\ q.k \in DOMAIN DataAt(inode, q.at) /\ q = Place(q.at, q.k)
    BY <1>3, <2>0, PlaceForm, Zenon
  <2>2. Len(q.at) = Len(c)
    BY <1>3, <1>9, <2>0, DepthOfPlaces, Zenon
  <2>3. q.at = c
    BY <1>5, <2>1, <2>2, PrefixAll, Zenon
  <2> QED BY <1>11, <2>1, <2>3, Zenon
<1>15. Whole \in SUBSET Places(inode) /\ 1 \in 1..(MaxDepth + 1)
  BY DepthAssumption DEF Whole
<1>16. Listed' \in SUBSET Places(inode)
  <2>1. Listed' \in SUBSET Places(inode')
    BY <1>11, ListedPlaces, Zenon DEF Good, Listed
  <2> QED BY <1>1, <2>1, Zenon
<1>17. ~failed' => Passed(Whole, Listed', Here')
  BY <1>3, <1>7, <1>n, <1>12, <1>14, <1>15, NextPassed, Zenon
<1>18. Behind(Listed', Here', FALSE)
  BY <1>3, <1>5, <1>n, <1>13, <1>15, <1>16, NextBehind, Zenon
<1>19. path' = <<>> /\ <<>> \in Seq(Frames) /\ Len(<<>>) <= 3 /\ 1..Len(<<>>) = {} /\ InNode'
  BY <1>1, <1>3 DEF InNode
<1>20. slot' \in Nat \ {0} /\ slot' <= Len(inode.root) + 1
  BY <1>1, <1>3, <1>6
<1>21. /\ path' \in Seq(Frames) /\ Len(path') <= 3
       /\ \A k \in 1..Len(path') : path'[k].blk \in DOMAIN inode.disk \union {0}
  BY <1>19, Zenon
<1> QED BY <1>1, <1>2, <1>11, <1>17, <1>18, <1>19, <1>20, <1>21, SlotsKeep, Zenon

LEMMA XfsListedKeeps ==
    ASSUME Listing, walk = "open", XfsListed
    PROVE  Listing'
<1>1. /\ inode.map = "xfs" /\ slot > Len(inode.root) /\ StopList /\ failed' = failed
  BY Zenon DEF XfsListed, StopList
<1>2. Typed /\ OnSlots /\ failed \in BOOLEAN
  BY Zenon DEF Listing, Typed
<1>3. IsInode(inode) /\ path = <<>> /\ slot \in Nat \ {0}
  BY <1>2, InodeForm, Zenon DEF Typed
<1>4. ASSUME ~failed PROVE Complete
  <2>1. walk # "listed" /\ inode.map \in {"indirect", "xfs"}
    BY <1>1
  <2>2. Passed(Whole, Listed, Here)
    BY <1>2, <1>4, <2>1, Zenon DEF OnSlots
  <2>3. Here \in Seq(Hops) /\ Len(Here) = 1 /\ Here[1] = Hop(0, slot)
    BY <1>3, HereEmpty, Zenon
  <2>4. Here[1].curr = slot
    BY <2>3 DEF Hop
  <2>5. Here[1].curr > Len(inode.root)
    BY <1>1, <2>4, Zenon
  <2>6. Whole \in SUBSET Places(inode)
    BY DEF Whole
  <2>7. Whole \subseteq Listed
    BY <1>3, <2>2, <2>3, <2>5, <2>6, EndAll, Zenon
  <2>8. Intact(inode) => Places(inode) \subseteq Whole
    BY <1>2, IntactWhole
  <2> QED BY <2>7, <2>8, Zenon DEF Complete
<1> QED BY <1>1, <1>2, <1>4, StopKeeps, Zenon

-----------------------------------------------------------------------------
(* The inductive invariant                                                 *)

Inv == Listing /\ Staged /\ Reading

LEMMA ListsCounted == Listing => Counted
<1> SUFFICES ASSUME Listing PROVE Counted
  BY Zenon
<1>1. blknums \in Seq(Nat \union {-1})
  BY ListForm, Zenon
<1>2. blknums \in Seq(Int)
  BY <1>1
<1> QED BY <1>2, Zenon DEF Listing, Typed, Counted

(* The sectors of the list are the sectors of the directory.               *)
LEMMA SectorsAre ==
    ASSUME Listing, Staged, blkunitsz = Unit
    PROVE  \A x \in 1..Len(blknums) : At(blknums, blkunitsz, 0, x) = SectorAt(places[x])
<1> SUFFICES ASSUME NEW x \in 1..Len(blknums)
             PROVE  At(blknums, blkunitsz, 0, x) = SectorAt(places[x])
  BY Zenon
<1>1. CASE blknums[x] = -1
  <2>1. places[x] = NoPlace
    BY <1>1, Zenon DEF Listing, Good, GoodList
  <2> QED BY <1>1, <2>1, Zenon DEF At, SectorAt
<1>2. CASE blknums[x] # -1
  <2>1. places[x] \in Places(inode) /\ blknums[x] = DataAt(inode, places[x].at)[places[x].k]
    BY <1>2, Zenon DEF Listing, Good, GoodList
  <2>2. places[x] # NoPlace
    <3>1. Len(places[x].at) \in 1..(MaxDepth + 1)
      BY <2>1, InodeForm, PlaceForm, Zenon DEF Listing
    <3>2. NoPlace.at = <<>>
      BY PlaceIs, Zenon DEF NoPlace
    <3>3. Len(<<>>) \notin 1..(MaxDepth + 1)
      OBVIOUS
    <3> QED BY <3>1, <3>2, <3>3, Zenon
  <2>3. SectorAt(places[x]) = blknums[x] * Unit
    BY <2>1, <2>2, Zenon DEF SectorAt, Unit
  <2>4. At(blknums, blkunitsz, 0, x) = 0 + blknums[x] * Unit
    BY <1>2, Zenon DEF At
  <2>5. blknums[x] \in Nat
    BY <1>2, ListForm, Zenon
  <2>6. Unit \in Nat
    BY UnitForm, Zenon
  <2>7. blknums[x] * Unit \in Nat
    BY <2>5, <2>6
  <2>8. 0 + blknums[x] * Unit = blknums[x] * Unit
    BY <2>7
  <2> QED BY <2>3, <2>4, <2>8, Zenon
<1> QED BY <1>1, <1>2, Zenon

LEMMA WholeRead == Listing /\ Staged /\ Reading => DirectoryRead
<1> SUFFICES ASSUME Listing, Staged, Reading, stage = "done", ret = 0, ~failed, Intact(inode)
             PROVE  /\ AllListed
                    /\ reads.volume = [x \in DOMAIN places |-> SectorAt(places[x])]
                    /\ Straight(vol) /\ OnVolume =>
                          reads.parent = [x \in DOMAIN places |-> Below(SectorAt(places[x]))]
  BY Zenon DEF DirectoryRead
<1>1. walk = "listed" /\ blkunitsz = Unit
  BY Zenon DEF Staged
<1>2. AllListed
  BY <1>1, AllOfList, Zenon DEF BlocksListed
<1>3. /\ reads.volume = ReadTo(blknums, blkunitsz, 0, Len(blknums))
      /\ reads.parent = ReadTo(blknums, blkunitsz, parentoffset, Len(blknums))
  BY Zenon DEF Reading
<1>4. DOMAIN places = 1..Len(blknums) /\ Counted
      /\ \A x \in 1..Len(blknums) : blknums[x] \in Nat \union {-1}
  BY ListForm, ListsCounted, Zenon
<1>5. \A x \in 1..Len(blknums) : At(blknums, blkunitsz, 0, x) = SectorAt(places[x])
  BY <1>1, SectorsAre, Zenon
<1>6. [x \in 1..Len(blknums) |-> At(blknums, blkunitsz, 0, x)]
        = [x \in 1..Len(blknums) |-> SectorAt(places[x])]
  BY <1>5, Zenon
<1>7. reads.volume = [x \in DOMAIN places |-> SectorAt(places[x])]
  BY <1>3, <1>4, <1>6, Zenon DEF ReadTo
<1>8. ASSUME Straight(vol), OnVolume
      PROVE  reads.parent = [x \in DOMAIN places |-> Below(SectorAt(places[x]))]
  <2>1. \A x \in 1..Len(blknums) :
            At(blknums, blkunitsz, parentoffset, x) = Below(At(blknums, blkunitsz, 0, x))
    BY <1>4, <1>8, SameBlocks, Zenon
  <2>2. \A x \in 1..Len(blknums) : At(blknums, blkunitsz, parentoffset, x) = Below(SectorAt(places[x]))
    BY <1>5, <2>1, Zenon
  <2>3. [x \in 1..Len(blknums) |-> At(blknums, blkunitsz, parentoffset, x)]
          = [x \in 1..Len(blknums) |-> Below(SectorAt(places[x]))]
    BY <2>2, Zenon
  <2> QED BY <1>3, <1>4, <2>3, Zenon DEF ReadTo
<1> QED BY <1>2, <1>7, <1>8, Zenon

LEMMA InitInv == Init => Inv
<1> SUFFICES ASSUME Init PROVE Inv
  BY Zenon
<1>1. /\ walk = "open" /\ blknums = <<>> /\ vol \in Volumes /\ stage = "query" /\ ret = 0
      /\ blkunitsz = 0 /\ parentoffset = 0
      /\ on = "volume" /\ n = 1 /\ reads = [volume |-> <<>>, parent |-> <<>>]
  BY Zenon DEF Init, ListInit
<1>2. 0 \in Nat /\ 1 \in 1..(Len(<<>>) + 1) /\ 0 # 101
  OBVIOUS
<1>3. Staged
  BY <1>1, <1>2, Zenon DEF Staged
<1>4. <<>> \in Seq(Int)
  OBVIOUS
<1>5. /\ reads \in [volume : Seq(Int), parent : Seq(Int)]
      /\ reads.volume = <<>> /\ reads.parent = <<>>
  BY <1>1, <1>4, Zenon
<1>6. Reading
  BY <1>1, <1>2, <1>5, Zenon DEF Reading
<1>7. Listing
  BY InitListing, Zenon DEF Init
<1> QED BY <1>3, <1>6, <1>7, Zenon DEF Inv

LEMMA XfsOpen ==
    ASSUME Listing, Staged, stage = "list", inode.map = "xfs"
    PROVE  walk = "open"
<1>1. /\ walk \in {"open", "extents", "slots", "listed"} /\ walk # "listed"
      /\ walk # "extents" /\ walk # "slots"
  BY Zenon DEF Listing, Typed, Staged
<1> QED BY <1>1, Zenon

LEMMA ListingStep ==
    ASSUME Inv, [Next]_vars
    PROVE  Listing'
<1>1. Listing /\ Staged
  BY Zenon DEF Inv
<1>2. CASE ListExt
  <2>1. Lsblks
    BY <1>2, Zenon DEF ListExt
  <2> QED BY <1>1, <2>1, LsblksKeeps, Zenon
<1>3. CASE ListXfs
  <2>1. walk = "open"
    BY <1>1, <1>3, XfsOpen, Zenon DEF ListXfs
  <2> QED BY <1>1, <1>3, <2>1, ListXfsKeeps, Zenon
<1>4. CASE XfsListed
  <2>1. walk = "open"
    BY <1>1, <1>4, XfsOpen, Zenon DEF XfsListed
  <2> QED BY <1>1, <1>4, <2>1, XfsListedKeeps, Zenon
<1>5. CASE QueryFails \/ ListFails \/ OffsetFails
  <2>1. PICK code, refused : Fail(code, refused)
    BY <1>5, Zenon DEF QueryFails, ListFails, OffsetFails
  <2>2. /\ UNCHANGED <<inode, walk, path, slot, blknums, line, places>>
        /\ failed' = TRUE \/ failed' = failed
    BY <2>1, Zenon DEF Fail
  <2> QED BY <1>1, <2>2, FailKeeps, Zenon
<1>6. CASE Query \/ NoParent \/ Offset \/ ReadBlock \/ DumpEnds \/ Finished \/ UNCHANGED vars
  <2>1. UNCHANGED listVars
    BY <1>6, Zenon DEF Query, NoParent, Offset, Return, ReadBlock, DumpEnds, Finished, vars
  <2>2. /\ UNCHANGED <<inode, walk, path, slot, blknums, line, places>>
        /\ failed' = TRUE \/ failed' = failed
    BY <2>1, Zenon DEF listVars
  <2> QED BY <1>1, <2>2, FailKeeps, Zenon
<1>7. CASE DumpFails
  <2>1. /\ UNCHANGED <<inode, walk, path, slot, blknums, line, places>>
        /\ failed' = TRUE \/ failed' = failed
    BY <1>7, Zenon DEF DumpFails
  <2> QED BY <1>1, <2>1, FailKeeps, Zenon
<1> QED BY <1>2, <1>3, <1>4, <1>5, <1>6, <1>7, Zenon DEF Next, Fhf

LEMMA NextInv == Inv /\ [Next]_vars => Inv'
<1> SUFFICES ASSUME Inv, [Next]_vars PROVE Inv'
  BY Zenon
<1>1. Listing /\ Staged /\ Reading
  BY Zenon DEF Inv
<1>2. Listing'
  BY ListingStep, Zenon
<1>3. Counted
  BY <1>1, ListsCounted, Zenon
<1>4. Counted'
  BY <1>2, ListsCounted, PTL
<1>5. stage = "list" /\ inode.map = "xfs" => walk = "open"
  BY <1>1, XfsOpen, Zenon
<1>6. Staged' /\ Reading'
  BY <1>1, <1>3, <1>4, <1>5, RawSteps, Zenon
<1> QED BY <1>2, <1>6, Zenon DEF Inv

LEMMA Invariance == Spec => []Inv
BY InitInv, NextInv, PTL DEF Spec

-----------------------------------------------------------------------------
(* The theorems                                                            *)

LEMMA InvTypeOK == Inv => TypeOK
<1> SUFFICES ASSUME Inv PROVE TypeOK
  BY Zenon
<1>1. Listing /\ Staged /\ Reading
  BY Zenon DEF Inv
<1>2. ListTypeOK /\ Counted
  BY <1>1, ListsTyped, ListsCounted, Zenon
<1>3. \A d \in {"volume", "parent"} : Len(reads[d]) <= Len(blknums)
  BY <1>1, <1>2, ReadsBounded, Zenon
<1> QED BY <1>1, <1>2, <1>3, Zenon DEF TypeOK, Staged

LEMMA InvAgrees == Inv => ReadingsAgree
<1> SUFFICES ASSUME Inv PROVE ReadingsAgree
  BY Zenon
<1>1. Listing /\ Staged /\ Reading
  BY Zenon DEF Inv
<1>2. Counted /\ \A x \in 1..Len(blknums) : blknums[x] \in Nat \union {-1}
  BY <1>1, ListsCounted, ListForm, Zenon
<1> QED BY <1>1, <1>2, Agreement, Zenon

LEMMA InvLists == Inv => BlocksListed /\ ListedInOrder /\ SlotsIndependent
BY AllOfList, InOrder, Zenon DEF Inv

LEMMA InvReads == Inv => DirectoryRead /\ SpreadRefused
BY WholeRead, RefusesSpread, Zenon DEF Inv

(* The cursor of ext2fs_extent_get and the frames of ext2fs_block_iterate3 *)
(* stay within the map of the inode, whatever is damaged, and dump_blocks  *)
(* reads no more than was listed.                                          *)
THEOREM TypeCorrect == Spec => []TypeOK
BY Invariance, InvTypeOK, PTL

(* lsblks and xfs_get_path_extents list every data block of a directory    *)
(* whose map is not damaged.                                               *)
THEOREM BlocksListedHolds == Spec => []BlocksListed
BY Invariance, InvLists, PTL

(* What they list are data blocks of the directory, in order and none      *)
(* twice; with extents, also after a failure, the start of the directory.  *)
THEOREM ListedInOrderHolds == Spec => []ListedInOrder
BY Invariance, InvLists, PTL

(* ext2fs_block_iterate3 goes on with the next slot of the inode after one *)
(* that is damaged, and loses no block of the others.                      *)
THEOREM SlotsIndependentHolds == Spec => []SlotsIndependent
BY Invariance, InvLists, PTL

(* query_blocks and dump_blocks read an undamaged directory from its       *)
(* volume, all of it and in order, and the same sectors below.             *)
THEOREM DirectoryReadHolds == Spec => []DirectoryRead
BY Invariance, InvReads, PTL

(* The two dumps that fhf compares are of the same blocks, also when the   *)
(* list is short.                                                          *)
THEOREM ReadingsAgreeHolds == Spec => []ReadingsAgree
BY Invariance, InvAgrees, PTL

(* query_blocks refuses the volumes whose blocks are not at one offset of  *)
(* one device.                                                             *)
THEOREM SpreadRefusedHolds == Spec => []SpreadRefused
BY Invariance, InvReads, PTL

LEMMA PrintedStep ==
    ASSUME Inv, Printed, [Next]_vars
    PROVE  Printed'
<1>1. CASE ListExt
  <2>1. Lsblks /\ Listing
    BY <1>1, Zenon DEF ListExt, Inv
  <2> QED BY <2>1, LsblksPrints, Zenon
<1>2. CASE ListXfs
  <2>1. inode'.map \notin ExtMaps
    BY <1>2, Zenon DEF ListXfs, ExtMaps
  <2> QED BY <2>1, Zenon DEF Printed
<1>3. CASE ~ListExt /\ ~ListXfs
  <2>1. UNCHANGED <<inode, blknums, line>>
    BY <1>3, Zenon DEF Next, Fhf, XfsListed, QueryFails, ListFails, OffsetFails, Fail, Query,
                       NoParent, Offset, Return, ReadBlock, DumpEnds, DumpFails, Finished,
                       vars, listVars
  <2> QED BY <2>1, Zenon DEF Printed
<1> QED BY <1>1, <1>2, <1>3, Zenon

(* The list that libext2fs gives and the one parsed from debugfs are the   *)
(* same blocks for a directory with extents, whatever is damaged in it and *)
(* whichever call fails.                                                   *)
THEOREM BuildsAgreeHolds == Spec => []BuildsAgree
<1>1. Init => Printed
  BY InitPrinted, Zenon DEF Init
<1>2. Spec => []Printed
  BY <1>1, Invariance, PrintedStep, PTL DEF Spec
<1> QED BY <1>2, PrintedAgree, PTL

LEMMA FhfNearer == Inv /\ [Next]_vars => [Nearer]_vars
<1> SUFFICES ASSUME Inv, Next, ~UNCHANGED vars PROVE Nearer
  BY Zenon
<1>1. Listing /\ Staged
  BY Zenon DEF Inv
<1>2. /\ Order["query"] = 0 /\ Order["list"] = 1 /\ Order["offset"] = 2
      /\ Order["dump"] = 3 /\ Order["done"] = 4
  BY DEF Order
<1>3. /\ Order["list"] > Order["query"] /\ Order["done"] > Order["query"]
      /\ Order["offset"] > Order["list"] /\ Order["done"] > Order["list"]
      /\ Order["dump"] > Order["offset"] /\ Order["done"] > Order["offset"]
      /\ Order["done"] > Order["dump"]
  BY <1>2
<1>4. CASE QueryFails \/ Query \/ XfsListed \/ ListFails \/ NoParent \/ Offset \/ OffsetFails
  BY <1>3, <1>4, Zenon DEF QueryFails, Query, XfsListed, ListFails, NoParent, Offset, OffsetFails,
                           Fail, Return, Nearer
<1>5. CASE ListExt
  <2>1. CASE walk' = "listed"
    BY <1>3, <1>5, <2>1, Zenon DEF ListExt, Nearer
  <2>2. CASE walk' # "listed"
    BY <1>1, <1>5, <2>2, LsblksNearer, Zenon DEF ListExt, Nearer
  <2> QED BY <2>1, <2>2, Zenon
<1>6. CASE ListXfs
  <2>1. slot \in Nat
    BY <1>1, Zenon DEF Listing, Typed
  <2>2. slot' = slot + 1 /\ walk' = walk /\ stage' = stage /\ stage = "list"
    BY <1>6, Zenon DEF ListXfs
  <2>3. slot' > slot
    BY <2>1, <2>2
  <2> QED BY <2>2, <2>3, Zenon DEF Nearer, WalkNearer
<1>7. CASE ReadBlock
  <2>1. n \in 1..(Len(blknums) + 1)
    BY <1>1, Zenon DEF Staged
  <2>2. n' = n + 1 /\ on' = on /\ stage' = stage /\ stage = "dump"
    BY <1>7, Zenon DEF ReadBlock
  <2>3. n' > n
    BY <2>1, <2>2
  <2> QED BY <2>2, <2>3, Zenon DEF Nearer
<1>8. CASE DumpEnds \/ DumpFails
  BY <1>3, <1>8, Zenon DEF DumpEnds, DumpFails, NextDump, Nearer
<1>9. CASE Finished
  BY <1>9, Zenon DEF Finished
<1> QED BY <1>4, <1>5, <1>6, <1>7, <1>8, <1>9, Zenon DEF Next, Fhf

(* fhf never turns back: query_blocks goes through its stages in order,    *)
(* dump_blocks reads on, and the cursors of ext2fs_extent_get and of       *)
(* ext2fs_block_iterate3 come to no entry of the map again but once, on    *)
(* the way up, whatever is damaged in it.                                  *)
THEOREM FhfAdvancesHolds == Spec => FhfAdvances
BY Invariance, FhfNearer, PTL DEF Spec, FhfAdvances

=============================================================================
