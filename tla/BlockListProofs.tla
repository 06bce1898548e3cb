--------------------------- MODULE BlockListProofs ---------------------------
(***************************************************************************)
(* The routes of an inode, the list of its blocks, and how the cursor of   *)
(* ext2fs_extent_get and the iteration over indirect blocks keep them in   *)
(* step: for every inode, whole or damaged.                                *)
(***************************************************************************)
EXTENDS BlockList, WellFoundedInduction, TLAPS

-----------------------------------------------------------------------------
(* Routes                                                                  *)

(* Induction over a set of numbers.                                        *)
LEMMA Induction ==
    ASSUME NEW S, 0 \in S, \A m \in Nat : m \in S => m + 1 \in S
    PROVE  \A m \in Nat : m \in S
<1> DEFINE T == Nat \ S
           R == OpToRel(<, Nat)
<1> SUFFICES ASSUME T # {} PROVE FALSE
  OBVIOUS
<1>1. IsWellFoundedOn(R, Nat)
  BY NatLessThanWellFounded, Zenon
<1>2. T \subseteq Nat
  OBVIOUS
<1> HIDE DEF R
<1>3. PICK x \in T : \A y \in T : ~(<<y, x>> \in R)
  BY <1>1, <1>2, WFMin, Zenon
<1>4. x # 0 /\ x - 1 \in Nat /\ x - 1 \in T
  OBVIOUS
<1>5. <<x - 1, x>> \in R
  BY <1>4 DEF R, OpToRel
<1> QED
  BY <1>3, <1>4, <1>5

(* The routes of a length are those of the length before, one hop longer.  *)
LEMMA RoutesRec ==
    ASSUME NEW i
    PROVE  Routes(i) = [m \in 1..(MaxDepth + 1) |->
                           IF m = 1 THEN Enter(i, <<>>, 0) ELSE Deeper(i, Routes(i)[m - 1])]
<1> DEFINE first == Enter(i, <<>>, 0)
           Upto(f, l) == f = [m \in 1..l |-> IF m = 1 THEN first ELSE Deeper(i, f[m - 1])]
           S == {l \in Nat : \E f : Upto(f, l)}
<1>1. 0 \in S
  <2>1. Upto(<<>>, 0)
    OBVIOUS
  <2>2. 0 \in Nat
    OBVIOUS
  <2> QED BY <2>1, <2>2, Zenon
<1>2. ASSUME NEW l \in Nat, l \in S PROVE l + 1 \in S
  <2>1. PICK f : Upto(f, l)
    BY <1>2
  <2> DEFINE last == IF l = 0 THEN first ELSE Deeper(i, f[l])
             g == [m \in 1..(l + 1) |-> IF m = l + 1 THEN last ELSE f[m]]
  <2> HIDE DEF first
  <2>2. \A m \in 1..(l + 1) : g[m] = IF m = 1 THEN first ELSE Deeper(i, g[m - 1])
    <3> SUFFICES ASSUME NEW m \in 1..(l + 1)
                 PROVE  g[m] = IF m = 1 THEN first ELSE Deeper(i, g[m - 1])
      OBVIOUS
    <3>1. CASE m = l + 1
      <4>1. m # 1 => m - 1 \in 1..(l + 1) /\ m - 1 # l + 1 /\ m - 1 = l /\ l # 0
        BY <3>1
      <4> QED BY <3>1, <4>1
    <3>2. CASE m # l + 1
      <4>1. m \in 1..l /\ (m # 1 => m - 1 \in 1..(l + 1) /\ m - 1 # l + 1)
        BY <3>2
      <4>2. f[m] = IF m = 1 THEN first ELSE Deeper(i, f[m - 1])
        BY <2>1, <4>1
      <4> QED BY <3>2, <4>1, <4>2
    <3> QED BY <3>1, <3>2
  <2>3. g = [m \in 1..(l + 1) |-> g[m]]
    OBVIOUS
  <2> HIDE DEF g
  <2>4. Upto(g, l + 1)
    BY <2>2, <2>3
  <2> HIDE DEF Upto
  <2> QED BY <2>4
<1>3. MaxDepth + 1 \in S
  <2>1. MaxDepth + 1 \in Nat
    BY DepthAssumption
  <2> HIDE DEF S
  <2> QED BY <1>1, <1>2, <2>1, Induction, Zenon
<1>4. \E f : Upto(f, MaxDepth + 1)
  BY <1>3
<1>5. Routes(i) = CHOOSE f : Upto(f, MaxDepth + 1)
  BY DEF Routes
<1>6. Upto(Routes(i), MaxDepth + 1)
  <2> HIDE DEF Upto
  <2> QED BY <1>4, <1>5, Zenon
<1> QED BY <1>6, Zenon

Hops == [blk : Nat, curr : Nat \ {0}]

LEMMA FirstRoutes ==
    ASSUME NEW i, NEW r
    PROVE  r \in Routes(i)[1] <=> \E k \in DOMAIN i.root : r = <<Hop(0, k)>>
<1>1. Routes(i)[1] = Enter(i, <<>>, 0)
  <2> DEFINE R == Routes(i)
  <2>1. R = [l \in 1..(MaxDepth + 1) |-> IF l = 1 THEN Enter(i, <<>>, 0) ELSE Deeper(i, R[l - 1])]
    BY RoutesRec, Zenon
  <2>2. 1 \in 1..(MaxDepth + 1)
    BY DepthAssumption
  <2> HIDE DEF R
  <2>3. R[1] = Enter(i, <<>>, 0)
    BY <2>1, <2>2, Zenon
  <2> QED BY <2>3 DEF R
<1>2. \A k : Append(<<>>, Hop(0, k)) = <<Hop(0, k)>>
  OBVIOUS
<1> QED BY <1>1, <1>2 DEF Enter, Entries

OneHop(i, m, r) ==
    \E p \in Routes(i)[m] :
        Opens(i, p) /\ \E k \in DOMAIN Entries(i, ChildOf(i, p)) : r = Append(p, Hop(ChildOf(i, p), k))

LEMMA NextRoutes ==
    ASSUME NEW i, NEW m \in 1..MaxDepth, NEW r
    PROVE  r \in Routes(i)[m + 1] <=> OneHop(i, m, r)
<1>1. m + 1 \in 1..(MaxDepth + 1) /\ m + 1 # 1 /\ m + 1 - 1 = m
  BY DepthAssumption
<1> DEFINE R == Routes(i)
<1>2. R[m + 1] = Deeper(i, R[m])
  <2> HIDE DEF R
  <2>1. R = [l \in 1..(MaxDepth + 1) |-> IF l = 1 THEN Enter(i, <<>>, 0) ELSE Deeper(i, R[l - 1])]
    BY RoutesRec, Zenon DEF R
  <2>2. R[m + 1] = Deeper(i, R[m + 1 - 1])
    <3> DEFINE l == m + 1
    <3>1. l \in 1..(MaxDepth + 1) /\ l # 1
      BY <1>1, Zenon
    <3> HIDE DEF l
    <3>2. R[l] = Deeper(i, R[l - 1])
      BY <2>1, <3>1, Zenon
    <3> QED BY <3>2 DEF l
  <2> QED BY <1>1, <2>2, Zenon
<1>3. \A p : Enter(i, p, ChildOf(i, p)) = {Append(p, Hop(ChildOf(i, p), k)) : k \in DOMAIN Entries(i, ChildOf(i, p))}
  BY DEF Enter
<1> QED BY <1>2, <1>3, Zenon DEF Deeper, OneHop

Cut(r, k) == [l \in 1..k |-> r[l]]

(* The nodes and entries along a route.                                    *)
Shape(i, r, m) ==
    /\ r \in Seq(Hops) /\ Len(r) = m /\ r[1].blk = 0
    /\ \A k \in 1..m : /\ r[k].blk \in DOMAIN i.disk \union {0}
                       /\ Len(Entries(i, r[k].blk)) \in Nat
                       /\ r[k].curr \in 1..Len(Entries(i, r[k].blk))
    /\ \A k \in 2..m : r[k].blk = Entries(i, r[k - 1].blk)[r[k - 1].curr]
    /\ \A k \in 1..m : Cut(r, k) \in Routes(i)[k] /\ (k < m => Opens(i, Cut(r, k)))

(* The entries of a node are a list.                                       *)
LEMMA EntriesList ==
    ASSUME NEW i, IsInode(i), NEW b, b \in DOMAIN i.disk \union {0}
    PROVE  /\ b \in Nat
           /\ IsList(Entries(i, b))
           /\ Len(Entries(i, b)) \in Nat
           /\ DOMAIN Entries(i, b) = 1..Len(Entries(i, b))
<1>1. IsList(Entries(i, b)) /\ b \in Nat
  BY DEF IsInode, Entries
<1>2. \A s : IsList(s) => Len(s) \in Nat /\ DOMAIN s = 1..Len(s)
  BY DEF IsList
<1> QED BY <1>1, <1>2

LEMMA CutAll ==
    ASSUME NEW S, NEW r \in Seq(S), NEW m, m = Len(r)
    PROVE  Cut(r, m) = r
BY DEF Cut

LEMMA FirstShape ==
    ASSUME NEW i, IsInode(i), NEW r \in Routes(i)[1]
    PROVE  Shape(i, r, 1)
<1>1. PICK k \in DOMAIN i.root : r = <<Hop(0, k)>>
  BY FirstRoutes
<1>2. Entries(i, 0) = i.root
  BY DEF Entries
<1>3. Len(i.root) \in Nat /\ k \in 1..Len(i.root)
  BY <1>1, <1>2, EntriesList
<1>4. Hop(0, k) \in Hops /\ Hop(0, k).blk = 0 /\ Hop(0, k).curr = k
  BY <1>3 DEF Hop, Hops
<1>5. r \in Seq(Hops) /\ Len(r) = 1 /\ r[1] = Hop(0, k)
  BY <1>1, <1>4
<1>6. Cut(r, 1) = r
  BY <1>5, CutAll, Zenon
<1>7. \A l \in 1..1 : l = 1
  OBVIOUS
<1>8. \A l \in 2..1 : FALSE
  OBVIOUS
<1>9. ~(1 < 1)
  OBVIOUS
<1>10. r[1].blk = 0 /\ r[1].curr \in 1..Len(i.root)
  BY <1>3, <1>4, <1>5
<1> QED
  BY <1>2, <1>3, <1>5, <1>6, <1>7, <1>8, <1>9, <1>10, Zenon DEF Shape

LEMMA NextShape ==
    ASSUME NEW i, IsInode(i), NEW m \in 1..MaxDepth, \A p \in Routes(i)[m] : Shape(i, p, m),
           NEW r \in Routes(i)[m + 1]
    PROVE  Shape(i, r, m + 1)
<1>1. PICK p, k :
          /\ p \in Routes(i)[m]
          /\ Opens(i, p) /\ k \in DOMAIN Entries(i, ChildOf(i, p))
          /\ r = Append(p, Hop(ChildOf(i, p), k))
  <2>1. OneHop(i, m, r)
    BY NextRoutes, Zenon
  <2> QED BY <2>1, Zenon DEF OneHop
<1> DEFINE b == ChildOf(i, p)
<1>2. Shape(i, p, m)
  BY <1>1
<1>3. p \in Seq(Hops) /\ Len(p) = m
  BY <1>2 DEF Shape
<1>4. b \in DOMAIN i.disk
  BY <1>1 DEF Opens
<1>5. b \in Nat /\ Len(Entries(i, b)) \in Nat /\ k \in 1..Len(Entries(i, b))
  BY <1>1, <1>4, EntriesList
<1>6. Hop(b, k) \in Hops /\ Hop(b, k).blk = b /\ Hop(b, k).curr = k
  <2> HIDE DEF b
  <2> QED BY <1>5 DEF Hop, Hops
<1>7. b = Entries(i, p[m].blk)[p[m].curr]
  BY <1>3 DEF ChildOf
<1> HIDE DEF b
<1>8. /\ r \in Seq(Hops) /\ Len(r) = m + 1
      /\ \A l \in 1..m : r[l] = p[l]
      /\ r[m + 1] = Hop(b, k)
  BY <1>1, <1>3, <1>6 DEF b
<1>9. r[1].blk = 0
  BY <1>2, <1>8 DEF Shape
<1>10. \A l \in 1..(m + 1) : l \in 1..m \/ l = m + 1
  OBVIOUS
<1>11. \A l \in 1..(m + 1) : /\ r[l].blk \in DOMAIN i.disk \union {0}
                             /\ Len(Entries(i, r[l].blk)) \in Nat
                             /\ r[l].curr \in 1..Len(Entries(i, r[l].blk))
  <2> SUFFICES ASSUME NEW l \in 1..(m + 1)
               PROVE  /\ r[l].blk \in DOMAIN i.disk \union {0}
                      /\ Len(Entries(i, r[l].blk)) \in Nat
                      /\ r[l].curr \in 1..Len(Entries(i, r[l].blk))
    OBVIOUS
  <2>1. CASE l \in 1..m
    BY <2>1, <1>2, <1>8, Zenon DEF Shape
  <2>2. CASE l = m + 1
    BY <2>2, <1>4, <1>5, <1>6, <1>8, Zenon
  <2> QED BY <1>10, <2>1, <2>2
<1>12. \A l \in 2..(m + 1) : r[l].blk = Entries(i, r[l - 1].blk)[r[l - 1].curr]
  <2> SUFFICES ASSUME NEW l \in 2..(m + 1)
               PROVE  r[l].blk = Entries(i, r[l - 1].blk)[r[l - 1].curr]
    OBVIOUS
  <2>1. CASE l \in 2..m
    <3>1. l \in 1..m /\ l - 1 \in 1..m
      BY <2>1
    <3>2. r[l] = p[l] /\ r[l - 1] = p[l - 1]
      BY <3>1, <1>8
    <3>3. p[l].blk = Entries(i, p[l - 1].blk)[p[l - 1].curr]
      BY <2>1, <1>2, Zenon DEF Shape
    <3> QED BY <3>2, <3>3
  <2>2. CASE l = m + 1
    <3>1. l - 1 = m /\ m \in 1..m
      BY <2>2
    <3> QED BY <2>2, <3>1, <1>6, <1>7, <1>8
  <2> QED BY <2>1, <2>2
<1>13. \A l \in 1..m : Cut(r, l) = Cut(p, l)
  BY <1>8 DEF Cut
<1>14. Cut(r, m + 1) = r /\ Cut(p, m) = p
  BY <1>3, <1>8, CutAll
<1>15. \A l \in 1..(m + 1) : Cut(r, l) \in Routes(i)[l] /\ (l < m + 1 => Opens(i, Cut(r, l)))
  <2> SUFFICES ASSUME NEW l \in 1..(m + 1)
               PROVE  Cut(r, l) \in Routes(i)[l] /\ (l < m + 1 => Opens(i, Cut(r, l)))
    OBVIOUS
  <2>1. CASE l = m + 1
    BY <2>1, <1>14
  <2>2. CASE l \in 1..m
    <3>1. Cut(r, l) = Cut(p, l) /\ Cut(p, l) \in Routes(i)[l]
      BY <2>2, <1>2, <1>13, Zenon DEF Shape
    <3>2. l < m => Opens(i, Cut(p, l))
      BY <2>2, <1>2, Zenon DEF Shape
    <3>3. l = m => Opens(i, Cut(p, l))
      BY <1>1, <1>14
    <3>4. l < m \/ l = m
      BY <2>2
    <3> QED BY <3>1, <3>2, <3>3, <3>4
  <2> QED BY <1>10, <2>1, <2>2
<1> QED
  BY <1>8, <1>9, <1>11, <1>12, <1>15 DEF Shape

(* Every route has that shape.                                             *)
LEMMA RouteShape ==
    ASSUME NEW i, IsInode(i), NEW m \in 1..(MaxDepth + 1), NEW r \in Routes(i)[m]
    PROVE  Shape(i, r, m)
<1> DEFINE S == {l \in Nat : l + 1 \in 1..(MaxDepth + 1) =>
                                 \A p \in Routes(i)[l + 1] : Shape(i, p, l + 1)}
<1>1. 0 \in S
  <2>1. \A p \in Routes(i)[1] : Shape(i, p, 1)
    BY FirstShape
  <2> QED BY <2>1
<1>2. ASSUME NEW l \in Nat, l \in S PROVE l + 1 \in S
  <2> SUFFICES ASSUME l + 1 + 1 \in 1..(MaxDepth + 1), NEW p \in Routes(i)[l + 1 + 1]
               PROVE  Shape(i, p, l + 1 + 1)
    OBVIOUS
  <2>1. l + 1 \in 1..MaxDepth /\ l + 1 \in 1..(MaxDepth + 1)
    BY DepthAssumption
  <2>2. \A q \in Routes(i)[l + 1] : Shape(i, q, l + 1)
    BY <1>2, <2>1, Zenon
  <2> QED BY <2>1, <2>2, NextShape, Zenon
<1>3. m - 1 \in Nat /\ m - 1 + 1 = m
  BY DepthAssumption
<1>4. m - 1 \in S
  <2> HIDE DEF S
  <2> QED BY <1>1, <1>2, <1>3, Induction, Zenon
<1> QED BY <1>3, <1>4

-----------------------------------------------------------------------------
(* Where routes go on, and where they meet                                 *)

Prefix(c, r) == Len(c) <= Len(r) /\ \A k \in 1..Len(c) : r[k] = c[k]

LEMMA HopIs == \A h \in Hops : h = Hop(h.blk, h.curr)
BY DEF Hops, Hop

LEMMA HopAt == \A r \in Seq(Hops) : \A k \in 1..Len(r) : r[k] \in Hops
OBVIOUS

LEMMA SameHops ==
    ASSUME NEW r \in Seq(Hops), NEW s \in Seq(Hops), Len(r) = Len(s),
           \A k \in 1..Len(r) : r[k] = s[k]
    PROVE  r = s
OBVIOUS

(* A route that leads to a usable node goes on with each of its entries.   *)
LEMMA ChildRoute ==
    ASSUME NEW i, IsInode(i), NEW m \in 1..MaxDepth, NEW c \in Routes(i)[m], Opens(i, c),
           NEW s \in Seq(Hops), Len(s) = m + 1, \A l \in 1..m : s[l] = c[l],
           s[m + 1].blk = ChildOf(i, c),
           s[m + 1].curr \in DOMAIN Entries(i, ChildOf(i, c))
    PROVE  s \in Routes(i)[m + 1]
<1>1. c \in Seq(Hops) /\ Len(c) = m
  <2>0. m \in 1..(MaxDepth + 1)
    BY DepthAssumption
  <2>1. Shape(i, c, m)
    BY <2>0, RouteShape, Zenon
  <2> QED BY <2>1 DEF Shape
<1> DEFINE k == s[m + 1].curr
<1>2. s[m + 1] \in Hops
  OBVIOUS
<1>3. s[m + 1] = Hop(ChildOf(i, c), k)
  BY <1>2, HopIs
<1> HIDE DEF k
<1>4. s = Append(c, Hop(ChildOf(i, c), k))
  <2> DEFINE h == Hop(ChildOf(i, c), k)
  <2>1. h \in Hops /\ s[m + 1] = h
    BY <1>2, <1>3
  <2> HIDE DEF h
  <2>2. Append(c, h) \in Seq(Hops) /\ Len(Append(c, h)) = m + 1
    BY <1>1, <2>1
  <2>3. \A l \in 1..m : Append(c, h)[l] = c[l]
    BY <1>1, <2>1
  <2>4. Append(c, h)[m + 1] = h
    BY <1>1, <2>1
  <2>5. \A l \in 1..(m + 1) : s[l] = Append(c, h)[l]
    <3>1. \A l \in 1..(m + 1) : l \in 1..m \/ l = m + 1
      OBVIOUS
    <3> QED BY <2>1, <2>3, <2>4, <3>1, Zenon
  <2>6. s = Append(c, h)
    <3> DEFINE a == Append(c, h)
    <3>1. a \in Seq(Hops) /\ Len(s) = Len(a) /\ \A l \in 1..Len(s) : s[l] = a[l]
      BY <2>2, <2>5
    <3> HIDE DEF a
    <3>2. s = a
      BY <3>1, SameHops, Zenon
    <3> QED BY <3>2 DEF a
  <2> QED BY <2>6 DEF h
<1>5. k \in DOMAIN Entries(i, ChildOf(i, c))
  BY DEF k
<1>6. OneHop(i, m, s)
  BY <1>4, <1>5, Zenon DEF OneHop
<1> QED BY <1>6, NextRoutes, Zenon

(* A route with another entry in place of the last is a route too.         *)
LEMMA SiblingRoute ==
    ASSUME NEW i, IsInode(i), NEW m \in 1..(MaxDepth + 1), NEW c \in Routes(i)[m],
           NEW s \in Seq(Hops), Len(s) = m, \A l \in 1..(m - 1) : s[l] = c[l],
           s[m].blk = c[m].blk, s[m].curr \in DOMAIN Entries(i, c[m].blk)
    PROVE  s \in Routes(i)[m]
<1>1. Shape(i, c, m)
  BY RouteShape
<1>2. c \in Seq(Hops) /\ Len(c) = m /\ c[1].blk = 0
  BY <1>1 DEF Shape
<1>3. CASE m = 1
  <2> DEFINE k == s[1].curr
  <2>1. s[1] \in Hops /\ s[1].blk = 0
    <3>1. 1 \in 1..Len(s)
      BY <1>3
    <3>2. s[1] \in Hops
      BY <3>1
    <3>3. s[1].blk = c[1].blk
      BY <1>3, Zenon
    <3> QED BY <1>2, <3>2, <3>3, Zenon
  <2>2. s[1] = Hop(0, k)
    BY <2>1, HopIs
  <2>3. k \in DOMAIN i.root
    BY <1>2, <1>3 DEF Entries
  <2> HIDE DEF k
  <2>4. s = << Hop(0, k) >>
    BY <1>3, <2>2
  <2> QED BY <1>3, <2>3, <2>4, FirstRoutes
<1>4. CASE m # 1
  <2> DEFINE p == Cut(c, m - 1)
  <2>1. m - 1 \in 1..MaxDepth /\ m - 1 < m /\ m - 1 \in 1..m /\ m - 1 + 1 = m /\ m \in 2..m
        /\ m - 1 \in 1..(MaxDepth + 1)
    BY <1>4, DepthAssumption
  <2>2. p \in Routes(i)[m - 1] /\ Opens(i, p)
    BY <1>1, <2>1, Zenon DEF Shape
  <2>3. Shape(i, p, m - 1)
    BY <2>1, <2>2, RouteShape, Zenon
  <2>4. p \in Seq(Hops) /\ Len(p) = m - 1
    BY <2>3 DEF Shape
  <2>5. \A l \in 1..(m - 1) : p[l] = c[l]
    BY DEF Cut
  <2>6. c[m].blk = ChildOf(i, p)
    <3>1. c[m].blk = Entries(i, c[m - 1].blk)[c[m - 1].curr]
      BY <1>1, <2>1, Zenon DEF Shape
    <3>2. p[m - 1] = c[m - 1]
      BY <2>1, <2>5
    <3> QED BY <2>4, <3>1, <3>2 DEF ChildOf
  <2> HIDE DEF p
  <2>7. \A l \in 1..(m - 1) : s[l] = p[l]
    BY <2>5
  <2>8. s \in Routes(i)[m - 1 + 1]
    <3>1. Len(s) = m - 1 + 1 /\ s[m - 1 + 1].blk = ChildOf(i, p)
          /\ s[m - 1 + 1].curr \in DOMAIN Entries(i, ChildOf(i, p))
      BY <2>1, <2>6
    <3> QED BY <2>1, <2>2, <2>7, <3>1, ChildRoute, Zenon
  <2> QED BY <2>1, <2>8
<1> QED BY <1>3, <1>4

(* Routes that agree so far are at the same node.                          *)
Meet(r, s) ==
    \A k \in 1..Len(r) :
        k \in 1..Len(s) /\ (\A j \in 1..(k - 1) : r[j] = s[j]) => r[k].blk = s[k].blk

LEMMA SameNode ==
    ASSUME NEW i, IsInode(i), NEW m \in 1..(MaxDepth + 1), NEW r \in Routes(i)[m],
           NEW l \in 1..(MaxDepth + 1), NEW s \in Routes(i)[l]
    PROVE  Meet(r, s)
<1>1. Shape(i, r, m) /\ Shape(i, s, l)
  BY RouteShape
<1> SUFFICES ASSUME NEW k \in 1..m, k \in 1..l, \A j \in 1..(k - 1) : r[j] = s[j]
             PROVE  r[k].blk = s[k].blk
  <2>1. Len(r) = m /\ Len(s) = l
    BY <1>1 DEF Shape
  <2> QED BY <2>1, Zenon DEF Meet
<1>2. CASE k = 1
  BY <1>1, <1>2 DEF Shape
<1>3. CASE k # 1
  <2>1. k \in 2..m /\ k \in 2..l /\ k - 1 \in 1..(k - 1)
    BY <1>3
  <2>2. r[k].blk = Entries(i, r[k - 1].blk)[r[k - 1].curr]
    BY <1>1, <2>1, Zenon DEF Shape
  <2>3. s[k].blk = Entries(i, s[k - 1].blk)[s[k - 1].curr]
    BY <1>1, <2>1, Zenon DEF Shape
  <2> QED BY <2>1, <2>2, <2>3
<1> QED BY <1>2, <1>3

(* The order of routes is transitive.                                      *)
LEMMA BeforeTransitive ==
    ASSUME NEW r \in Seq(Hops), NEW s \in Seq(Hops), NEW t \in Seq(Hops),
           Before(r, s), Before(s, t)
    PROVE  Before(r, t)
<1>1. PICK j \in DOMAIN r \intersect DOMAIN s :
          r[j].curr < s[j].curr /\ \A l \in 1..(j - 1) : r[l] = s[l]
  BY DEF Before
<1>2. PICK k \in DOMAIN s \intersect DOMAIN t :
          s[k].curr < t[k].curr /\ \A l \in 1..(k - 1) : s[l] = t[l]
  BY DEF Before
<1>3. j \in 1..Len(r) /\ j \in 1..Len(s) /\ k \in 1..Len(s) /\ k \in 1..Len(t)
  BY <1>1, <1>2
<1>4. CASE j < k
  <2>1. j \in 1..(k - 1) /\ j \in DOMAIN t /\ j \in DOMAIN r
    BY <1>3, <1>4
  <2>2. r[j].curr < t[j].curr
    BY <1>1, <1>2, <2>1
  <2>3. \A l \in 1..(j - 1) : r[l] = t[l]
    BY <1>1, <1>2, <1>3, <1>4
  <2> QED BY <2>1, <2>2, <2>3 DEF Before
<1>5. CASE k < j
  <2>1. k \in 1..(j - 1) /\ k \in DOMAIN t /\ k \in DOMAIN r
    BY <1>3, <1>5
  <2>2. r[k].curr < t[k].curr
    BY <1>1, <1>2, <2>1
  <2>3. \A l \in 1..(k - 1) : r[l] = t[l]
    BY <1>1, <1>2, <1>3, <1>5
  <2> QED BY <2>1, <2>2, <2>3 DEF Before
<1>6. CASE j = k
  <2>1. r[j] \in Hops /\ s[j] \in Hops /\ t[j] \in Hops
    BY <1>3, <1>6
  <2>2. r[j].curr < t[j].curr
    BY <1>1, <1>2, <1>6, <2>1 DEF Hops
  <2>3. \A l \in 1..(j - 1) : r[l] = t[l]
    BY <1>1, <1>2, <1>6
  <2> QED BY <1>1, <1>2, <1>6, <2>2, <2>3 DEF Before
<1> QED BY <1>3, <1>4, <1>5, <1>6

-----------------------------------------------------------------------------
(* The places of data                                                      *)

LEMMA PlaceIs == \A r, k : Place(r, k).at = r /\ Place(r, k).k = k
BY DEF Place

LEMMA IsPlace ==
    ASSUME NEW i, NEW m \in 1..(MaxDepth + 1), NEW r \in Routes(i)[m], NEW k \in DOMAIN DataAt(i, r)
    PROVE  Place(r, k) \in Places(i)
<1>1. Place(r, k) \in {Place(r, l) : l \in DOMAIN DataAt(i, r)}
  OBVIOUS
<1>2. Place(r, k) \in UNION {{Place(s, l) : l \in DOMAIN DataAt(i, s)} : s \in Routes(i)[m]}
  BY <1>1, Zenon
<1> QED BY <1>2, Zenon DEF Places

LEMMA PlaceForm ==
    ASSUME NEW i, IsInode(i), NEW q \in Places(i)
    PROVE  /\ Len(q.at) \in 1..(MaxDepth + 1) /\ q.at \in Routes(i)[Len(q.at)]
           /\ q.at \in Seq(Hops)
           /\ q.k \in DOMAIN DataAt(i, q.at) /\ q = Place(q.at, q.k)
<1>1. PICK m, r, k : /\ m \in 1..(MaxDepth + 1) /\ r \in Routes(i)[m]
                     /\ k \in DOMAIN DataAt(i, r) /\ q = Place(r, k)
  <2>1. \E m \in 1..(MaxDepth + 1) : q \in UNION {{Place(r, k) : k \in DOMAIN DataAt(i, r)} : r \in Routes(i)[m]}
    BY Zenon DEF Places
  <2> QED BY <2>1, Zenon
<1>2. q.at = r /\ q.k = k
  BY <1>1, PlaceIs
<1>3. Shape(i, r, m)
  BY <1>1, RouteShape
<1>4. r \in Seq(Hops) /\ Len(r) = m
  BY <1>3 DEF Shape
<1> QED BY <1>1, <1>2, <1>4

(* Data is at the ends of routes.                                          *)
LEMMA DataDepth ==
    ASSUME NEW i, NEW r, NEW k \in DOMAIN DataAt(i, r)
    PROVE  /\ i.map = "indirect" => Len(r) = HeightOf(r[1].curr) + 1 /\ ChildOf(i, r) # 0
           /\ i.map # "indirect" => Len(r) = i.depth + 1 /\ ChildOf(i, r).start # 0
<1>1. DOMAIN << >> = {}
  OBVIOUS
<1> QED BY <1>1, Zenon DEF DataAt

(* An extent read back has the length that was written.                    *)
LEMMA ExtentForm ==
    ASSUME NEW x \in Extent
    PROVE  x.start \in Nat \ {0} /\ x.len \in Nat /\ ELen(EeLen(x)) = x.len
<1>1. EXT_INIT_MAX_LEN \in Nat
  BY DEF EXT_INIT_MAX_LEN
<1>2. CASE x \in [start : Nat \ {0}, len : 0..EXT_INIT_MAX_LEN, uninit : {FALSE}]
  <2>1. x.start \in Nat \ {0} /\ x.len \in 0..EXT_INIT_MAX_LEN /\ ~x.uninit
    BY <1>2, Zenon
  <2>2. EeLen(x) = x.len
    BY <1>1, <2>1 DEF EeLen
  <2> QED BY <1>1, <2>1, <2>2 DEF ELen
<1>3. CASE x \in [start : Nat \ {0}, len : 1..(EXT_INIT_MAX_LEN - 1), uninit : {TRUE}]
  <2>1. x.start \in Nat \ {0} /\ x.len \in 1..(EXT_INIT_MAX_LEN - 1) /\ x.uninit
    BY <1>3, Zenon
  <2>2. EeLen(x) = x.len + EXT_INIT_MAX_LEN
    BY <2>1 DEF EeLen
  <2> QED BY <1>1, <2>1, <2>2 DEF ELen
<1> QED BY <1>2, <1>3, Zenon DEF Extent

(* The blocks at the end of a route are numbers other than 0.              *)
LEMMA DataBlocksNat ==
    ASSUME NEW i, IsInode(i), NEW m \in 1..(MaxDepth + 1), NEW r \in Routes(i)[m]
    PROVE  DataAt(i, r) \in Seq(Nat \ {0})
<1> DEFINE x == ChildOf(i, r)
<1>1. CASE i.map = "indirect"
  <2>1. x \in Nat
    BY <1>1 DEF IsInode
  <2>2. DataAt(i, r) = <<>> \/ (x # 0 /\ DataAt(i, r) = << x >>)
    BY <1>1 DEF DataAt
  <2> HIDE DEF x
  <2>3. << >> \in Seq(Nat \ {0})
    OBVIOUS
  <2>4. CASE x # 0 /\ DataAt(i, r) = << x >>
    <3>1. x \in Nat \ {0}
      BY <2>1, <2>4
    <3>2. << x >> \in Seq(Nat \ {0})
      BY <3>1
    <3> QED BY <2>4, <3>2
  <2> QED BY <2>2, <2>3, <2>4, Zenon
<1>2. CASE i.map # "indirect" /\ Len(r) = i.depth + 1 /\ x.start # 0
  <2>1. DataAt(i, r) = [k \in 1..x.len |-> x.start + k - 1]
    BY <1>2 DEF DataAt
  <2>2. Len(r) = m
    <3>1. Shape(i, r, m)
      BY RouteShape
    <3> QED BY <3>1 DEF Shape
  <2>3. i.map \in {"xfs", "extents"}
    <3>1. SUFFICES i.map \in {"inline", "other"} => FALSE
      BY <1>2 DEF IsInode, ExtMaps
    <3>2. SUFFICES ASSUME i.root = <<>> PROVE FALSE
      BY <3>1 DEF IsInode
    <3>3. Shape(i, r, m)
      BY RouteShape
    <3>4. r[1].curr \in 1..Len(Entries(i, 0))
      <4>1. 1 \in 1..m
        OBVIOUS
      <4> QED BY <3>3, <4>1 DEF Shape
    <3> QED BY <3>2, <3>4 DEF Entries
  <2>4. x.len \in Nat /\ x.start \in Nat \ {0}
    <3>1. CASE i.map = "xfs"
      <4>1. x \in Row
        BY <3>1 DEF IsInode
      <4> HIDE DEF x
      <4> QED BY <4>1, <1>2 DEF Row
    <3>2. CASE i.map = "extents"
      <4>1. ~(m <= i.depth)
        BY <1>2, <2>2 DEF IsInode
      <4>2. x \in Extent
        BY <3>2, <4>1 DEF IsInode
      <4> HIDE DEF x
      <4> QED BY <4>2, ExtentForm
    <3> QED BY <2>3, <3>1, <3>2
  <2> HIDE DEF x
  <2>5. [k \in 1..x.len |-> x.start + k - 1] \in [1..x.len -> Nat \ {0}]
    BY <2>4
  <2>6. \A f \in [1..x.len -> Nat \ {0}] : f \in Seq(Nat \ {0})
    BY <2>4
  <2> QED BY <2>1, <2>5, <2>6
<1>3. CASE i.map # "indirect" /\ ~(Len(r) = i.depth + 1 /\ x.start # 0)
  <2>1. DataAt(i, r) = <<>>
    BY <1>3, Zenon DEF DataAt
  <2> QED BY <2>1
<1> QED BY <1>1, <1>2, <1>3

-----------------------------------------------------------------------------
(* How a cursor passes the places.  A cursor is a route, or is one hop     *)
(* past the last entry of a node.                                          *)

(* What is before c, and what is under c, is in L.                         *)
Passed(S, L, c) == \A q \in S : Before(q.at, c) => q \in L
Under(S, L, c) == \A q \in S : Prefix(c, q.at) => q \in L

(* What is in L is before c, or under it.                                  *)
Behind(L, c, full) == \A q \in L : Before(q.at, c) \/ (full /\ Prefix(c, q.at))

IsNext(c, d, m) ==
    /\ d \in Seq(Hops) /\ Len(d) = m /\ \A l \in 1..(m - 1) : d[l] = c[l]
    /\ d[m].blk = c[m].blk /\ d[m].curr = c[m].curr + 1

LEMMA BeforeBy ==
    ASSUME NEW r \in Seq(Hops), NEW s \in Seq(Hops), NEW k \in 1..Len(r), k \in 1..Len(s),
           r[k].curr < s[k].curr, \A l \in 1..(k - 1) : r[l] = s[l]
    PROVE  Before(r, s)
<1>1. k \in DOMAIN r \intersect DOMAIN s
  OBVIOUS
<1> QED BY <1>1, Zenon DEF Before

LEMMA BeforeAt ==
    ASSUME NEW r \in Seq(Hops), NEW s \in Seq(Hops), Before(r, s)
    PROVE  \E k \in 1..Len(r) :
              /\ k \in 1..Len(s)
              /\ r[k].curr < s[k].curr
              /\ \A l \in 1..(k - 1) : r[l] = s[l]
<1>1. PICK k \in DOMAIN r \intersect DOMAIN s :
          r[k].curr < s[k].curr /\ \A l \in 1..(k - 1) : r[l] = s[l]
  BY Zenon DEF Before
<1>2. k \in 1..Len(r) /\ k \in 1..Len(s)
  OBVIOUS
<1> QED BY <1>1, <1>2, Zenon

(* On to the next entry of the same node.                                  *)
LEMMA NextPassed ==
    ASSUME NEW i, IsInode(i), NEW S \in SUBSET Places(i), NEW L,
           NEW m \in 1..(MaxDepth + 1), NEW c \in Routes(i)[m], NEW d, IsNext(c, d, m),
           Passed(S, L, c), Under(S, L, c)
    PROVE  Passed(S, L, d)
<1> SUFFICES ASSUME NEW q \in S, Before(q.at, d) PROVE q \in L
  BY DEF Passed
<1>1. q.at \in Seq(Hops) /\ Len(q.at) \in 1..(MaxDepth + 1) /\ q.at \in Routes(i)[Len(q.at)]
  BY PlaceForm
<1>2. Shape(i, c, m)
  BY RouteShape
<1>3. c \in Seq(Hops) /\ Len(c) = m
  BY <1>2 DEF Shape
<1>4. d \in Seq(Hops) /\ Len(d) = m /\ (\A l \in 1..(m - 1) : d[l] = c[l])
      /\ d[m].curr = c[m].curr + 1
  BY DEF IsNext
<1>5. PICK k \in 1..Len(q.at) :
          /\ k \in 1..Len(d)
          /\ q.at[k].curr < d[k].curr
          /\ \A l \in 1..(k - 1) : q.at[l] = d[l]
  BY <1>1, <1>4, BeforeAt
<1>6. \A l \in 1..(k - 1) : q.at[l] = c[l]
  BY <1>4, <1>5
<1>7. k \in 1..Len(c)
  BY <1>3, <1>4, <1>5
<1>8. CASE q.at[k].curr < c[k].curr
  <2>1. Before(q.at, c)
    BY <1>1, <1>3, <1>6, <1>7, <1>8, BeforeBy
  <2> QED BY <2>1 DEF Passed
<1>9. CASE ~(q.at[k].curr < c[k].curr)
  <2>1. q.at[k] \in Hops /\ c[k] \in Hops
    BY <1>1, <1>3, <1>7
  <2>2. k = m
    <3>1. k \in 1..(m - 1) \/ k = m
      BY <1>3, <1>7
    <3> QED BY <3>1, <1>4, <1>5, <1>9
  <2>3. q.at[k].curr = c[k].curr
    BY <1>4, <1>5, <1>9, <2>1, <2>2 DEF Hops
  <2>4. q.at[k].blk = c[k].blk
    <3>1. k \in 1..m
      BY <1>3, <1>7
    <3>2. Len(q.at) \in 1..(MaxDepth + 1) /\ q.at \in Routes(i)[Len(q.at)] /\ k \in 1..Len(q.at)
      BY <1>1, <1>5
    <3>3. Meet(q.at, c)
      BY <3>2, SameNode, Zenon
    <3> QED BY <1>6, <1>7, <3>2, <3>3, Zenon DEF Meet
  <2>5. q.at[k] = c[k]
    <3>1. q.at[k] = Hop(q.at[k].blk, q.at[k].curr) /\ c[k] = Hop(c[k].blk, c[k].curr)
      BY <2>1, HopIs, Zenon
    <3> QED BY <2>3, <2>4, <3>1, Zenon
  <2>6. Prefix(c, q.at)
    BY <1>1, <1>3, <1>5, <1>6, <2>2, <2>5 DEF Prefix
  <2> QED BY <2>6 DEF Under
<1> QED BY <1>8, <1>9

(* Up to the node before.                                                  *)
LEMMA CutPassed ==
    ASSUME NEW i, IsInode(i), NEW S \in SUBSET Places(i), NEW L,
           NEW c \in Seq(Hops), NEW k \in 1..Len(c), Passed(S, L, c)
    PROVE  Cut(c, k) \in Seq(Hops) /\ Len(Cut(c, k)) = k /\ Passed(S, L, Cut(c, k))
<1> DEFINE p == Cut(c, k)
<1>1. p \in Seq(Hops) /\ Len(p) = k /\ \A l \in 1..k : p[l] = c[l]
  BY DEF Cut
<1> HIDE DEF p
<1>2. ASSUME NEW q \in S, Before(q.at, p) PROVE q \in L
  <2>1. q.at \in Seq(Hops)
    BY PlaceForm
  <2>2. PICK j \in 1..Len(q.at) :
            /\ j \in 1..Len(p)
            /\ q.at[j].curr < p[j].curr
            /\ \A l \in 1..(j - 1) : q.at[l] = p[l]
    BY <1>1, <1>2, <2>1, BeforeAt, Zenon
  <2>3. j \in 1..Len(c) /\ q.at[j].curr < c[j].curr
    BY <1>1, <2>2
  <2>4. \A l \in 1..(j - 1) : q.at[l] = c[l]
    BY <1>1, <2>2
  <2>5. Before(q.at, c)
    BY <2>1, <2>2, <2>3, <2>4, BeforeBy
  <2> QED BY <2>5 DEF Passed
<1>3. Passed(S, L, p)
  BY <1>2 DEF Passed
<1> QED BY <1>1, <1>3 DEF p

LEMMA NoneBefore == \A l \in 1..(1 - 1) : FALSE
OBVIOUS

(* A cursor past the last entry of a node has passed all under the node.   *)
LEMMA EndUnder ==
    ASSUME NEW i, IsInode(i), NEW S \in SUBSET Places(i), NEW L,
           NEW m \in 1..MaxDepth, NEW c \in Seq(Hops), Len(c) = m + 1,
           Cut(c, m) \in Routes(i)[m],
           c[m + 1].blk = ChildOf(i, Cut(c, m)),
           c[m + 1].curr > Len(Entries(i, c[m + 1].blk)),
           \A q \in S : Prefix(Cut(c, m), q.at) => Len(q.at) > m,
           Passed(S, L, c)
    PROVE  Under(S, L, Cut(c, m))
<1> SUFFICES ASSUME NEW q \in S, Prefix(Cut(c, m), q.at) PROVE q \in L
  BY DEF Under
<1>1. q.at \in Seq(Hops) /\ Len(q.at) \in 1..(MaxDepth + 1) /\ q.at \in Routes(i)[Len(q.at)]
  BY PlaceForm
<1>2. Shape(i, q.at, Len(q.at))
  BY <1>1, RouteShape, Zenon
<1>3. Len(q.at) > m
  OBVIOUS
<1>4. Len(Cut(c, m)) = m /\ \A l \in 1..m : Cut(c, m)[l] = c[l]
  BY DEF Cut
<1>5. \A l \in 1..m : q.at[l] = c[l]
  BY <1>4 DEF Prefix
<1>6. m + 1 \in 1..Len(q.at) /\ m + 1 \in 2..Len(q.at) /\ m + 1 \in 1..Len(c)
      /\ m + 1 - 1 = m /\ m \in 1..m
  <2>1. PICK l : l = Len(q.at) /\ l \in 1..(MaxDepth + 1) /\ l > m
    BY <1>1, <1>3, Zenon
  <2> QED BY <2>1
<1>7. q.at[m + 1].blk = Entries(i, q.at[m].blk)[q.at[m].curr]
  BY <1>2, <1>6 DEF Shape
<1>8. ChildOf(i, Cut(c, m)) = Entries(i, c[m].blk)[c[m].curr]
  BY <1>4, <1>6 DEF ChildOf
<1>9. q.at[m + 1].blk = c[m + 1].blk
  BY <1>5, <1>6, <1>7, <1>8
<1>10. Len(Entries(i, c[m + 1].blk)) \in Nat
       /\ q.at[m + 1].curr \in 1..Len(Entries(i, c[m + 1].blk))
  BY <1>2, <1>6, <1>9, Zenon DEF Shape
<1>11. c[m + 1] \in Hops
  BY <1>6
<1>12. q.at[m + 1].curr < c[m + 1].curr
  BY <1>10, <1>11 DEF Hops
<1>13. Before(q.at, c)
  <2>1. \A l \in 1..(m + 1 - 1) : q.at[l] = c[l]
    BY <1>5, <1>6
  <2>2. q.at \in Seq(Hops) /\ m + 1 \in 1..Len(q.at) /\ m + 1 \in 1..Len(c)
    BY <1>1, <1>6
  <2> QED BY <1>12, <2>1, <2>2, BeforeBy
<1> QED BY <1>13 DEF Passed

(* A cursor past the last entry of the inode has passed everything.        *)
LEMMA EndAll ==
    ASSUME NEW i, IsInode(i), NEW S \in SUBSET Places(i), NEW L,
           NEW c \in Seq(Hops), Len(c) = 1, c[1].curr > Len(i.root), Passed(S, L, c)
    PROVE  S \subseteq L
<1> SUFFICES ASSUME NEW q \in S PROVE q \in L
  OBVIOUS
<1>1. q.at \in Seq(Hops) /\ Len(q.at) \in 1..(MaxDepth + 1) /\ q.at \in Routes(i)[Len(q.at)]
  BY PlaceForm
<1>2. Shape(i, q.at, Len(q.at))
  BY <1>1, RouteShape, Zenon
<1>3. 1 \in 1..Len(q.at) /\ 1 \in 1..Len(c) /\ \A l \in 1..(1 - 1) : q.at[l] = c[l]
  <2>1. 1 \in 1..Len(q.at)
    <3>1. \A l \in 1..(MaxDepth + 1) : 1 \in 1..l
      OBVIOUS
    <3> QED BY <1>1, <3>1, Zenon
  <2>2. 1 \in 1..Len(c)
    <3>1. 1 \in 1..1
      OBVIOUS
    <3> QED BY <3>1, Zenon
  <2> QED BY <2>1, <2>2, NoneBefore, Zenon
<1>4. q.at[1].blk = 0 /\ Entries(i, 0) = i.root
  BY <1>2, Zenon DEF Shape, Entries
<1>5. Len(i.root) \in Nat /\ q.at[1].curr \in 1..Len(i.root)
  BY <1>2, <1>3, <1>4, Zenon DEF Shape
<1>6. c[1] \in Hops
  BY <1>3, HopAt, Zenon
<1>7. q.at[1].curr < c[1].curr
  BY <1>5, <1>6 DEF Hops
<1>8. Before(q.at, c)
  BY <1>1, <1>3, <1>7, BeforeBy, Zenon
<1> QED BY <1>8 DEF Passed

(* Down to the first entry of a node.                                      *)
LEMMA DownPassed ==
    ASSUME NEW i, IsInode(i), NEW S \in SUBSET Places(i), NEW L,
           NEW c \in Seq(Hops), NEW d \in Seq(Hops), Len(d) = Len(c) + 1,
           \A l \in 1..Len(c) : d[l] = c[l], d[Len(d)].curr = 1, Passed(S, L, c)
    PROVE  Passed(S, L, d)
<1> SUFFICES ASSUME NEW q \in S, Before(q.at, d) PROVE q \in L
  BY DEF Passed
<1>1. q.at \in Seq(Hops)
  BY PlaceForm
<1>2. PICK k \in 1..Len(q.at) :
          /\ k \in 1..Len(d)
          /\ q.at[k].curr < d[k].curr
          /\ \A l \in 1..(k - 1) : q.at[l] = d[l]
  BY <1>1, BeforeAt, Zenon
<1>3. q.at[k] \in Hops
  BY <1>1
<1>4. k # Len(d)
  BY <1>2, <1>3 DEF Hops
<1>5. k \in 1..Len(c)
  BY <1>2, <1>4
<1>6. q.at[k].curr < c[k].curr /\ \A l \in 1..(k - 1) : q.at[l] = c[l]
  BY <1>2, <1>5
<1>7. Before(q.at, c)
  BY <1>1, <1>5, <1>6, BeforeBy, Zenon
<1> QED BY <1>7 DEF Passed

LEMMA NextBehind ==
    ASSUME NEW i, IsInode(i), NEW L \in SUBSET Places(i), NEW m \in 1..(MaxDepth + 1),
           NEW c \in Seq(Hops), Len(c) = m, NEW d, IsNext(c, d, m), Behind(L, c, TRUE)
    PROVE  Behind(L, d, FALSE)
<1> SUFFICES ASSUME NEW q \in L PROVE Before(q.at, d)
  BY DEF Behind
<1>1. q.at \in Seq(Hops)
  BY PlaceForm
<1>2. d \in Seq(Hops) /\ Len(d) = m /\ (\A l \in 1..(m - 1) : d[l] = c[l])
      /\ d[m].curr = c[m].curr + 1
  BY DEF IsNext
<1>3. c[m] \in Hops
  OBVIOUS
<1>4. CASE Before(q.at, c)
  <2>1. PICK k \in 1..Len(q.at) :
            /\ k \in 1..Len(c)
            /\ q.at[k].curr < c[k].curr
            /\ \A l \in 1..(k - 1) : q.at[l] = c[l]
    BY <1>1, <1>4, BeforeAt, Zenon
  <2>2. k \in 1..m /\ (k \in 1..(m - 1) \/ k = m) /\ k \in 1..Len(d)
    BY <1>2, <2>1
  <2>3. q.at[k] \in Hops
    BY <1>1, HopAt, Zenon
  <2>4. q.at[k].curr < d[k].curr
    <3>1. CASE k \in 1..(m - 1)
      BY <1>2, <2>1, <3>1
    <3>2. CASE k = m
      BY <1>2, <1>3, <2>1, <2>3, <3>2 DEF Hops
    <3> QED BY <2>2, <3>1, <3>2
  <2>5. \A l \in 1..(k - 1) : q.at[l] = d[l]
    BY <1>2, <2>1, <2>2
  <2> QED BY <1>1, <1>2, <2>2, <2>4, <2>5, BeforeBy, Zenon
<1>5. CASE Prefix(c, q.at)
  <2>1. m \in 1..Len(q.at) /\ m \in 1..Len(d)
    <3>1. m <= Len(q.at) /\ Len(q.at) \in Nat
      BY <1>1, <1>5 DEF Prefix
    <3> QED BY <1>2, <3>1
  <2>2. q.at[m] = c[m] /\ \A l \in 1..(m - 1) : q.at[l] = c[l]
    BY <1>5 DEF Prefix
  <2>3. q.at[m].curr < d[m].curr
    BY <1>2, <1>3, <2>2 DEF Hops
  <2>4. \A l \in 1..(m - 1) : q.at[l] = d[l]
    BY <1>2, <2>2
  <2> QED BY <1>1, <1>2, <2>1, <2>3, <2>4, BeforeBy, Zenon
<1> QED BY <1>4, <1>5 DEF Behind

LEMMA DownBehind ==
    ASSUME NEW i, IsInode(i), NEW L \in SUBSET Places(i),
           NEW c \in Seq(Hops), NEW d \in Seq(Hops), Len(d) = Len(c) + 1,
           \A l \in 1..Len(c) : d[l] = c[l], Behind(L, c, FALSE)
    PROVE  Behind(L, d, FALSE)
<1> SUFFICES ASSUME NEW q \in L PROVE Before(q.at, d)
  BY DEF Behind
<1>1. q.at \in Seq(Hops) /\ Before(q.at, c)
  BY PlaceForm DEF Behind
<1>2. PICK k \in 1..Len(q.at) :
          /\ k \in 1..Len(c)
          /\ q.at[k].curr < c[k].curr
          /\ \A l \in 1..(k - 1) : q.at[l] = c[l]
  BY <1>1, BeforeAt, Zenon
<1>3. k \in 1..Len(d) /\ q.at[k].curr < d[k].curr /\ \A l \in 1..(k - 1) : q.at[l] = d[l]
  BY <1>2
<1> QED BY <1>1, <1>3, BeforeBy, Zenon

LEMMA CutBehind ==
    ASSUME NEW i, IsInode(i), NEW L \in SUBSET Places(i),
           NEW c \in Seq(Hops), NEW k \in 1..Len(c), Behind(L, c, TRUE)
    PROVE  Behind(L, Cut(c, k), TRUE)
<1> DEFINE p == Cut(c, k)
<1>1. p \in Seq(Hops) /\ Len(p) = k /\ \A l \in 1..k : p[l] = c[l]
  BY DEF Cut
<1> HIDE DEF p
<1>2. ASSUME NEW q \in L PROVE Before(q.at, p) \/ Prefix(p, q.at)
  <2>1. q.at \in Seq(Hops)
    BY PlaceForm
  <2>2. CASE Before(q.at, c)
    <3>1. PICK j \in 1..Len(q.at) :
              /\ j \in 1..Len(c)
              /\ q.at[j].curr < c[j].curr
              /\ \A l \in 1..(j - 1) : q.at[l] = c[l]
      BY <2>1, <2>2, BeforeAt, Zenon
    <3>2. CASE j <= k
      <4>1. j \in 1..Len(p) /\ q.at[j].curr < p[j].curr /\ \A l \in 1..(j - 1) : q.at[l] = p[l]
        BY <1>1, <3>1, <3>2
      <4>2. Before(q.at, p)
        BY <1>1, <2>1, <4>1, BeforeBy, Zenon
      <4> QED BY <4>2
    <3>3. CASE j > k
      <4>1. k <= Len(q.at) /\ \A l \in 1..k : l \in 1..(j - 1)
        BY <2>1, <3>1, <3>3
      <4>2. Prefix(p, q.at)
        BY <1>1, <3>1, <4>1 DEF Prefix
      <4> QED BY <4>2
    <3> QED BY <3>1, <3>2, <3>3
  <2>3. CASE Prefix(c, q.at)
    <3>1. Prefix(p, q.at)
      BY <1>1, <2>1, <2>3 DEF Prefix
    <3> QED BY <3>1
  <2> QED BY <2>2, <2>3 DEF Behind
<1> QED BY <1>2 DEF Behind, p

(* What is listed has no gaps: with a place, all that precede it.          *)
Gapless(i, L) == \A q \in Places(i), p \in L : Precedes(q, p) => q \in L

LEMMA NoGaps ==
    ASSUME NEW i, IsInode(i), NEW L \in SUBSET Places(i), NEW c \in Seq(Hops),
           Passed(Places(i), L, c), NEW full \in BOOLEAN, Behind(L, c, full),
           full => Under(Places(i), L, c)
    PROVE  Gapless(i, L)
<1> SUFFICES ASSUME NEW q \in Places(i), NEW p \in L, Precedes(q, p) PROVE q \in L
  BY Zenon DEF Gapless
<1>1. q.at \in Seq(Hops) /\ p.at \in Seq(Hops)
  BY PlaceForm
<1>2. Before(q.at, p.at) \/ q.at = p.at
  BY DEF Precedes
<1>3. CASE Before(p.at, c)
  <2>1. Before(q.at, c)
    BY <1>1, <1>2, <1>3, BeforeTransitive, Zenon
  <2> QED BY <2>1 DEF Passed
<1>4. CASE full /\ Prefix(c, p.at)
  <2>1. CASE q.at = p.at
    BY <1>4, <2>1 DEF Under
  <2>2. CASE Before(q.at, p.at)
    <3>1. PICK k \in 1..Len(q.at) :
              /\ k \in 1..Len(p.at)
              /\ q.at[k].curr < p.at[k].curr
              /\ \A l \in 1..(k - 1) : q.at[l] = p.at[l]
      BY <1>1, <2>2, BeforeAt, Zenon
    <3>2. CASE k <= Len(c)
      <4>1. k \in 1..Len(c) /\ q.at[k].curr < c[k].curr /\ \A l \in 1..(k - 1) : q.at[l] = c[l]
        BY <1>1, <1>4, <3>1, <3>2 DEF Prefix
      <4>2. Before(q.at, c)
        BY <1>1, <4>1, BeforeBy, Zenon
      <4> QED BY <4>2 DEF Passed
    <3>3. CASE k > Len(c)
      <4>1. Prefix(c, q.at)
        BY <1>1, <1>4, <3>1, <3>3 DEF Prefix
      <4> QED BY <1>4, <4>1 DEF Under
    <3> QED BY <1>1, <3>1, <3>2, <3>3
  <2> QED BY <1>2, <2>1, <2>2
<1> QED BY <1>3, <1>4 DEF Behind

-----------------------------------------------------------------------------
(* Lists and the places of what they list                                  *)

GoodList(i, B, P) ==
    /\ B \in Seq(Nat \union {-1})
    /\ P \in Seq(Places(i) \union {NoPlace})
    /\ Len(P) = Len(B)
    /\ \A x \in 1..Len(B) : B[x] = -1 => P[x] = NoPlace
    /\ \A x \in 1..Len(B) :
          B[x] # -1 => /\ P[x] \in Places(i)
                       /\ B[x] = DataAt(i, P[x].at)[P[x].k] /\ B[x] # 0
    /\ \A x, y \in 1..Len(B) : B[x] # -1 /\ B[y] # -1 /\ x < y => Precedes(P[x], P[y])

ListedIn(B, P) == {P[x] : x \in {y \in 1..Len(B) : B[y] # -1}}

LEMMA ListedPlaces ==
    ASSUME NEW i, NEW B, NEW P, GoodList(i, B, P)
    PROVE  ListedIn(B, P) \in SUBSET Places(i)
BY DEF GoodList, ListedIn

(* A marker changes nothing.                                               *)
LEMMA MarkList ==
    ASSUME NEW i, NEW B, NEW P, GoodList(i, B, P)
    PROVE  /\ GoodList(i, B \o << -1 >>, P \o << NoPlace >>)
           /\ ListedIn(B \o << -1 >>, P \o << NoPlace >>) = ListedIn(B, P)
<1> DEFINE C == B \o << -1 >>
           Q == P \o << NoPlace >>
           n1 == Len(B)
<1>1. B \in Seq(Nat \union {-1}) /\ P \in Seq(Places(i) \union {NoPlace}) /\ Len(P) = n1 /\ n1 \in Nat
  BY DEF GoodList
<1>2. C \in Seq(Nat \union {-1}) /\ Len(C) = n1 + 1 /\ (\A x \in 1..n1 : C[x] = B[x]) /\ C[n1 + 1] = -1
  BY <1>1
<1>3. Q \in Seq(Places(i) \union {NoPlace}) /\ Len(Q) = n1 + 1 /\ (\A x \in 1..n1 : Q[x] = P[x])
      /\ Q[n1 + 1] = NoPlace
  BY <1>1
<1>4. /\ \A x \in 1..n1 : B[x] = -1 => P[x] = NoPlace
      /\ \A x \in 1..n1 :
            B[x] # -1 => /\ P[x] \in Places(i)
                         /\ B[x] = DataAt(i, P[x].at)[P[x].k] /\ B[x] # 0
      /\ \A x, y \in 1..n1 : B[x] # -1 /\ B[y] # -1 /\ x < y => Precedes(P[x], P[y])
  BY DEF GoodList
<1>5. \A x \in 1..(n1 + 1) : x \in 1..n1 \/ x = n1 + 1
  BY <1>1
<1>6. \A x \in 1..n1 : x \in 1..(n1 + 1)
  BY <1>1
<1>7. ListedIn(C, Q) = ListedIn(B, P)
  <2> HIDE DEF C, Q, n1
  <2>1. {y \in 1..(n1 + 1) : C[y] # -1} = {y \in 1..n1 : B[y] # -1}
    BY <1>2, <1>5, <1>6, Zenon
  <2>2. \A y \in {y \in 1..n1 : B[y] # -1} : Q[y] = P[y]
    BY <1>3, Zenon
  <2> QED BY <1>2, <2>1, <2>2 DEF ListedIn, n1
<1>8. GoodList(i, C, Q)
  <2> HIDE DEF C, Q, n1
  <2>1. \A x \in 1..(n1 + 1) : C[x] = -1 => Q[x] = NoPlace
    BY <1>2, <1>3, <1>4, <1>5, Zenon
  <2>2. \A x \in 1..(n1 + 1) : C[x] # -1 => x \in 1..n1 /\ C[x] = B[x] /\ Q[x] = P[x]
    BY <1>2, <1>3, <1>5, Zenon
  <2>3. \A x \in 1..(n1 + 1) :
            C[x] # -1 => /\ Q[x] \in Places(i)
                         /\ C[x] = DataAt(i, Q[x].at)[Q[x].k] /\ C[x] # 0
    <3> SUFFICES ASSUME NEW x \in 1..(n1 + 1), C[x] # -1
                 PROVE  Q[x] \in Places(i) /\ C[x] = DataAt(i, Q[x].at)[Q[x].k] /\ C[x] # 0
      OBVIOUS
    <3>1. x \in 1..n1 /\ C[x] = B[x] /\ Q[x] = P[x]
      BY <2>2, Zenon
    <3>2. P[x] \in Places(i) /\ B[x] = DataAt(i, P[x].at)[P[x].k] /\ B[x] # 0
      BY <1>4, <3>1, Zenon
    <3> QED BY <3>1, <3>2, Zenon
  <2>4. \A x, y \in 1..(n1 + 1) : C[x] # -1 /\ C[y] # -1 /\ x < y => Precedes(Q[x], Q[y])
    <3> SUFFICES ASSUME NEW x \in 1..(n1 + 1), NEW y \in 1..(n1 + 1), C[x] # -1, C[y] # -1, x < y
                 PROVE  Precedes(Q[x], Q[y])
      OBVIOUS
    <3>1. x \in 1..n1 /\ C[x] = B[x] /\ Q[x] = P[x] /\ y \in 1..n1 /\ C[y] = B[y] /\ Q[y] = P[y]
      BY <2>2, Zenon
    <3>2. B[x] # -1 /\ B[y] # -1
      BY <3>1, Zenon
    <3>3. Precedes(P[x], P[y])
      BY <1>4, <3>1, <3>2, Zenon
    <3> QED BY <3>1, <3>3, Zenon
  <2> QED BY <1>2, <1>3, <2>1, <2>3, <2>4, Zenon DEF GoodList
<1> QED BY <1>7, <1>8

(* C and Q are the list B with places P and the blocks bs at the end of c. *)
Extends(i, B, P, c, bs, C, Q) ==
    /\ GoodList(i, C, Q)
    /\ ListedIn(C, Q) = ListedIn(B, P) \union {Place(c, k) : k \in DOMAIN bs}

LEMMA ConcatAt ==
    ASSUME NEW S, NEW s \in Seq(S), NEW t \in Seq(S)
    PROVE  /\ s \o t \in Seq(S) /\ Len(s \o t) = Len(s) + Len(t)
           /\ \A x \in 1..Len(s) : (s \o t)[x] = s[x]
           /\ \A k \in 1..Len(t) : (s \o t)[Len(s) + k] = t[k]
OBVIOUS

(* The blocks at the end of the route on which the cursor is can be added. *)
LEMMA ExtendList ==
    ASSUME NEW i, IsInode(i), NEW B, NEW P, GoodList(i, B, P),
           NEW m \in 1..(MaxDepth + 1), NEW c \in Routes(i)[m], Behind(ListedIn(B, P), c, FALSE),
           NEW bs, bs = DataAt(i, c), NEW ps, ps = [k \in DOMAIN bs |-> Place(c, k)]
    PROVE  Extends(i, B, P, c, bs, B \o bs, P \o ps)
<1> DEFINE C == B \o bs
           Q == P \o ps
           n1 == Len(B)
           n2 == Len(bs)
<1>1. B \in Seq(Nat \union {-1}) /\ P \in Seq(Places(i) \union {NoPlace}) /\ Len(P) = n1 /\ n1 \in Nat
  BY DEF GoodList
<1>2. bs \in Seq(Nat \ {0})
  BY DataBlocksNat
<1>3. n2 \in Nat /\ DOMAIN bs = 1..n2 /\ \A k \in 1..n2 : bs[k] \in Nat /\ bs[k] # 0 /\ bs[k] # -1
  BY <1>2
<1>4. \A k \in 1..n2 : Place(c, k) \in Places(i)
  BY <1>3, IsPlace
<1>5. ps \in Seq(Places(i) \union {NoPlace}) /\ Len(ps) = n2 /\ \A k \in 1..n2 : ps[k] = Place(c, k)
  <2> HIDE DEF n2
  <2>1. ps = [k \in 1..n2 |-> Place(c, k)]
    BY <1>3
  <2>2. \A k \in 1..n2 : Place(c, k) \in Places(i) \union {NoPlace}
    BY <1>4
  <2> QED BY <1>3, <2>1, <2>2
<1>6. /\ C \in Seq(Nat \union {-1}) /\ Len(C) = n1 + n2
      /\ \A x \in 1..n1 : C[x] = B[x]
      /\ \A k \in 1..n2 : C[n1 + k] = bs[k]
  <2>1. bs \in Seq(Nat \union {-1})
    BY <1>2
  <2> QED BY <1>1, <2>1
<1>7. /\ Q \in Seq(Places(i) \union {NoPlace}) /\ Len(Q) = n1 + n2
      /\ \A x \in 1..n1 : Q[x] = P[x]
      /\ \A k \in 1..n2 : Q[n1 + k] = Place(c, k)
  <2> DEFINE T == Places(i) \union {NoPlace}
  <2> HIDE DEF n1, n2
  <2>0. P \in Seq(T) /\ ps \in Seq(T)
    BY <1>1, <1>5
  <2> HIDE DEF T
  <2>1. /\ Q \in Seq(T) /\ Len(Q) = Len(P) + Len(ps)
        /\ \A x \in 1..Len(P) : Q[x] = P[x]
        /\ \A k \in 1..Len(ps) : Q[Len(P) + k] = ps[k]
    BY <2>0, ConcatAt
  <2> HIDE DEF Q
  <2> QED BY <1>1, <1>5, <2>1, Zenon DEF T
<1>8. /\ \A x \in 1..n1 : B[x] = -1 => P[x] = NoPlace
      /\ \A x \in 1..n1 :
            B[x] # -1 => /\ P[x] \in Places(i)
                         /\ B[x] = DataAt(i, P[x].at)[P[x].k] /\ B[x] # 0
      /\ \A x, y \in 1..n1 : B[x] # -1 /\ B[y] # -1 /\ x < y => Precedes(P[x], P[y])
  BY DEF GoodList
<1>9. \A x \in 1..(n1 + n2) : x \in 1..n1 \/ \E k \in 1..n2 : x = n1 + k
  <2> SUFFICES ASSUME NEW x \in 1..(n1 + n2), ~(x \in 1..n1) PROVE \E k \in 1..n2 : x = n1 + k
    OBVIOUS
  <2> HIDE DEF n1, n2
  <2>1. x - n1 \in 1..n2 /\ x = n1 + (x - n1)
    BY <1>1, <1>3
  <2> QED BY <2>1
<1> HIDE DEF C, Q, n1, n2
<1>10. \A x \in 1..n1 : x \in 1..(n1 + n2)
  BY <1>1, <1>3
<1>11. \A k \in 1..n2 : n1 + k \in 1..(n1 + n2)
  BY <1>1, <1>3
<1>12. \A x \in 1..(n1 + n2) : C[x] = -1 => Q[x] = NoPlace
  <2> SUFFICES ASSUME NEW x \in 1..(n1 + n2), C[x] = -1 PROVE Q[x] = NoPlace
    OBVIOUS
  <2>1. CASE x \in 1..n1
    BY <2>1, <1>6, <1>7, <1>8, Zenon
  <2>2. ASSUME NEW k \in 1..n2, x = n1 + k PROVE FALSE
    BY <2>2, <1>3, <1>6, Zenon
  <2> QED BY <1>9, <2>1, <2>2, Zenon
<1>13. \A x \in 1..(n1 + n2) :
           C[x] # -1 => /\ Q[x] \in Places(i)
                        /\ C[x] = DataAt(i, Q[x].at)[Q[x].k] /\ C[x] # 0
  <2> SUFFICES ASSUME NEW x \in 1..(n1 + n2), C[x] # -1
               PROVE  Q[x] \in Places(i) /\ C[x] = DataAt(i, Q[x].at)[Q[x].k] /\ C[x] # 0
    OBVIOUS
  <2>1. CASE x \in 1..n1
    <3>1. C[x] = B[x] /\ Q[x] = P[x] /\ B[x] # -1
      BY <2>1, <1>6, <1>7, Zenon
    <3>2. P[x] \in Places(i) /\ B[x] = DataAt(i, P[x].at)[P[x].k] /\ B[x] # 0
      BY <2>1, <3>1, <1>8, Zenon
    <3> QED BY <3>1, <3>2, Zenon
  <2>2. CASE \E k \in 1..n2 : x = n1 + k
    <3>1. PICK k \in 1..n2 : x = n1 + k
      BY <2>2
    <3>2. C[x] = bs[k] /\ Q[x] = Place(c, k) /\ bs[k] # 0
      BY <3>1, <1>3, <1>6, <1>7, Zenon
    <3>3. Place(c, k) \in Places(i) /\ Place(c, k).at = c /\ Place(c, k).k = k
      BY <1>4, PlaceIs, Zenon
    <3> QED BY <3>2, <3>3, Zenon
  <2> QED BY <1>9, <2>1, <2>2, Zenon
<1>14. \A x \in 1..n1 : \A k \in 1..n2 : B[x] # -1 => Precedes(P[x], Place(c, k))
  <2> SUFFICES ASSUME NEW x \in 1..n1, NEW k \in 1..n2, B[x] # -1
               PROVE  Precedes(P[x], Place(c, k))
    OBVIOUS
  <2>1. P[x] \in ListedIn(B, P)
    BY Zenon DEF ListedIn, n1
  <2>2. Before(P[x].at, c)
    BY <2>1, Zenon DEF Behind
  <2>3. Before(P[x].at, Place(c, k).at)
    BY <2>2, PlaceIs, Zenon
  <2> QED BY <2>3, Zenon DEF Precedes
<1>15. \A j, k \in 1..n2 : n1 + j < n1 + k => Precedes(Place(c, j), Place(c, k))
  <2> SUFFICES ASSUME NEW j \in 1..n2, NEW k \in 1..n2, n1 + j < n1 + k
               PROVE  Precedes(Place(c, j), Place(c, k))
    OBVIOUS
  <2>1. j < k
    BY <1>1, <1>3
  <2> QED BY <2>1, PlaceIs DEF Precedes
<1>16. \A x, y \in 1..(n1 + n2) : C[x] # -1 /\ C[y] # -1 /\ x < y => Precedes(Q[x], Q[y])
  <2> SUFFICES ASSUME NEW x \in 1..(n1 + n2), NEW y \in 1..(n1 + n2), C[x] # -1, C[y] # -1, x < y
               PROVE  Precedes(Q[x], Q[y])
    OBVIOUS
  <2>1. CASE x \in 1..n1 /\ y \in 1..n1
    <3>1. C[x] = B[x] /\ Q[x] = P[x] /\ C[y] = B[y] /\ Q[y] = P[y]
      BY <2>1, <1>6, <1>7, Zenon
    <3>2. B[x] # -1 /\ B[y] # -1
      BY <3>1, Zenon
    <3>3. Precedes(P[x], P[y])
      BY <2>1, <3>2, <1>8, Zenon
    <3> QED BY <3>1, <3>3, Zenon
  <2>2. CASE x \in 1..n1 /\ \E k \in 1..n2 : y = n1 + k
    <3>1. PICK k \in 1..n2 : y = n1 + k
      BY <2>2
    <3>2. C[x] = B[x] /\ Q[x] = P[x] /\ Q[y] = Place(c, k)
      BY <2>2, <3>1, <1>6, <1>7, Zenon
    <3>3. B[x] # -1
      BY <3>2, Zenon
    <3> QED BY <2>2, <3>2, <3>3, <1>14, Zenon
  <2>3. CASE (\E j \in 1..n2 : x = n1 + j) /\ y \in 1..n1
    BY <2>3, <1>1, <1>3
  <2>4. CASE (\E j \in 1..n2 : x = n1 + j) /\ \E k \in 1..n2 : y = n1 + k
    <3>1. PICK j \in 1..n2 : x = n1 + j
      BY <2>4
    <3>2. PICK k \in 1..n2 : y = n1 + k
      BY <2>4
    <3>3. Q[x] = Place(c, j) /\ Q[y] = Place(c, k)
      BY <3>1, <3>2, <1>7, Zenon
    <3> QED BY <3>1, <3>2, <3>3, <1>15, Zenon
  <2> QED BY <1>9, <2>1, <2>2, <2>3, <2>4, Zenon
<1>17. GoodList(i, C, Q)
  BY <1>6, <1>7, <1>12, <1>13, <1>16, Zenon DEF GoodList
<1>18. ListedIn(C, Q) = ListedIn(B, P) \union {Place(c, k) : k \in DOMAIN bs}
  <2>1. ASSUME NEW q \in ListedIn(C, Q) PROVE q \in ListedIn(B, P) \union {Place(c, k) : k \in 1..n2}
    <3>1. PICK x \in 1..(n1 + n2) : C[x] # -1 /\ q = Q[x]
      BY <1>6, <2>1, Zenon DEF ListedIn
    <3>2. CASE x \in 1..n1
      <4>1. B[x] # -1 /\ q = P[x]
        BY <3>1, <3>2, <1>6, <1>7, Zenon
      <4> QED BY <3>2, <4>1, Zenon DEF ListedIn, n1
    <3>3. CASE \E k \in 1..n2 : x = n1 + k
      BY <3>1, <3>3, <1>7, Zenon
    <3> QED BY <1>9, <3>2, <3>3, Zenon
  <2>2. ASSUME NEW q \in ListedIn(B, P) PROVE q \in ListedIn(C, Q)
    <3>1. PICK x \in 1..n1 : B[x] # -1 /\ q = P[x]
      BY <2>2, Zenon DEF ListedIn, n1
    <3>2. x \in 1..Len(C) /\ C[x] # -1 /\ q = Q[x]
      BY <3>1, <1>6, <1>7, <1>10, Zenon
    <3> QED BY <3>2, Zenon DEF ListedIn
  <2>3. ASSUME NEW k \in 1..n2 PROVE Place(c, k) \in ListedIn(C, Q)
    <3>1. n1 + k \in 1..Len(C) /\ C[n1 + k] # -1 /\ Place(c, k) = Q[n1 + k]
      BY <1>3, <1>6, <1>7, <1>11, Zenon
    <3> QED BY <3>1, Zenon DEF ListedIn
  <2>4. {Place(c, k) : k \in DOMAIN bs} = {Place(c, k) : k \in 1..n2}
    BY <1>3
  <2> QED BY <2>1, <2>2, <2>3, <2>4, Zenon
<1> QED BY <1>17, <1>18, Zenon DEF C, Q, Extends

-----------------------------------------------------------------------------
(* The invariant of the lists                                              *)

Frames == [blk : Nat, curr : Nat \ {0}, visit_num : BOOLEAN]
Token == [tag : {"ETB", "IND", "data"}, blk : Nat]

Listed == ListedIn(blknums, places)

Typed ==
    /\ inode \in Inodes
    /\ walk \in {"open", "extents", "slots", "listed"}
    /\ path \in Seq(Frames) /\ slot \in Nat \ {0}
    /\ line \in Seq(Token) /\ failed \in BOOLEAN
    /\ Len(path) <= (IF inode.map = "extents" THEN inode.depth + 1 ELSE 3)
    /\ \A k \in 1..Len(path) : path[k].blk \in DOMAIN inode.disk \union {0}
    /\ slot > 1 => inode.map \in {"indirect", "xfs"} /\ slot <= Len(inode.root) + 1
    /\ walk = "open" =>
          path = <<>> /\ (inode.map # "xfs" => slot = 1 /\ blknums = <<>> /\ places = <<>>)
    /\ walk = "extents" => inode.map = "extents"
    /\ walk = "slots" => inode.map = "indirect"

Good ==
    /\ GoodList(inode, blknums, places)
    /\ \A k \in 1..Len(blknums) : blknums[k] = -1 => k = 1 \/ inode.map = "xfs"

(* The cursor of ext2fs_extent_get is on a route, above it all is visited; *)
(* what it has passed is listed, and nothing else.                         *)
Full == AtLeaf(path) \/ Top.visit_num

OnExtents ==
    walk = "extents" =>
        /\ Len(path) \in 1..(MaxDepth + 1) /\ RouteOf(path) \in Routes(inode)[Len(path)]
        /\ \A k \in 1..(Len(path) - 1) : path[k].visit_num
        /\ Passed(Places(inode), Listed, RouteOf(path))
        /\ Behind(Listed, RouteOf(path), Full)
        /\ Full => Under(Places(inode), Listed, RouteOf(path))

(* So it is with ext2fs_block_iterate3 and the lines of xfs_bmap, but for  *)
(* the slots of the inode that are damaged.                                *)
Whole == {q \in Places(inode) : SlotIntact(inode, q.at[1].curr)}

InNode ==
    path # <<>> =>
        LET m == Len(path)
            p == Cut(Here, m)
        IN  /\ inode.map = "indirect" /\ m <= HeightOf(slot) /\ slot <= Len(inode.root)
            /\ p \in Routes(inode)[m] /\ Opens(inode, p)
            /\ Top.blk = ChildOf(inode, p)
            /\ Top.curr <= Len(Node(Top)) + 1

OnSlots ==
    walk # "listed" /\ inode.map \in {"indirect", "xfs"} =>
        /\ slot <= Len(inode.root) + 1
        /\ InNode
        /\ ~failed => Passed(Whole, Listed, Here)
        /\ Behind(Listed, Here, FALSE)

NoGap == inode.map = "extents" => Gapless(inode, Listed)

AllThere ==
    walk = "listed" /\ ~failed =>
        /\ inode.map \in {"indirect", "xfs"} => Whole \subseteq Listed
        /\ Intact(inode) => Places(inode) \subseteq Listed

Listing == Typed /\ Good /\ OnExtents /\ OnSlots /\ NoGap /\ AllThere

LEMMA InodeForm == Typed => IsInode(inode) /\ NDirect \in Nat
BY ListAssumption DEF Typed

-----------------------------------------------------------------------------
(* What the invariant says of the list                                     *)

LEMMA ListForm ==
    ASSUME Listing
    PROVE  /\ blknums \in Seq(Nat \union {-1}) /\ Len(blknums) \in Nat
           /\ DOMAIN blknums = 1..Len(blknums)
           /\ DOMAIN places = 1..Len(blknums) /\ Len(places) = Len(blknums)
           /\ \A x \in 1..Len(blknums) : blknums[x] \in Nat \union {-1}
           /\ Blocks = {x \in 1..Len(blknums) : blknums[x] # -1}
<1>1. /\ blknums \in Seq(Nat \union {-1}) /\ places \in Seq(Places(inode) \union {NoPlace})
      /\ Len(places) = Len(blknums)
  BY Zenon DEF Listing, Good, GoodList
<1> DEFINE S == Places(inode) \union {NoPlace}
<1> HIDE DEF S
<1>2. places \in Seq(S)
  BY <1>1, Zenon DEF S
<1>3. DOMAIN places = 1..Len(places)
  BY <1>2
<1>4. Len(blknums) \in Nat /\ DOMAIN blknums = 1..Len(blknums)
      /\ \A x \in 1..Len(blknums) : blknums[x] \in Nat \union {-1}
  BY <1>1
<1> QED BY <1>1, <1>3, <1>4, Zenon DEF Blocks

-----------------------------------------------------------------------------
(* Steps of the lists                                                      *)

LEMMA NotZero == \A l \in 1..(MaxDepth + 1) : l # 0
OBVIOUS

LEMMA SelfIn == \A l \in 1..(MaxDepth + 1) : l \in 1..l /\ 1 \in 1..l
OBVIOUS

(* What a route ends at.                                                   *)
LEMMA EntryForm ==
    ASSUME NEW i, IsInode(i), NEW m \in 1..(MaxDepth + 1), NEW r \in Routes(i)[m]
    PROVE  /\ i.map = "indirect" => ChildOf(i, r) \in Nat
           /\ i.map = "xfs" => ChildOf(i, r) \in Row
           /\ i.map = "extents" /\ m <= i.depth => ChildOf(i, r) \in Nat
           /\ i.map = "extents" /\ ~(m <= i.depth) => ChildOf(i, r) \in Extent
BY Zenon DEF IsInode

LEMMA FrameAt ==
    \A p \in Seq(Frames) : \A k \in 1..Len(p) :
        p[k] \in Frames /\ p[k].blk \in Nat /\ p[k].curr \in Nat \ {0} /\ p[k].visit_num \in BOOLEAN
<1>1. \A p \in Seq(Frames) : \A k \in 1..Len(p) : p[k] \in Frames
  OBVIOUS
<1>2. \A f \in Frames : f.blk \in Nat /\ f.curr \in Nat \ {0} /\ f.visit_num \in BOOLEAN
  BY DEF Frames
<1> QED BY <1>1, <1>2, Zenon

(* The route of a path.                                                    *)
LEMMA RouteOfIs ==
    ASSUME NEW pth \in Seq(Frames)
    PROVE  /\ RouteOf(pth) \in Seq(Hops) /\ Len(RouteOf(pth)) = Len(pth)
           /\ \A k \in 1..Len(pth) : /\ RouteOf(pth)[k] = Hop(pth[k].blk, pth[k].curr)
                                     /\ RouteOf(pth)[k].blk = pth[k].blk
                                     /\ RouteOf(pth)[k].curr = pth[k].curr
<1>1. DOMAIN pth = 1..Len(pth) /\ Len(pth) \in Nat
  OBVIOUS
<1>2. \A k \in 1..Len(pth) : pth[k] \in Frames
  OBVIOUS
<1>3. \A k \in 1..Len(pth) : Hop(pth[k].blk, pth[k].curr) \in Hops
  BY <1>2 DEF Frames, Hop, Hops
<1>4. RouteOf(pth) = [k \in 1..Len(pth) |-> Hop(pth[k].blk, pth[k].curr)]
  BY <1>1 DEF RouteOf
<1>5. RouteOf(pth) \in Seq(Hops) /\ Len(RouteOf(pth)) = Len(pth)
  BY <1>1, <1>3, <1>4
<1>6. \A b, k : Hop(b, k).blk = b /\ Hop(b, k).curr = k
  BY DEF Hop
<1>7. \A k \in 1..Len(pth) : RouteOf(pth)[k] = Hop(pth[k].blk, pth[k].curr)
  BY <1>4
<1>8. \A k \in 1..Len(pth) : RouteOf(pth)[k].blk = pth[k].blk /\ RouteOf(pth)[k].curr = pth[k].curr
  BY <1>6, <1>7
<1> QED BY <1>5, <1>7, <1>8

(* lsb_cb: the blocks at the end of route c are listed, with a marker      *)
(* before the first of all.                                                *)
LEMMA PushStep ==
    ASSUME Typed, Good, NEW m \in 1..(MaxDepth + 1), NEW c \in Routes(inode)[m],
           Behind(Listed, c, FALSE), NEW bs, bs = DataAt(inode, c),
           inode' = inode, blknums' = Pushed(bs), places' = Noted(c, bs)
    PROVE  Good' /\ Listed' = Listed \union {Place(c, k) : k \in DOMAIN bs}
<1>1. IsInode(inode)
  BY InodeForm
<1>2. bs \in Seq(Nat \ {0})
  BY <1>1, DataBlocksNat
<1>3. GoodList(inode, blknums, places)
  BY DEF Good
<1>4. blknums \in Seq(Nat \union {-1}) /\ Len(places) = Len(blknums)
      /\ places \in Seq(Places(inode) \union {NoPlace})
  BY <1>3 DEF GoodList
<1>5. CASE bs = <<>>
  <2>1. blknums' = blknums /\ places' = places
    BY <1>5, Zenon DEF Pushed, Noted
  <2>2. {Place(c, k) : k \in DOMAIN bs} = {}
    BY <1>5
  <2> QED BY <2>1, <2>2 DEF Good, Listed
<1>6. CASE bs # <<>> /\ blknums # <<>>
  <2> DEFINE ps == [k \in DOMAIN bs |-> Place(c, k)]
  <2>1. blknums' = blknums \o bs /\ places' = places \o ps
    BY <1>6 DEF Pushed, Noted, Marked
  <2> HIDE DEF ps
  <2>2. Extends(inode, blknums, places, c, bs, blknums \o bs, places \o ps)
    <3>1. ps = [k \in DOMAIN bs |-> Place(c, k)] /\ Behind(ListedIn(blknums, places), c, FALSE)
      BY Zenon DEF ps, Listed
    <3> QED BY <1>1, <1>3, <3>1, ExtendList, Zenon
  <2>3. \A k \in 1..Len(blknums \o bs) : (blknums \o bs)[k] = -1 => k = 1 \/ inode.map = "xfs"
    <3> SUFFICES ASSUME NEW k \in 1..Len(blknums \o bs), (blknums \o bs)[k] = -1
                 PROVE  k = 1 \/ inode.map = "xfs"
      OBVIOUS
    <3>1. CASE k <= Len(blknums)
      <4>1. k \in 1..Len(blknums) /\ (blknums \o bs)[k] = blknums[k]
        BY <1>2, <1>4, <3>1
      <4> QED BY <4>1 DEF Good
    <3>2. CASE k > Len(blknums)
      <4>1. k - Len(blknums) \in 1..Len(bs) /\ (blknums \o bs)[k] = bs[k - Len(blknums)]
        BY <1>2, <1>4, <3>2
      <4>2. bs[k - Len(blknums)] \in Nat
        BY <1>2, <4>1
      <4> QED BY <4>1, <4>2
    <3> QED BY <1>4, <3>1, <3>2
  <2> QED BY <2>1, <2>2, <2>3 DEF Good, Listed, Extends
<1>7. CASE bs # <<>> /\ blknums = <<>>
  <2> DEFINE ps == [k \in DOMAIN bs |-> Place(c, k)]
             B == << -1 >>
             P == << NoPlace >>
  <2>1. blknums' = B \o bs /\ places' = P \o ps
    BY <1>7 DEF Pushed, Noted, Marked
  <2>2. places = <<>>
    BY <1>4, <1>7
  <2>3. blknums \o << -1 >> = B /\ places \o << NoPlace >> = P
    BY <1>7, <2>2
  <2>4. GoodList(inode, B, P) /\ ListedIn(B, P) = ListedIn(blknums, places)
    <3>1. /\ GoodList(inode, blknums \o << -1 >>, places \o << NoPlace >>)
          /\ ListedIn(blknums \o << -1 >>, places \o << NoPlace >>) = ListedIn(blknums, places)
      BY <1>3, MarkList, Zenon
    <3> QED BY <2>3, <3>1, Zenon
  <2> HIDE DEF ps, B, P
  <2>5. Extends(inode, B, P, c, bs, B \o bs, P \o ps)
    <3>1. ps = [k \in DOMAIN bs |-> Place(c, k)] /\ Behind(ListedIn(B, P), c, FALSE)
      BY <2>4, Zenon DEF ps, Listed
    <3> QED BY <1>1, <2>4, <3>1, ExtendList, Zenon
  <2>6. \A k \in 1..Len(B \o bs) : (B \o bs)[k] = -1 => k = 1 \/ inode.map = "xfs"
    <3> SUFFICES ASSUME NEW k \in 1..Len(B \o bs), (B \o bs)[k] = -1, k # 1
                 PROVE  FALSE
      OBVIOUS
    <3>1. k - 1 \in 1..Len(bs) /\ (B \o bs)[k] = bs[k - 1]
      BY <1>2 DEF B
    <3>2. bs[k - 1] \in Nat
      BY <1>2, <3>1
    <3> QED BY <3>1, <3>2
  <2> QED BY <2>1, <2>4, <2>5, <2>6 DEF Good, Listed, Extends
<1> QED BY <1>5, <1>6, <1>7

(* A path to which the cursor may move.                                    *)
Arrives(pth) ==
    /\ pth \in Seq(Frames) /\ Len(pth) \in 1..(MaxDepth + 1) /\ Len(pth) <= inode.depth + 1
    /\ RouteOf(pth) \in Routes(inode)[Len(pth)]
    /\ \A k \in 1..(Len(pth) - 1) : pth[k].visit_num
    /\ Passed(Places(inode), Listed, RouteOf(pth))
    /\ Behind(Listed, RouteOf(pth), pth[Len(pth)].visit_num)
    /\ pth[Len(pth)].visit_num => Under(Places(inode), Listed, RouteOf(pth)) /\ ~AtLeaf(pth)

LEMMA ListSubset == Good => Listed \in SUBSET Places(inode)
BY ListedPlaces DEF Good, Listed

LEMMA PrefixSelf == \A c : c \in Seq(Hops) => Prefix(c, c)
BY DEF Prefix

LEMMA TokensTyped ==
    ASSUME NEW tag \in {"ETB", "IND", "data"}, NEW bs \in Seq(Nat)
    PROVE  Tokens(tag, bs) \in Seq(Token)
<1>1. DOMAIN bs = 1..Len(bs) /\ Len(bs) \in Nat /\ \A k \in 1..Len(bs) : bs[k] \in Nat
  OBVIOUS
<1>2. \A k \in 1..Len(bs) : [tag |-> tag, blk |-> bs[k]] \in Token
  BY <1>1 DEF Token
<1>3. Tokens(tag, bs) = [k \in 1..Len(bs) |-> [tag |-> tag, blk |-> bs[k]]]
  BY <1>1 DEF Tokens
<1> QED BY <1>1, <1>2, <1>3

(* What is at the end of the route of a path.                              *)
LEMMA PathEntry ==
    ASSUME Typed, inode.map = "extents", NEW pth, Arrives(pth),
           NEW x, x = Node(pth[Len(pth)])[pth[Len(pth)].curr]
    PROVE  /\ x = ChildOf(inode, RouteOf(pth))
           /\ AtLeaf(pth) => BlocksOf(x) = DataAt(inode, RouteOf(pth))
           /\ ~AtLeaf(pth) => x \in Nat
<1> DEFINE m == Len(pth)
           c == RouteOf(pth)
<1>1. pth \in Seq(Frames) /\ m \in 1..(MaxDepth + 1) /\ m <= inode.depth + 1 /\ c \in Routes(inode)[m]
  BY Zenon DEF Arrives
<1>2. IsInode(inode)
  BY InodeForm, Zenon
<1>3. Len(c) = m /\ c[m].blk = pth[m].blk /\ c[m].curr = pth[m].curr
  <2>1. m \in 1..m
    BY <1>1
  <2> QED BY <1>1, <2>1, RouteOfIs
<1>4. x = ChildOf(inode, c)
  BY <1>3, Zenon DEF Node, ChildOf
<1>5. ASSUME AtLeaf(pth) PROVE BlocksOf(x) = DataAt(inode, c)
  <2>1. m = inode.depth + 1 /\ inode.depth \in Nat
    BY <1>2, <1>5 DEF AtLeaf, IsInode
  <2>2. ~(m <= inode.depth)
    BY <2>1
  <2>3. x \in Extent
    BY <1>1, <1>2, <1>4, <2>2, EntryForm, Zenon
  <2>4. x.start # 0 /\ ELen(EeLen(x)) = x.len
    BY <2>3, ExtentForm
  <2> HIDE DEF m, c
  <2>5. DataAt(inode, c) = [k \in 1..x.len |-> x.start + k - 1]
    BY <1>3, <1>4, <2>1, <2>4 DEF DataAt
  <2> QED BY <2>4, <2>5 DEF BlocksOf
<1>6. ASSUME ~AtLeaf(pth) PROVE x \in Nat
  <2>1. m <= inode.depth
    <3>1. m \in 1..(MaxDepth + 1) /\ m <= inode.depth + 1 /\ inode.depth \in 0..MaxDepth /\ m # inode.depth + 1
      BY <1>1, <1>2, <1>6, Zenon DEF AtLeaf, IsInode
    <3> HIDE DEF m
    <3> QED BY <3>1
  <2> QED BY <1>1, <1>2, <1>4, <2>1, EntryForm, Zenon
<1> QED BY <1>4, <1>5, <1>6, Zenon

(* The list after a visit, and where the cursor then is.                   *)
LEMMA VisitLists ==
    ASSUME Typed, Good, inode.map = "extents", NEW pth, Arrives(pth), Visit(pth)
    PROVE  /\ Good'
           /\ Passed(Places(inode), Listed', RouteOf(pth))
           /\ Behind(Listed', RouteOf(pth), AtLeaf(pth) \/ pth[Len(pth)].visit_num)
           /\ AtLeaf(pth) \/ pth[Len(pth)].visit_num =>
                  Under(Places(inode), Listed', RouteOf(pth))
<1> DEFINE m == Len(pth)
           c == RouteOf(pth)
           v == pth[m].visit_num
           x == Node(pth[m])[pth[m].curr]
<1>1. pth \in Seq(Frames) /\ m \in 1..(MaxDepth + 1) /\ c \in Routes(inode)[m]
      /\ Passed(Places(inode), Listed, c) /\ Behind(Listed, c, v)
      /\ (v => Under(Places(inode), Listed, c) /\ ~AtLeaf(pth))
  BY Zenon DEF Arrives
<1>2. /\ inode' = inode
      /\ blknums' = IF AtLeaf(pth) THEN Pushed(BlocksOf(x)) ELSE blknums
      /\ places' = IF AtLeaf(pth) THEN Noted(c, BlocksOf(x)) ELSE places
  BY Zenon DEF Visit
<1>3. AtLeaf(pth) => BlocksOf(x) = DataAt(inode, c)
  BY PathEntry
<1>4. IsInode(inode)
  BY InodeForm
<1>5. v \in BOOLEAN
  <2>1. m \in 1..m
    BY <1>1, SelfIn, Zenon
  <2> QED BY <1>1, <2>1, FrameAt, Zenon
<1>6. c \in Seq(Hops) /\ Len(c) = m
  BY <1>1, RouteOfIs, Zenon
<1> HIDE DEF m, c, v, x
<1>7. CASE ~AtLeaf(pth)
  <2>1. blknums' = blknums /\ places' = places
    BY <1>2, <1>7
  <2>2. Listed' = Listed /\ Good'
    BY <1>2, <2>1 DEF Good, Listed
  <2>3. AtLeaf(pth) \/ v <=> v
    BY <1>7
  <2>4. Behind(Listed', c, AtLeaf(pth) \/ v)
    BY <1>1, <1>7, <2>2 DEF Behind
  <2> QED BY <1>1, <2>2, <2>3, <2>4, Zenon DEF c, v, m
<1>8. CASE AtLeaf(pth)
  <2> DEFINE bs == BlocksOf(x)
  <2>1. ~v /\ bs = DataAt(inode, c)
    BY <1>1, <1>3, <1>8, Zenon
  <2>2. blknums' = Pushed(bs) /\ places' = Noted(c, bs)
    BY <1>2, <1>8
  <2>3. Behind(Listed, c, FALSE)
    BY <1>1, <2>1 DEF Behind
  <2> HIDE DEF bs
  <2>4. Good' /\ Listed' = Listed \union {Place(c, k) : k \in DOMAIN bs}
    BY <1>1, <1>2, <2>1, <2>2, <2>3, PushStep, Zenon
  <2>5. Passed(Places(inode), Listed', c)
    BY <1>1, <2>4 DEF Passed
  <2>6. Prefix(c, c)
    BY <1>6, PrefixSelf
  <2>7. Behind(Listed', c, TRUE)
    <3> SUFFICES ASSUME NEW q \in Listed' PROVE Before(q.at, c) \/ Prefix(c, q.at)
      BY DEF Behind
    <3>1. CASE q \in Listed
      BY <2>3, <3>1 DEF Behind
    <3>2. CASE q \in {Place(c, k) : k \in DOMAIN bs}
      <4>1. q.at = c
        BY <3>2, PlaceIs
      <4> QED BY <2>6, <4>1
    <3> QED BY <2>4, <3>1, <3>2
  <2>8. Under(Places(inode), Listed', c)
    <3> SUFFICES ASSUME NEW q \in Places(inode), Prefix(c, q.at) PROVE q \in Listed'
      BY DEF Under
    <3>1. q.at \in Seq(Hops) /\ q.k \in DOMAIN DataAt(inode, q.at) /\ q = Place(q.at, q.k)
      BY <1>4, PlaceForm
    <3>2. Len(q.at) = inode.depth + 1
      BY <3>1, DataDepth
    <3>3. Len(q.at) = Len(c)
      BY <1>6, <1>8, <3>2 DEF AtLeaf, m
    <3>4. q.at = c
      <4>1. \A k \in 1..Len(q.at) : q.at[k] = c[k]
        BY <3>3 DEF Prefix
      <4> QED BY <1>6, <3>1, <3>3, <4>1, SameHops, Zenon
    <3>5. q \in {Place(c, k) : k \in DOMAIN bs}
      BY <2>1, <3>1, <3>4, Zenon
    <3> QED BY <2>4, <3>5
  <2>9. Behind(Listed', c, AtLeaf(pth) \/ v)
    BY <1>8, <2>7 DEF Behind
  <2> QED BY <2>4, <2>5, <2>8, <2>9, Zenon DEF c, m, v
<1> QED BY <1>7, <1>8

LEMMA VisitTyped ==
    ASSUME Typed, inode.map = "extents", NEW pth, Arrives(pth), Visit(pth)
    PROVE  Typed'
<1> DEFINE m == Len(pth)
           c == RouteOf(pth)
           v == pth[m].visit_num
           x == Node(pth[m])[pth[m].curr]
<1>1. pth \in Seq(Frames) /\ m \in 1..(MaxDepth + 1) /\ m <= inode.depth + 1 /\ c \in Routes(inode)[m]
  BY Zenon DEF Arrives
<1>2. /\ inode' = inode /\ walk' = "extents" /\ path' = pth /\ slot' = slot /\ failed' = failed
      /\ line' = line \o (IF v THEN <<>> ELSE IF AtLeaf(pth) THEN Tokens("data", BlocksOf(x))
                          ELSE Tokens("ETB", <<x>>))
  BY Zenon DEF Visit
<1>3. IsInode(inode)
  BY InodeForm
<1>4. Shape(inode, c, m)
  BY <1>1, <1>3, RouteShape, Zenon
<1>5. \A k \in 1..m : pth[k].blk \in DOMAIN inode.disk \union {0}
  <2>1. \A k \in 1..m : c[k].blk = pth[k].blk
    BY <1>1, RouteOfIs
  <2>2. \A k \in 1..m : c[k].blk \in DOMAIN inode.disk \union {0}
    BY <1>4, Zenon DEF Shape
  <2> QED BY <2>1, <2>2
<1>6. line' \in Seq(Token)
  <2> DEFINE t1 == Tokens("data", BlocksOf(x))
             t2 == Tokens("ETB", <<x>>)
  <2>1. AtLeaf(pth) => t1 \in Seq(Token)
    <3> SUFFICES ASSUME AtLeaf(pth) PROVE t1 \in Seq(Token)
      OBVIOUS
    <3>1. BlocksOf(x) = DataAt(inode, c)
      BY PathEntry
    <3>2. BlocksOf(x) \in Seq(Nat \ {0})
      BY <1>1, <1>3, <3>1, DataBlocksNat, Zenon
    <3> HIDE DEF x
    <3>3. BlocksOf(x) \in Seq(Nat)
      BY <3>2
    <3> QED BY <3>3, TokensTyped
  <2>2. ~AtLeaf(pth) => t2 \in Seq(Token)
    <3> SUFFICES ASSUME ~AtLeaf(pth) PROVE t2 \in Seq(Token)
      OBVIOUS
    <3>1. x \in Nat
      BY PathEntry
    <3> HIDE DEF x
    <3>2. << x >> \in Seq(Nat)
      BY <3>1
    <3> QED BY <3>2, TokensTyped, Zenon
  <2>3. line \in Seq(Token)
    BY DEF Typed
  <2>4. <<>> \in Seq(Token)
    OBVIOUS
  <2> HIDE DEF t1, t2, v
  <2>5. \E t \in Seq(Token) : line' = line \o t
    BY <1>2, <2>1, <2>2, <2>4, Zenon DEF t1, t2, v
  <2> QED BY <2>3, <2>5
<1> HIDE DEF m, c, v, x
<1>7. path' \in Seq(Frames) /\ Len(path') <= inode'.depth + 1 /\ inode'.map = "extents"
      /\ \A k \in 1..Len(path') : path'[k].blk \in DOMAIN inode'.disk \union {0}
  BY <1>1, <1>2, <1>5 DEF m
<1>8. inode' \in Inodes /\ slot' \in Nat \ {0} /\ failed' \in BOOLEAN
      /\ (slot' > 1 => inode'.map \in {"indirect", "xfs"} /\ slot' <= Len(inode'.root) + 1)
  BY <1>2, Zenon DEF Typed
<1> QED BY <1>2, <1>6, <1>7, <1>8, Zenon DEF Typed

(* Every move of the cursor keeps the invariant.                           *)
LEMMA VisitKeeps ==
    ASSUME Listing, inode.map = "extents", NEW pth, Arrives(pth), Visit(pth)
    PROVE  Listing'
<1> DEFINE m == Len(pth)
           c == RouteOf(pth)
           full == AtLeaf(pth) \/ pth[m].visit_num
<1>1. Typed /\ Good
  BY DEF Listing
<1>2. /\ Good'
      /\ Passed(Places(inode), Listed', c) /\ Behind(Listed', c, full)
      /\ (full => Under(Places(inode), Listed', c))
  BY <1>1, VisitLists, Zenon
<1>3. inode' = inode /\ walk' = "extents" /\ path' = pth /\ inode'.map = "extents"
  BY DEF Visit
<1>4. m \in 1..(MaxDepth + 1) /\ c \in Routes(inode)[m] /\ (\A k \in 1..(m - 1) : pth[k].visit_num)
      /\ pth \in Seq(Frames)
  BY DEF Arrives
<1>5. Typed'
  BY <1>1, VisitTyped
<1>6. Full' <=> full
  BY <1>3 DEF Full, AtLeaf, Top
<1>7. c \in Seq(Hops)
  BY <1>4, RouteOfIs
<1>8. full \in BOOLEAN
  <2>1. pth[m].visit_num \in BOOLEAN
    BY <1>4, SelfIn, FrameAt, Zenon
  <2> QED BY <2>1, Zenon
<1>9. NoGap'
  <2>1. IsInode(inode) /\ Listed' \in SUBSET Places(inode)
    <3>1. Listed' \in SUBSET Places(inode')
      BY <1>2, ListedPlaces DEF Good, Listed
    <3> QED BY <1>1, <1>3, <3>1, InodeForm
  <2> HIDE DEF full, c
  <2>2. Gapless(inode, Listed')
    BY <1>2, <1>7, <1>8, <2>1, NoGaps, Zenon
  <2> QED BY <1>3, <2>2 DEF NoGap
<1>10. OnExtents'
  <2> HIDE DEF full, c, m
  <2>1. Behind(Listed', c, Full')
    BY <1>2, <1>6 DEF Behind
  <2>2. RouteOf(path') = c /\ Len(path') = m
    BY <1>3 DEF c, m
  <2> QED BY <1>2, <1>3, <1>4, <1>6, <2>1, <2>2, Zenon DEF OnExtents
<1>11. OnSlots'
  BY <1>3 DEF OnSlots
<1>12. AllThere'
  BY <1>3 DEF AllThere
<1> QED BY <1>2, <1>5, <1>9, <1>10, <1>11, <1>12 DEF Listing

LEMMA FrontIs ==
    ASSUME NEW p \in Seq(Frames), p # <<>>
    PROVE  /\ Above(p) \in Seq(Frames) /\ Len(Above(p)) = Len(p) - 1 /\ Len(p) \in Nat \ {0}
           /\ \A k \in 1..(Len(p) - 1) : Above(p)[k] = p[k]
<1>1. PICK l \in Nat : l = Len(p) - 1 /\ Len(p) = l + 1
  OBVIOUS
<1>2. Above(p) = SubSeq(p, 1, l)
  BY <1>1 DEF Above
<1>3. SubSeq(p, 1, l) = [k \in 1..l |-> p[k]]
  BY <1>1
<1>4. \A k \in 1..l : p[k] \in Frames
  BY <1>1
<1> DEFINE q == [k \in 1..l |-> p[k]]
<1>5. q \in Seq(Frames) /\ Len(q) = l /\ \A k \in 1..l : q[k] = p[k]
  BY <1>1, <1>4
<1> HIDE DEF q
<1>6. Above(p) = q
  BY <1>2, <1>3 DEF q
<1>7. Len(p) \in Nat \ {0}
  BY <1>1
<1> QED BY <1>1, <1>5, <1>6, <1>7, Zenon

LEMMA FrameIs ==
    ASSUME NEW b \in Nat, NEW k \in Nat \ {0}, NEW v \in BOOLEAN
    PROVE  /\ Frame(b, k, v) \in Frames
           /\ Frame(b, k, v).blk = b /\ Frame(b, k, v).curr = k /\ Frame(b, k, v).visit_num = v
BY DEF Frame, Frames

LEMMA AppendAt ==
    ASSUME NEW p \in Seq(Frames), NEW f \in Frames
    PROVE  /\ Append(p, f) \in Seq(Frames) /\ Len(Append(p, f)) = Len(p) + 1
           /\ \A k \in 1..Len(p) : Append(p, f)[k] = p[k]
           /\ Append(p, f)[Len(p) + 1] = f
OBVIOUS

(* The cursor of the extents is on route c of length m.                    *)
Cursor(m, c) ==
    /\ inode.map = "extents" /\ IsInode(inode)
    /\ path \in Seq(Frames) /\ path # <<>>
    /\ m = Len(path) /\ m \in 1..(MaxDepth + 1) /\ m <= inode.depth + 1 /\ inode.depth \in 0..MaxDepth
    /\ c = RouteOf(path) /\ c \in Routes(inode)[m] /\ c \in Seq(Hops) /\ Len(c) = m
    /\ \A k \in 1..m : c[k].blk = path[k].blk /\ c[k].curr = path[k].curr
    /\ Top = path[m] /\ Top \in Frames
    /\ Top.blk \in Nat /\ Top.blk \in DOMAIN inode.disk \union {0}
    /\ Top.curr \in Nat \ {0} /\ Top.visit_num \in BOOLEAN
    /\ Len(Node(Top)) \in Nat /\ DOMAIN Node(Top) = 1..Len(Node(Top))
    /\ Top.curr \in 1..Len(Node(Top))
    /\ ChildOf(inode, c) = Node(Top)[Top.curr]
    /\ \A k \in 1..(m - 1) : path[k].visit_num
    /\ Listed \in SUBSET Places(inode)
    /\ Passed(Places(inode), Listed, c)
    /\ Behind(Listed, c, Full)
    /\ Full => Under(Places(inode), Listed, c)

LEMMA HasCursor ==
    ASSUME Listing, walk = "extents"
    PROVE  Cursor(Len(path), RouteOf(path))
<1> DEFINE m == Len(path)
           c == RouteOf(path)
<1>1. Typed /\ Good /\ OnExtents
  BY DEF Listing
<1>2. inode.map = "extents" /\ path \in Seq(Frames) /\ m <= inode.depth + 1
  BY <1>1 DEF Typed
<1>3. IsInode(inode)
  BY <1>1, InodeForm
<1>4. inode.depth \in 0..MaxDepth
  BY <1>3, Zenon DEF IsInode
<1>5. /\ m \in 1..(MaxDepth + 1) /\ c \in Routes(inode)[m]
      /\ \A k \in 1..(m - 1) : path[k].visit_num
      /\ Passed(Places(inode), Listed, c)
      /\ Behind(Listed, c, Full)
      /\ Full => Under(Places(inode), Listed, c)
  BY <1>1, Zenon DEF OnExtents
<1>6. c \in Seq(Hops) /\ Len(c) = m
      /\ \A k \in 1..m : c[k].blk = path[k].blk /\ c[k].curr = path[k].curr
  BY <1>2, RouteOfIs, Zenon
<1>7. path # <<>>
  <2>1. Len(path) # 0
    BY <1>5, NotZero, Zenon
  <2>2. Len(<<>>) = 0
    OBVIOUS
  <2> QED BY <2>1, <2>2, Zenon
<1>8. m \in 1..m
  BY <1>5, SelfIn, Zenon
<1>9. Top = path[m] /\ Top \in Frames /\ Top.blk \in Nat /\ Top.curr \in Nat \ {0}
      /\ Top.visit_num \in BOOLEAN
  BY <1>2, <1>8, FrameAt, Zenon DEF Top
<1>10. Shape(inode, c, m)
  BY <1>3, <1>5, RouteShape, Zenon
<1>11. c[m].blk = Top.blk /\ c[m].curr = Top.curr
  BY <1>6, <1>8, <1>9, Zenon
<1>12. Top.blk \in DOMAIN inode.disk \union {0} /\ Len(Node(Top)) \in Nat
       /\ Top.curr \in 1..Len(Node(Top))
  BY <1>8, <1>10, <1>11, Zenon DEF Shape, Node
<1>13. DOMAIN Node(Top) = 1..Len(Node(Top))
  BY <1>3, <1>12, EntriesList, Zenon DEF Node
<1>14. ChildOf(inode, c) = Node(Top)[Top.curr]
  BY <1>6, <1>11, Zenon DEF ChildOf, Node
<1>15. Listed \in SUBSET Places(inode)
  BY <1>1, ListSubset
<1> HIDE DEF m, c
<1>16. Cursor(m, c)
  BY <1>2, <1>3, <1>4, <1>5, <1>6, <1>7, <1>9, <1>12, <1>13, <1>14, <1>15, Zenon DEF Cursor, m, c
<1> QED BY <1>16 DEF m, c

LEMMA GoesOn ==
    ASSUME NEW m, NEW c, Cursor(m, c), walk = "extents", ~GoesDown
    PROVE  Full /\ Behind(Listed, c, TRUE) /\ Under(Places(inode), Listed, c)
<1>1. Full
  BY Zenon DEF GoesDown, Full, Cursor
<1> QED BY <1>1, Zenon DEF Cursor, Behind

LEMMA NextSibArrives ==
    ASSUME Listing, NextSib
    PROVE  Arrives(Append(Above(path), Frame(Top.blk, Top.curr + 1, FALSE)))
<1> DEFINE m == Len(path)
           c == RouteOf(path)
           f == Frame(Top.blk, Top.curr + 1, FALSE)
           pth == Append(Above(path), f)
           d == RouteOf(pth)
<1>1. walk = "extents" /\ ~GoesDown /\ Left > 0
  BY DEF NextSib
<1>2. Cursor(m, c)
  BY <1>1, HasCursor
<1>3. Behind(Listed, c, TRUE) /\ Under(Places(inode), Listed, c)
  BY <1>1, <1>2, GoesOn, Zenon
<1> HIDE DEF m, c
<1>4. path \in Seq(Frames) /\ path # <<>> /\ m = Len(path) /\ m \in 1..(MaxDepth + 1)
  BY <1>2, Zenon DEF Cursor
<1>5. Above(path) \in Seq(Frames) /\ Len(Above(path)) = m - 1
      /\ \A k \in 1..(m - 1) : Above(path)[k] = path[k]
  BY <1>4, FrontIs, Zenon
<1>6. f \in Frames /\ f.blk = Top.blk /\ f.curr = Top.curr + 1 /\ ~f.visit_num
  <2>1. Top.blk \in Nat /\ Top.curr \in Nat \ {0}
    BY <1>2, Zenon DEF Cursor
  <2>2. Top.curr + 1 \in Nat \ {0}
    BY <2>1
  <2> QED BY <2>1, <2>2, FrameIs, Zenon
<1> HIDE DEF f
<1>7. pth \in Seq(Frames) /\ Len(pth) = m /\ pth[m] = f
      /\ \A k \in 1..(m - 1) : pth[k] = path[k]
  <2>1. /\ pth \in Seq(Frames) /\ Len(pth) = Len(Above(path)) + 1
        /\ \A k \in 1..Len(Above(path)) : pth[k] = Above(path)[k]
        /\ pth[Len(Above(path)) + 1] = f
    BY <1>5, <1>6, AppendAt
  <2>2. Len(Above(path)) + 1 = m
    BY <1>4, <1>5
  <2> HIDE DEF pth
  <2> QED BY <1>5, <2>1, <2>2, Zenon
<1> HIDE DEF pth
<1>8. d \in Seq(Hops) /\ Len(d) = m
      /\ \A k \in 1..m : /\ d[k] = Hop(pth[k].blk, pth[k].curr)
                         /\ d[k].blk = pth[k].blk /\ d[k].curr = pth[k].curr
  BY <1>7, RouteOfIs
<1> HIDE DEF d
<1>9. \A l \in 1..(m - 1) : d[l] = c[l]
  <2> SUFFICES ASSUME NEW l \in 1..(m - 1) PROVE d[l] = c[l]
    OBVIOUS
  <2>1. l \in 1..m
    BY <1>4
  <2>2. c[l] = Hop(path[l].blk, path[l].curr)
    BY <1>4, <2>1, RouteOfIs, Zenon DEF c
  <2> QED BY <1>7, <1>8, <2>1, <2>2
<1>10. m \in 1..m
  BY <1>4, SelfIn, Zenon
<1>11. c[m].blk = Top.blk /\ c[m].curr = Top.curr
  BY <1>2, <1>10, Zenon DEF Cursor
<1>12. d[m].blk = c[m].blk /\ d[m].curr = c[m].curr + 1
  BY <1>6, <1>7, <1>8, <1>10, <1>11
<1>13. IsNext(c, d, m)
  BY <1>8, <1>9, <1>12, Zenon DEF IsNext
<1>14. /\ IsInode(inode) /\ c \in Routes(inode)[m] /\ c \in Seq(Hops) /\ Len(c) = m
       /\ Listed \in SUBSET Places(inode) /\ Passed(Places(inode), Listed, c)
       /\ m <= inode.depth + 1
       /\ \A k \in 1..(m - 1) : path[k].visit_num
  BY <1>2, Zenon DEF Cursor
<1>15. Places(inode) \in SUBSET Places(inode)
  OBVIOUS
<1>16. Passed(Places(inode), Listed, d)
  BY <1>3, <1>4, <1>13, <1>14, <1>15, NextPassed, Zenon
<1>17. Behind(Listed, d, FALSE)
  BY <1>3, <1>4, <1>13, <1>14, NextBehind, Zenon
<1>18. d \in Routes(inode)[m]
  <2>1. d[m].curr \in DOMAIN Entries(inode, c[m].blk)
    <3>1. /\ Len(Node(Top)) - Top.curr > 0 /\ Top.curr \in Nat /\ Len(Node(Top)) \in Nat
          /\ DOMAIN Node(Top) = 1..Len(Node(Top))
      BY <1>1, <1>2, Zenon DEF Left, Cursor
    <3>2. Top.curr + 1 \in 1..Len(Node(Top)) /\ DOMAIN Node(Top) = 1..Len(Node(Top))
      BY <3>1
    <3>3. d[m].curr = Top.curr + 1 /\ Node(Top) = Entries(inode, c[m].blk)
      BY <1>11, <1>12, Zenon DEF Node
    <3> QED BY <3>2, <3>3, Zenon
  <2> QED BY <1>4, <1>8, <1>9, <1>12, <1>14, <2>1, SiblingRoute, Zenon
<1>19. \A k \in 1..(m - 1) : pth[k].visit_num
  BY <1>7, <1>14, Zenon
<1>20. Behind(Listed, d, f.visit_num)
  BY <1>17 DEF Behind
<1>21. Arrives(pth)
  BY <1>4, <1>6, <1>7, <1>14, <1>16, <1>18, <1>19, <1>20, Zenon DEF Arrives, d
<1> QED BY <1>21, Zenon DEF pth, f

LEMMA HasNext ==
    ASSUME NEW m \in 1..(MaxDepth + 1), NEW c \in Seq(Hops), Len(c) = m
    PROVE  \E d : IsNext(c, d, m)
<1> DEFINE h == Hop(c[m].blk, c[m].curr + 1)
           d == [c EXCEPT ![m] = h]
<1>1. c[m] \in Hops
  BY HopAt
<1>a. c[m].blk \in Nat /\ c[m].curr \in Nat /\ c[m].curr + 1 \in Nat \ {0}
  BY <1>1 DEF Hops
<1>2. h \in Hops /\ h.blk = c[m].blk /\ h.curr = c[m].curr + 1
  BY <1>a DEF Hops, Hop
<1> HIDE DEF h
<1>3. d \in Seq(Hops) /\ Len(d) = m /\ d[m] = h /\ \A l \in 1..(m - 1) : d[l] = c[l]
  BY <1>2
<1> HIDE DEF d
<1>4. IsNext(c, d, m)
  BY <1>2, <1>3 DEF IsNext
<1> QED BY <1>4

LEMMA DepthOfPlaces ==
    ASSUME NEW i, IsInode(i), i.map # "indirect", NEW q \in Places(i)
    PROVE  Len(q.at) = i.depth + 1
<1>1. q.k \in DOMAIN DataAt(i, q.at)
  BY PlaceForm
<1> QED BY <1>1, DataDepth, Zenon

LEMMA ConcatOne ==
    ASSUME NEW p \in Seq(Frames), NEW f \in Frames
    PROVE  p \o <<f>> = Append(p, f)
OBVIOUS

LEMMA UpArrives ==
    ASSUME Listing, Up
    PROVE  Arrives(Above(path))
<1> DEFINE m == Len(path)
           c == RouteOf(path)
           p == Cut(c, m - 1)
<1>1. walk = "extents" /\ ~GoesDown /\ Left = 0 /\ m > 1
  BY DEF Up
<1>2. Cursor(m, c)
  BY <1>1, HasCursor
<1>3. Behind(Listed, c, TRUE) /\ Under(Places(inode), Listed, c)
  BY <1>1, <1>2, GoesOn, Zenon
<1>4. /\ IsInode(inode) /\ c \in Routes(inode)[m] /\ c \in Seq(Hops) /\ Len(c) = m
      /\ Listed \in SUBSET Places(inode) /\ Passed(Places(inode), Listed, c)
      /\ m <= inode.depth + 1 /\ inode.depth \in 0..MaxDepth /\ inode.map = "extents"
      /\ \A k \in 1..(m - 1) : path[k].visit_num
      /\ path \in Seq(Frames) /\ path # <<>> /\ m \in 1..(MaxDepth + 1)
      /\ \A k \in 1..m : c[k].blk = path[k].blk /\ c[k].curr = path[k].curr
  BY <1>2, Zenon DEF Cursor
<1>5. PICK d : IsNext(c, d, m)
  BY <1>4, HasNext, Zenon
<1>6. Places(inode) \in SUBSET Places(inode)
  OBVIOUS
<1>7. Passed(Places(inode), Listed, d)
  BY <1>3, <1>4, <1>5, <1>6, NextPassed, Zenon
<1>8. Shape(inode, c, m)
  BY <1>4, RouteShape, Zenon
<1>f. Above(path) \in Seq(Frames) /\ Len(Above(path)) = m - 1
      /\ \A k \in 1..(m - 1) : Above(path)[k] = path[k]
  BY <1>4, FrontIs, Zenon
<1>t. Top.curr = c[m].curr /\ Top.blk = c[m].blk
  BY <1>4, SelfIn, Zenon DEF Top
<1>9. PICK l \in 1..MaxDepth : l = m - 1 /\ m = l + 1
  <2>1. m > 1 /\ m \in 1..(MaxDepth + 1)
    BY <1>1, <1>4, Zenon
  <2> HIDE DEF m
  <2>2. m - 1 \in 1..MaxDepth /\ m = m - 1 + 1
    BY <2>1, DepthAssumption
  <2> QED BY <2>2, Zenon
<1>e. c[m].curr = Len(Entries(inode, c[m].blk)) /\ c[m].curr \in Nat
  <2>1. Left = Len(Node(Top)) - Top.curr
    BY DEF Left
  <2>2. Top.curr \in Nat /\ Len(Node(Top)) \in Nat
    BY <1>2, Zenon DEF Cursor
  <2>3. Top.curr = Len(Node(Top))
    BY <1>1, <2>1, <2>2
  <2> QED BY <1>t, <2>2, <2>3, Zenon DEF Node
<1> HIDE DEF m, c
<1>10. p = Cut(c, l) /\ p \in Routes(inode)[l] /\ Opens(inode, p)
  <2>1. l \in 1..m /\ l < m
    BY <1>9
  <2>2. p = Cut(c, l)
    BY <1>9
  <2> QED BY <1>8, <2>1, <2>2, Zenon DEF Shape
<1> HIDE DEF p
<1>11. p \in Seq(Hops) /\ Len(p) = l /\ Passed(Places(inode), Listed, p)
  <2>1. l \in 1..Len(c)
    BY <1>4, <1>9
  <2> QED BY <1>4, <1>6, <1>10, <2>1, CutPassed, Zenon
<1>12. Behind(Listed, p, TRUE)
  <2>1. l \in 1..Len(c)
    BY <1>4, <1>9
  <2> QED BY <1>3, <1>4, <1>10, <2>1, CutBehind, Zenon
<1>13. Under(Places(inode), Listed, p)
  <2>1. d \in Seq(Hops) /\ Len(d) = l + 1 /\ (\A k \in 1..(m - 1) : d[k] = c[k])
        /\ d[m].blk = c[m].blk /\ d[m].curr = c[m].curr + 1
    BY <1>5, <1>9, Zenon DEF IsNext
  <2>2. Cut(d, l) = p
    BY <1>9, <1>10, <2>1 DEF Cut
  <2>3. d[l + 1].blk = ChildOf(inode, Cut(d, l))
    <3>1. m \in 2..m /\ m - 1 \in 1..m
      BY <1>1, <1>4
    <3>2. c[m].blk = Entries(inode, c[m - 1].blk)[c[m - 1].curr]
      BY <1>8, <3>1, Zenon DEF Shape
    <3>3. ChildOf(inode, p) = Entries(inode, p[l].blk)[p[l].curr]
      BY <1>11, Zenon DEF ChildOf
    <3>4. p[l] = c[m - 1]
      <4>1. l \in 1..l
        OBVIOUS
      <4>2. Cut(c, l)[l] = c[l]
        BY <4>1 DEF Cut
      <4> QED BY <1>9, <1>10, <4>2, Zenon
    <3> QED BY <1>9, <2>1, <2>2, <3>2, <3>3, <3>4, Zenon
  <2>4. d[l + 1].curr > Len(Entries(inode, d[l + 1].blk))
    <3>1. d[m].curr > Len(Entries(inode, d[m].blk))
      BY <1>e, <2>1
    <3> QED BY <1>9, <3>1, Zenon
  <2>5. \A q \in Places(inode) : Prefix(Cut(d, l), q.at) => Len(q.at) > l
    <3> SUFFICES ASSUME NEW q \in Places(inode) PROVE Len(q.at) > l
      OBVIOUS
    <3>1. Len(q.at) = inode.depth + 1
      BY <1>4, DepthOfPlaces, Zenon
    <3> QED BY <1>4, <1>9, <3>1
  <2>6. Cut(d, l) \in Routes(inode)[l] /\ IsInode(inode)
    BY <1>4, <1>10, <2>2, Zenon
  <2>7. d \in Seq(Hops) /\ Len(d) = l + 1
    BY <2>1
  <2>8. Under(Places(inode), Listed, Cut(d, l))
    BY <1>6, <1>7, <2>3, <2>4, <2>5, <2>6, <2>7, EndUnder, Zenon
  <2> QED BY <2>2, <2>8, Zenon
<1>14. RouteOf(Above(path)) = p
  <2> DEFINE r == RouteOf(Above(path))
  <2>1. r \in Seq(Hops) /\ Len(r) = Len(Above(path))
        /\ \A k \in 1..Len(Above(path)) : r[k] = Hop(Above(path)[k].blk, Above(path)[k].curr)
    BY <1>f, RouteOfIs, Zenon
  <2>2. \A k \in 1..l : r[k] = Hop(path[k].blk, path[k].curr)
    BY <1>f, <1>9, <2>1, Zenon
  <2>3. \A k \in 1..m : c[k] = Hop(path[k].blk, path[k].curr)
    BY <1>4, RouteOfIs, Zenon DEF c, m
  <2> HIDE DEF r
  <2>4. \A k \in 1..l : k \in 1..m
    BY <1>9
  <2>5. \A k \in 1..l : p[k] = c[k]
    BY <1>10 DEF Cut
  <2>6. \A k \in 1..l : r[k] = p[k]
    BY <2>2, <2>3, <2>4, <2>5, Zenon
  <2>7. Len(r) = l
    BY <1>f, <1>9, <2>1, Zenon
  <2>8. r = p
    BY <1>11, <2>1, <2>6, <2>7, SameHops, Zenon
  <2> QED BY <2>8 DEF r
<1>15. /\ l \in 1..(MaxDepth + 1) /\ l <= inode.depth + 1 /\ l \in 1..(m - 1) /\ l # inode.depth + 1
       /\ \A k \in 1..(l - 1) : k \in 1..(m - 1)
  <2>1. m <= inode.depth + 1 /\ inode.depth \in 0..MaxDepth /\ l \in 1..MaxDepth /\ m = l + 1
    BY <1>4, <1>9, Zenon
  <2> HIDE DEF m
  <2> QED BY <2>1, DepthAssumption
<1>16. Above(path)[l].visit_num /\ \A k \in 1..(l - 1) : Above(path)[k].visit_num
  BY <1>4, <1>f, <1>15, Zenon
<1>17. Len(Above(path)) = l
  BY <1>f, <1>9, Zenon
<1>18. ~AtLeaf(Above(path))
  BY <1>15, <1>17, Zenon DEF AtLeaf
<1>19. Behind(Listed, p, Above(path)[l].visit_num)
  BY <1>12, <1>16, Zenon DEF Behind
<1> QED BY <1>f, <1>10, <1>11, <1>13, <1>14, <1>15, <1>16, <1>17, <1>18, <1>19, Zenon DEF Arrives

LEMMA HasFirst ==
    ASSUME NEW e, IsList(e), e # <<>>
    PROVE  1 \in DOMAIN e
<1>1. Len(e) \in Nat /\ e = [k \in 1..Len(e) |-> e[k]]
  BY DEF IsList
<1>2. DOMAIN e = 1..Len(e)
  BY <1>1, Zenon
<1>3. CASE Len(e) = 0
  <2>1. 1..0 = {}
    OBVIOUS
  <2>2. e = [k \in {} |-> e[k]]
    BY <1>1, <1>3, <2>1, Zenon
  <2>3. [k \in {} |-> e[k]] = <<>>
    OBVIOUS
  <2> QED BY <2>2, <2>3
<1>4. CASE Len(e) # 0
  BY <1>1, <1>2, <1>4
<1> QED BY <1>3, <1>4

LEMMA EmptyList == ListedIn(<<>>, places) = {}
BY DEF ListedIn

LEMMA NotBeforeFirst ==
    ASSUME NEW i, IsInode(i), NEW q \in Places(i), NEW d \in Seq(Hops),
           Len(d) = 1, d[1] = Hop(0, 1)
    PROVE  ~Before(q.at, d)
<1>1. q.at \in Seq(Hops)
  BY PlaceForm
<1>2. ASSUME Before(q.at, d) PROVE FALSE
  <2>1. PICK j \in 1..Len(q.at) : j \in 1..Len(d) /\ q.at[j].curr < d[j].curr
    BY <1>1, <1>2, BeforeAt, Zenon
  <2>2. j = 1 /\ d[j].curr = 1
    BY <2>1 DEF Hop
  <2>3. q.at[j] \in Hops
    BY <1>1, <2>1, HopAt, Zenon
  <2>4. q.at[j].curr \in Nat \ {0}
    BY <2>3 DEF Hops
  <2> QED BY <2>1, <2>2, <2>4
<1> QED BY <1>2

LEMMA DownArrives ==
    ASSUME Listing, Down
    PROVE  Arrives(Append(Above(path) \o <<Frame(Top.blk, Top.curr, TRUE)>>, Frame(Child, 1, FALSE)))
<1> DEFINE m == Len(path)
           c == RouteOf(path)
           f == Frame(Top.blk, Top.curr, TRUE)
           g == Frame(Child, 1, FALSE)
           p == Above(path) \o <<f>>
           pth == Append(p, g)
           d == RouteOf(pth)
<1>1. walk = "extents" /\ ~AtLeaf(path) /\ ~Top.visit_num /\ Usable(Child)
  BY DEF Down, GoesDown
<1>2. Cursor(m, c)
  BY <1>1, HasCursor
<1>3. ~Full
  BY <1>1 DEF Full
<1>4. /\ IsInode(inode) /\ c \in Routes(inode)[m] /\ c \in Seq(Hops) /\ Len(c) = m
      /\ Listed \in SUBSET Places(inode) /\ Passed(Places(inode), Listed, c)
      /\ m <= inode.depth + 1 /\ inode.depth \in 0..MaxDepth /\ inode.map = "extents"
      /\ \A k \in 1..(m - 1) : path[k].visit_num
      /\ path \in Seq(Frames) /\ path # <<>> /\ m \in 1..(MaxDepth + 1)
      /\ \A k \in 1..m : c[k].blk = path[k].blk /\ c[k].curr = path[k].curr
      /\ ChildOf(inode, c) = Child
      /\ Top.blk \in Nat /\ Top.curr \in Nat \ {0}
  BY <1>2, Zenon DEF Cursor, Child
<1>5. Behind(Listed, c, FALSE)
  BY <1>2, <1>3, Zenon DEF Cursor, Behind
<1>6. m \in 1..MaxDepth /\ m <= inode.depth
  <2>1. m # inode.depth + 1
    BY <1>1 DEF AtLeaf
  <2>2. m <= inode.depth + 1 /\ inode.depth \in 0..MaxDepth /\ m \in 1..(MaxDepth + 1)
    BY <1>4, Zenon
  <2> HIDE DEF m
  <2> QED BY <2>1, <2>2, DepthAssumption
<1>7. Child \in DOMAIN inode.disk /\ inode.disk[Child].ok /\ inode.disk[Child].entries # <<>>
      /\ \A k \in 2..m : path[k].blk # Child
  BY <1>1, Zenon DEF Usable
<1>8. Child \in Nat \ {0}
  BY <1>4, <1>7, Zenon DEF IsInode
<1>9. f \in Frames /\ f.blk = Top.blk /\ f.curr = Top.curr /\ f.visit_num
  <2>1. TRUE \in BOOLEAN /\ Top.blk \in Nat /\ Top.curr \in Nat \ {0}
    BY <1>4
  <2>2. f \in Frames /\ f.blk = Top.blk /\ f.curr = Top.curr /\ f.visit_num = TRUE
    BY <2>1, FrameIs, Zenon
  <2> QED BY <2>2, Zenon
<1>10. g \in Frames /\ g.blk = Child /\ g.curr = 1 /\ g.visit_num = FALSE
  <2>1. 1 \in Nat \ {0} /\ Child \in Nat /\ FALSE \in BOOLEAN
    BY <1>8
  <2> QED BY <2>1, FrameIs, Zenon
<1>11. Above(path) \in Seq(Frames) /\ Len(Above(path)) = m - 1
       /\ \A k \in 1..(m - 1) : Above(path)[k] = path[k]
  BY <1>4, FrontIs, Zenon
<1> HIDE DEF f, g, m, c
<1>12. p \in Seq(Frames) /\ Len(p) = m /\ p[m] = f /\ \A k \in 1..(m - 1) : p[k] = path[k]
  <2>1. p = Append(Above(path), f)
    BY <1>9, <1>11, ConcatOne, Zenon
  <2>2. Len(Above(path)) + 1 = m
    BY <1>4, <1>11
  <2> HIDE DEF p
  <2>3. p \in Seq(Frames) /\ Len(p) = Len(Above(path)) + 1 /\ p[Len(Above(path)) + 1] = f
        /\ \A k \in 1..Len(Above(path)) : p[k] = Above(path)[k]
    BY <1>9, <1>11, <2>1, AppendAt, Zenon
  <2> QED BY <1>11, <2>2, <2>3, Zenon
<1> HIDE DEF p
<1>13. pth \in Seq(Frames) /\ Len(pth) = m + 1 /\ pth[m + 1] = g
       /\ \A k \in 1..m : pth[k] = p[k]
  BY <1>10, <1>12, AppendAt, Zenon
<1> HIDE DEF pth
<1>14. \A k \in 1..m : pth[k].blk = path[k].blk /\ pth[k].curr = path[k].curr /\ pth[k].visit_num
  <2> SUFFICES ASSUME NEW k \in 1..m
               PROVE  pth[k].blk = path[k].blk /\ pth[k].curr = path[k].curr /\ pth[k].visit_num
    OBVIOUS
  <2>1. k \in 1..(m - 1) \/ k = m
    BY <1>4
  <2>2. CASE k \in 1..(m - 1)
    BY <1>4, <1>12, <1>13, <2>2, Zenon
  <2>3. CASE k = m
    <3>1. Top = path[m]
      BY DEF Top, m
    <3> QED BY <1>9, <1>12, <1>13, <2>3, <3>1, Zenon
  <2> QED BY <2>1, <2>2, <2>3
<1>15. d \in Seq(Hops) /\ Len(d) = m + 1
       /\ \A k \in 1..(m + 1) : d[k] = Hop(pth[k].blk, pth[k].curr)
  BY <1>13, RouteOfIs, Zenon
<1> HIDE DEF d
<1>16. \A k \in 1..m : d[k] = c[k]
  <2> SUFFICES ASSUME NEW k \in 1..m PROVE d[k] = c[k]
    OBVIOUS
  <2>1. k \in 1..(m + 1)
    BY <1>4
  <2>2. c[k] = Hop(path[k].blk, path[k].curr)
    BY <1>4, RouteOfIs, Zenon DEF c, m
  <2> QED BY <1>14, <1>15, <2>1, <2>2, Zenon
<1>17. d[m + 1] = Hop(Child, 1) /\ d[m + 1].blk = Child /\ d[m + 1].curr = 1
  <2>1. m + 1 \in 1..(m + 1)
    BY <1>4
  <2>2. d[m + 1] = Hop(Child, 1)
    BY <1>10, <1>13, <1>15, <2>1, Zenon
  <2> QED BY <2>2 DEF Hop
<1>18. Opens(inode, c)
  <2>1. \A k \in 2..m : k \in 1..m
    OBVIOUS
  <2>2. \A k \in 2..m : c[k].blk # Child
    BY <1>4, <1>7, <2>1, Zenon
  <2> QED BY <1>4, <1>6, <1>7, <2>2, Zenon DEF Opens
<1>19. 1 \in DOMAIN Entries(inode, Child)
  <2>1. IsList(inode.disk[Child].entries)
    BY <1>4, <1>7, Zenon DEF IsInode
  <2>2. Entries(inode, Child) = inode.disk[Child].entries
    BY <1>8 DEF Entries
  <2> DEFINE e == inode.disk[Child].entries
  <2>3. IsList(e) /\ e # <<>>
    BY <1>7, <2>1
  <2> HIDE DEF e
  <2>4. 1 \in DOMAIN e
    BY <2>3, HasFirst, Zenon
  <2> QED BY <2>2, <2>4 DEF e
<1>20. d \in Routes(inode)[m + 1]
  <2>1. d[m + 1].blk = ChildOf(inode, c)
        /\ d[m + 1].curr \in DOMAIN Entries(inode, ChildOf(inode, c))
    BY <1>4, <1>17, <1>19, Zenon
  <2> QED BY <1>4, <1>6, <1>15, <1>16, <1>18, <2>1, ChildRoute, Zenon
<1>21. Passed(Places(inode), Listed, d) /\ Behind(Listed, d, FALSE)
  <2>1. Len(d) = Len(c) + 1 /\ (\A l \in 1..Len(c) : d[l] = c[l]) /\ d[Len(d)].curr = 1
    BY <1>4, <1>15, <1>16, <1>17, Zenon
  <2>2. Places(inode) \in SUBSET Places(inode)
    OBVIOUS
  <2>3. Passed(Places(inode), Listed, d)
    BY <1>4, <1>15, <2>1, <2>2, DownPassed, Zenon
  <2>4. Behind(Listed, d, FALSE)
    BY <1>4, <1>5, <1>15, <2>1, DownBehind, Zenon
  <2> QED BY <2>3, <2>4, Zenon
<1>22. m + 1 \in 1..(MaxDepth + 1) /\ m + 1 <= inode.depth + 1 /\ m + 1 - 1 = m
  <2>1. m <= inode.depth /\ inode.depth \in 0..MaxDepth /\ m \in 1..MaxDepth
    BY <1>4, <1>6, Zenon
  <2> HIDE DEF m
  <2> QED BY <2>1, DepthAssumption
<1>23. Arrives(pth)
  <2>1. pth[m + 1].visit_num = FALSE
    BY <1>10, <1>13, Zenon
  <2>2. ~pth[m + 1].visit_num /\ Behind(Listed, d, pth[m + 1].visit_num)
    BY <1>21, <2>1, Zenon
  <2>4. pth \in Seq(Frames) /\ Len(pth) = m + 1
    BY <1>13
  <2>5. RouteOf(pth) = d
    BY DEF d
  <2>6. /\ Len(pth) \in 1..(MaxDepth + 1) /\ Len(pth) <= inode.depth + 1
        /\ d \in Routes(inode)[Len(pth)]
    BY <1>20, <1>22, <2>4, Zenon
  <2>7. ~pth[Len(pth)].visit_num /\ Behind(Listed, d, pth[Len(pth)].visit_num)
    BY <2>2, <2>4, Zenon
  <2>8. \A k \in 1..(Len(pth) - 1) : pth[k].visit_num
    <3>1. Len(pth) - 1 = m
      BY <1>4, <2>4
    <3> QED BY <1>14, <3>1, Zenon
  <2>9. Passed(Places(inode), Listed, d)
    BY <1>21
  <2> QED BY <2>4, <2>5, <2>6, <2>7, <2>8, <2>9, Zenon DEF Arrives
<1> QED BY <1>23, Zenon DEF pth, p, f, g

LEMMA RootArrives ==
    ASSUME Listing, GetRoot
    PROVE  Arrives(<<Frame(0, 1, FALSE)>>)
<1> DEFINE f == Frame(0, 1, FALSE)
           pth == <<f>>
           d == RouteOf(pth)
<1>1. Typed /\ walk = "open" /\ inode.map = "extents" /\ inode.root # <<>>
  BY DEF Listing, GetRoot
<1>2. IsInode(inode) /\ blknums = <<>> /\ inode.depth \in 0..MaxDepth /\ IsList(inode.root)
  <2>1. IsInode(inode)
    BY <1>1, InodeForm
  <2>2. blknums = <<>>
    BY <1>1 DEF Typed
  <2> QED BY <2>1, <2>2, Zenon DEF IsInode
<1>3. f \in Frames /\ f.blk = 0 /\ f.curr = 1 /\ f.visit_num = FALSE
  <2>1. 0 \in Nat /\ 1 \in Nat \ {0} /\ FALSE \in BOOLEAN
    OBVIOUS
  <2> QED BY <2>1, FrameIs, Zenon
<1> HIDE DEF f
<1>4. pth \in Seq(Frames) /\ Len(pth) = 1 /\ pth[1] = f
  BY <1>3
<1> HIDE DEF pth
<1>5. d \in Seq(Hops) /\ Len(d) = 1 /\ d[1] = Hop(0, 1)
  <2>1. 1 \in 1..Len(pth)
    BY <1>4
  <2>2. d \in Seq(Hops) /\ Len(d) = Len(pth)
        /\ \A k \in 1..Len(pth) : d[k] = Hop(pth[k].blk, pth[k].curr)
    BY <1>4, RouteOfIs, Zenon
  <2>3. d[1] = Hop(pth[1].blk, pth[1].curr)
    BY <2>1, <2>2, Zenon
  <2> QED BY <1>3, <1>4, <2>2, <2>3, Zenon
<1> HIDE DEF d
<1>6. d = <<Hop(0, 1)>>
  BY <1>5
<1>7. 1 \in DOMAIN inode.root
  BY <1>1, <1>2, HasFirst, Zenon
<1>8. d \in Routes(inode)[1]
  BY <1>6, <1>7, FirstRoutes
<1>9. Listed = {}
  BY <1>2, EmptyList DEF Listed
<1>10. Behind(Listed, d, FALSE)
  BY <1>9, Zenon DEF Behind
<1>11. ASSUME NEW q \in Places(inode) PROVE ~Before(q.at, d)
  BY <1>2, <1>8, NotBeforeFirst, <1>5
<1>12. Passed(Places(inode), Listed, d)
  BY <1>11, Zenon DEF Passed
<1>13. 1 \in 1..(MaxDepth + 1) /\ 1 <= inode.depth + 1 /\ 1..(1 - 1) = {}
  <2>1. inode.depth \in 0..MaxDepth
    BY <1>2, Zenon
  <2> QED BY <2>1, DepthAssumption
<1>14. Arrives(pth)
  <2>1. ~pth[1].visit_num /\ Behind(Listed, d, pth[1].visit_num)
    BY <1>3, <1>4, <1>10, Zenon
  <2> QED BY <1>4, <1>8, <1>12, <1>13, <2>1, Zenon DEF Arrives, d
<1> QED BY <1>14, Zenon DEF pth, f

LEMMA ExtentsKeep ==
    ASSUME Listing, GetRoot \/ Down \/ NextSib \/ Up
    PROVE  Listing'
<1>1. CASE GetRoot
  <2>1. inode.map = "extents" /\ Visit(<<Frame(0, 1, FALSE)>>)
    BY <1>1 DEF GetRoot
  <2> QED BY <1>1, <2>1, RootArrives, VisitKeeps, Zenon
<1>2. ASSUME walk = "extents" PROVE inode.map = "extents"
  BY <1>2 DEF Listing, Typed
<1>3. CASE Down
  <2>1. inode.map = "extents"
        /\ Visit(Append(Above(path) \o <<Frame(Top.blk, Top.curr, TRUE)>>, Frame(Child, 1, FALSE)))
    BY <1>2, <1>3, Zenon DEF Down, GoesDown
  <2> QED BY <1>3, <2>1, DownArrives, VisitKeeps, Zenon
<1>4. CASE NextSib
  <2>1. inode.map = "extents"
        /\ Visit(Append(Above(path), Frame(Top.blk, Top.curr + 1, FALSE)))
    BY <1>2, <1>4, Zenon DEF NextSib
  <2> QED BY <1>4, <2>1, NextSibArrives, VisitKeeps, Zenon
<1>5. CASE Up
  <2>1. inode.map = "extents" /\ Visit(Above(path))
    BY <1>2, <1>5, Zenon DEF Up
  <2> QED BY <1>5, <2>1, UpArrives, VisitKeeps, Zenon
<1> QED BY <1>1, <1>3, <1>4, <1>5

-----------------------------------------------------------------------------
(* The ends of the lists.                                                  *)

Complete ==
    /\ inode.map \in {"indirect", "xfs"} => Whole \subseteq Listed
    /\ Intact(inode) => Places(inode) \subseteq Listed

(* Only failed changes, or the list ends.                                  *)
LEMMA FailKeeps ==
    ASSUME Listing, UNCHANGED <<inode, walk, path, slot, blknums, line, places>>,
           failed' = TRUE \/ failed' = failed
    PROVE  Listing'
<1>1. Typed /\ Good /\ OnExtents /\ OnSlots /\ NoGap /\ AllThere
  BY DEF Listing
<1>2. inode' = inode /\ walk' = walk /\ path' = path /\ slot' = slot /\ blknums' = blknums
      /\ line' = line /\ places' = places
  OBVIOUS
<1>3. failed' \in BOOLEAN /\ (~failed' => ~failed)
  BY <1>1, Zenon DEF Typed
<1>4. Typed'
  BY <1>1, <1>2, <1>3, Zenon DEF Typed
<1>5. Good'
  BY <1>1, <1>2, Zenon DEF Good
<1>6. Listed' = Listed /\ Whole' = Whole /\ Here' = Here /\ (InNode' <=> InNode)
      /\ Full' = Full
  BY <1>2, Zenon DEF Listed, Whole, Here, InNode, RouteOf, Top, Node, Full, AtLeaf
<1>7. OnExtents'
  BY <1>1, <1>2, <1>6, Zenon DEF OnExtents, RouteOf
<1>8. OnSlots'
  BY <1>1, <1>2, <1>3, <1>6, Zenon DEF OnSlots
<1>9. NoGap'
  BY <1>1, <1>2, <1>6, Zenon DEF NoGap
<1>10. AllThere'
  BY <1>1, <1>2, <1>3, <1>6, Zenon DEF AllThere
<1> QED BY <1>4, <1>5, <1>7, <1>8, <1>9, <1>10 DEF Listing

LEMMA StopKeeps ==
    ASSUME Listing, StopList, failed' \in BOOLEAN, ~failed' => Complete
    PROVE  Listing'
<1>1. Typed /\ Good /\ NoGap
  BY DEF Listing
<1>2. inode' = inode /\ walk' = "listed" /\ path' = path /\ slot' = slot /\ blknums' = blknums
      /\ line' = line /\ places' = places
  BY DEF StopList
<1>4. Typed'
  BY <1>1, <1>2, Zenon DEF Typed
<1>5. Good'
  BY <1>1, <1>2, Zenon DEF Good
<1>6. Listed' = Listed /\ Whole' = Whole
  BY <1>2, Zenon DEF Listed, Whole
<1>7. OnExtents' /\ OnSlots'
  BY <1>2 DEF OnExtents, OnSlots
<1>9. NoGap'
  BY <1>1, <1>2, <1>6, Zenon DEF NoGap
<1>10. AllThere'
  BY <1>2, <1>6, Zenon DEF AllThere, Complete
<1> QED BY <1>4, <1>5, <1>7, <1>9, <1>10 DEF Listing

LEMMA FirstHop ==
    ASSUME NEW i, IsInode(i), NEW m \in 1..(MaxDepth + 1), NEW r \in Routes(i)[m]
    PROVE  r[1].blk = 0 /\ r[1].curr \in 1..Len(i.root) /\ r[1].curr \in DOMAIN i.root
           /\ Len(i.root) \in Nat
<1>1. Shape(i, r, m)
  BY RouteShape, Zenon
<1>2. 1 \in 1..m
  BY SelfIn
<1>3. r[1].blk = 0 /\ r[1].curr \in 1..Len(Entries(i, r[1].blk))
      /\ Len(Entries(i, r[1].blk)) \in Nat
  BY <1>1, <1>2, Zenon DEF Shape
<1>4. Entries(i, 0) = i.root
  BY DEF Entries
<1>5. IsList(i.root)
  BY DEF IsInode
<1>6. DOMAIN i.root = 1..Len(i.root)
  BY <1>5, Zenon DEF IsList
<1> QED BY <1>3, <1>4, <1>6, Zenon

LEMMA NoPlaces ==
    ASSUME NEW i, IsInode(i), i.root = <<>>
    PROVE  Places(i) = {}
<1> SUFFICES ASSUME NEW q \in Places(i) PROVE FALSE
  BY Zenon
<1>1. Len(q.at) \in 1..(MaxDepth + 1) /\ q.at \in Routes(i)[Len(q.at)]
  BY PlaceForm, Zenon
<1>2. q.at[1].curr \in 1..Len(i.root)
  BY <1>1, FirstHop, Zenon
<1>3. Len(i.root) = 0
  OBVIOUS
<1> QED BY <1>2, <1>3

(* An inode without damage is whole.                                       *)
LEMMA IntactWhole == Typed /\ Intact(inode) => Places(inode) \subseteq Whole
<1> SUFFICES ASSUME Typed, Intact(inode), NEW q \in Places(inode) PROVE q \in Whole
  OBVIOUS
<1>1. IsInode(inode)
  BY InodeForm
<1>2. Len(q.at) \in 1..(MaxDepth + 1) /\ q.at \in Routes(inode)[Len(q.at)]
  BY <1>1, PlaceForm, Zenon
<1>3. q.at[1].curr \in DOMAIN inode.root
  BY <1>1, <1>2, FirstHop, Zenon
<1>4. SlotIntact(inode, q.at[1].curr)
  BY <1>3, Zenon DEF Intact
<1> QED BY <1>4, Zenon DEF Whole

LEMMA EmptyComplete ==
    ASSUME Listing, inode.root = <<>>
    PROVE  Complete
<1>1. Places(inode) = {}
  <2>1. IsInode(inode)
    BY InodeForm DEF Listing
  <2> QED BY <2>1, NoPlaces, Zenon
<1>2. Whole = {}
  BY <1>1, Zenon DEF Whole
<1> QED BY <1>1, <1>2, Zenon DEF Complete

LEMMA NoNextComplete ==
    ASSUME Listing, NoNext
    PROVE  Complete
<1> DEFINE m == Len(path)
           c == RouteOf(path)
<1>1. walk = "extents" /\ ~GoesDown /\ Left = 0 /\ m = 1
  BY DEF NoNext
<1>2. Cursor(m, c)
  BY <1>1, HasCursor
<1>3. Under(Places(inode), Listed, c)
  BY <1>1, <1>2, GoesOn, Zenon
<1>4. /\ IsInode(inode) /\ c \in Routes(inode)[m] /\ c \in Seq(Hops) /\ Len(c) = m
      /\ Passed(Places(inode), Listed, c) /\ inode.map = "extents"
      /\ m \in 1..(MaxDepth + 1)
      /\ \A k \in 1..m : c[k].blk = path[k].blk /\ c[k].curr = path[k].curr
      /\ Top = path[m] /\ Top.curr \in Nat /\ Len(Node(Top)) \in Nat
  BY <1>2, Zenon DEF Cursor
<1> HIDE DEF m, c
<1>5. PICK d : IsNext(c, d, m)
  BY <1>4, HasNext, Zenon
<1>6. Places(inode) \in SUBSET Places(inode)
  OBVIOUS
<1>7. Passed(Places(inode), Listed, d)
  BY <1>3, <1>4, <1>5, <1>6, NextPassed, Zenon
<1>8. d \in Seq(Hops) /\ Len(d) = 1 /\ d[1].curr = c[1].curr + 1
  BY <1>1, <1>5, Zenon DEF IsNext
<1>9. c[1].blk = 0
  BY <1>4, FirstHop, Zenon
<1>10. c[1].blk = Top.blk /\ c[1].curr = Top.curr
  BY <1>1, <1>4, SelfIn, Zenon
<1>11. Top.curr = Len(Node(Top))
  <2>1. Len(Node(Top)) - Top.curr = 0 /\ Top.curr \in Nat /\ Len(Node(Top)) \in Nat
    BY <1>1, <1>4, Zenon DEF Left
  <2> QED BY <2>1
<1>12. Node(Top) = inode.root
  BY <1>9, <1>10 DEF Node, Entries
<1>13. d[1].curr > Len(inode.root)
  <2>1. d[1].curr = Len(inode.root) + 1 /\ Len(inode.root) \in Nat
    BY <1>4, <1>8, <1>10, <1>11, <1>12, Zenon
  <2> QED BY <2>1
<1>14. Places(inode) \subseteq Listed
  BY <1>4, <1>6, <1>7, <1>8, <1>13, EndAll, Zenon
<1> QED BY <1>4, <1>14 DEF Complete

LEMMA DownFailsComplete ==
    ASSUME Listing, GoesDown, ~Usable(Child)
    PROVE  Complete
<1> DEFINE m == Len(path)
           c == RouteOf(path)
<1>1. walk = "extents" /\ ~AtLeaf(path)
  BY DEF GoesDown
<1>2. Cursor(m, c)
  BY <1>1, HasCursor
<1>4. /\ IsInode(inode) /\ c \in Routes(inode)[m] /\ Len(c) = m
      /\ inode.map = "extents" /\ m \in 1..(MaxDepth + 1) /\ m <= inode.depth + 1 /\ inode.depth \in 0..MaxDepth
      /\ \A k \in 1..m : c[k].blk = path[k].blk /\ c[k].curr = path[k].curr
      /\ ChildOf(inode, c) = Child
  BY <1>2, Zenon DEF Cursor, Child
<1>5. m # inode.depth + 1
  BY <1>1 DEF AtLeaf
<1>6. \A k \in 2..m : k \in 1..m
  OBVIOUS
<1> HIDE DEF c
<1>7. ASSUME Intact(inode) PROVE FALSE
  <2>1. m <= inode.depth
    <3> HIDE DEF m
    <3> QED BY <1>4, <1>5
  <2>2. SlotIntact(inode, c[1].curr)
    <3>1. c[1].curr \in DOMAIN inode.root
      BY <1>4, FirstHop, Zenon
    <3> QED BY <1>7, <3>1, Zenon DEF Intact
  <2>3. "extents" # "indirect"
    OBVIOUS
  <2>4. Opens(inode, c) /\ Entries(inode, Child) # <<>>
    BY <1>4, <2>1, <2>2, <2>3, Zenon DEF SlotIntact
  <2>5. Child \in DOMAIN inode.disk /\ inode.disk[Child].ok /\ \A k \in 2..m : c[k].blk # Child
    BY <1>4, <2>3, <2>4, Zenon DEF Opens
  <2>6. Child # 0
    BY <1>4, <2>5, Zenon DEF IsInode
  <2>7. inode.disk[Child].entries # <<>>
    BY <2>4, <2>6, Zenon DEF Entries
  <2>8. \A k \in 2..m : path[k].blk # Child
    BY <1>4, <1>6, <2>5, Zenon
  <2> QED BY <2>5, <2>7, <2>8, Zenon DEF Usable
<1> QED BY <1>4, <1>7, Zenon DEF Complete

LEMMA HereEmpty ==
    ASSUME path = <<>>, slot \in Nat \ {0}
    PROVE  Here \in Seq(Hops) /\ Len(Here) = 1 /\ Here[1] = Hop(0, slot)
<1>1. RouteOf(path) = <<>>
  BY DEF RouteOf
<1>2. Hop(0, slot) \in Hops
  BY DEF Hop, Hops
<1> DEFINE h == Hop(0, slot)
<1> HIDE DEF h
<1>3. <<h>> \o <<>> = <<h>>
  OBVIOUS
<1>4. Here = <<h>>
  BY <1>1, <1>3, Zenon DEF Here, h
<1>5. <<h>> \in Seq(Hops) /\ Len(<<h>>) = 1 /\ <<h>>[1] = h
  BY <1>2 DEF h
<1> QED BY <1>4, <1>5, Zenon DEF h

LEMMA IteratedComplete ==
    ASSUME Listing, Iterated, ~failed
    PROVE  Complete
<1>1. walk = "slots" /\ path = <<>> /\ slot > NDirect + 3
  BY DEF Iterated
<1>2. Typed /\ OnSlots
  BY DEF Listing
<1>3. IsInode(inode) /\ inode.map = "indirect" /\ slot \in Nat \ {0}
  BY <1>1, <1>2, InodeForm DEF Typed
<1>4. Passed(Whole, Listed, Here)
  BY <1>1, <1>2, <1>3 DEF OnSlots
<1>5. Here \in Seq(Hops) /\ Len(Here) = 1 /\ Here[1] = Hop(0, slot)
  BY <1>1, <1>3, HereEmpty, Zenon
<1>6. Len(inode.root) = NDirect + 3
  BY <1>3, Zenon DEF IsInode
<1>7. Here[1].curr > Len(inode.root)
  <2>1. Here[1].curr = slot
    BY <1>5 DEF Hop
  <2> QED BY <1>1, <1>6, <2>1, Zenon
<1>8. Whole \in SUBSET Places(inode)
  BY DEF Whole
<1>9. Whole \subseteq Listed
  BY <1>3, <1>4, <1>5, <1>7, <1>8, EndAll, Zenon
<1>10. Intact(inode) => Places(inode) \subseteq Whole
  BY <1>2, IntactWhole
<1> QED BY <1>9, <1>10, Zenon DEF Complete

LEMMA StopsKeep ==
    ASSUME Listing, OpenFails \/ Inline \/ GetRootEmpty \/ DownFails \/ NoNext \/ Iterated
    PROVE  Listing'
<1>1. Typed /\ IsInode(inode) /\ failed \in BOOLEAN
  BY InodeForm DEF Listing, Typed
<1>2. CASE failed' = TRUE /\ StopList
  BY <1>2, StopKeeps, Zenon
<1>3. CASE Inline
  <2>1. StopList /\ failed' = failed /\ inode.map = "inline"
    BY <1>3, Zenon DEF Inline
  <2>2. inode.root = <<>>
    BY <1>1, <2>1, Zenon DEF IsInode
  <2>3. Complete
    BY <2>2, EmptyComplete
  <2> QED BY <1>1, <2>1, <2>3, StopKeeps, Zenon
<1>4. CASE GetRootEmpty
  <2>1. StopList /\ failed' = failed /\ inode.root = <<>>
    BY <1>4 DEF GetRootEmpty
  <2>3. Complete
    BY <2>1, EmptyComplete
  <2> QED BY <1>1, <2>1, <2>3, StopKeeps, Zenon
<1>5. CASE NoNext
  <2>1. StopList /\ failed' = failed
    BY <1>5 DEF NoNext
  <2>3. Complete
    BY <1>5, NoNextComplete
  <2> QED BY <1>1, <2>1, <2>3, StopKeeps, Zenon
<1>6. CASE Iterated
  <2>1. StopList /\ failed' = failed
    BY <1>6 DEF Iterated
  <2>3. ~failed => Complete
    BY <1>6, IteratedComplete
  <2> QED BY <1>1, <2>1, <2>3, StopKeeps, Zenon
<1>7. CASE DownFails /\ ~Usable(Child) /\ failed' = failed
  <2>1. StopList /\ GoesDown
    BY <1>7 DEF DownFails
  <2>3. Complete
    BY <1>7, <2>1, DownFailsComplete
  <2> QED BY <1>1, <1>7, <2>1, <2>3, StopKeeps, Zenon
<1>8. DownFails => (~Usable(Child) /\ failed' = failed) \/ (failed' = TRUE /\ StopList)
  BY DEF DownFails
<1>9. OpenFails => failed' = TRUE /\ StopList
  BY DEF OpenFails
<1> QED BY <1>2, <1>3, <1>4, <1>5, <1>6, <1>7, <1>8, <1>9, Zenon

-----------------------------------------------------------------------------
(* The slots of the inode, and the blocks they lead to.                    *)

RouteFrom(s, p) == <<Hop(0, s)>> \o RouteOf(p)

LEMMA RouteFromIs ==
    ASSUME NEW s \in Nat \ {0}, NEW p \in Seq(Frames)
    PROVE  /\ RouteFrom(s, p) \in Seq(Hops) /\ Len(RouteFrom(s, p)) = Len(p) + 1
           /\ RouteFrom(s, p)[1] = Hop(0, s)
           /\ \A k \in 1..Len(p) : RouteFrom(s, p)[k + 1] = Hop(p[k].blk, p[k].curr)
<1> DEFINE h == Hop(0, s)
           r == RouteOf(p)
<1>1. h \in Hops
  BY DEF Hop, Hops
<1>2. r \in Seq(Hops) /\ Len(r) = Len(p) /\ \A k \in 1..Len(p) : r[k] = Hop(p[k].blk, p[k].curr)
  BY RouteOfIs, Zenon
<1> HIDE DEF h, r
<1>3. /\ <<h>> \o r \in Seq(Hops) /\ Len(<<h>> \o r) = Len(r) + 1
      /\ (<<h>> \o r)[1] = h
      /\ \A k \in 1..Len(r) : (<<h>> \o r)[k + 1] = r[k]
  BY <1>1, <1>2
<1>4. RouteFrom(s, p) = <<h>> \o r
  BY DEF RouteFrom, h, r
<1> QED BY <1>2, <1>3, <1>4, Zenon DEF h

LEMMA HopFields == \A b, k : Hop(b, k).blk = b /\ Hop(b, k).curr = k
BY DEF Hop

(* The route of a path goes on from the route of the path without its top. *)
LEMMA FrontRoute ==
    ASSUME NEW s \in Nat \ {0}, NEW p \in Seq(Frames), p # <<>>
    PROVE  RouteFrom(s, Above(p)) = Cut(RouteFrom(s, p), Len(p))
<1> DEFINE a == RouteFrom(s, Above(p))
           b == RouteFrom(s, p)
           m == Len(p)
<1>1. Above(p) \in Seq(Frames) /\ Len(Above(p)) = m - 1 /\ m \in Nat \ {0}
      /\ \A k \in 1..(m - 1) : Above(p)[k] = p[k]
  BY FrontIs, Zenon
<1>2. /\ a \in Seq(Hops) /\ Len(a) = Len(Above(p)) + 1 /\ a[1] = Hop(0, s)
      /\ \A k \in 1..Len(Above(p)) : a[k + 1] = Hop(Above(p)[k].blk, Above(p)[k].curr)
  BY <1>1, RouteFromIs, Zenon
<1>3. /\ b \in Seq(Hops) /\ Len(b) = m + 1 /\ b[1] = Hop(0, s)
      /\ \A k \in 1..m : b[k + 1] = Hop(p[k].blk, p[k].curr)
  BY RouteFromIs, Zenon
<1> HIDE DEF a, b, m
<1>4. Len(a) = m
  BY <1>1, <1>2
<1>5. \A k \in 1..(m - 1) : a[k + 1] = b[k + 1]
  <2> SUFFICES ASSUME NEW k \in 1..(m - 1) PROVE a[k + 1] = b[k + 1]
    OBVIOUS
  <2>1. k \in 1..m /\ k \in 1..Len(Above(p))
    BY <1>1
  <2> QED BY <1>1, <1>2, <1>3, <2>1, Zenon
<1>6. \A l \in 1..m : a[l] = b[l]
  <2> SUFFICES ASSUME NEW l \in 1..m PROVE a[l] = b[l]
    OBVIOUS
  <2>1. CASE l = 1
    BY <1>2, <1>3, <2>1
  <2>2. CASE l # 1
    <3>1. l - 1 \in 1..(m - 1) /\ l - 1 + 1 = l
      BY <1>1, <2>2
    <3> QED BY <1>5, <3>1, Zenon
  <2> QED BY <2>1, <2>2
<1>7. Cut(b, m) \in Seq(Hops) /\ Len(Cut(b, m)) = m /\ \A l \in 1..m : Cut(b, m)[l] = b[l]
  BY <1>1, <1>3 DEF Cut
<1>8. a = Cut(b, m)
  BY <1>2, <1>4, <1>6, <1>7, SameHops
<1> QED BY <1>8 DEF a, b, m

(* The slot at hand and the pointer at hand.                               *)
OnPointer(m) ==
    /\ IsInode(inode) /\ inode.map = "indirect" /\ NDirect \in Nat
    /\ path \in Seq(Frames) /\ m = Len(path) /\ m \in 0..3 /\ m + 1 \in 1..(MaxDepth + 1)
    /\ slot \in Nat \ {0} /\ slot <= Len(inode.root) /\ Len(inode.root) = NDirect + 3
    /\ HeightOf(slot) \in 0..3 /\ m <= HeightOf(slot)
    /\ Here \in Routes(inode)[m + 1] /\ Here \in Seq(Hops) /\ Len(Here) = m + 1
    /\ Here = RouteFrom(slot, path) /\ Here[1].curr = slot
    /\ Pointer = ChildOf(inode, Here) /\ Pointer \in Nat
    /\ Listed \in SUBSET Places(inode) /\ Whole \in SUBSET Places(inode)
    /\ ~failed => Passed(Whole, Listed, Here)
    /\ Behind(Listed, Here, FALSE)

LEMMA HasPointer ==
    ASSUME Listing, MorePointers
    PROVE  OnPointer(Len(path))
<1> DEFINE m == Len(path)
<1>1. Typed /\ Good /\ OnSlots /\ walk = "slots"
  BY DEF Listing, MorePointers
<1>2. IsInode(inode) /\ NDirect \in Nat /\ inode.map = "indirect" /\ path \in Seq(Frames)
      /\ slot \in Nat \ {0} /\ m <= 3
  BY <1>1, InodeForm DEF Typed
<1>3. Len(inode.root) = NDirect + 3
  BY <1>2, Zenon DEF IsInode
<1>4. m \in 0..3 /\ m + 1 \in 1..(MaxDepth + 1)
  <2>1. m \in Nat
    BY <1>2
  <2>2. m <= 3
    BY <1>2, Zenon
  <2> HIDE DEF m
  <2> QED BY <2>1, <2>2, DepthAssumption
<1>5. InNode /\ (~failed => Passed(Whole, Listed, Here)) /\ Behind(Listed, Here, FALSE)
  <2>1. walk # "listed" /\ inode.map \in {"indirect", "xfs"}
    BY <1>1, <1>2
  <2> QED BY <1>1, <2>1, Zenon DEF OnSlots
<1>6. Here = RouteFrom(slot, path)
  BY DEF Here, RouteFrom
<1>7. Here \in Seq(Hops) /\ Len(Here) = m + 1 /\ Here[1] = Hop(0, slot)
      /\ \A k \in 1..m : Here[k + 1] = Hop(path[k].blk, path[k].curr)
  BY <1>2, <1>6, RouteFromIs, Zenon
<1>8. Here[1].curr = slot /\ Here[1].blk = 0
  <2>1. Hop(0, slot).curr = slot /\ Hop(0, slot).blk = 0
    BY HopFields, Zenon
  <2>2. Here[1] = Hop(0, slot)
    BY <1>7
  <2> QED BY <2>1, <2>2, Zenon
<1>9. slot <= Len(inode.root)
  <2>1. CASE path = <<>>
    BY <1>3, <2>1 DEF MorePointers
  <2>2. CASE path # <<>>
    BY <1>5, <2>2, Zenon DEF InNode
  <2> QED BY <2>1, <2>2
<1>10. HeightOf(slot) \in 0..3
  BY <1>2, <1>3, <1>9 DEF HeightOf
<1>11. Here \in Routes(inode)[m + 1] /\ m <= HeightOf(slot) /\ Pointer = ChildOf(inode, Here)
  <2>1. CASE path = <<>>
    <3>1. m = 0
      BY <2>1
    <3>2. Here = <<Hop(0, slot)>>
      BY <1>7, <3>1
    <3>3. slot \in DOMAIN inode.root
      <4>1. IsList(inode.root)
        BY <1>2, Zenon DEF IsInode
      <4>2. DOMAIN inode.root = 1..Len(inode.root) /\ Len(inode.root) \in Nat
        BY <4>1, Zenon DEF IsList
      <4> QED BY <1>2, <1>9, <4>2
    <3>4. Here \in Routes(inode)[1]
      BY <3>2, <3>3, FirstRoutes, Zenon
    <3>5. ChildOf(inode, Here) = inode.root[slot]
      <4>1. Len(Here) = 1
        BY <1>7, <3>1
      <4> QED BY <1>8, <4>1, Zenon DEF ChildOf, Entries
    <3>6. Pointer = inode.root[slot]
      BY <2>1 DEF Pointer
    <3>7. m + 1 = 1 /\ m <= HeightOf(slot)
      BY <1>10, <3>1
    <3> QED BY <3>4, <3>5, <3>6, <3>7, Zenon
  <2>2. CASE path # <<>>
    <3> DEFINE p == Cut(Here, m)
    <3>1. /\ m <= HeightOf(slot) /\ p \in Routes(inode)[m] /\ Opens(inode, p)
          /\ Top.blk = ChildOf(inode, p)
      BY <1>5, <2>2, Zenon DEF InNode
    <3>2. Top.curr <= Len(Node(Top))
      BY <2>2 DEF MorePointers
    <3>3. m \in 1..MaxDepth /\ m \in 1..m
      <4>1. m # 0
        BY <1>2, <2>2
      <4>2. m \in 0..3
        BY <1>4, Zenon
      <4> HIDE DEF m
      <4> QED BY <4>1, <4>2, DepthAssumption
    <3>4. Here[m + 1] = Hop(Top.blk, Top.curr)
      BY <1>7, <3>3, Zenon DEF Top
    <3>5. Here[m + 1].blk = Top.blk /\ Here[m + 1].curr = Top.curr
      <4>1. Hop(Top.blk, Top.curr).blk = Top.blk /\ Hop(Top.blk, Top.curr).curr = Top.curr
        BY HopFields, Zenon
      <4> QED BY <3>4, <4>1, Zenon
    <3>6. Top \in Frames /\ Top.curr \in Nat \ {0}
      BY <1>2, <3>3, FrameAt, Zenon DEF Top
    <3>7. DOMAIN Entries(inode, Top.blk) = 1..Len(Entries(inode, Top.blk))
          /\ Len(Entries(inode, Top.blk)) \in Nat
      <4>1. Top.blk \in DOMAIN inode.disk \union {0}
        BY <1>1, <3>3, Zenon DEF Typed, Top
      <4> QED BY <1>2, <4>1, EntriesList, Zenon
    <3>8. Here[m + 1].curr \in DOMAIN Entries(inode, ChildOf(inode, p))
      BY <3>1, <3>2, <3>5, <3>6, <3>7 DEF Node
    <3>9. \A l \in 1..m : Here[l] = p[l]
      BY DEF Cut
    <3>10. Here[m + 1].blk = ChildOf(inode, p)
      BY <3>1, <3>5, Zenon
    <3> HIDE DEF p
    <3>11. Here \in Routes(inode)[m + 1]
      BY <1>2, <1>7, <3>1, <3>3, <3>8, <3>9, <3>10, ChildRoute, Zenon
    <3>12. Pointer = ChildOf(inode, Here)
      BY <1>7, <2>2, <3>5, Zenon DEF Pointer, ChildOf, Node
    <3> QED BY <3>1, <3>11, <3>12
  <2> QED BY <2>1, <2>2
<1>12. Pointer \in Nat
  BY <1>2, <1>4, <1>11, EntryForm, Zenon
<1>13. Listed \in SUBSET Places(inode) /\ Whole \in SUBSET Places(inode)
  BY <1>1, ListSubset DEF Whole
<1> HIDE DEF m
<1>14. OnPointer(m)
  BY <1>2, <1>3, <1>4, <1>5, <1>6, <1>7, <1>8, <1>9, <1>10, <1>11, <1>12, <1>13, Zenon DEF OnPointer, m
<1> QED BY <1>14 DEF m

(* From the end of a route to the next pointer.                            *)
StepFrom(pth, j, c) ==
    /\ IsInode(inode) /\ inode.map = "indirect"
    /\ slot \in Nat \ {0} /\ slot <= Len(inode.root) /\ Len(inode.root) \in Nat
    /\ pth \in Seq(Frames) /\ j = Len(pth) /\ j \in 0..3 /\ j + 1 \in 1..(MaxDepth + 1)
    /\ j <= HeightOf(slot)
    /\ c = RouteFrom(slot, pth) /\ c \in Routes(inode)[j + 1]

Moved(c, j) ==
    /\ IsNext(c, Here', j + 1) /\ InNode'
    /\ path' \in Seq(Frames) /\ Len(path') <= 3
    /\ slot' \in Nat \ {0} /\ slot' <= Len(inode.root) + 1
    /\ \A k \in 1..Len(path') : path'[k].blk \in DOMAIN inode.disk \union {0}

LEMMA StepSlot ==
    ASSUME NEW pth, NEW j, NEW c, StepFrom(pth, j, c), inode' = inode,
           pth = <<>>, path' = <<>>, slot' = slot + 1
    PROVE  Moved(c, j)
<1>1. j = 0 /\ slot \in Nat \ {0} /\ slot <= Len(inode.root) /\ Len(inode.root) \in Nat
  BY DEF StepFrom
<1>2. path' \in Seq(Frames) /\ Len(path') = 0 /\ slot' \in Nat \ {0} /\ <<>> \in Seq(Frames)
      /\ slot' <= Len(inode.root) + 1
  BY <1>1
<1>3. c = RouteFrom(slot, pth) /\ Here' = RouteFrom(slot', path')
  BY DEF StepFrom, Here, RouteFrom, RouteOf
<1>4. c[1] = Hop(0, slot)
  BY <1>1, <1>2, <1>3, RouteFromIs, Zenon
<1>5. Here' \in Seq(Hops) /\ Len(Here') = Len(path') + 1 /\ Here'[1] = Hop(0, slot')
  BY <1>2, <1>3, RouteFromIs, Zenon
<1>6. Here'[1].blk = c[1].blk /\ Here'[1].curr = c[1].curr + 1
  <2>1. c[1].blk = 0 /\ c[1].curr = slot
    BY <1>4 DEF Hop
  <2>2. Here'[1].blk = 0 /\ Here'[1].curr = slot'
    BY <1>5 DEF Hop
  <2> QED BY <2>1, <2>2
<1>7. j + 1 = 1 /\ Len(path') + 1 = 1 /\ 1..(1 - 1) = {} /\ 1..Len(path') = {}
  BY <1>1, <1>2
<1>8. IsNext(c, Here', j + 1)
  BY <1>5, <1>6, <1>7, Zenon DEF IsNext
<1>9. InNode'
  BY DEF InNode
<1>10. Len(path') <= 3
  BY <1>2
<1> QED BY <1>2, <1>7, <1>8, <1>9, <1>10, Zenon DEF Moved

LEMMA StepBlock ==
    ASSUME NEW pth, NEW j, NEW c, StepFrom(pth, j, c), inode' = inode, pth # <<>>,
           path' = Append(Above(pth), Frame(pth[j].blk, pth[j].curr + 1, FALSE)), slot' = slot
    PROVE  Moved(c, j)
<1> DEFINE f == pth[j]
           g == Frame(f.blk, f.curr + 1, FALSE)
<1>1. /\ IsInode(inode) /\ inode.map = "indirect" /\ slot \in Nat \ {0} /\ slot <= Len(inode.root)
      /\ Len(inode.root) \in Nat
      /\ pth \in Seq(Frames) /\ j = Len(pth) /\ j \in 0..3 /\ j + 1 \in 1..(MaxDepth + 1) /\ j <= HeightOf(slot)
      /\ c = RouteFrom(slot, pth) /\ c \in Routes(inode)[j + 1]
  BY Zenon DEF StepFrom
<1>2. j \in 1..3 /\ j \in 1..j
  <2>1. j # 0
    BY <1>1
  <2> QED BY <1>1, <2>1
<1>3. f \in Frames /\ f.blk \in Nat /\ f.curr \in Nat \ {0}
  BY <1>1, <1>2, FrameAt, Zenon
<1>4. g \in Frames /\ g.blk = f.blk /\ g.curr = f.curr + 1
  <2>1. f.curr + 1 \in Nat \ {0} /\ FALSE \in BOOLEAN
    BY <1>3
  <2> QED BY <1>3, <2>1, FrameIs, Zenon
<1>5. Above(pth) \in Seq(Frames) /\ Len(Above(pth)) = j - 1
      /\ \A k \in 1..(j - 1) : Above(pth)[k] = pth[k]
  BY <1>1, FrontIs, Zenon
<1>6. path' = Append(Above(pth), g)
  OBVIOUS
<1> HIDE DEF g
<1>7. path' \in Seq(Frames) /\ Len(path') = j /\ path'[j] = g
      /\ \A k \in 1..(j - 1) : path'[k] = pth[k]
  <2>1. /\ path' \in Seq(Frames) /\ Len(path') = Len(Above(pth)) + 1
        /\ path'[Len(Above(pth)) + 1] = g
        /\ \A k \in 1..Len(Above(pth)) : path'[k] = Above(pth)[k]
    <3> DEFINE a == Append(Above(pth), g)
    <3>1. /\ a \in Seq(Frames) /\ Len(a) = Len(Above(pth)) + 1
          /\ a[Len(Above(pth)) + 1] = g
          /\ \A k \in 1..Len(Above(pth)) : a[k] = Above(pth)[k]
      BY <1>4, <1>5, AppendAt, Zenon
    <3>2. path' = a
      BY <1>6, Zenon
    <3> HIDE DEF a
    <3> QED BY <3>1, <3>2, Zenon
  <2>2. Len(Above(pth)) + 1 = j
    BY <1>2, <1>5
  <2> QED BY <1>5, <2>1, <2>2, Zenon
<1>8. Here' = RouteFrom(slot, path')
  BY DEF Here, RouteFrom, RouteOf
<1>9. /\ Here' \in Seq(Hops) /\ Len(Here') = j + 1 /\ Here'[1] = Hop(0, slot)
      /\ \A k \in 1..j : Here'[k + 1] = Hop(path'[k].blk, path'[k].curr)
  <2> DEFINE p == path'
             r == RouteFrom(slot, p)
  <2>1. p \in Seq(Frames) /\ Len(p) = j /\ slot \in Nat \ {0}
    BY <1>1, <1>7, Zenon
  <2> HIDE DEF p
  <2>2. /\ r \in Seq(Hops) /\ Len(r) = Len(p) + 1 /\ r[1] = Hop(0, slot)
        /\ \A k \in 1..Len(p) : r[k + 1] = Hop(p[k].blk, p[k].curr)
    BY <2>1, RouteFromIs, Zenon
  <2>3. Here' = r
    BY <1>8, Zenon DEF p
  <2> HIDE DEF r
  <2> QED BY <2>1, <2>2, <2>3, Zenon DEF p
<1>10. /\ c \in Seq(Hops) /\ Len(c) = j + 1 /\ c[1] = Hop(0, slot)
       /\ \A k \in 1..j : c[k + 1] = Hop(pth[k].blk, pth[k].curr)
  BY <1>1, RouteFromIs, Zenon
<1> DEFINE d == Here'
<1> HIDE DEF f, d
<1>11. \A l \in 1..j : d[l] = c[l]
  <2> SUFFICES ASSUME NEW l \in 1..j PROVE d[l] = c[l]
    OBVIOUS
  <2>1. CASE l = 1
    BY <1>9, <1>10, <2>1, Zenon DEF d
  <2>2. CASE l # 1
    <3>1. l - 1 \in 1..(j - 1) /\ l - 1 + 1 = l /\ l - 1 \in 1..j
      BY <1>2, <2>2
    <3>2. path'[l - 1] = pth[l - 1]
      BY <1>7, <3>1, Zenon
    <3>3. d[l - 1 + 1] = Hop(path'[l - 1].blk, path'[l - 1].curr)
      BY <1>9, <3>1, Zenon DEF d
    <3>4. c[l - 1 + 1] = Hop(pth[l - 1].blk, pth[l - 1].curr)
      BY <1>10, <3>1, Zenon
    <3> QED BY <3>1, <3>2, <3>3, <3>4, Zenon
  <2> QED BY <2>1, <2>2
<1>12. c[j + 1] = Hop(f.blk, f.curr) /\ d[j + 1] = Hop(g.blk, g.curr)
  BY <1>2, <1>7, <1>9, <1>10, Zenon DEF f, d
<1>13. c[j + 1].blk = f.blk /\ c[j + 1].curr = f.curr
       /\ d[j + 1].blk = f.blk /\ d[j + 1].curr = f.curr + 1
  BY <1>4, <1>12 DEF Hop
<1>14. IsNext(c, d, j + 1)
  <2>1. PICK m : m = j + 1 /\ m - 1 = j
    BY <1>2
  <2>2. d \in Seq(Hops) /\ Len(d) = m
    BY <1>9, <2>1, Zenon DEF d
  <2>3. \A l \in 1..(m - 1) : d[l] = c[l]
    BY <1>11, <2>1, Zenon
  <2>4. d[m].blk = c[m].blk /\ d[m].curr = c[m].curr + 1
    BY <1>13, <2>1, Zenon
  <2>5. IsNext(c, d, m)
    BY <2>2, <2>3, <2>4, Zenon DEF IsNext
  <2> QED BY <2>1, <2>5, Zenon
<1>15. Shape(inode, c, j + 1)
  BY <1>1, RouteShape, Zenon
<1>16. Cut(d, j) = Cut(c, j)
  BY <1>11 DEF Cut
<1>17. Cut(c, j) \in Routes(inode)[j] /\ Opens(inode, Cut(c, j))
  <2>1. j \in 1..(j + 1) /\ j < j + 1
    BY <1>2
  <2> QED BY <1>15, <2>1, Zenon DEF Shape
<1>18. f.blk = ChildOf(inode, Cut(c, j))
  <2>1. PICK m : m = j + 1 /\ m - 1 = j /\ m \in 2..m
    BY <1>2
  <2>a. c[m].blk = Entries(inode, c[m - 1].blk)[c[m - 1].curr]
    <3>1. Shape(inode, c, m)
      BY <1>15, <2>1, Zenon
    <3> QED BY <2>1, <3>1, Zenon DEF Shape
  <2>2. c[j + 1].blk = Entries(inode, c[j].blk)[c[j].curr]
    BY <2>1, <2>a, Zenon
  <2>3. Cut(c, j)[j] = c[j] /\ Len(Cut(c, j)) = j
    BY <1>2 DEF Cut
  <2> QED BY <1>13, <2>2, <2>3, Zenon DEF ChildOf
<1>19. /\ f.blk \in DOMAIN inode.disk \union {0}
       /\ f.curr + 1 <= Len(Entries(inode, f.blk)) + 1
  <2>1. j + 1 \in 1..(j + 1)
    BY <1>2
  <2>2. /\ c[j + 1].blk \in DOMAIN inode.disk \union {0}
        /\ Len(Entries(inode, c[j + 1].blk)) \in Nat
        /\ c[j + 1].curr \in 1..Len(Entries(inode, c[j + 1].blk))
    BY <1>15, <2>1, Zenon DEF Shape
  <2>3. /\ Len(Entries(inode, f.blk)) \in Nat /\ f.blk \in DOMAIN inode.disk \union {0}
        /\ f.curr \in 1..Len(Entries(inode, f.blk))
    BY <1>13, <2>2, Zenon
  <2> QED BY <2>3
<1>20. InNode'
  <2>1. Top' = g
    BY <1>7, Zenon DEF Top
  <2>2. Node(Top)' = Entries(inode, f.blk)
    BY <1>4, <2>1, Zenon DEF Node
  <2>3. Here' = d
    BY DEF d
  <2>4. Top'.blk = ChildOf(inode, Cut(c, j)) /\ Top'.curr <= Len(Node(Top)') + 1
    BY <1>4, <1>18, <1>19, <2>1, <2>2, Zenon
  <2>5. Cut(Here', Len(path')) = Cut(c, j) /\ Len(path') = j /\ slot' = slot /\ inode' = inode
    BY <1>7, <1>16, <2>3, Zenon
  <2> QED BY <1>1, <1>17, <2>4, <2>5, Zenon DEF InNode
<1>21. \A k \in 1..j : path'[k].blk \in DOMAIN inode.disk \union {0}
  <2> SUFFICES ASSUME NEW k \in 1..j PROVE path'[k].blk \in DOMAIN inode.disk \union {0}
    BY Zenon
  <2>1. k + 1 \in 1..(j + 1)
    BY <1>2
  <2>2. c[k + 1].blk \in DOMAIN inode.disk \union {0}
    BY <1>15, <2>1, Zenon DEF Shape
  <2>3. path'[k].blk = pth[k].blk
    <3>1. CASE k = j
      BY <1>4, <1>7, <3>1, Zenon DEF f
    <3>2. CASE k # j
      <4>1. k \in 1..(j - 1)
        BY <1>2, <3>2
      <4> QED BY <1>7, <4>1, Zenon
    <3> QED BY <3>1, <3>2, Zenon
  <2>a. c[k + 1] = Hop(pth[k].blk, pth[k].curr)
    BY <1>10, Zenon
  <2>4. c[k + 1].blk = pth[k].blk
    BY <2>a DEF Hop
  <2> QED BY <2>2, <2>3, <2>4, Zenon
<1>22. Len(path') <= 3 /\ slot' <= Len(inode.root) + 1
  BY <1>1, <1>2, <1>7
<1> QED BY <1>1, <1>7, <1>14, <1>20, <1>21, <1>22, Zenon DEF Moved, d

LEMMA StepMoves ==
    ASSUME NEW pth, NEW j, NEW c, StepFrom(pth, j, c), inode' = inode, Step(pth)
    PROVE  Moved(c, j)
<1>1. CASE pth = <<>>
  BY <1>1, StepSlot DEF Step
<1>2. CASE pth # <<>>
  <2>1. j = Len(pth)
    BY DEF StepFrom
  <2>2. path' = Append(Above(pth), Frame(pth[j].blk, pth[j].curr + 1, FALSE)) /\ slot' = slot
    BY <1>2, <2>1, Zenon DEF Step
  <2> QED BY <1>2, <2>2, StepBlock, Zenon
<1> QED BY <1>1, <1>2

LEMMA SlotsKeep ==
    ASSUME Listing, inode' = inode, walk' = walk, walk = "slots" \/ (walk = "open" /\ inode.map = "xfs"),
           failed' \in BOOLEAN, line' \in Seq(Token), Good',
           path' \in Seq(Frames), Len(path') <= 3, inode.map = "xfs" => path' = <<>>,
           slot' \in Nat \ {0}, slot' <= Len(inode.root) + 1, InNode',
           \A k \in 1..Len(path') : path'[k].blk \in DOMAIN inode.disk \union {0},
           ~failed' => Passed(Whole, Listed', Here'), Behind(Listed', Here', FALSE)
    PROVE  Listing'
<1>1. Typed
  BY DEF Listing
<1>2. inode.map \in {"indirect", "xfs"} /\ inode.map # "extents" /\ walk # "listed" /\ walk # "extents"
      /\ (walk = "slots" => inode.map = "indirect")
      /\ (walk = "open" => path' = <<>> /\ inode.map = "xfs")
  BY <1>1, Zenon DEF Typed
<1>3. inode \in Inodes /\ walk \in {"open", "extents", "slots", "listed"}
  BY <1>1, Zenon DEF Typed
<1>4. Typed'
  BY <1>2, <1>3, Zenon DEF Typed
<1>5. OnExtents' /\ NoGap' /\ AllThere'
  BY <1>2, Zenon DEF OnExtents, NoGap, AllThere
<1>6. Whole' = Whole
  BY Zenon DEF Whole
<1>7. OnSlots'
  BY <1>6, Zenon DEF OnSlots
<1> QED BY <1>4, <1>5, <1>7, Zenon DEF Listing

LEMMA NextKeeps ==
    ASSUME Listing, walk = "slots", inode' = inode, walk' = walk,
           failed' \in BOOLEAN, line' \in Seq(Token), Good',
           NEW pth, NEW j, NEW c, StepFrom(pth, j, c), Step(pth),
           ~failed' => Passed(Whole, Listed', c) /\ Under(Whole, Listed', c),
           Behind(Listed', c, TRUE)
    PROVE  Listing'
<1>1. Moved(c, j)
  BY StepMoves, Zenon
<1>2. PICK m : m = j + 1 /\ IsNext(c, Here', m)
  BY <1>1, Zenon DEF Moved
<1>3. IsInode(inode) /\ inode.map = "indirect" /\ m \in 1..(MaxDepth + 1) /\ c \in Routes(inode)[m]
  BY <1>2, Zenon DEF StepFrom
<1>4. c \in Seq(Hops) /\ Len(c) = m
  BY <1>3, RouteShape, Zenon DEF Shape
<1>5. Whole \in SUBSET Places(inode)
  BY Zenon DEF Whole
<1>6. Listed' \in SUBSET Places(inode)
  <2>1. Listed' \in SUBSET Places(inode')
    BY ListedPlaces DEF Good, Listed
  <2> QED BY <2>1, Zenon
<1>7. ~failed' => Passed(Whole, Listed', Here')
  BY <1>2, <1>3, <1>5, NextPassed, Zenon
<1>8. Behind(Listed', Here', FALSE)
  BY <1>2, <1>3, <1>4, <1>6, NextBehind, Zenon
<1>9. inode.map # "xfs"
  BY <1>3
<1> QED BY <1>1, <1>7, <1>8, <1>9, SlotsKeep, Zenon DEF Moved

LEMMA PointerStep ==
    ASSUME NEW m, OnPointer(m)
    PROVE  StepFrom(path, m, Here)
<1>1. Len(inode.root) \in Nat
  BY DEF OnPointer
<1> QED BY <1>1, Zenon DEF OnPointer, StepFrom

(* A prefix of a route of its own length is the route.                     *)
LEMMA PrefixAll ==
    ASSUME NEW r \in Seq(Hops), NEW s \in Seq(Hops), Prefix(r, s), Len(s) = Len(r)
    PROVE  s = r
BY SameHops DEF Prefix

LEMMA PrefixCut ==
    ASSUME NEW r \in Seq(Hops), NEW s \in Seq(Hops), Prefix(r, s), NEW m, Len(r) = m
    PROVE  Cut(s, m) = r
<1>1. \A k \in 1..m : s[k] = r[k]
  BY DEF Prefix
<1>2. r = [k \in 1..m |-> r[k]]
  OBVIOUS
<1>3. [k \in 1..m |-> s[k]] = [k \in 1..m |-> r[k]]
  BY <1>1, Zenon
<1> QED BY <1>2, <1>3, Zenon DEF Cut

LEMMA SparseKeeps ==
    ASSUME Listing, Sparse
    PROVE  Listing'
<1> DEFINE m == Len(path)
<1>1. MorePointers /\ Pointer = 0 /\ Step(path) /\ walk = "slots"
      /\ inode' = inode /\ walk' = walk /\ blknums' = blknums /\ line' = line
      /\ places' = places /\ failed' = failed
  BY DEF Sparse, MorePointers
<1>2. OnPointer(m)
  BY <1>1, HasPointer
<1> HIDE DEF m
<1>3. StepFrom(path, m, Here)
  BY <1>2, PointerStep, Zenon
<1>4. /\ IsInode(inode) /\ Here \in Routes(inode)[m + 1] /\ Here \in Seq(Hops) /\ Len(Here) = m + 1
      /\ inode.map = "indirect" /\ m \in 0..3 /\ m + 1 \in 1..(MaxDepth + 1)
      /\ ChildOf(inode, Here) = 0 /\ Whole \in SUBSET Places(inode)
      /\ (~failed => Passed(Whole, Listed, Here)) /\ Behind(Listed, Here, FALSE)
  BY <1>1, <1>2, Zenon DEF OnPointer
<1>5. Under(Whole, Listed, Here)
  <2> SUFFICES ASSUME NEW q \in Whole, Prefix(Here, q.at) PROVE FALSE
    BY Zenon DEF Under
  <2>1. /\ Len(q.at) \in 1..(MaxDepth + 1) /\ q.at \in Routes(inode)[Len(q.at)] /\ q.at \in Seq(Hops)
        /\ q.k \in DOMAIN DataAt(inode, q.at)
    BY <1>4, PlaceForm, Zenon
  <2>2. Len(Here) <= Len(q.at)
    BY DEF Prefix
  <2>3. CASE Len(q.at) = Len(Here)
    <3>1. q.at = Here
      BY <1>4, <2>1, <2>3, PrefixAll, Zenon
    <3> QED BY <1>4, <2>1, <3>1, DataDepth, Zenon
  <2>4. CASE Len(q.at) # Len(Here)
    <3>1. PICK l \in 1..(MaxDepth + 1) : l = m + 1
      BY <1>4, Zenon
    <3>2. l \in 1..Len(q.at) /\ l < Len(q.at)
      BY <1>4, <2>1, <2>2, <2>4, <3>1
    <3>3. Cut(q.at, l) = Here
      BY <1>4, <2>1, <3>1, PrefixCut, Zenon
    <3>4. Shape(inode, q.at, Len(q.at))
      BY <1>4, <2>1, RouteShape, Zenon
    <3>5. Opens(inode, Here)
      BY <3>2, <3>3, <3>4, Zenon DEF Shape
    <3>6. 0 \in DOMAIN inode.disk
      BY <1>4, <3>5, Zenon DEF Opens
    <3> QED BY <1>4, <3>6, Zenon DEF IsInode
  <2> QED BY <2>3, <2>4
<1>6. Behind(Listed, Here, TRUE)
  BY <1>4, Zenon DEF Behind
<1>7. Typed /\ Good /\ failed' \in BOOLEAN /\ line' \in Seq(Token)
  BY <1>1, Zenon DEF Listing, Typed
<1>8. Good' /\ Listed' = Listed
  BY <1>1, <1>7, Zenon DEF Good, Listed
<1>9. (~failed' => Passed(Whole, Listed', Here) /\ Under(Whole, Listed', Here))
      /\ Behind(Listed', Here, TRUE)
  BY <1>1, <1>4, <1>5, <1>6, <1>8, Zenon
<1> DEFINE c == Here
<1>10. StepFrom(path, m, c) /\ Behind(Listed', c, TRUE)
       /\ (~failed' => Passed(Whole, Listed', c) /\ Under(Whole, Listed', c))
  BY <1>3, <1>9, Zenon
<1> HIDE DEF c
<1> QED BY <1>1, <1>7, <1>8, <1>10, NextKeeps, Zenon

LEMMA DataBlockKeeps ==
    ASSUME Listing, DataBlock
    PROVE  Listing'
<1> DEFINE m == Len(path)
           bs == <<Pointer>>
<1>1. MorePointers /\ Pointer # 0 /\ Height = 0 /\ Step(path) /\ walk = "slots"
      /\ inode' = inode /\ walk' = walk /\ failed' = failed
      /\ blknums' = Pushed(bs) /\ places' = Noted(Here, bs)
      /\ line' = line \o Tokens("data", bs)
  BY Zenon DEF DataBlock, MorePointers
<1>2. OnPointer(m)
  BY <1>1, HasPointer
<1>h. Height = HeightOf(slot) - m
  BY DEF Height
<1>7. Typed /\ Good /\ failed' \in BOOLEAN /\ line \in Seq(Token)
  BY <1>1, Zenon DEF Listing, Typed
<1> HIDE DEF m
<1>3. StepFrom(path, m, Here)
  BY <1>2, PointerStep, Zenon
<1>4. /\ IsInode(inode) /\ Here \in Routes(inode)[m + 1] /\ Here \in Seq(Hops) /\ Len(Here) = m + 1
      /\ inode.map = "indirect" /\ m \in 0..3 /\ m + 1 \in 1..(MaxDepth + 1)
      /\ Here[1].curr = slot /\ HeightOf(slot) \in 0..3
      /\ ChildOf(inode, Here) = Pointer /\ Pointer \in Nat /\ Whole \in SUBSET Places(inode)
      /\ (~failed => Passed(Whole, Listed, Here)) /\ Behind(Listed, Here, FALSE)
  BY <1>1, <1>2, Zenon DEF OnPointer
<1>5. Len(Here) = HeightOf(Here[1].curr) + 1
  <2>1. HeightOf(slot) - m = 0 /\ HeightOf(slot) \in 0..3 /\ m \in 0..3
    BY <1>1, <1>h, <1>4, Zenon
  <2>2. HeightOf(slot) = m
    BY <2>1
  <2> QED BY <1>4, <2>2, Zenon
<1>6. DataAt(inode, Here) = bs
  BY <1>1, <1>4, <1>5, Zenon DEF DataAt
<1> DEFINE c == Here
<1>8. Good' /\ Listed' = Listed \union {Place(c, k) : k \in DOMAIN bs}
  <2>1. PICK l \in 1..(MaxDepth + 1) : c \in Routes(inode)[l]
    BY <1>4, Zenon
  <2>2. c = Here
    OBVIOUS
  <2> HIDE DEF c, bs
  <2>3. Behind(Listed, c, FALSE) /\ bs = DataAt(inode, c) /\ inode' = inode /\ blknums' = Pushed(bs)
        /\ places' = Noted(c, bs)
    BY <1>1, <1>4, <1>6, <2>2, Zenon
  <2> QED BY <1>7, <2>1, <2>3, PushStep, Zenon
<1>9. line' \in Seq(Token)
  <2>1. Tokens("data", bs) \in Seq(Token)
    <3>1. bs \in Seq(Nat) /\ "data" \in {"ETB", "IND", "data"}
      BY <1>4
    <3> HIDE DEF bs
    <3> QED BY <3>1, TokensTyped, Zenon
  <2> DEFINE t == Tokens("data", bs)
  <2>2. t \in Seq(Token) /\ line' = line \o t
    BY <1>1, <2>1
  <2> HIDE DEF t
  <2> QED BY <1>7, <2>2
<1>10. /\ c \in Seq(Hops) /\ c \in Routes(inode)[m + 1] /\ Behind(Listed, c, FALSE)
       /\ (~failed => Passed(Whole, Listed, c)) /\ bs = DataAt(inode, c)
       /\ Len(c) = HeightOf(c[1].curr) + 1 /\ StepFrom(path, m, c)
       /\ Prefix(c, c)
  BY <1>3, <1>4, <1>5, <1>6, PrefixSelf, Zenon
<1> HIDE DEF c, bs
<1>11. ~failed' => Passed(Whole, Listed', c)
  BY <1>1, <1>8, <1>10, Zenon DEF Passed
<1>12. Behind(Listed', c, TRUE)
  <2> SUFFICES ASSUME NEW q \in Listed' PROVE Before(q.at, c) \/ Prefix(c, q.at)
    BY Zenon DEF Behind
  <2>1. CASE q \in Listed
    BY <1>10, <2>1, Zenon DEF Behind
  <2>2. CASE q \in {Place(c, k) : k \in DOMAIN bs}
    <3>1. q.at = c
      BY <2>2, PlaceIs, Zenon
    <3> QED BY <1>10, <3>1, Zenon
  <2> QED BY <1>8, <2>1, <2>2
<1>13. Under(Whole, Listed', c)
  <2> SUFFICES ASSUME NEW q \in Whole, Prefix(c, q.at) PROVE q \in Listed'
    BY Zenon DEF Under
  <2>1. /\ q.at \in Seq(Hops) /\ q.k \in DOMAIN DataAt(inode, q.at) /\ q = Place(q.at, q.k)
    BY <1>4, PlaceForm, Zenon
  <2>2. Len(q.at) = HeightOf(q.at[1].curr) + 1
    BY <1>4, <2>1, DataDepth, Zenon
  <2>3. q.at[1] = c[1]
    <3>1. 1 \in 1..Len(c)
      <4>1. Len(c) = m + 1
        BY <1>4, Zenon DEF c
      <4>2. m \in 0..3
        BY <1>4, Zenon
      <4> QED BY <4>1, <4>2
    <3> QED BY <3>1, Zenon DEF Prefix
  <2>4. Len(q.at) = Len(c)
    BY <1>10, <2>2, <2>3, Zenon
  <2>5. q.at = c
    BY <1>10, <2>1, <2>4, PrefixAll, Zenon
  <2>6. q.k \in DOMAIN bs /\ q = Place(c, q.k)
    BY <1>10, <2>1, <2>5, Zenon
  <2> QED BY <1>8, <2>6, Zenon
<1>14. ~failed' => Passed(Whole, Listed', c) /\ Under(Whole, Listed', c)
  BY <1>11, <1>13
<1> QED BY <1>1, <1>7, <1>8, <1>9, <1>10, <1>12, <1>14, NextKeeps, Zenon

LEMMA HereHops ==
    ASSUME Typed
    PROVE  /\ Here[1] = Hop(0, slot)
           /\ \A k \in 1..Len(path) : Here[k + 1] = Hop(path[k].blk, path[k].curr)
<1>1. slot \in Nat \ {0} /\ path \in Seq(Frames)
  BY DEF Typed
<1> DEFINE r == RouteFrom(slot, path)
<1>2. r[1] = Hop(0, slot) /\ \A k \in 1..Len(path) : r[k + 1] = Hop(path[k].blk, path[k].curr)
  BY <1>1, RouteFromIs, Zenon
<1>3. Here = r
  BY DEF Here, RouteFrom
<1> HIDE DEF r
<1> QED BY <1>2, <1>3, Zenon

LEMMA TokensJoined == \A a, b \in Seq(Token) : a \o b \in Seq(Token)
OBVIOUS

LEMMA IndTyped ==
    ASSUME Typed, Pointer \in Nat, line' = line \o Tokens("IND", <<Pointer>>)
    PROVE  line' \in Seq(Token)
<1> DEFINE bs == <<Pointer>>
           t == Tokens("IND", bs)
<1>1. bs \in Seq(Nat) /\ "IND" \in {"ETB", "IND", "data"}
  OBVIOUS
<1> HIDE DEF bs
<1>2. t \in Seq(Token)
  BY <1>1, TokensTyped, Zenon
<1>3. line \in Seq(Token) /\ line' = line \o t
  BY Zenon DEF Typed, bs
<1> HIDE DEF t
<1>4. line \o t \in Seq(Token)
  BY <1>2, <1>3, TokensJoined, Zenon
<1> QED BY <1>3, <1>4, Zenon

LEMMA ReadIndirectKeeps ==
    ASSUME Listing, ReadIndirect
    PROVE  Listing'
<1> DEFINE m == Len(path)
           g == Frame(Pointer, 1, FALSE)
           c == Here
           d == Here'
<1>1. /\ MorePointers /\ Pointer # 0 /\ Height > 0 /\ Pointer \in DOMAIN inode.disk /\ walk = "slots"
      /\ inode' = inode /\ walk' = walk /\ blknums' = blknums /\ places' = places
      /\ failed' = failed /\ slot' = slot /\ path' = Append(path, g)
      /\ line' = line \o Tokens("IND", <<Pointer>>)
  BY Zenon DEF ReadIndirect, EnterIndirect, MorePointers
<1>2. OnPointer(m)
  BY <1>1, HasPointer
<1>h. Height = HeightOf(slot) - m
  BY DEF Height
<1>7. Typed /\ Good /\ failed' \in BOOLEAN
  BY <1>1, Zenon DEF Listing, Typed
<1> HIDE DEF m
<1>4. /\ IsInode(inode) /\ c \in Routes(inode)[m + 1] /\ c \in Seq(Hops) /\ Len(c) = m + 1
      /\ inode.map = "indirect" /\ m \in 0..3 /\ m + 1 \in 1..(MaxDepth + 1)
      /\ path \in Seq(Frames) /\ m = Len(path)
      /\ slot \in Nat \ {0} /\ slot <= Len(inode.root) /\ Len(inode.root) = NDirect + 3 /\ NDirect \in Nat
      /\ c[1].curr = slot /\ HeightOf(slot) \in 0..3 /\ c = RouteFrom(slot, path)
      /\ ChildOf(inode, c) = Pointer /\ Pointer \in Nat
      /\ Whole \in SUBSET Places(inode) /\ Listed \in SUBSET Places(inode)
      /\ (~failed => Passed(Whole, Listed, c)) /\ Behind(Listed, c, FALSE)
  BY <1>1, <1>2, Zenon DEF OnPointer
<1>5. line' \in Seq(Token)
  BY <1>1, <1>4, <1>7, IndTyped, Zenon
<1>6. Good' /\ Listed' = Listed
  BY <1>1, <1>7, Zenon DEF Good, Listed
<1>8. m + 1 <= HeightOf(slot) /\ m + 1 <= 3
  <2>1. HeightOf(slot) - m > 0 /\ HeightOf(slot) \in 0..3 /\ m \in 0..3
    BY <1>1, <1>h, <1>4, Zenon
  <2> QED BY <2>1
<1>9. g \in Frames /\ g.blk = Pointer /\ g.curr = 1
  <2>1. 1 \in Nat \ {0} /\ FALSE \in BOOLEAN
    OBVIOUS
  <2> QED BY <1>4, <2>1, FrameIs, Zenon
<1> HIDE DEF g, c
<1>10. path' \in Seq(Frames) /\ Len(path') = m + 1 /\ path'[m + 1] = g
       /\ \A k \in 1..m : path'[k] = path[k]
  <2> DEFINE a == Append(path, g)
  <2>1. a \in Seq(Frames) /\ Len(a) = Len(path) + 1 /\ a[Len(path) + 1] = g
        /\ \A k \in 1..Len(path) : a[k] = path[k]
    BY <1>4, <1>9, AppendAt, Zenon
  <2>2. path' = a
    BY <1>1
  <2> HIDE DEF a
  <2> QED BY <1>4, <2>1, <2>2, Zenon
<1>11. /\ d \in Seq(Hops) /\ Len(d) = m + 1 + 1 /\ d[1] = Hop(0, slot)
       /\ \A k \in 1..(m + 1) : d[k + 1] = Hop(path'[k].blk, path'[k].curr)
  <2> DEFINE p == path'
             r == RouteFrom(slot, p)
  <2>1. p \in Seq(Frames) /\ Len(p) = m + 1 /\ slot \in Nat \ {0}
    BY <1>4, <1>10, Zenon
  <2> HIDE DEF p
  <2>2. /\ r \in Seq(Hops) /\ Len(r) = Len(p) + 1 /\ r[1] = Hop(0, slot)
        /\ \A k \in 1..Len(p) : r[k + 1] = Hop(p[k].blk, p[k].curr)
    BY <2>1, RouteFromIs, Zenon
  <2>3. d = r
    BY <1>1, Zenon DEF p, Here, RouteFrom, RouteOf
  <2> HIDE DEF r, d
  <2> QED BY <2>1, <2>2, <2>3, Zenon DEF p
<1>12. /\ c[1] = Hop(0, slot)
       /\ \A k \in 1..m : c[k + 1] = Hop(path[k].blk, path[k].curr)
  BY <1>7, HereHops, Zenon DEF c, m
<1> HIDE DEF d
<1>13. \A l \in 1..(m + 1) : d[l] = c[l]
  <2> SUFFICES ASSUME NEW l \in 1..(m + 1) PROVE d[l] = c[l]
    OBVIOUS
  <2>1. CASE l = 1
    BY <1>11, <1>12, <2>1, Zenon
  <2>2. CASE l # 1
    <3>1. PICK k \in 1..m : l = k + 1 /\ k \in 1..(m + 1)
      <4>1. l - 1 \in 1..m /\ l = l - 1 + 1 /\ l - 1 \in 1..(m + 1)
        BY <1>4, <2>2
      <4> QED BY <4>1
    <3>2. path'[k] = path[k]
      BY <1>10, <3>1, Zenon
    <3>3. d[k + 1] = Hop(path'[k].blk, path'[k].curr)
      BY <1>11, <3>1, Zenon
    <3>4. c[k + 1] = Hop(path[k].blk, path[k].curr)
      BY <1>12, <3>1, Zenon
    <3> QED BY <3>1, <3>2, <3>3, <3>4, Zenon
  <2> QED BY <2>1, <2>2, Zenon
<1>14. d[m + 1 + 1].curr = 1
  <2>1. m + 1 \in 1..(m + 1)
    BY <1>4
  <2>2. d[m + 1 + 1] = Hop(Pointer, 1)
    BY <1>9, <1>10, <1>11, <2>1, Zenon
  <2> QED BY <2>2 DEF Hop
<1>15. Len(d) = Len(c) + 1 /\ (\A l \in 1..Len(c) : d[l] = c[l]) /\ d[Len(d)].curr = 1 /\ d \in Seq(Hops)
  BY <1>4, <1>11, <1>13, <1>14, Zenon
<1>16. ~failed => Passed(Whole, Listed, d)
  BY <1>4, <1>15, DownPassed, Zenon
<1>17. Behind(Listed, d, FALSE)
  BY <1>4, <1>15, DownBehind, Zenon
<1>18. Cut(d, m + 1) = c
  <2>1. Cut(d, m + 1) = Cut(c, m + 1)
    BY <1>13 DEF Cut
  <2> QED BY <1>4, <2>1, CutAll, Zenon
<1>19. Opens(inode, c)
  BY <1>1, <1>4, <1>8, Zenon DEF Opens
<1>20. InNode'
  <2>1. Top' = g
    BY <1>10, Zenon DEF Top
  <2>2. Node(Top)' = Entries(inode, Pointer)
    BY <1>1, <1>9, <2>1, Zenon DEF Node
  <2>3. Len(Entries(inode, Pointer)) \in Nat
    <3>1. Pointer \in DOMAIN inode.disk \union {0}
      BY <1>1
    <3> QED BY <1>4, <3>1, EntriesList, Zenon
  <2>4. 1 <= Len(Entries(inode, Pointer)) + 1
    BY <2>3
  <2>5. Top'.blk = ChildOf(inode, c) /\ Top'.curr <= Len(Node(Top)') + 1
    BY <1>4, <1>9, <2>1, <2>2, <2>4, Zenon
  <2>6. Cut(Here', Len(path')) = c /\ Len(path') = m + 1
    BY <1>10, <1>18, Zenon DEF d
  <2> QED BY <1>1, <1>4, <1>8, <1>19, <2>5, <2>6, Zenon DEF InNode
<1>21. \A k \in 1..Len(path') : path'[k].blk \in DOMAIN inode.disk \union {0}
  <2> SUFFICES ASSUME NEW k \in 1..(m + 1) PROVE path'[k].blk \in DOMAIN inode.disk \union {0}
    BY <1>10, Zenon
  <2>1. CASE k = m + 1
    BY <1>1, <1>9, <1>10, <2>1, Zenon
  <2>2. CASE k # m + 1
    <3>1. k \in 1..m
      BY <1>4, <2>2
    <3>2. path[k].blk \in DOMAIN inode.disk \union {0}
      BY <1>4, <1>7, <3>1, Zenon DEF Typed
    <3> QED BY <1>10, <3>1, <3>2, Zenon
  <2> QED BY <2>1, <2>2, Zenon
<1>22. slot' <= Len(inode.root) + 1 /\ Len(path') <= 3 /\ inode.map # "xfs"
  <2>1. slot <= Len(inode.root) /\ slot \in Nat /\ Len(inode.root) = NDirect + 3 /\ NDirect \in Nat
    BY <1>4, Zenon
  <2>2. slot <= Len(inode.root) + 1
    BY <2>1
  <2>3. inode.map # "xfs"
    BY <1>4
  <2> QED BY <1>1, <1>8, <1>10, <2>2, <2>3, Zenon
<1>23. (~failed' => Passed(Whole, Listed', Here')) /\ Behind(Listed', Here', FALSE)
  BY <1>1, <1>6, <1>16, <1>17, Zenon DEF d
<1>24. path' \in Seq(Frames) /\ slot' \in Nat \ {0}
  BY <1>1, <1>4, <1>10, Zenon
<1> QED BY <1>1, <1>5, <1>6, <1>7, <1>20, <1>21, <1>22, <1>23, <1>24, SlotsKeep, Zenon

LEMMA BadIndirectKeeps ==
    ASSUME Listing, BadIndirect
    PROVE  Listing'
<1> DEFINE m == Len(path)
           c == Here
           p == Cut(c, 1)
<1>1. /\ MorePointers /\ Pointer # 0 /\ Height > 0 /\ walk = "slots"
      /\ inode' = inode /\ walk' = walk /\ blknums' = blknums /\ places' = places
      /\ path' = <<>> /\ slot' = slot + 1
      /\ (Pointer \notin DOMAIN inode.disk /\ failed' = failed) \/ failed' = TRUE
      /\ line' = line \o Tokens("IND", <<Pointer>>)
  BY Zenon DEF BadIndirect, EnterIndirect, MorePointers
<1>2. OnPointer(m)
  BY <1>1, HasPointer
<1>h. Height = HeightOf(slot) - m
  BY DEF Height
<1>3. Typed /\ Good /\ failed \in BOOLEAN
  BY Zenon DEF Listing, Typed
<1>a. failed' \in BOOLEAN /\ (~failed' => ~failed /\ Pointer \notin DOMAIN inode.disk)
  BY <1>1, <1>3, Zenon
<1> HIDE DEF m
<1>4. /\ IsInode(inode) /\ c \in Routes(inode)[m + 1] /\ c \in Seq(Hops) /\ Len(c) = m + 1
      /\ inode.map = "indirect" /\ m \in 0..3 /\ m + 1 \in 1..(MaxDepth + 1)
      /\ slot \in Nat \ {0} /\ slot <= Len(inode.root) /\ Len(inode.root) = NDirect + 3 /\ NDirect \in Nat
      /\ path \in Seq(Frames)
      /\ c[1].curr = slot /\ HeightOf(slot) \in 0..3 /\ c = RouteFrom(slot, path)
      /\ ChildOf(inode, c) = Pointer /\ Pointer \in Nat
      /\ Whole \in SUBSET Places(inode) /\ Listed \in SUBSET Places(inode)
      /\ (~failed => Passed(Whole, Listed, c)) /\ Behind(Listed, c, FALSE)
  BY <1>1, <1>2, Zenon DEF OnPointer
<1>5. line' \in Seq(Token)
  BY <1>1, <1>3, <1>4, IndTyped, Zenon
<1>6. Good' /\ Listed' = Listed
  BY <1>1, <1>3, Zenon DEF Good, Listed
<1>7. m + 1 <= HeightOf(slot) /\ 1 \in 1..(m + 1) /\ Len(inode.root) \in Nat
  <2>1. /\ HeightOf(slot) - m > 0 /\ HeightOf(slot) \in 0..3 /\ m \in 0..3
        /\ Len(inode.root) = NDirect + 3 /\ NDirect \in Nat
    BY <1>1, <1>h, <1>4, Zenon
  <2> QED BY <2>1
<1> HIDE DEF c
<1>8. p \in Seq(Hops) /\ Len(p) = 1 /\ p[1] = c[1] /\ (~failed => Passed(Whole, Listed, p))
  <2>1. 1 \in 1..Len(c)
    BY <1>4, <1>7, Zenon
  <2>2. ~failed => Passed(Whole, Listed, p)
    BY <1>4, <2>1, CutPassed, Zenon
  <2>3. p \in Seq(Hops) /\ Len(p) = 1 /\ p[1] = c[1]
    <3>1. c[1] \in Hops
      BY <1>4, <2>1, HopAt, Zenon
    <3> QED BY <3>1 DEF Cut
  <2> QED BY <2>2, <2>3, Zenon
<1>9. Behind(Listed, p, TRUE)
  <2>1. 1 \in 1..Len(c)
    BY <1>4, <1>7, Zenon
  <2>2. Behind(Listed, c, TRUE)
    BY <1>4, Zenon DEF Behind
  <2> QED BY <1>4, <2>1, <2>2, CutBehind, Zenon
<1>10. p \in Routes(inode)[1]
  <2>1. Shape(inode, c, m + 1)
    BY <1>4, RouteShape, Zenon
  <2> QED BY <1>7, <2>1, Zenon DEF Shape
<1>11. p = RouteFrom(slot, <<>>)
  <2> DEFINE r == RouteFrom(slot, <<>>)
  <2>1. <<>> \in Seq(Frames) /\ Len(<<>>) = 0
    OBVIOUS
  <2>2. r \in Seq(Hops) /\ Len(r) = Len(<<>>) + 1 /\ r[1] = Hop(0, slot)
    BY <1>4, <2>1, RouteFromIs, Zenon
  <2>3. c[1] = Hop(0, slot)
    BY <1>3, HereHops, Zenon DEF c
  <2> HIDE DEF r, p
  <2>4. Len(r) = 1
    BY <2>1, <2>2
  <2>5. r = p
    BY <1>8, <2>2, <2>3, <2>4
  <2> QED BY <2>5 DEF r
<1> HIDE DEF p
<1>12. ~failed' => Under(Whole, Listed, p)
  <2> SUFFICES ASSUME ~failed', NEW q \in Whole, Prefix(p, q.at) PROVE FALSE
    BY Zenon DEF Under
  <2>1. q.at[1] = p[1]
    <3>1. 1 \in 1..Len(p)
      BY <1>8
    <3> QED BY <3>1, Zenon DEF Prefix
  <2>2. SlotIntact(inode, slot)
    <3>1. SlotIntact(inode, q.at[1].curr)
      BY Zenon DEF Whole
    <3> QED BY <1>4, <1>8, <2>1, <3>1, Zenon
  <2>3. Opens(inode, c)
    BY <1>1, <1>4, <1>7, <2>2, Zenon DEF SlotIntact
  <2>4. Pointer \in DOMAIN inode.disk
    BY <1>4, <2>3, Zenon DEF Opens
  <2> QED BY <1>a, <2>4
<1>13. StepFrom(<<>>, 0, p)
  <2>1. <<>> \in Seq(Frames) /\ 0 = Len(<<>>) /\ 0 \in 0..3 /\ 0 + 1 \in 1..(MaxDepth + 1) /\ 0 + 1 = 1
        /\ 0 <= HeightOf(slot)
    <3>1. HeightOf(slot) \in 0..3
      BY <1>4, Zenon
    <3> QED BY <3>1, DepthAssumption
  <2> QED BY <1>4, <1>7, <1>10, <1>11, <2>1, Zenon DEF StepFrom
<1>14. Step(<<>>)
  BY <1>1, Zenon DEF Step
<1>15. ~failed' => Passed(Whole, Listed', p) /\ Under(Whole, Listed', p)
  BY <1>a, <1>6, <1>8, <1>12, Zenon
<1>16. Behind(Listed', p, TRUE)
  BY <1>6, <1>9, Zenon
<1> QED BY <1>1, <1>a, <1>5, <1>6, <1>13, <1>14, <1>15, <1>16, NextKeeps, Zenon

LEMMA LeaveIndirectKeeps ==
    ASSUME Listing, LeaveIndirect
    PROVE  Listing'
<1> DEFINE m == Len(path)
           c == Here
           p == Cut(c, m)
<1>1. /\ walk = "slots" /\ path # <<>> /\ Top.curr > Len(Node(Top)) /\ Step(Above(path))
      /\ inode' = inode /\ walk' = walk /\ blknums' = blknums /\ places' = places
      /\ line' = line /\ failed' = failed
  BY Zenon DEF LeaveIndirect
<1>2. Typed /\ Good /\ OnSlots /\ failed' \in BOOLEAN /\ line' \in Seq(Token)
  BY <1>1, Zenon DEF Listing, Typed
<1>3. IsInode(inode) /\ NDirect \in Nat /\ inode.map = "indirect" /\ path \in Seq(Frames)
      /\ slot \in Nat \ {0} /\ m <= 3
  BY <1>1, <1>2, InodeForm DEF Typed
<1>4. m \in 1..MaxDepth /\ m \in 1..(MaxDepth + 1) /\ m \in 1..m
  <2>1. m # 0 /\ m \in Nat
    BY <1>1, <1>3
  <2>2. m <= 3
    BY <1>3, Zenon
  <2> HIDE DEF m
  <2> QED BY <2>1, <2>2, DepthAssumption
<1>5. InNode /\ (~failed => Passed(Whole, Listed, c)) /\ Behind(Listed, c, FALSE)
  <2>1. walk # "listed" /\ inode.map \in {"indirect", "xfs"}
    BY <1>1, <1>3
  <2> QED BY <1>2, <2>1, Zenon DEF OnSlots
<1>6. /\ m <= HeightOf(slot) /\ slot <= Len(inode.root)
      /\ p \in Routes(inode)[m] /\ Opens(inode, p) /\ Top.blk = ChildOf(inode, p)
  BY <1>1, <1>5, Zenon DEF InNode
<1>7. c = RouteFrom(slot, path)
  BY DEF Here, RouteFrom
<1>8. c \in Seq(Hops) /\ Len(c) = m + 1 /\ c[1] = Hop(0, slot)
      /\ \A k \in 1..m : c[k + 1] = Hop(path[k].blk, path[k].curr)
  <2> DEFINE r == RouteFrom(slot, path)
  <2>1. r \in Seq(Hops) /\ Len(r) = m + 1
    BY <1>3, RouteFromIs, Zenon
  <2>2. c[1] = Hop(0, slot) /\ \A k \in 1..m : c[k + 1] = Hop(path[k].blk, path[k].curr)
    BY <1>2, HereHops, Zenon
  <2> HIDE DEF r
  <2>3. c = r
    BY <1>7 DEF r
  <2> QED BY <2>1, <2>2, <2>3, Zenon
<1>t. Top = path[m]
  BY DEF Top
<1>f. Above(path) \in Seq(Frames) /\ Len(Above(path)) = m - 1
  BY <1>1, <1>3, FrontIs, Zenon
<1>r. RouteFrom(slot, Above(path)) = p
  BY <1>1, <1>3, <1>7, FrontRoute, Zenon
<1> HIDE DEF m, c
<1>9. c[m + 1].blk = Top.blk /\ c[m + 1].curr = Top.curr
  <2>1. c[m + 1] = Hop(Top.blk, Top.curr)
    BY <1>4, <1>8, <1>t, Zenon
  <2> QED BY <2>1 DEF Hop
<1>10. c[m + 1].curr > Len(Entries(inode, c[m + 1].blk))
  BY <1>1, <1>9, Zenon DEF Node
<1>11. Whole \in SUBSET Places(inode) /\ Listed \in SUBSET Places(inode)
  BY <1>2, ListSubset DEF Whole
<1>12. p[1] = c[1] /\ Len(p) = m /\ p \in Seq(Hops) /\ 1 \in 1..m
  <2>1. \A k \in 1..m : c[k] \in Hops
    <3>1. \A k \in 1..m : k \in 1..Len(c)
      BY <1>4, <1>8
    <3> QED BY <1>8, <3>1, HopAt, Zenon
  <2> QED BY <1>4, <2>1 DEF Cut
<1>13. \A q \in Whole : Prefix(p, q.at) => Len(q.at) > m
  <2> SUFFICES ASSUME NEW q \in Whole, Prefix(p, q.at) PROVE Len(q.at) > m
    BY Zenon
  <2>1. q.k \in DOMAIN DataAt(inode, q.at)
    BY <1>3, <1>11, PlaceForm, Zenon
  <2>2. Len(q.at) = HeightOf(q.at[1].curr) + 1
    BY <1>3, <2>1, DataDepth, Zenon
  <2>3. q.at[1] = p[1]
    BY <1>12, Zenon DEF Prefix
  <2>4. q.at[1].curr = slot
    <3>1. q.at[1] = Hop(0, slot)
      BY <1>8, <1>12, <2>3, Zenon
    <3> QED BY <3>1 DEF Hop
  <2>5. Len(q.at) = HeightOf(slot) + 1
    BY <2>2, <2>4, Zenon
  <2>6. HeightOf(slot) \in Nat
    BY <1>3 DEF HeightOf
  <2> QED BY <1>4, <1>6, <2>5, <2>6
<1>14. ~failed => Under(Whole, Listed, p)
  <2>1. c[m + 1].blk = ChildOf(inode, Cut(c, m))
    BY <1>6, <1>9, Zenon
  <2> QED BY <1>3, <1>4, <1>5, <1>6, <1>8, <1>10, <1>11, <1>13, <2>1, EndUnder, Zenon
<1>15. m \in 1..Len(c)
  BY <1>4, <1>8
<1>16. ~failed => Passed(Whole, Listed, p)
  BY <1>3, <1>5, <1>8, <1>11, <1>15, CutPassed, Zenon
<1>17. Behind(Listed, p, TRUE)
  <2>1. Behind(Listed, c, TRUE)
    BY <1>5, Zenon DEF Behind
  <2> QED BY <1>3, <1>8, <1>11, <1>15, <2>1, CutBehind, Zenon
<1>18. Good' /\ Listed' = Listed
  BY <1>1, <1>2, Zenon DEF Good, Listed
<1> HIDE DEF p
<1>19. PICK j \in 0..3 : j = m - 1 /\ j + 1 \in 1..(MaxDepth + 1) /\ j + 1 = m
  <2>1. m - 1 \in 0..3 /\ m - 1 + 1 \in 1..(MaxDepth + 1) /\ m - 1 + 1 = m
    <3>1. m <= 3 /\ m \in 1..(MaxDepth + 1)
      BY <1>3, <1>4, Zenon
    <3> HIDE DEF m
    <3> QED BY <3>1, DepthAssumption
  <2> QED BY <2>1, Zenon
<1>20. StepFrom(Above(path), j, p)
  <2>1. j <= HeightOf(slot) /\ Len(inode.root) \in Nat
    <3>1. Len(inode.root) = NDirect + 3 /\ HeightOf(slot) \in Nat
      BY <1>3 DEF IsInode, HeightOf
    <3>2. m \in 1..3 /\ m <= HeightOf(slot) /\ j = m - 1
      BY <1>3, <1>4, <1>6, <1>19
    <3>3. NDirect \in Nat
      BY <1>3, Zenon
    <3> QED BY <3>1, <3>2, <3>3
  <2> QED BY <1>3, <1>6, <1>f, <1>r, <1>19, <2>1, Zenon DEF StepFrom
<1>21. (~failed' => Passed(Whole, Listed', p) /\ Under(Whole, Listed', p))
       /\ Behind(Listed', p, TRUE)
  BY <1>1, <1>14, <1>16, <1>17, <1>18, Zenon
<1> QED BY <1>1, <1>2, <1>18, <1>20, <1>21, NextKeeps, Zenon

LEMMA IterateKeeps ==
    ASSUME Listing, Iterate
    PROVE  Listing'
<1>1. walk = "open" /\ inode.map = "indirect" /\ walk' = "slots"
      /\ inode' = inode /\ path' = path /\ slot' = slot /\ blknums' = blknums /\ line' = line
      /\ places' = places /\ failed' = failed
  BY Zenon DEF Iterate
<1>2. Typed /\ Good /\ OnSlots
  BY DEF Listing
<1>3. Typed'
  BY <1>1, <1>2, Zenon DEF Typed
<1>4. Good'
  BY <1>1, <1>2, Zenon DEF Good
<1>5. Listed' = Listed /\ Whole' = Whole /\ Here' = Here /\ (InNode' <=> InNode)
  BY <1>1, Zenon DEF Listed, Whole, Here, InNode, RouteOf, Top, Node
<1>6. walk # "listed" /\ inode.map \in {"indirect", "xfs"}
  BY <1>1
<1>7. OnSlots'
  BY <1>1, <1>2, <1>5, <1>6, Zenon DEF OnSlots
<1>8. OnExtents' /\ NoGap' /\ AllThere'
  BY <1>1, Zenon DEF OnExtents, NoGap, AllThere
<1> QED BY <1>3, <1>4, <1>7, <1>8 DEF Listing

LEMMA LsblksKeeps ==
    ASSUME Listing, Lsblks
    PROVE  Listing'
<1>1. CASE GetRoot \/ Down \/ NextSib \/ Up
  BY <1>1, ExtentsKeep, Zenon
<1>2. CASE OpenFails \/ Inline \/ GetRootEmpty \/ DownFails \/ NoNext \/ Iterated
  BY <1>2, StopsKeep, Zenon
<1>3. CASE Iterate
  BY <1>3, IterateKeeps
<1>4. CASE Sparse
  BY <1>4, SparseKeeps
<1>5. CASE DataBlock
  BY <1>5, DataBlockKeeps
<1>6. CASE ReadIndirect
  BY <1>6, ReadIndirectKeeps
<1>7. CASE BadIndirect
  BY <1>7, BadIndirectKeeps
<1>8. CASE LeaveIndirect
  BY <1>8, LeaveIndirectKeeps
<1> QED BY <1>1, <1>2, <1>3, <1>4, <1>5, <1>6, <1>7, <1>8, Zenon DEF Lsblks

-----------------------------------------------------------------------------
(* The invariant, and what it says of the finished list                    *)

LEMMA InitListing == ListInit => Listing
<1> SUFFICES ASSUME ListInit PROVE Listing
  BY Zenon
<1>1. /\ inode \in Inodes /\ walk = "open" /\ path = <<>> /\ slot = 1
      /\ blknums = <<>> /\ line = <<>> /\ places = <<>> /\ failed = FALSE
  BY Zenon DEF ListInit
<1>2. IsInode(inode) /\ inode.depth \in 0..MaxDepth /\ IsList(inode.root)
  BY <1>1, ListAssumption, Zenon DEF IsInode
<1>3. Len(inode.root) \in Nat
  BY <1>2, Zenon DEF IsList
<1>4. /\ Len(path) = 0 /\ Len(blknums) = 0 /\ Len(places) = 0 /\ 1..Len(path) = {} /\ 1..Len(blknums) = {}
      /\ path \in Seq(Frames) /\ line \in Seq(Token) /\ blknums \in Seq(Nat \union {-1})
  BY <1>1
<1>5. Len(path) <= (IF inode.map = "extents" THEN inode.depth + 1 ELSE 3)
  <2>1. \A m \in 0..MaxDepth : 0 <= m + 1
    OBVIOUS
  <2>2. Len(path) <= inode.depth + 1 /\ 0 <= 3
    BY <1>2, <1>4, <2>1
  <2> QED BY <1>4, <2>2, Zenon
<1>6. slot \in Nat \ {0} /\ ~(slot > 1) /\ slot <= Len(inode.root) + 1 /\ failed \in BOOLEAN
  <2>1. 1 \in Nat \ {0} /\ ~(1 > 1) /\ \A l \in Nat : 1 <= l + 1
    OBVIOUS
  <2> QED BY <1>1, <1>3, <2>1, Zenon
<1>7. Typed
  BY <1>1, <1>4, <1>5, <1>6, Zenon DEF Typed
<1>8. places \in Seq(Places(inode) \union {NoPlace})
  <2> DEFINE S == Places(inode) \union {NoPlace}
  <2> HIDE DEF S
  <2>1. places \in Seq(S)
    BY <1>1
  <2> QED BY <2>1, Zenon DEF S
<1>9. Good
  BY <1>4, <1>8, Zenon DEF Good, GoodList
<1>10. Listed = {}
  BY <1>1, EmptyList, Zenon DEF Listed
<1>11. OnExtents /\ AllThere
  BY <1>1, Zenon DEF OnExtents, AllThere
<1>12. NoGap
  BY <1>10, Zenon DEF NoGap, Gapless
<1>13. OnSlots
  <2>1. Here \in Seq(Hops) /\ Len(Here) = 1 /\ Here[1] = Hop(0, 1)
    BY <1>1, <1>6, HereEmpty, Zenon
  <2>2. \A q \in Places(inode) : ~Before(q.at, Here)
    BY <1>2, <2>1, NotBeforeFirst, Zenon
  <2>3. Passed(Whole, Listed, Here)
    BY <2>2, Zenon DEF Passed, Whole
  <2>4. Behind(Listed, Here, FALSE)
    BY <1>10, Zenon DEF Behind
  <2>5. InNode
    BY <1>1, Zenon DEF InNode
  <2> QED BY <1>6, <2>3, <2>4, <2>5, Zenon DEF OnSlots
<1> QED BY <1>7, <1>9, <1>11, <1>12, <1>13, Zenon DEF Listing

LEMMA InOrder == Listing => ListedInOrder
<1> SUFFICES ASSUME Listing PROVE ListedInOrder
  BY Zenon
<1>1. Blocks = {x \in 1..Len(blknums) : blknums[x] # -1}
  BY ListForm, Zenon
<1>2. \A x \in Blocks : /\ places[x] \in Places(inode)
                        /\ blknums[x] = DataAt(inode, places[x].at)[places[x].k]
  BY <1>1, Zenon DEF Listing, Good, GoodList
<1>3. \A x, y \in Blocks : x < y => Precedes(places[x], places[y])
  BY <1>1, Zenon DEF Listing, Good, GoodList
<1>4. inode.map = "extents" =>
          \A q \in Places(inode), x \in Blocks :
              Precedes(q, places[x]) => \E y \in Blocks : places[y] = q
  <2> SUFFICES ASSUME inode.map = "extents", NEW q \in Places(inode), NEW x \in Blocks,
                      Precedes(q, places[x])
               PROVE  \E y \in Blocks : places[y] = q
    BY Zenon
  <2>1. Gapless(inode, Listed) /\ places[x] \in Listed
    BY <1>1, Zenon DEF Listing, NoGap, Listed, ListedIn
  <2>2. q \in Listed
    BY <2>1, Zenon DEF Gapless
  <2> QED BY <1>1, <2>2, Zenon DEF Listed, ListedIn
<1> QED BY <1>2, <1>3, <1>4, Zenon DEF ListedInOrder

LEMMA ListedAre ==
    ASSUME Listing
    PROVE  Listed = {places[x] : x \in Blocks} /\ Listed \subseteq Places(inode)
<1>1. Blocks = {x \in 1..Len(blknums) : blknums[x] # -1}
  BY ListForm, Zenon
<1>2. GoodList(inode, blknums, places)
  BY Zenon DEF Listing, Good
<1>3. ListedIn(blknums, places) \in SUBSET Places(inode)
  BY <1>2, ListedPlaces, Zenon
<1> QED BY <1>1, <1>3, Zenon DEF Listed, ListedIn

LEMMA AllOfList == Listing => BlocksListed /\ SlotsIndependent
<1> SUFFICES ASSUME Listing PROVE BlocksListed /\ SlotsIndependent
  BY Zenon
<1>1. BlocksListed
  BY ListedAre, Zenon DEF Listing, AllThere, BlocksListed, AllListed
<1>2. SlotsIndependent
  <2> SUFFICES ASSUME walk = "listed", inode.map = "indirect", ~failed, NEW q \in Places(inode),
                      SlotIntact(inode, q.at[1].curr)
               PROVE  \E x \in Blocks : places[x] = q
    BY Zenon DEF SlotsIndependent
  <2>1. q \in Whole
    BY Zenon DEF Whole
  <2>2. q \in Listed
    BY <2>1 DEF Listing, AllThere
  <2> QED BY <2>2, ListedAre, Zenon
<1> QED BY <1>1, <1>2, Zenon

(* The cursor is within its node, or on the end of an indirect block.      *)
LEMMA CursorBound ==
    ASSUME Listing, walk # "listed", NEW k \in DOMAIN path
    PROVE  path[k].curr \in 1..(Len(Entries(inode, path[k].blk)) + 1)
<1>1. Typed /\ OnExtents /\ OnSlots
  BY Zenon DEF Listing
<1>2. IsInode(inode)
  BY <1>1, InodeForm, Zenon
<1> DEFINE m == Len(path)
           size(b) == Len(Entries(inode, b))
<1>3. /\ path \in Seq(Frames) /\ slot \in Nat \ {0} /\ Len(path) <= (IF inode.map = "extents" THEN inode.depth + 1 ELSE 3)
      /\ walk \in {"open", "extents", "slots", "listed"}
      /\ walk = "open" => path = <<>>
      /\ walk = "slots" => inode.map = "indirect"
      /\ path[k].blk \in DOMAIN inode.disk \union {0}
  <2>1. path \in Seq(Frames) /\ \A j \in 1..Len(path) : path[j].blk \in DOMAIN inode.disk \union {0}
    BY <1>1, Zenon DEF Typed
  <2>2. k \in 1..Len(path)
    BY <2>1
  <2> QED BY <1>1, <2>1, <2>2, Zenon DEF Typed
<1>4. k \in 1..m /\ m \in Nat /\ path # <<>>
  BY <1>3
<1>5. path[k].curr \in Nat \ {0}
  BY <1>3, <1>4, FrameAt, Zenon
<1>6. size(path[k].blk) \in Nat
  BY <1>2, <1>3, EntriesList, Zenon
<1>7. CASE walk = "extents"
  <2>1. m \in 1..(MaxDepth + 1) /\ RouteOf(path) \in Routes(inode)[m]
    BY <1>1, <1>7, Zenon DEF OnExtents
  <2>2. Shape(inode, RouteOf(path), m)
    BY <1>2, <2>1, RouteShape, Zenon
  <2>3. RouteOf(path)[k].blk = path[k].blk /\ RouteOf(path)[k].curr = path[k].curr
    BY <1>3, <1>4, RouteOfIs, Zenon
  <2>4. path[k].curr \in 1..size(path[k].blk)
    BY <1>4, <2>2, <2>3, Zenon DEF Shape
  <2> HIDE DEF size
  <2>5. path[k].curr \in 1..(size(path[k].blk) + 1)
    BY <1>6, <2>4
  <2> QED BY <2>5 DEF size
<1>8. CASE walk = "slots"
  <2>1. inode.map = "indirect" /\ inode.map \in {"indirect", "xfs"}
    BY <1>3, <1>8, Zenon
  <2>2. Cut(Here, m) \in Routes(inode)[m] /\ Top.curr <= Len(Node(Top)) + 1
    BY <1>1, <1>4, <1>8, <2>1, Zenon DEF OnSlots, InNode
  <2>3. m \in 1..(MaxDepth + 1)
    <3>1. m <= 3
      BY <1>3, <2>1
    <3> QED BY <1>4, <3>1, DepthAssumption
  <2>4. Shape(inode, Cut(Here, m), m)
    BY <1>2, <2>2, <2>3, RouteShape, Zenon
  <2>5. CASE k = m
    <3>1. path[k].curr <= size(path[k].blk) + 1
      BY <2>2, <2>5, Zenon DEF Top, Node
    <3> HIDE DEF size
    <3>2. path[k].curr \in 1..(size(path[k].blk) + 1)
      BY <1>5, <1>6, <3>1
    <3> QED BY <3>2 DEF size
  <2>6. CASE k # m
    <3>1. k + 1 \in 1..m
      BY <1>4, <2>6
    <3>2. Here[k + 1] = Hop(path[k].blk, path[k].curr)
      BY <1>3, <1>4, RouteFromIs, Zenon DEF Here, RouteFrom
    <3>3. Cut(Here, m)[k + 1] = Here[k + 1]
      BY <3>1 DEF Cut
    <3>4. Cut(Here, m)[k + 1].blk = path[k].blk /\ Cut(Here, m)[k + 1].curr = path[k].curr
      BY <3>2, <3>3, HopFields
    <3>5. path[k].curr \in 1..size(path[k].blk)
      BY <2>4, <3>1, <3>4, Zenon DEF Shape
    <3> HIDE DEF size
    <3>6. path[k].curr \in 1..(size(path[k].blk) + 1)
      BY <1>6, <3>5
    <3> QED BY <3>6 DEF size
  <2> QED BY <2>5, <2>6
<1> QED BY <1>3, <1>4, <1>7, <1>8, Zenon

LEMMA ListsTyped == Listing => ListTypeOK
<1> SUFFICES ASSUME Listing PROVE ListTypeOK
  BY Zenon
<1>1. Typed
  BY Zenon DEF Listing
<1>2. \A k \in DOMAIN path :
          /\ path[k].blk \in DOMAIN inode.disk \union {0}
          /\ path[k].curr \in Nat /\ path[k].visit_num \in BOOLEAN
  <2> SUFFICES ASSUME NEW k \in DOMAIN path
               PROVE  /\ path[k].blk \in DOMAIN inode.disk \union {0}
                      /\ path[k].curr \in Nat /\ path[k].visit_num \in BOOLEAN
    BY Zenon
  <2>1. path \in Seq(Frames) /\ \A j \in 1..Len(path) : path[j].blk \in DOMAIN inode.disk \union {0}
    BY <1>1, Zenon DEF Typed
  <2>2. k \in 1..Len(path) /\ path[k] \in Frames
    BY <2>1
  <2>3. path[k].curr \in Nat /\ path[k].visit_num \in BOOLEAN
    BY <2>2 DEF Frames
  <2> QED BY <2>1, <2>2, <2>3, Zenon
<1>3. \A k \in DOMAIN blknums :
          blknums[k] \in Nat \ {0} \/ (blknums[k] = -1 /\ (k = 1 \/ inode.map = "xfs"))
  <2> SUFFICES ASSUME NEW k \in 1..Len(blknums)
               PROVE  blknums[k] \in Nat \ {0} \/ (blknums[k] = -1 /\ (k = 1 \/ inode.map = "xfs"))
    BY ListForm, Zenon
  <2>1. blknums[k] \in Nat \union {-1}
    BY ListForm, Zenon
  <2>2. CASE blknums[k] = -1
    BY <2>2, Zenon DEF Listing, Good
  <2>3. CASE blknums[k] # -1
    <3>1. blknums[k] # 0
      BY <2>3, Zenon DEF Listing, Good, GoodList
    <3> QED BY <2>1, <2>3, <3>1, Zenon
  <2> QED BY <2>2, <2>3, Zenon
<1>4. \A k \in DOMAIN line : line[k].tag \in {"ETB", "IND", "data"}
  <2>1. line \in Seq(Token)
    BY <1>1, Zenon DEF Typed
  <2>2. \A k \in DOMAIN line : line[k] \in Token
    BY <2>1
  <2> QED BY <2>2 DEF Token
<1>5. Len(places) = Len(blknums)
  BY ListForm, Zenon
<1>6. \A k \in DOMAIN path :
          walk # "listed" => path[k].curr \in 1..(Len(Entries(inode, path[k].blk)) + 1)
  BY CursorBound, Zenon
<1> QED BY <1>1, <1>2, <1>3, <1>4, <1>5, <1>6, Zenon DEF Typed, ListTypeOK

=============================================================================
