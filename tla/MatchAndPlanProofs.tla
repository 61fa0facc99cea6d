------------------------- MODULE MatchAndPlanProofs -------------------------
(***************************************************************************)
(* The pure functions of the servers on every input: the META_GRID match   *)
(* is the overlap of boxes; the plans of generatePlanForEvent name servers *)
(* of its record, have one source and, where they can, even the numbers.   *)
(***************************************************************************)
EXTENDS MCOperators, FiniteSetTheorems, WellFoundedInduction, TLAPS

LEMMA OverlapMatches ==
    ASSUME NEW a \in Box, NEW b \in Box, ShareACell(a, b)
    PROVE  checkIfTriggureMetaGrid(a, b)
<1>1. PICK x \in Int, y \in Int : InBox(a, x, y) /\ InBox(b, x, y)
  BY DEF ShareACell
<1>2. a # NoGrid
  <2>1. "lbx" \in DOMAIN a /\ DOMAIN NoGrid = {"nogrid"}
    BY DEF Box, NoGrid
  <2> QED
    BY <2>1
<1> QED
  BY <1>1, <1>2 DEF InBox, checkIfTriggureMetaGrid, Box

(* The shared point of two boxes that match is the larger of the two lower *)
(* corners, coordinate by coordinate.                                      *)
LEMMA MatchOverlaps ==
    ASSUME NEW a \in Box, NEW b \in Box, WellFormed(a), WellFormed(b),
           checkIfTriggureMetaGrid(a, b)
    PROVE  ShareACell(a, b)
<1> DEFINE x == IF a.lbx >= b.lbx THEN a.lbx ELSE b.lbx
           y == IF a.lby >= b.lby THEN a.lby ELSE b.lby
<1>1. x \in Int /\ y \in Int
  BY DEF Box
<1>2. InBox(a, x, y)
  BY DEF WellFormed, checkIfTriggureMetaGrid, Box, InBox
<1>3. InBox(b, x, y)
  BY DEF WellFormed, checkIfTriggureMetaGrid, Box, InBox
<1> QED
  BY <1>1, <1>2, <1>3 DEF ShareACell

(* checkIfTriggureMetaGrid triggers a subscription exactly when its box    *)
(* and the published box have a grid point in common.                      *)
THEOREM MatchIsShareACell ==
    ASSUME NEW a \in Box, NEW b \in Box, WellFormed(a), WellFormed(b)
    PROVE  checkIfTriggureMetaGrid(a, b) <=> ShareACell(a, b)
<1> QED
  BY OverlapMatches, MatchOverlaps
-----------------------------------------------------------------------------
(* The same on the grid the run `operators` enumerates, for every MaxCoord. *)
SmallInv ==
    /\ sub \in SmallBox \cup {NoGrid}
    /\ pub \in SmallBox \cup {NoGrid}

LEMMA SmallIsBox == SmallBox \subseteq Box
  BY BoundAssumption DEF SmallBox, Box

(* A shared point of two boxes of the grid lies on the grid. *)
LEMMA SharedOnGrid ==
    ASSUME NEW a \in SmallBox, NEW b \in SmallBox
    PROVE  ShareACell(a, b) <=> \E c \in Cell : InBox(a, c[1], c[2]) /\ InBox(b, c[1], c[2])
<1>1. ASSUME ShareACell(a, b)
      PROVE  \E c \in Cell : InBox(a, c[1], c[2]) /\ InBox(b, c[1], c[2])
  <2>1. PICK x \in Int, y \in Int : InBox(a, x, y) /\ InBox(b, x, y)
    BY <1>1 DEF ShareACell
  <2>2. x \in 0 .. MaxCoord /\ y \in 0 .. MaxCoord
    BY <2>1, BoundAssumption DEF InBox, SmallBox
  <2>3. <<x, y>> \in Cell /\ <<x, y>>[1] = x /\ <<x, y>>[2] = y
    BY <2>2 DEF Cell
  <2> QED
    BY <2>1, <2>3
<1>2. ASSUME NEW c \in Cell, InBox(a, c[1], c[2]), InBox(b, c[1], c[2])
      PROVE  ShareACell(a, b)
  <2>1. c[1] \in Int /\ c[2] \in Int
    BY BoundAssumption DEF Cell
  <2> QED
    BY <1>2, <2>1 DEF ShareACell
<1> QED
  BY <1>1, <1>2

LEMMA SmallOverlap == SmallInv => MatchIsOverlap
<1> SUFFICES ASSUME SmallInv, Compared, sub # NoGrid, WellFormed(sub), WellFormed(pub)
             PROVE  checkIfTriggureMetaGrid(sub, pub) <=>
                      \E c \in Cell : InBox(sub, c[1], c[2]) /\ InBox(pub, c[1], c[2])
  BY DEF MatchIsOverlap
<1>1. sub \in SmallBox /\ pub \in SmallBox
  BY DEF SmallInv, Compared
<1>2. checkIfTriggureMetaGrid(sub, pub) <=> ShareACell(sub, pub)
  BY <1>1, SmallIsBox, MatchIsShareACell
<1> QED
  BY <1>1, <1>2, SharedOnGrid

(* Whatever box a publication brings to whatever subscription on a grid of *)
(* any size, checkIfTriggureMetaGrid decides whether the two boxes have a  *)
(* point of that grid in common.                                           *)
THEOREM MatchOnEveryGrid == Spec => []MatchIsOverlap
<1>1. Init => SmallInv
  BY DEF Init, SmallInv
<1>2. SmallInv /\ [Next]_<<sub, pub, rec>> => SmallInv'
  BY DEF SmallInv, Next, Compare, MakePlan
<1> QED
  BY <1>1, <1>2, SmallOverlap, PTL DEF Spec

-----------------------------------------------------------------------------
(* Coordinator records *)

(* What a coordinator knows of an event: servers and their numbers. *)
IsRecord(r) ==
    /\ IsFiniteSet(DOMAIN r) /\ DOMAIN r \subseteq Nat
    /\ r \in [DOMAIN r -> Nat]

(* The least number of a set. *)
LEMMA LeastNat ==
    ASSUME NEW S \in SUBSET Nat, S # {}
    PROVE  \E x \in S : \A y \in S : x <= y
<1>1. PICK x \in S : \A y \in S : ~ (<<y, x>> \in OpToRel(<, Nat))
  BY NatLessThanWellFounded, WFMin
<1>2. \A y \in S : x \in Nat /\ y \in Nat
  OBVIOUS
<1>3. \A y \in S : ~ (y < x)
  BY <1>1, <1>2, Zenon DEF OpToRel
<1> QED
  BY <1>2, <1>3

LEMMA BeforeOrder ==
    ASSUME NEW r, IsRecord(r), NEW a \in DOMAIN r, NEW b \in DOMAIN r
    PROVE  /\ ~ Before(r, a, a)
           /\ a # b => Before(r, a, b) \/ Before(r, b, a)
           /\ \A c \in DOMAIN r : Before(r, a, b) /\ Before(r, b, c) => Before(r, a, c)
<1>1. \A c \in DOMAIN r : c \in Nat /\ r[c] \in Nat
  BY DEF IsRecord
<1> QED
  BY <1>1 DEF Before

(* The place of a server is the number of servers that do not come after   *)
(* it.                                                                     *)
NotAfter(r, a) == {b \in DOMAIN r : b = a \/ Before(r, b, a)}

LEMMA PlacesGrow ==
    ASSUME NEW r, IsRecord(r), NEW a \in DOMAIN r, NEW b \in DOMAIN r
    PROVE  /\ Cardinality(NotAfter(r, a)) \in 1 .. Size(r)
           /\ Before(r, a, b) => Cardinality(NotAfter(r, a)) < Cardinality(NotAfter(r, b))
<1> DEFINE D == DOMAIN r
           A == NotAfter(r, a)
           B == NotAfter(r, b)
<1>1. IsFiniteSet(D) /\ A \subseteq D /\ B \subseteq D /\ a \in A /\ b \in B
  BY DEF IsRecord, NotAfter
<1>2. /\ IsFiniteSet(A) /\ IsFiniteSet(B) /\ Cardinality(A) \in Nat /\ Cardinality(B) \in Nat
      /\ Cardinality(A) <= Cardinality(D) /\ Cardinality(D) \in Nat
  BY <1>1, FS_Subset, FS_CardinalityType
<1>3. Cardinality(A) # 0
  BY <1>1, <1>2, FS_EmptySet
<1>4. Before(r, a, b) => A \subseteq B /\ b \notin A
  BY BeforeOrder DEF NotAfter
<1>5. Before(r, a, b) => Cardinality(A) <= Cardinality(B) /\ Cardinality(A) # Cardinality(B)
  <2> HAVE Before(r, a, b)
  <2>1. A \in SUBSET B /\ A # B
    BY <1>1, <1>4
  <2> HIDE DEF A, B
  <2> QED
    BY <1>2, <2>1, FS_Subset
<1> HIDE DEF A, B
<1> QED
  BY <1>2, <1>3, <1>5 DEF Size, A, B

(* The servers of a record can be listed as sort does. *)
LEMMA ListExists ==
    ASSUME NEW r, IsRecord(r)
    PROVE  \E list \in [1 .. Size(r) -> DOMAIN r] :
             \A i, j \in 1 .. Size(r) : i < j => Before(r, list[i], list[j])
<1> DEFINE D == DOMAIN r
           N == 1 .. Size(r)
           place == [a \in D |-> Cardinality(NotAfter(r, a))]
<1>1. IsFiniteSet(D) /\ Size(r) = Cardinality(D) /\ Size(r) \in Nat
  BY FS_CardinalityType DEF Size, IsRecord
<1>2. IsFiniteSet(N) /\ Cardinality(N) = Size(r)
  BY <1>1, FS_Interval
<1>3. place \in [D -> N]
  BY PlacesGrow
<1>4. \A a, b \in D : Before(r, a, b) => place[a] < place[b]
  BY PlacesGrow
<1> HIDE DEF place
<1>5. \A a, b \in D : place[a] = place[b] => a = b
  <2> SUFFICES ASSUME NEW a \in D, NEW b \in D, place[a] = place[b], a # b
               PROVE  FALSE
    OBVIOUS
  <2>1. Before(r, a, b) \/ Before(r, b, a)
    BY BeforeOrder
  <2>2. place[a] < place[b] \/ place[b] < place[a]
    BY <1>4, <2>1
  <2> QED
    BY <1>1, <1>3, <2>2
<1>6. place \in Injection(D, N)
  BY <1>3, <1>5 DEF Injection, IsInjective
<1>7. place \in Surjection(D, N)
  BY <1>1, <1>2, <1>6, FS_Injection
<1>8. \A i \in N : \E a \in D : place[a] = i
  BY <1>7 DEF Surjection
<1> DEFINE list == [i \in N |-> CHOOSE a \in D : place[a] = i]
<1>9. list \in [N -> D] /\ \A i \in N : place[list[i]] = i
  BY <1>8
<1> HIDE DEF list
<1>10. ASSUME NEW i \in N, NEW j \in N, i < j
       PROVE  Before(r, list[i], list[j])
  <2>1. list[i] \in D /\ list[j] \in D /\ list[i] # list[j]
    BY <1>1, <1>9, <1>10
  <2>2. CASE Before(r, list[j], list[i])
    BY <1>1, <1>4, <1>9, <1>10, <2>1, <2>2
  <2> QED
    BY <2>1, <2>2, BeforeOrder
<1> QED
  BY <1>9, <1>10

LEMMA Sorted ==
    ASSUME NEW r, IsRecord(r)
    PROVE  /\ SortByMeta(r) \in [1 .. Size(r) -> DOMAIN r]
           /\ \A i, j \in 1 .. Size(r) : i < j => Before(r, SortByMeta(r)[i], SortByMeta(r)[j])
BY ListExists, Zenon DEF SortByMeta


-----------------------------------------------------------------------------
(* The walk over the list *)

(* The turns that the walk can still make from the pointers at p on. *)
TurnsLeft(r, p) == 2 * (Size(r) + 1) - p[1] - p[2]

LEMMA PointerTypes ==
    ASSUME NEW r, IsRecord(r), NEW p \in Pointers(r)
    PROVE  /\ Size(r) \in Nat /\ p[1] \in Nat /\ p[2] \in Nat
           /\ 1 <= p[1] /\ p[1] <= Size(r) + 1 /\ 1 <= p[2] /\ p[2] <= Size(r) + 1
<1>1. Size(r) \in Nat
  BY FS_CardinalityType DEF Size, IsRecord
<1> QED
  BY <1>1 DEF Pointers

(* Where the walk can go on. *)
LEMMA NextPointers ==
    ASSUME NEW r, IsRecord(r), NEW p \in Pointers(r)
    PROVE  /\ TurnsLeft(r, p) \in Nat
           /\ p[2] <= Size(r) => /\ <<p[1], p[2] + 1>> \in Pointers(r)
                                 /\ TurnsLeft(r, <<p[1], p[2] + 1>>) < TurnsLeft(r, p)
           /\ p[1] <= Size(r) => /\ <<p[1] + 1, p[2]>> \in Pointers(r)
                                 /\ TurnsLeft(r, <<p[1] + 1, p[2]>>) < TurnsLeft(r, p)
<1>1. Size(r) \in Nat
  BY FS_CardinalityType DEF Size, IsRecord
<1>2. PICK n \in Nat : n = Size(r)
  BY <1>1
<1>3. PICK a \in 1 .. n + 1, b \in 1 .. n + 1 : p = <<a, b>>
  BY <1>2 DEF Pointers
<1>4. p[1] = a /\ p[2] = b
  BY <1>3
<1>5. TurnsLeft(r, p) = 2 * (n + 1) - a - b
  BY <1>2, <1>4 DEF TurnsLeft
<1>6. /\ TurnsLeft(r, <<a, b + 1>>) = 2 * (n + 1) - a - (b + 1)
      /\ TurnsLeft(r, <<a + 1, b>>) = 2 * (n + 1) - (a + 1) - b
  BY <1>2 DEF TurnsLeft
<1>7. /\ b <= n => <<a, b + 1>> \in Pointers(r)
      /\ a <= n => <<a + 1, b>> \in Pointers(r)
  BY <1>2 DEF Pointers
<1> QED
  BY <1>1, <1>2, <1>3, <1>4, <1>5, <1>6, <1>7

(* Induction on the turns that are left. *)
LEMMA WalkInduction ==
    ASSUME NEW r, IsRecord(r), NEW Good \in SUBSET Pointers(r),
           \A p \in Pointers(r) :
               (\A q \in Pointers(r) : TurnsLeft(r, q) < TurnsLeft(r, p) => q \in Good) => p \in Good
    PROVE  Pointers(r) = Good
<1> DEFINE Bad == {p \in Pointers(r) : p \notin Good}
           S == {TurnsLeft(r, p) : p \in Bad}
<1> SUFFICES ASSUME Bad # {}
             PROVE  FALSE
  OBVIOUS
<1>1. \A p \in Pointers(r) : TurnsLeft(r, p) \in Nat
  BY NextPointers
<1>2. S \in SUBSET Nat /\ S # {}
  BY <1>1
<1>3. PICK n \in S : \A m \in S : n <= m
  BY <1>2, LeastNat
<1>4. PICK p \in Bad : TurnsLeft(r, p) = n
  BY <1>3
<1>5. \A q \in Bad : TurnsLeft(r, p) <= TurnsLeft(r, q)
  BY <1>3, <1>4
<1>6. \A q \in Pointers(r) : TurnsLeft(r, q) < TurnsLeft(r, p) => q \in Good
  BY <1>1, <1>4, <1>5
<1> QED
  BY <1>4, <1>6

(* A turn looks only at places from which fewer turns are left. *)
LEMMA TurnIsLocal ==
    ASSUME NEW r, IsRecord(r), NEW list, NEW avg, NEW p \in Pointers(r), NEW f, NEW g,
           \A q \in Pointers(r) : TurnsLeft(r, q) < TurnsLeft(r, p) => f[q] = g[q]
    PROVE  Turn(r, list, avg, f, p) = Turn(r, list, avg, g, p)
<1>1. p[2] <= Size(r) => f[<<p[1], p[2] + 1>>] = g[<<p[1], p[2] + 1>>]
  BY NextPointers
<1>2. p[1] <= Size(r) => f[<<p[1] + 1, p[2]>>] = g[<<p[1] + 1, p[2]>>]
  BY NextPointers
<1>3. Size(r) \in Nat /\ p[1] \in Nat /\ p[2] \in Nat
  BY PointerTypes
<1>4. CASE p[2] > Size(r)
  BY <1>4 DEF Turn
<1>5. CASE p[2] <= Size(r)
  <2>1. f[<<p[1], p[2] + 1>>] = g[<<p[1], p[2] + 1>>] /\ ~ (p[2] > Size(r))
    BY <1>1, <1>3, <1>5
  <2>2. CASE p[1] > Size(r)
    BY <2>1, <2>2, Zenon DEF Turn
  <2>3. CASE ~ (p[1] > Size(r))
    <3>1. f[<<p[1] + 1, p[2]>>] = g[<<p[1] + 1, p[2]>>]
      BY <1>2, <1>3, <2>3
    <3> QED
      BY <2>1, <2>3, <3>1, Zenon DEF Turn
  <2> QED
    BY <2>2, <2>3
<1> QED
  BY <1>3, <1>4, <1>5

IsWalk(r, list, avg, f) == f = [p \in Pointers(r) |-> Turn(r, list, avg, f, p)]

(* The walk of the code is defined: it ends, whatever the list. *)
LEMMA WalkExists ==
    ASSUME NEW r, IsRecord(r), NEW list, NEW avg
    PROVE  \E f : f = [p \in Pointers(r) |-> Turn(r, list, avg, f, p)]
<1> DEFINE P == Pointers(r)
           Upto(n, f) == \A p \in P : TurnsLeft(r, p) < n => f[p] = Turn(r, list, avg, f, p)
           Bad == {n \in Nat : ~ \E f : Upto(n, f)}
<1>1. \A p \in P : TurnsLeft(r, p) \in Nat
  BY NextPointers
<1>2. ASSUME NEW n \in Nat, NEW f, Upto(n, f)
      PROVE  Upto(n + 1, [p \in P |-> Turn(r, list, avg, f, p)])
  <2> DEFINE g == [p \in P |-> Turn(r, list, avg, f, p)]
  <2> SUFFICES ASSUME NEW p \in P, TurnsLeft(r, p) < n + 1
               PROVE  g[p] = Turn(r, list, avg, g, p)
    OBVIOUS
  <2>1. ASSUME NEW q \in P, TurnsLeft(r, q) < TurnsLeft(r, p)
        PROVE  f[q] = g[q]
    <3>1. TurnsLeft(r, q) < n
      BY <1>1, <2>1
    <3> QED
      BY <1>2, <3>1
  <2>2. g[p] = Turn(r, list, avg, f, p)
    OBVIOUS
  <2> HIDE DEF g
  <2>3. Turn(r, list, avg, f, p) = Turn(r, list, avg, g, p)
    BY <2>1, TurnIsLocal
  <2> QED
    BY <2>2, <2>3
<1>3. \E f : Upto(0, f)
  BY <1>1
<1> HIDE DEF Upto
<1>4. Bad = {}
  <2> SUFFICES ASSUME Bad # {}
               PROVE  FALSE
    OBVIOUS
  <2>1. PICK n \in Bad : \A m \in Bad : n <= m
    BY LeastNat
  <2>2. n # 0
    BY <1>3
  <2>3. n - 1 \in Nat /\ n - 1 \notin Bad
    BY <2>1, <2>2
  <2>4. PICK f : Upto(n - 1, f)
    BY <2>3
  <2>5. \E g : Upto((n - 1) + 1, g)
    BY <1>2, <2>3, <2>4
  <2>6. (n - 1) + 1 = n
    BY <2>1
  <2> QED
    BY <2>1, <2>5, <2>6
<1>5. PICK n \in Nat : n = 2 * (Size(r) + 1) + 1
  BY FS_CardinalityType DEF Size, IsRecord
<1>6. \A p \in P : TurnsLeft(r, p) < n
  <2> SUFFICES ASSUME NEW p \in P
               PROVE  TurnsLeft(r, p) < n
    OBVIOUS
  <2> QED
    BY <1>5, PointerTypes DEF TurnsLeft
<1>7. PICK f : Upto(n, f)
  BY <1>4
<1> DEFINE g == [p \in P |-> f[p]]
<1>8. \A p \in P : f[p] = Turn(r, list, avg, f, p)
  BY <1>6, <1>7 DEF Upto
<1>9. \A p \in P : g[p] = f[p]
  OBVIOUS
<1>10. \A p \in P : Turn(r, list, avg, f, p) = Turn(r, list, avg, g, p)
  <2> SUFFICES ASSUME NEW p \in P
               PROVE  Turn(r, list, avg, f, p) = Turn(r, list, avg, g, p)
    OBVIOUS
  <2> HIDE DEF g
  <2> QED
    BY <1>9, TurnIsLocal
<1>11. g = [p \in P |-> Turn(r, list, avg, g, p)]
  <2>1. DOMAIN g = P
    OBVIOUS
  <2> HIDE DEF g
  <2>2. \A p \in P : g[p] = Turn(r, list, avg, g, p)
    BY <1>8, <1>9, <1>10
  <2>3. g = [p \in DOMAIN g |-> g[p]]
    BY DEF g
  <2> QED
    BY <2>1, <2>2, <2>3
<1> QED
  BY <1>11, Zenon

(* What generatePlanForEvent returns. *)
LEMMA PlanIsWalk ==
    ASSUME NEW r, IsRecord(r)
    PROVE  \/ Size(r) <= 1 /\ generatePlanForEvent(r) = NoPlans(FALSE)
           \/ /\ ~ Size(r) <= 1
              /\ \E f : /\ IsWalk(r, SortByMeta(r), CeilAverage(r), f)
                        /\ generatePlanForEvent(r) = f[<<1, 2>>]
<1> DEFINE list == SortByMeta(r)
           avg == CeilAverage(r)
           f == CHOOSE g : g = [p \in Pointers(r) |-> Turn(r, list, avg, g, p)]
<1>1. IsWalk(r, list, avg, f)
  <2> HIDE DEF list, avg
  <2>1. \E g : g = [p \in Pointers(r) |-> Turn(r, list, avg, g, p)]
    BY WalkExists, Zenon
  <2>2. f = [p \in Pointers(r) |-> Turn(r, list, avg, f, p)]
    BY ONLY <2>1, Zenon DEF f
  <2> HIDE DEF f
  <2> QED
    BY <2>2, Zenon DEF IsWalk
<1>2. generatePlanForEvent(r) = IF Size(r) <= 1 THEN NoPlans(FALSE) ELSE f[<<1, 2>>]
  BY Zenon DEF generatePlanForEvent
<1> HIDE DEF list, avg, f
<1> QED
  BY <1>1, <1>2, Zenon DEF list, avg


-----------------------------------------------------------------------------
(* The total of a record *)

Some(s) == CHOOSE x \in s : TRUE

(* Sums over the subsets of D, as MapThenSumSet forms them. *)
SumStep(num, h, s) == IF s = {} THEN 0 ELSE num[Some(s)] + h[s \ {Some(s)}]
SumDefined(num, D) == \E h : h = [s \in SUBSET D |-> SumStep(num, h, s)]
IsSum(num, D, h) == h = [s \in SUBSET D |-> SumStep(num, h, s)]

LEMMA SmallerSubset ==
    ASSUME NEW D, IsFiniteSet(D), NEW s \in SUBSET D
    PROVE  /\ Cardinality(s) \in Nat
           /\ s # {} => /\ Some(s) \in s /\ s \ {Some(s)} \in SUBSET D
                        /\ Cardinality(s \ {Some(s)}) < Cardinality(s)
<1>1. IsFiniteSet(s) /\ Cardinality(s) \in Nat
  BY FS_Subset, FS_CardinalityType
<1>2. s # {} => Some(s) \in s
  BY DEF Some
<1>3. s # {} => Cardinality(s \ {Some(s)}) = Cardinality(s) - 1
  BY <1>1, <1>2, FS_RemoveElement
<1> QED
  BY <1>1, <1>2, <1>3

LEMMA SubsetInduction ==
    ASSUME NEW D, IsFiniteSet(D), NEW Good \in SUBSET (SUBSET D),
           \A s \in SUBSET D : (s = {} \/ s \ {Some(s)} \in Good) => s \in Good
    PROVE  \A s \in SUBSET D : s \in Good
<1> DEFINE Bad == {s \in SUBSET D : s \notin Good}
           S == {Cardinality(s) : s \in Bad}
<1> SUFFICES ASSUME Bad # {}
             PROVE  FALSE
  OBVIOUS
<1>1. \A s \in SUBSET D : Cardinality(s) \in Nat
  BY SmallerSubset
<1>2. S \in SUBSET Nat /\ S # {}
  BY <1>1
<1>3. PICK n \in S : \A m \in S : n <= m
  BY <1>2, LeastNat
<1>4. PICK s \in Bad : Cardinality(s) = n
  BY <1>3
<1>5. s \in SUBSET D /\ s # {} /\ s \ {Some(s)} \notin Good
  BY <1>4
<1>6. s \ {Some(s)} \in Bad /\ Cardinality(s \ {Some(s)}) < Cardinality(s)
  BY <1>5, SmallerSubset
<1>7. Cardinality(s) <= Cardinality(s \ {Some(s)})
  BY <1>3, <1>4, <1>6
<1> QED
  BY <1>1, <1>4, <1>6, <1>7

LEMMA SumExists ==
    ASSUME NEW D, IsFiniteSet(D), NEW num
    PROVE  SumDefined(num, D)
<1> DEFINE P == SUBSET D
           Upto(n, h) == \A s \in P : Cardinality(s) < n => h[s] = SumStep(num, h, s)
           Bad == {n \in Nat : ~ \E h : Upto(n, h)}
<1>1. \A s \in P : Cardinality(s) \in Nat
  BY SmallerSubset
<1>0. ASSUME NEW s \in P, NEW f, NEW g, \A t \in P : Cardinality(t) < Cardinality(s) => f[t] = g[t]
      PROVE  SumStep(num, f, s) = SumStep(num, g, s)
  <2>1. CASE s = {}
    BY <2>1 DEF SumStep
  <2>2. CASE s # {}
    <3>1. f[s \ {Some(s)}] = g[s \ {Some(s)}]
      BY <1>0, <2>2, SmallerSubset
    <3> QED
      BY <2>2, <3>1, Zenon DEF SumStep
  <2> QED
    BY <2>1, <2>2
<1>2. ASSUME NEW n \in Nat, NEW f, Upto(n, f)
      PROVE  Upto(n + 1, [s \in P |-> SumStep(num, f, s)])
  <2> DEFINE g == [s \in P |-> SumStep(num, f, s)]
  <2> SUFFICES ASSUME NEW s \in P, Cardinality(s) < n + 1
               PROVE  g[s] = SumStep(num, g, s)
    OBVIOUS
  <2>1. ASSUME NEW t \in P, Cardinality(t) < Cardinality(s)
        PROVE  f[t] = g[t]
    <3>1. Cardinality(t) < n
      BY <1>1, <2>1
    <3> QED
      BY <1>2, <3>1
  <2>2. g[s] = SumStep(num, f, s)
    OBVIOUS
  <2> HIDE DEF g
  <2>3. SumStep(num, f, s) = SumStep(num, g, s)
    BY <1>0, <2>1
  <2> QED
    BY <2>2, <2>3
<1>3. \E f : Upto(0, f)
  BY <1>1
<1> HIDE DEF Upto
<1>4. Bad = {}
  <2> SUFFICES ASSUME Bad # {}
               PROVE  FALSE
    OBVIOUS
  <2>1. PICK n \in Bad : \A m \in Bad : n <= m
    BY LeastNat
  <2>2. n # 0
    BY <1>3
  <2>3. n - 1 \in Nat /\ n - 1 \notin Bad
    BY <2>1, <2>2
  <2>4. PICK f : Upto(n - 1, f)
    BY <2>3
  <2>5. \E g : Upto((n - 1) + 1, g)
    BY <1>2, <2>3, <2>4
  <2>6. (n - 1) + 1 = n
    BY <2>1
  <2> QED
    BY <2>1, <2>5, <2>6
<1>5. PICK n \in Nat : n = Cardinality(D) + 1
  BY FS_CardinalityType
<1>6. \A s \in P : Cardinality(s) < n
  <2> SUFFICES ASSUME NEW s \in P
               PROVE  Cardinality(s) < n
    OBVIOUS
  <2>1. Cardinality(s) <= Cardinality(D) /\ Cardinality(D) \in Nat /\ Cardinality(s) \in Nat
    BY <1>1, FS_Subset, FS_CardinalityType
  <2> QED
    BY <1>5, <2>1
<1>7. PICK f : Upto(n, f)
  BY <1>4
<1> DEFINE g == [s \in P |-> f[s]]
<1>8. \A s \in P : f[s] = SumStep(num, f, s)
  BY <1>6, <1>7 DEF Upto
<1>9. \A s \in P : g[s] = f[s]
  OBVIOUS
<1>10. \A s \in P : SumStep(num, f, s) = SumStep(num, g, s)
  <2> SUFFICES ASSUME NEW s \in P
               PROVE  SumStep(num, f, s) = SumStep(num, g, s)
    OBVIOUS
  <2> HIDE DEF g
  <2> QED
    BY <1>0, <1>9
<1>11. g = [s \in P |-> SumStep(num, g, s)]
  <2>1. DOMAIN g = P
    OBVIOUS
  <2> HIDE DEF g
  <2>2. \A s \in P : g[s] = SumStep(num, g, s)
    BY <1>8, <1>9, <1>10
  <2>3. g = [s \in DOMAIN g |-> g[s]]
    BY DEF g
  <2> QED
    BY <2>1, <2>2, <2>3
<1> QED
  BY <1>11, Zenon DEF SumDefined

LEMMA TotalIsSumOf ==
    ASSUME NEW r, IsFiniteSet(DOMAIN r)
    PROVE  \E h : IsSum(r, DOMAIN r, h) /\ Total(r) = h[DOMAIN r]
<1> DEFINE D == DOMAIN r
           f == CHOOSE h : h = [s \in SUBSET D |->
                   IF s = {} THEN 0 ELSE r[CHOOSE x \in s : TRUE] + h[s \ {CHOOSE x \in s : TRUE}]]
<1>1. Total(r) = f[D]
  BY Zenon DEF Total, MapThenSumSet, MapThenFoldSet
<1>2. \E h : h = [s \in SUBSET D |-> SumStep(r, h, s)]
  <2>1. SumDefined(r, D)
    BY SumExists
  <2> QED
    BY <2>1, Zenon DEF SumDefined
<1>3. \E h : h = [s \in SUBSET D |->
                   IF s = {} THEN 0 ELSE r[CHOOSE x \in s : TRUE] + h[s \ {CHOOSE x \in s : TRUE}]]
  BY <1>2, Zenon DEF SumStep, Some
<1>4. f = [s \in SUBSET D |->
             IF s = {} THEN 0 ELSE r[CHOOSE x \in s : TRUE] + f[s \ {CHOOSE x \in s : TRUE}]]
  BY ONLY <1>3, Zenon DEF f
<1> HIDE DEF f
<1>5. IsSum(r, D, f)
  BY <1>4, Zenon DEF IsSum, SumStep, Some
<1> QED
  BY <1>1, <1>5, Zenon

LEMMA TotalIsSum ==
    ASSUME NEW r, IsRecord(r)
    PROVE  \E h : IsSum(r, DOMAIN r, h) /\ Total(r) = h[DOMAIN r]
<1>1. IsFiniteSet(DOMAIN r)
  BY DEF IsRecord
<1> QED
  BY <1>1, TotalIsSumOf


LEMMA TotalType ==
    ASSUME NEW r, IsRecord(r)
    PROVE  Total(r) \in Nat
<1> DEFINE D == DOMAIN r
<1>1. PICK h : IsSum(r, D, h) /\ Total(r) = h[D]
  BY TotalIsSum, Zenon
<1>2. \A s \in SUBSET D : h[s] = IF s = {} THEN 0 ELSE r[Some(s)] + h[s \ {Some(s)}]
  BY <1>1 DEF IsSum, SumStep
<1>3. IsFiniteSet(D) /\ \A a \in D : r[a] \in Nat
  BY DEF IsRecord
<1> DEFINE Good == {s \in SUBSET D : h[s] \in Nat}
<1>4. ASSUME NEW s \in SUBSET D, s = {} \/ s \ {Some(s)} \in Good
      PROVE  s \in Good
  <2>1. CASE s = {}
    <3>1. h[s] = 0
      BY <1>2, <2>1
    <3> QED
      BY <3>1
  <2>2. CASE s # {}
    <3>1. Some(s) \in s
      BY <1>3, <2>2, SmallerSubset
    <3>2. r[Some(s)] \in Nat /\ h[s \ {Some(s)}] \in Nat
      BY <1>3, <1>4, <2>2, <3>1
    <3>3. h[s] = r[Some(s)] + h[s \ {Some(s)}]
      BY <1>2, <2>2
    <3> QED
      BY <3>2, <3>3
  <2> QED
    BY <2>1, <2>2
<1>5. \A s \in SUBSET D : s \in Good
  <2>1. Good \in SUBSET (SUBSET D)
    OBVIOUS
  <2> HIDE DEF Good, D
  <2> QED
    BY <1>3, <1>4, <2>1, SubsetInduction
<1> QED
  BY <1>1, <1>5

LEMMA AverageType ==
    ASSUME NEW r, IsRecord(r), Size(r) # 0
    PROVE  CeilAverage(r) \in Int
<1>1. Total(r) \in Nat /\ Size(r) \in Nat \ {0}
  BY TotalType, FS_CardinalityType DEF Size, IsRecord
<1>2. PICK t \in Nat, n \in Nat \ {0} : t = Total(r) /\ n = Size(r)
  BY <1>1
<1>3. (t + n - 1) \div n \in Int
  OBVIOUS
<1> QED
  BY <1>2, <1>3 DEF CeilAverage

-----------------------------------------------------------------------------
(* Plans between servers of the record. *)
PlansOf(r) == [srcAddr : DOMAIN r, destAddr : DOMAIN r, moveNumber : Int]

(* What a walk returns. *)
IsResult(r, x) ==
    x = [plans |-> x.plans, overrun |-> x.overrun] /\ x.plans \in Seq(PlansOf(r)) /\ x.overrun \in BOOLEAN

LEMMA PlanAdded ==
    ASSUME NEW r, NEW x, IsResult(r, x), NEW plan \in PlansOf(r)
    PROVE  /\ IsResult(r, AddPlan(plan, x))
           /\ AddPlan(plan, x).overrun = x.overrun
           /\ Len(AddPlan(plan, x).plans) = Len(x.plans) + 1
           /\ AddPlan(plan, x).plans[1] = plan
           /\ \A i \in 1 .. Len(x.plans) : AddPlan(plan, x).plans[i + 1] = x.plans[i]
<1>1. PICK s \in Seq(PlansOf(r)), o \in BOOLEAN : s = x.plans /\ o = x.overrun
  BY DEF IsResult
<1>2. /\ <<plan>> \o s \in Seq(PlansOf(r)) /\ Len(<<plan>> \o s) = Len(s) + 1
      /\ (<<plan>> \o s)[1] = plan /\ \A i \in 1 .. Len(s) : (<<plan>> \o s)[i + 1] = s[i]
  OBVIOUS
<1>3. AddPlan(plan, x).plans = <<plan>> \o s /\ AddPlan(plan, x).overrun = o
  BY <1>1 DEF AddPlan
<1>4. IsResult(r, AddPlan(plan, x))
  BY <1>1, <1>2, <1>3 DEF IsResult, AddPlan
<1> QED
  BY <1>1, <1>2, <1>3, <1>4

LEMMA WalkResult ==
    ASSUME NEW r, IsRecord(r), Size(r) # 0, NEW f,
           IsWalk(r, SortByMeta(r), CeilAverage(r), f)
    PROVE  \A p \in Pointers(r) : IsResult(r, f[p])
<1> DEFINE list == SortByMeta(r)
           avg == CeilAverage(r)
           Good == {p \in Pointers(r) : IsResult(r, f[p])}
<1>1. \A p \in Pointers(r) : f[p] = Turn(r, list, avg, f, p)
  BY DEF IsWalk
<1>2. list \in [1 .. Size(r) -> DOMAIN r] /\ avg \in Int /\ \A a \in DOMAIN r : r[a] \in Int
  BY Sorted, AverageType DEF IsRecord
<1>3. \A b \in BOOLEAN : IsResult(r, NoPlans(b))
  BY DEF IsResult, NoPlans
<1> HIDE DEF list, avg
<1>4. ASSUME NEW p \in Pointers(r),
             \A q \in Pointers(r) : TurnsLeft(r, q) < TurnsLeft(r, p) => q \in Good
      PROVE  p \in Good
  <2>1. /\ Size(r) \in Nat /\ p[1] \in Nat /\ p[2] \in Nat /\ 1 <= p[1] /\ 1 <= p[2]
    BY PointerTypes
  <2> DEFINE right == f[<<p[1], p[2] + 1>>]
             down == f[<<p[1] + 1, p[2]>>]
  <2>2. p[2] <= Size(r) => IsResult(r, right)
    BY <1>4, NextPointers
  <2>3. p[1] <= Size(r) => IsResult(r, down)
    BY <1>4, NextPointers
  <2>4. CASE p[2] > Size(r)
    <3>1. f[p] = NoPlans(FALSE)
      BY <1>1, <2>4 DEF Turn
    <3> QED
      BY <1>3, <3>1
  <2>5. CASE ~ (p[2] > Size(r)) /\ r[list[p[2]]] >= avg
    <3>1. f[p] = right
      BY <1>1, <2>5 DEF Turn
    <3> QED
      BY <2>1, <2>2, <2>5, <3>1
  <2>6. CASE ~ (p[2] > Size(r)) /\ ~ (r[list[p[2]]] >= avg) /\ p[1] > Size(r)
    <3>1. f[p] = NoPlans(TRUE)
      BY <1>1, <2>6 DEF Turn
    <3> QED
      BY <1>3, <3>1
  <2>7. CASE ~ (p[2] > Size(r)) /\ ~ (r[list[p[2]]] >= avg) /\ ~ (p[1] > Size(r))
    <3> DEFINE src == list[p[1]]
               dst == list[p[2]]
    <3>1. src \in DOMAIN r /\ dst \in DOMAIN r
      BY <1>2, <2>1, <2>7
    <3>2. /\ Plan(src, dst, avg - r[dst]) \in PlansOf(r)
          /\ Plan(src, dst, r[src] - avg) \in PlansOf(r)
      BY <1>2, <3>1 DEF Plan, PlansOf
    <3>3. IsResult(r, right) /\ IsResult(r, down)
      BY <2>1, <2>2, <2>3, <2>7
    <3>4. \/ f[p] = AddPlan(Plan(src, dst, avg - r[dst]), right)
          \/ f[p] = AddPlan(Plan(src, dst, r[src] - avg), down)
      BY <1>1, <2>7, Zenon DEF Turn
    <3> HIDE DEF src, dst, right, down
    <3>5. IsResult(r, f[p])
      BY <3>2, <3>3, <3>4, PlanAdded
    <3> QED
      BY <3>5
  <2> QED
    BY <2>4, <2>5, <2>6, <2>7
<1>5. Pointers(r) = Good
  <2>1. Good \in SUBSET Pointers(r)
    OBVIOUS
  <2> HIDE DEF Good
  <2> QED
    BY <1>4, <2>1, WalkInduction
<1> QED
  BY <1>5

(* generatePlanForEvent names servers of its record only, also when it     *)
(* runs past the end of its list.                                          *)
LEMMA PlansNameServers ==
    ASSUME NEW r, IsRecord(r)
    PROVE  IsResult(r, generatePlanForEvent(r))
<1>1. CASE Size(r) <= 1 /\ generatePlanForEvent(r) = NoPlans(FALSE)
  BY <1>1 DEF IsResult, NoPlans
<1>2. CASE /\ ~ Size(r) <= 1
           /\ \E f : /\ IsWalk(r, SortByMeta(r), CeilAverage(r), f)
                     /\ generatePlanForEvent(r) = f[<<1, 2>>]
  <2>1. PICK f : /\ IsWalk(r, SortByMeta(r), CeilAverage(r), f)
                 /\ generatePlanForEvent(r) = f[<<1, 2>>]
    BY <1>2
  <2>2. Size(r) \in Nat /\ Size(r) # 0
    BY <1>2, FS_CardinalityType DEF Size, IsRecord
  <2>3. <<1, 2>> \in Pointers(r)
    BY <1>2, <2>2 DEF Pointers
  <2>4. IsResult(r, f[<<1, 2>>])
    BY <2>1, <2>2, <2>3, WalkResult
  <2> QED
    BY <2>1, <2>4
<1> QED
  BY <1>1, <1>2, PlanIsWalk


-----------------------------------------------------------------------------
(* Who gives to whom *)

(* The list holds every server once, with falling numbers. *)
LEMMA ListOrder ==
    ASSUME NEW r, IsRecord(r)
    PROVE  LET list == SortByMeta(r)
           IN /\ list \in [1 .. Size(r) -> DOMAIN r]
              /\ \A i, j \in 1 .. Size(r) : i < j => r[list[i]] >= r[list[j]] /\ list[i] # list[j]
              /\ \A a \in DOMAIN r : \E i \in 1 .. Size(r) : list[i] = a
<1> DEFINE list == SortByMeta(r)
           D == DOMAIN r
           N == 1 .. Size(r)
<1>1. /\ list \in [N -> D]
      /\ \A i, j \in N : i < j => Before(r, list[i], list[j])
  BY Sorted
<1>2. IsFiniteSet(D) /\ \A a \in D : r[a] \in Nat /\ a \in Nat
  BY DEF IsRecord
<1>3. Size(r) \in Nat /\ Size(r) = Cardinality(D) /\ IsFiniteSet(N) /\ Cardinality(N) = Cardinality(D)
  BY <1>2, FS_CardinalityType, FS_Interval DEF Size
<1> HIDE DEF list
<1>4. ASSUME NEW i \in N, NEW j \in N, i < j
      PROVE  r[list[i]] >= r[list[j]] /\ list[i] # list[j]
  <2>1. PICK a \in D, b \in D : a = list[i] /\ b = list[j]
    BY <1>1
  <2>2. Before(r, a, b) /\ r[a] \in Nat /\ r[b] \in Nat /\ a \in Nat /\ b \in Nat
    BY <1>1, <1>2, <1>4, <2>1
  <2> QED
    BY <2>1, <2>2 DEF Before
<1>5. \A i, j \in N : list[i] = list[j] => i = j
  <2> SUFFICES ASSUME NEW i \in N, NEW j \in N, list[i] = list[j], i # j
               PROVE  FALSE
    OBVIOUS
  <2>1. i < j \/ j < i
    BY <1>3
  <2> QED
    BY <1>4, <2>1
<1>6. list \in Injection(N, D)
  BY <1>1, <1>5 DEF Injection, IsInjective
<1>7. list \in Surjection(N, D)
  BY <1>2, <1>3, <1>6, FS_Injection
<1>8. \A a \in D : \E i \in N : list[i] = a
  BY <1>7 DEF Surjection
<1> QED
  BY <1>1, <1>4, <1>8 DEF list

(* The total is bounded by the largest number. *)
LEMMA TotalBound ==
    ASSUME NEW r, IsRecord(r), NEW m \in Nat, \A a \in DOMAIN r : r[a] <= m
    PROVE  Total(r) <= m * Size(r)
<1> DEFINE D == DOMAIN r
<1>1. PICK h : IsSum(r, D, h) /\ Total(r) = h[D]
  BY TotalIsSum, Zenon
<1>2. \A s \in SUBSET D : h[s] = IF s = {} THEN 0 ELSE r[Some(s)] + h[s \ {Some(s)}]
  BY <1>1 DEF IsSum, SumStep
<1>3. IsFiniteSet(D) /\ \A a \in D : r[a] \in Nat
  BY DEF IsRecord
<1> DEFINE Good == {s \in SUBSET D : h[s] \in Nat /\ h[s] <= m * Cardinality(s)}
<1>4. ASSUME NEW s \in SUBSET D, s = {} \/ s \ {Some(s)} \in Good
      PROVE  s \in Good
  <2>1. CASE s = {}
    <3>1. h[s] = 0 /\ Cardinality(s) = 0
      BY <1>2, <2>1, FS_EmptySet
    <3> QED
      BY <3>1
  <2>2. CASE s # {}
    <3>1. Some(s) \in s /\ IsFiniteSet(s) /\ Cardinality(s) \in Nat
      BY <1>3, <2>2, SmallerSubset, FS_Subset
    <3>2. PICK c \in Nat : Cardinality(s \ {Some(s)}) = c /\ Cardinality(s) = c + 1
      <4>1. Cardinality(s \ {Some(s)}) = Cardinality(s) - 1 /\ IsFiniteSet(s \ {Some(s)})
        BY <3>1, FS_RemoveElement
      <4>2. Cardinality(s \ {Some(s)}) \in Nat
        BY <4>1, FS_CardinalityType
      <4> QED
        BY <3>1, <4>1, <4>2
    <3>3. PICK x \in Nat, y \in Nat : x = r[Some(s)] /\ y = h[s \ {Some(s)}]
      BY <1>3, <1>4, <2>2, <3>1
    <3>4. x <= m /\ y <= m * c /\ h[s] = x + y
      <4>1. x <= m
        BY <3>1, <3>3
      <4>2. y <= m * c
        BY <1>4, <2>2, <3>2, <3>3
      <4>3. h[s] = x + y
        BY <1>2, <2>2, <3>3
      <4> QED
        BY <4>1, <4>2, <4>3
    <3>5. m * (c + 1) = m * c + m /\ m * c \in Nat
      OBVIOUS
    <3>6. h[s] \in Nat /\ h[s] <= m * Cardinality(s)
      BY <3>2, <3>4, <3>5
    <3> QED
      BY <3>6
  <2> QED
    BY <2>1, <2>2
<1>5. \A s \in SUBSET D : s \in Good
  <2>1. Good \in SUBSET (SUBSET D)
    OBVIOUS
  <2> HIDE DEF Good, D
  <2> QED
    BY <1>3, <1>4, <2>1, SubsetInduction
<1> QED
  BY <1>1, <1>5 DEF Size

(* Some server has at least the average: the first of the list. *)
LEMMA FirstIsAbove ==
    ASSUME NEW r, IsRecord(r), Size(r) # 0
    PROVE  r[SortByMeta(r)[1]] >= CeilAverage(r)
<1> DEFINE list == SortByMeta(r)
<1>1. Size(r) \in Nat \ {0} /\ Total(r) \in Nat
  BY TotalType, FS_CardinalityType DEF Size, IsRecord
<1>2. PICK m \in Nat : m = r[list[1]] /\ \A a \in DOMAIN r : r[a] <= m
  <2>0. 1 \in 1 .. Size(r)
    BY <1>1
  <2>1. r[list[1]] \in Nat
    BY <2>0, ListOrder DEF IsRecord
  <2>2. ASSUME NEW a \in DOMAIN r PROVE r[a] <= r[list[1]]
    <3>1. PICK i \in 1 .. Size(r) : list[i] = a
      BY ListOrder
    <3>2. CASE i = 1
      BY <2>1, <3>1, <3>2
    <3>3. CASE i # 1
      <4>1. 1 < i
        BY <1>1, <3>3
      <4>2. r[list[1]] >= r[list[i]]
        BY <2>0, <4>1, ListOrder
      <4>3. r[a] \in Nat
        BY DEF IsRecord
      <4> QED
        BY <2>1, <3>1, <4>2, <4>3
    <3> QED
      BY <3>2, <3>3
  <2> QED
    BY <2>1, <2>2
<1>3. Total(r) <= m * Size(r)
  BY <1>2, TotalBound
<1>4. PICK n \in Nat \ {0}, t \in Nat : n = Size(r) /\ t = Total(r)
  BY <1>1
<1>5. PICK q \in Int : q = CeilAverage(r) /\ q = (t + n - 1) \div n
  BY <1>4, AverageType DEF CeilAverage
<1>6. q * n <= t + n - 1
  BY <1>5
<1>7. q * n <= m * n + n - 1
  <2>1. q * n \in Int /\ m * n \in Int /\ t <= m * n
    BY <1>3, <1>4
  <2> QED
    BY <1>6, <2>1
<1>8. q <= m
  <2> SUFFICES ASSUME q >= m + 1
               PROVE  FALSE
    OBVIOUS
  <2>1. q * n >= (m + 1) * n
    <3>1. q - (m + 1) \in Nat
      OBVIOUS
    <3>2. (q - (m + 1)) * n >= 0
      BY <3>1
    <3>3. (q - (m + 1)) * n = q * n - (m + 1) * n
      OBVIOUS
    <3> QED
      BY <3>2, <3>3
  <2>2. (m + 1) * n = m * n + n
    OBVIOUS
  <2> QED
    BY <1>7, <2>1, <2>2
<1> QED
  BY <1>2, <1>5, <1>8


(* The number of the i-th server of the list, and the ways a turn goes. *)
Num(r, i) == r[SortByMeta(r)[i]]
GiveTo(r, i, k, n) == Plan(SortByMeta(r)[i], SortByMeta(r)[k], n)
Right(p) == <<p[1], p[2] + 1>>
Down(p) == <<p[1] + 1, p[2]>>

Ends(r, f, p) == p[2] = Size(r) + 1 /\ f[p] = NoPlans(FALSE)
Skips(r, f, p) == p[2] <= Size(r) /\ Num(r, p[2]) >= CeilAverage(r) /\ f[p] = f[Right(p)]
Lacks(r, p) == p[2] <= Size(r) /\ Num(r, p[2]) < CeilAverage(r)
Overruns(r, f, p) == Lacks(r, p) /\ p[1] = Size(r) + 1 /\ f[p] = NoPlans(TRUE)
Serves(r, f, p) ==
    /\ Lacks(r, p) /\ p[1] <= Size(r)
    /\ Num(r, p[1]) - CeilAverage(r) >= CeilAverage(r) - Num(r, p[2])
    /\ f[p] = AddPlan(GiveTo(r, p[1], p[2], CeilAverage(r) - Num(r, p[2])), f[Right(p)])
Passes(r, f, p) ==
    /\ Lacks(r, p) /\ p[1] <= Size(r)
    /\ Num(r, p[1]) - CeilAverage(r) < CeilAverage(r) - Num(r, p[2])
    /\ f[p] = AddPlan(GiveTo(r, p[1], p[2], Num(r, p[1]) - CeilAverage(r)), f[Down(p)])

IsPlanWalk(r, f) == IsRecord(r) /\ Size(r) # 0 /\ IsWalk(r, SortByMeta(r), CeilAverage(r), f)

LEMMA NumTypes ==
    ASSUME NEW r, IsRecord(r), Size(r) # 0
    PROVE  /\ Size(r) \in Nat /\ CeilAverage(r) \in Int
           /\ \A i \in 1 .. Size(r) : Num(r, i) \in Nat /\ Num(r, 1) >= Num(r, i)
           /\ \A i \in 1 .. Size(r) : Num(r, i) >= Num(r, Size(r))
<1>1. Size(r) \in Nat /\ CeilAverage(r) \in Int
  BY AverageType, FS_CardinalityType DEF IsRecord, Size
<1>2. ASSUME NEW i \in 1 .. Size(r) PROVE Num(r, i) \in Nat
  <2>1. SortByMeta(r)[i] \in DOMAIN r
    BY Sorted
  <2> QED
    BY <2>1 DEF IsRecord, Num
<1>3. ASSUME NEW i \in 1 .. Size(r), NEW j \in 1 .. Size(r), i < j PROVE Num(r, i) >= Num(r, j)
  BY <1>3, ListOrder DEF Num
<1>4. ASSUME NEW i \in 1 .. Size(r) PROVE Num(r, 1) >= Num(r, i) /\ Num(r, i) >= Num(r, Size(r))
  <2>1. /\ 1 \in 1 .. Size(r) /\ (i = 1 \/ 1 < i)
        /\ Size(r) \in 1 .. Size(r) /\ (i = Size(r) \/ i < Size(r))
    BY <1>1
  <2>2. Num(r, i) >= Num(r, i)
    BY <1>2
  <2> QED
    BY <1>3, <2>1, <2>2
<1> QED
  BY <1>1, <1>2, <1>4

LEMMA WalkTurn ==
    ASSUME NEW r, NEW f, IsPlanWalk(r, f), NEW p \in Pointers(r)
    PROVE  Ends(r, f, p) \/ Skips(r, f, p) \/ Overruns(r, f, p) \/ Serves(r, f, p) \/ Passes(r, f, p)
<1> DEFINE list == SortByMeta(r)
           avg == CeilAverage(r)
           i == p[1]
           k == p[2]
<1>0. IsRecord(r) /\ Size(r) # 0
  BY DEF IsPlanWalk
<1>1. f[p] = Turn(r, list, avg, f, p)
  BY DEF IsWalk, IsPlanWalk
<1>2. /\ Size(r) \in Nat /\ i \in Nat /\ k \in Nat
      /\ 1 <= i /\ i <= Size(r) + 1 /\ 1 <= k /\ k <= Size(r) + 1
  BY <1>0, PointerTypes
<1>3. avg \in Int /\ \A j \in 1 .. Size(r) : Num(r, j) \in Int
  BY <1>0, NumTypes
<1>4. CASE k > Size(r)
  <2>1. f[p] = NoPlans(FALSE)
    BY <1>1, <1>4, Zenon DEF Turn
  <2>2. k = Size(r) + 1
    BY <1>2, <1>4
  <2> QED
    BY <2>1, <2>2, Zenon DEF Ends
<1>5. CASE ~ (k > Size(r)) /\ Num(r, k) >= avg
  <2>1. f[p] = f[Right(p)]
    BY <1>1, <1>5, Zenon DEF Turn, Num, Right
  <2>2. k <= Size(r)
    BY <1>2, <1>5
  <2> QED
    BY <1>5, <2>1, <2>2, Zenon DEF Skips
<1>6. CASE ~ (k > Size(r)) /\ ~ (Num(r, k) >= avg)
  <2>1. k <= Size(r) /\ Num(r, k) \in Int
    BY <1>2, <1>3, <1>6
  <2>2. Lacks(r, p)
    BY <1>3, <1>6, <2>1 DEF Lacks
  <2>3. CASE i > Size(r)
    <3>1. f[p] = NoPlans(TRUE)
      BY <1>1, <1>6, <2>3, Zenon DEF Turn, Num
    <3>2. i = Size(r) + 1
      BY <1>2, <2>3
    <3> QED
      BY <2>2, <3>1, <3>2, Zenon DEF Overruns
  <2>4. CASE ~ (i > Size(r)) /\ Num(r, i) - avg >= avg - Num(r, k)
    <3>1. f[p] = AddPlan(GiveTo(r, i, k, avg - Num(r, k)), f[Right(p)])
      BY <1>1, <1>6, <2>4, Zenon DEF Turn, Enough, Num, Right, GiveTo
    <3>2. i <= Size(r)
      BY <1>2, <2>4
    <3> QED
      BY <2>2, <2>4, <3>1, <3>2, Zenon DEF Serves
  <2>5. CASE ~ (i > Size(r)) /\ ~ (Num(r, i) - avg >= avg - Num(r, k))
    <3>1. f[p] = AddPlan(GiveTo(r, i, k, Num(r, i) - avg), f[Down(p)])
      BY <1>1, <1>6, <2>5, Zenon DEF Turn, Enough, Num, Down, GiveTo
    <3>2. i <= Size(r) /\ Num(r, i) - avg < avg - Num(r, k)
      BY <1>2, <1>3, <2>1, <2>5
    <3> QED
      BY <2>2, <3>1, <3>2, Zenon DEF Passes
  <2> QED
    BY <2>3, <2>4, <2>5
<1> QED
  BY <1>4, <1>5, <1>6

LEMMA WalkGoesOn ==
    ASSUME NEW r, IsRecord(r), NEW p \in Pointers(r), NEW Good,
           \A q \in Pointers(r) : TurnsLeft(r, q) < TurnsLeft(r, p) => q \in Good
    PROVE  /\ p[2] <= Size(r) => Right(p) \in Good /\ Right(p)[1] = p[1] /\ Right(p)[2] = p[2] + 1
           /\ p[1] <= Size(r) => Down(p) \in Good /\ Down(p)[1] = p[1] + 1 /\ Down(p)[2] = p[2]
BY NextPointers DEF Right, Down

(* A server further down the list that the first one cannot serve: the     *)
(* walk runs past the end.                                                 *)
LEMMA WalkOverruns ==
    ASSUME NEW r, NEW f, IsPlanWalk(r, f), NEW m \in 1 .. Size(r),
           Num(r, m) < CeilAverage(r),
           Num(r, 1) - CeilAverage(r) < CeilAverage(r) - Num(r, m)
    PROVE  \A p \in Pointers(r) : p[2] <= m => f[p].overrun = TRUE
<1> DEFINE avg == CeilAverage(r)
           Good == {p \in Pointers(r) : p[2] <= m => f[p].overrun = TRUE}
<1>0. IsRecord(r) /\ Size(r) # 0
  BY DEF IsPlanWalk
<1>1. Size(r) \in Nat /\ avg \in Int /\ \A i \in 1 .. Size(r) : Num(r, i) \in Int /\ Num(r, 1) >= Num(r, i)
  BY <1>0, NumTypes
<1>3. ASSUME NEW p \in Pointers(r),
             \A q \in Pointers(r) : TurnsLeft(r, q) < TurnsLeft(r, p) => q \in Good
      PROVE  p \in Good
  <2> SUFFICES ASSUME p[2] <= m
               PROVE  f[p].overrun = TRUE
    OBVIOUS
  <2>1. p[1] \in Nat /\ p[2] \in Nat /\ 1 <= p[1] /\ 1 <= p[2] /\ p[2] <= Size(r)
    BY <1>0, <1>1, PointerTypes
  <2>0. /\ Right(p) \in Good /\ Right(p)[2] = p[2] + 1
        /\ p[1] <= Size(r) => Down(p) \in Good /\ Down(p)[2] = p[2]
    <3> HIDE DEF Good
    <3> QED
      BY <1>0, <1>3, <2>1, WalkGoesOn
  <2>2. p[2] # m => f[Right(p)].overrun = TRUE
    BY <2>0, <2>1
  <2>3. p[1] <= Size(r) => f[Down(p)].overrun = TRUE
    BY <2>0
  <2>4. CASE Ends(r, f, p)
    BY <1>1, <2>1, <2>4 DEF Ends
  <2>5. CASE Skips(r, f, p)
    <3>1. p[2] # m
      BY <1>1, <2>5 DEF Skips
    <3> QED
      BY <2>2, <2>5, <3>1 DEF Skips
  <2>6. CASE Overruns(r, f, p)
    BY <2>6 DEF NoPlans, Overruns
  <2>7. CASE Serves(r, f, p)
    <3>1. p[2] # m
      BY <1>1, <2>1, <2>7 DEF Serves
    <3>2. f[p].overrun = f[Right(p)].overrun
      BY <2>7 DEF AddPlan, Serves
    <3> QED
      BY <2>2, <3>1, <3>2
  <2>8. CASE Passes(r, f, p)
    <3>1. f[p].overrun = f[Down(p)].overrun /\ p[1] <= Size(r)
      BY <2>8 DEF AddPlan, Passes
    <3> QED
      BY <2>3, <3>1
  <2> QED
    BY <2>4, <2>5, <2>6, <2>7, <2>8, WalkTurn
<1>4. Pointers(r) = Good
  <2>1. Good \in SUBSET Pointers(r)
    OBVIOUS
  <2> HIDE DEF Good
  <2> QED
    BY <1>0, <1>3, <2>1, WalkInduction
<1> QED
  BY <1>4


(* The servers below the average from the k-th of the list on, and the     *)
(* plan that the first one brings one of them up to it.                    *)
NeedyFrom(r, k) ==
    {a \in DOMAIN r : \E i \in k .. Size(r) : SortByMeta(r)[i] = a /\ Num(r, i) < CeilAverage(r)}
Fills(r, d) == Plan(SortByMeta(r)[1], d, CeilAverage(r) - r[d])

LEMMA NeedyStep ==
    ASSUME NEW r, IsRecord(r), Size(r) # 0, NEW k \in 1 .. Size(r)
    PROVE  /\ Num(r, k) >= CeilAverage(r) => NeedyFrom(r, k) = NeedyFrom(r, k + 1)
           /\ Num(r, k) < CeilAverage(r) =>
                /\ NeedyFrom(r, k) = NeedyFrom(r, k + 1) \cup {SortByMeta(r)[k]}
                /\ SortByMeta(r)[k] \notin NeedyFrom(r, k + 1)
<1> DEFINE list == SortByMeta(r)
           avg == CeilAverage(r)
<1>1. Size(r) \in Nat /\ avg \in Int /\ \A i \in 1 .. Size(r) : Num(r, i) \in Int
  BY NumTypes
<1>2. /\ list \in [1 .. Size(r) -> DOMAIN r]
      /\ \A i, j \in 1 .. Size(r) : i < j => list[i] # list[j]
  BY ListOrder
<1>3. \A i : i \in k .. Size(r) <=> i = k \/ i \in (k + 1) .. Size(r)
  BY <1>1
<1>4. list[k] \in DOMAIN r /\ list[k] \notin NeedyFrom(r, k + 1)
  <2>1. \A i \in (k + 1) .. Size(r) : i \in 1 .. Size(r) /\ k < i
    BY <1>1
  <2> QED
    BY <1>2, <2>1 DEF NeedyFrom
<1> HIDE DEF list, avg
<1>5. ASSUME Num(r, k) >= avg PROVE NeedyFrom(r, k) = NeedyFrom(r, k + 1)
  <2>1. ~ (Num(r, k) < avg)
    BY <1>1, <1>5
  <2> QED
    BY <1>3, <2>1, Zenon DEF NeedyFrom, avg
<1>6. ASSUME Num(r, k) < avg PROVE NeedyFrom(r, k) = NeedyFrom(r, k + 1) \cup {list[k]}
  BY <1>3, <1>4, <1>6, Zenon DEF NeedyFrom, avg, list
<1> QED
  BY <1>4, <1>5, <1>6 DEF list, avg

(* A result that brings the servers from the k-th on up to the average. *)
Served(r, k, x) ==
    /\ x.overrun = FALSE
    /\ Len(x.plans) = Cardinality(NeedyFrom(r, k))
    /\ \A i \in 1 .. Len(x.plans) : \E d \in NeedyFrom(r, k) : x.plans[i] = Fills(r, d)
    /\ \A d \in NeedyFrom(r, k) : \E i \in 1 .. Len(x.plans) : x.plans[i] = Fills(r, d)

LEMMA ServedNone ==
    ASSUME NEW r, IsRecord(r)
    PROVE  Served(r, Size(r) + 1, NoPlans(FALSE))
<1>1. Size(r) \in Nat
  BY FS_CardinalityType DEF IsRecord, Size
<1>2. (Size(r) + 1) .. Size(r) = {}
  BY <1>1
<1>3. NeedyFrom(r, Size(r) + 1) = {}
  BY <1>2 DEF NeedyFrom
<1>4. Cardinality({}) = 0
  BY FS_EmptySet
<1>5. NoPlans(FALSE).overrun = FALSE /\ NoPlans(FALSE).plans = <<>>
  BY DEF NoPlans
<1>6. Len(<<>>) = 0 /\ 1 .. 0 = {}
  OBVIOUS
<1>7. Len(NoPlans(FALSE).plans) = 0
  BY ONLY <1>5, <1>6, Zenon
<1> QED
  BY ONLY <1>3, <1>4, <1>5, <1>6, <1>7, Zenon DEF Served

LEMMA ServedMore ==
    ASSUME NEW r, IsRecord(r), Size(r) # 0, NEW k \in 1 .. Size(r), Num(r, k) < CeilAverage(r),
           NEW x, IsResult(r, x), Served(r, k + 1, x)
    PROVE  Served(r, k, AddPlan(Fills(r, SortByMeta(r)[k]), x))
<1> DEFINE a == SortByMeta(r)[k]
           y == AddPlan(Fills(r, a), x)
           T == NeedyFrom(r, k + 1)
<1>1. NeedyFrom(r, k) = T \cup {a} /\ a \notin T
  BY NeedyStep
<1>2. IsFiniteSet(T) /\ Cardinality(T) \in Nat
  BY FS_Subset, FS_CardinalityType DEF NeedyFrom, IsRecord
<1>3. Cardinality(T \cup {a}) = Cardinality(T) + 1
  BY <1>1, <1>2, FS_AddElement
<1>4. Fills(r, a) \in PlansOf(r)
  <2>1. Size(r) \in Nat /\ CeilAverage(r) \in Int /\ 1 \in 1 .. Size(r)
    BY NumTypes
  <2>2. a \in DOMAIN r /\ SortByMeta(r)[1] \in DOMAIN r
    BY <2>1, ListOrder
  <2>3. CeilAverage(r) - r[a] \in Int
    BY <2>1, <2>2 DEF IsRecord
  <2> HIDE DEF a
  <2> QED
    BY <2>2, <2>3 DEF Fills, Plan, PlansOf
<1>5. /\ y.overrun = x.overrun
      /\ Len(y.plans) = Len(x.plans) + 1
      /\ y.plans[1] = Fills(r, a)
      /\ \A i \in 1 .. Len(x.plans) : y.plans[i + 1] = x.plans[i]
  <2> HIDE DEF a
  <2> QED
    BY <1>4, PlanAdded
<1>6. /\ x.overrun = FALSE
      /\ Len(x.plans) = Cardinality(T)
      /\ \A i \in 1 .. Len(x.plans) : \E d \in T : x.plans[i] = Fills(r, d)
      /\ \A d \in T : \E i \in 1 .. Len(x.plans) : x.plans[i] = Fills(r, d)
  BY DEF Served
<1> HIDE DEF a, y, T
<1>7. PICK n \in Nat : n = Len(x.plans) /\ n = Cardinality(T) /\ Len(y.plans) = n + 1
  <2>1. Len(x.plans) = Cardinality(T) /\ Len(y.plans) = Cardinality(T) + 1
    BY ONLY <1>5, <1>6, Zenon
  <2> QED
    BY ONLY <1>2, <2>1, Zenon
<1>8. \A i \in 1 .. n + 1 : i = 1 \/ \E j \in 1 .. n : i = j + 1
  <2> SUFFICES ASSUME NEW i \in 1 .. n + 1, i # 1
               PROVE  \E j \in 1 .. n : i = j + 1
    OBVIOUS
  <2>1. i - 1 \in 1 .. n /\ i = (i - 1) + 1
    OBVIOUS
  <2> QED
    BY <2>1
<1>9. \A i \in 1 .. n + 1 : \E d \in T \cup {a} : y.plans[i] = Fills(r, d)
  <2> SUFFICES ASSUME NEW i \in 1 .. n + 1
               PROVE  \E d \in T \cup {a} : y.plans[i] = Fills(r, d)
    OBVIOUS
  <2>1. CASE i = 1
    BY <1>5, <2>1
  <2>2. CASE i # 1
    <3>1. PICK j \in 1 .. n : i = j + 1
      BY <1>8, <2>2
    <3>2. PICK d \in T : x.plans[j] = Fills(r, d)
      BY <1>6, <1>7, <3>1
    <3>3. y.plans[i] = x.plans[j]
      BY <1>5, <1>7, <3>1
    <3> QED
      BY <3>2, <3>3
  <2> QED
    BY <2>1, <2>2
<1>10. \A d \in T \cup {a} : \E i \in 1 .. n + 1 : y.plans[i] = Fills(r, d)
  <2>1. 1 \in 1 .. n + 1 /\ \A j \in 1 .. n : j + 1 \in 1 .. n + 1
    OBVIOUS
  <2>2. ASSUME NEW d \in T PROVE \E i \in 1 .. n + 1 : y.plans[i] = Fills(r, d)
    <3>1. PICK j \in 1 .. n : x.plans[j] = Fills(r, d)
      BY <1>6, <1>7
    <3>2. y.plans[j + 1] = Fills(r, d)
      BY <1>5, <1>7, <3>1
    <3> QED
      BY <2>1, <3>2
  <2> QED
    BY <1>5, <2>1, <2>2
<1>11. Served(r, k, y)
  <2>1. y.overrun = FALSE /\ Len(y.plans) = Cardinality(T \cup {a})
    BY <1>3, <1>5, <1>6, <1>7
  <2> QED
    BY ONLY <1>1, <1>7, <1>9, <1>10, <2>1, Zenon DEF Served
<1> QED
  BY <1>11 DEF y, a


(* The first server serves every one below the average: the walk stays at  *)
(* it and plans for each of them once.                                     *)
LEMMA WalkServes ==
    ASSUME NEW r, NEW f, IsPlanWalk(r, f),
           \A i \in 1 .. Size(r) :
               Num(r, i) < CeilAverage(r) => Num(r, 1) - CeilAverage(r) >= CeilAverage(r) - Num(r, i)
    PROVE  \A p \in Pointers(r) : p[1] = 1 => Served(r, p[2], f[p])
<1> DEFINE avg == CeilAverage(r)
           Good == {p \in Pointers(r) : p[1] = 1 => Served(r, p[2], f[p])}
<1>0. IsRecord(r) /\ Size(r) # 0 /\ IsWalk(r, SortByMeta(r), CeilAverage(r), f)
  BY DEF IsPlanWalk
<1>1. Size(r) \in Nat /\ avg \in Int /\ \A i \in 1 .. Size(r) : Num(r, i) \in Int
  BY <1>0, NumTypes
<1>2. \A p \in Pointers(r) : IsResult(r, f[p])
  BY <1>0, WalkResult
<1>3. ASSUME NEW p \in Pointers(r),
             \A q \in Pointers(r) : TurnsLeft(r, q) < TurnsLeft(r, p) => q \in Good
      PROVE  p \in Good
  <2> SUFFICES ASSUME p[1] = 1
               PROVE  Served(r, p[2], f[p])
    OBVIOUS
  <2>1. /\ p[2] \in Nat /\ 1 <= p[2] /\ 1 <= Size(r)
        /\ p[2] <= Size(r) => p[2] \in 1 .. Size(r)
    BY <1>0, <1>1, PointerTypes
  <2>2. p[2] <= Size(r) => Right(p) \in Good /\ Right(p)[1] = p[1] /\ Right(p)[2] = p[2] + 1
    <3> HIDE DEF Good
    <3> QED
      BY <1>0, <1>3, WalkGoesOn
  <2>3. p[2] <= Size(r) => Served(r, p[2] + 1, f[Right(p)]) /\ IsResult(r, f[Right(p)])
    BY <1>2, <2>2
  <2>4. CASE Ends(r, f, p)
    BY <1>0, <2>4, ServedNone DEF Ends
  <2>5. CASE Skips(r, f, p)
    <3>1. /\ p[2] \in 1 .. Size(r) /\ Served(r, p[2] + 1, f[Right(p)])
          /\ f[p] = f[Right(p)] /\ Num(r, p[2]) >= CeilAverage(r)
      BY <2>1, <2>3, <2>5 DEF Skips
    <3>2. NeedyFrom(r, p[2]) = NeedyFrom(r, p[2] + 1)
      BY <1>0, <3>1, NeedyStep
    <3> QED
      BY ONLY <3>1, <3>2, Zenon DEF Served
  <2>6. CASE Overruns(r, f, p)
    BY <1>1, <2>1, <2>6 DEF Overruns
  <2>7. CASE Serves(r, f, p)
    <3>1. /\ p[2] \in 1 .. Size(r) /\ Served(r, p[2] + 1, f[Right(p)]) /\ IsResult(r, f[Right(p)])
          /\ Num(r, p[2]) < CeilAverage(r)
      BY <2>1, <2>3, <2>7 DEF Serves, Lacks
    <3>2. Served(r, p[2], AddPlan(Fills(r, SortByMeta(r)[p[2]]), f[Right(p)]))
      BY <1>0, <3>1, ServedMore
    <3>3. f[p] = AddPlan(GiveTo(r, p[1], p[2], CeilAverage(r) - Num(r, p[2])), f[Right(p)])
      BY <2>7 DEF Serves
    <3>4. GiveTo(r, p[1], p[2], CeilAverage(r) - Num(r, p[2])) = Fills(r, SortByMeta(r)[p[2]])
      BY Zenon DEF GiveTo, Fills, Num
    <3> QED
      BY ONLY <3>2, <3>3, <3>4, Zenon
  <2>8. CASE Passes(r, f, p)
    <3>1. /\ p[2] \in 1 .. Size(r) /\ 1 \in 1 .. Size(r) /\ Num(r, p[2]) < CeilAverage(r)
          /\ Num(r, 1) - CeilAverage(r) < CeilAverage(r) - Num(r, p[2])
      BY <1>1, <2>1, <2>8 DEF Passes, Lacks
    <3> QED
      BY <1>1, <3>1
  <2> QED
    BY <2>4, <2>5, <2>6, <2>7, <2>8, WalkTurn
<1>4. Pointers(r) = Good
  <2>1. Good \in SUBSET Pointers(r)
    OBVIOUS
  <2> HIDE DEF Good
  <2> QED
    BY <1>0, <1>3, <2>1, WalkInduction
<1> QED
  BY <1>4

(* What the run calls Needy, for any record. *)
BelowAverage(r) == {s \in DOMAIN r : r[s] < CeilAverage(r)}

LEMMA NeedyAreBelow ==
    ASSUME NEW r, IsRecord(r), BelowAverage(r) # {}
    PROVE  /\ Size(r) \in Nat /\ 2 <= Size(r)
           /\ NeedyFrom(r, 2) = BelowAverage(r)
           /\ Num(r, Size(r)) < CeilAverage(r)
<1>1. PICK a \in DOMAIN r : r[a] < CeilAverage(r)
  BY DEF BelowAverage
<1>2. PICK i \in 1 .. Size(r) : SortByMeta(r)[i] = a
  BY ListOrder
<1>3. Size(r) \in Nat /\ 1 <= Size(r) /\ Size(r) # 0
  BY <1>2, FS_CardinalityType DEF IsRecord, Size
<1>4. /\ CeilAverage(r) \in Int
      /\ \A j \in 1 .. Size(r) : Num(r, j) \in Int /\ Num(r, j) >= Num(r, Size(r))
  BY <1>3, NumTypes
<1>5. Num(r, 1) >= CeilAverage(r) /\ Num(r, i) < CeilAverage(r)
  BY <1>1, <1>2, <1>3, FirstIsAbove DEF Num
<1>6. 1 \in 1 .. Size(r) /\ Size(r) \in 1 .. Size(r)
  BY <1>3
<1>7. i # 1 /\ Num(r, Size(r)) < CeilAverage(r)
  BY <1>4, <1>5, <1>6
<1>8. 2 <= Size(r)
  BY <1>3, <1>7
<1>9. ASSUME NEW s PROVE s \in NeedyFrom(r, 2) <=> s \in BelowAverage(r)
  <2>1. ASSUME s \in NeedyFrom(r, 2) PROVE s \in BelowAverage(r)
    BY <2>1 DEF NeedyFrom, BelowAverage, Num
  <2>2. ASSUME s \in BelowAverage(r) PROVE s \in NeedyFrom(r, 2)
    <3>1. s \in DOMAIN r /\ r[s] < CeilAverage(r)
      BY <2>2 DEF BelowAverage
    <3>2. PICK j \in 1 .. Size(r) : SortByMeta(r)[j] = s
      BY <3>1, ListOrder
    <3>3. Num(r, j) < CeilAverage(r)
      BY <3>1, <3>2 DEF Num
    <3>4. j # 1
      BY <1>4, <1>5, <1>6, <3>3
    <3>5. j \in 2 .. Size(r)
      BY <1>3, <3>4
    <3> QED
      BY <3>1, <3>2, <3>3, <3>5 DEF NeedyFrom
  <2> QED
    BY <2>1, <2>2
<1>10. NeedyFrom(r, 2) = BelowAverage(r)
  BY <1>9, Zenon
<1> QED
  BY <1>3, <1>7, <1>8, <1>10


(* A plan either runs past the end, when the first of the list cannot      *)
(* serve the last, or serves everyone below the average.                   *)
LEMMA PlanServes ==
    ASSUME NEW r, IsRecord(r), BelowAverage(r) # {}
    PROVE  LET result == generatePlanForEvent(r)
               short == Num(r, 1) + Num(r, Size(r)) < 2 * CeilAverage(r)
           IN /\ short => result.overrun = TRUE
              /\ ~ short => Served(r, 2, result)
<1> DEFINE result == generatePlanForEvent(r)
           avg == CeilAverage(r)
           short == Num(r, 1) + Num(r, Size(r)) < 2 * avg
<1>1. Size(r) \in Nat /\ 2 <= Size(r) /\ Size(r) # 0 /\ Num(r, Size(r)) < avg
  BY NeedyAreBelow
<1>2. ~ (Size(r) <= 1)
  BY <1>1
<1>3. PICK f : IsWalk(r, SortByMeta(r), CeilAverage(r), f) /\ result = f[<<1, 2>>]
  BY <1>2, PlanIsWalk
<1>4. IsPlanWalk(r, f)
  BY <1>1, <1>3 DEF IsPlanWalk
<1>5. <<1, 2>> \in Pointers(r) /\ <<1, 2>>[1] = 1 /\ <<1, 2>>[2] = 2
  BY <1>1 DEF Pointers
<1>6. /\ avg \in Int /\ 1 \in 1 .. Size(r) /\ Size(r) \in 1 .. Size(r)
      /\ \A i \in 1 .. Size(r) : Num(r, i) \in Int /\ Num(r, i) >= Num(r, Size(r))
  BY <1>1, NumTypes
<1> HIDE DEF result
<1>7. ASSUME short PROVE result.overrun = TRUE
  <2>1. Num(r, 1) - avg < avg - Num(r, Size(r))
    BY <1>6, <1>7
  <2>2. \A p \in Pointers(r) : p[2] <= Size(r) => f[p].overrun = TRUE
    BY <1>1, <1>4, <1>6, <2>1, WalkOverruns
  <2> QED
    BY <1>1, <1>3, <1>5, <2>2
<1>8. ASSUME ~ short PROVE Served(r, 2, result)
  <2>1. \A i \in 1 .. Size(r) : Num(r, i) < avg => Num(r, 1) - avg >= avg - Num(r, i)
    BY <1>6, <1>8
  <2>2. \A p \in Pointers(r) : p[1] = 1 => Served(r, p[2], f[p])
    BY <1>4, <2>1, WalkServes
  <2>3. Served(r, <<1, 2>>[2], f[<<1, 2>>])
    BY <1>5, <2>2
  <2> QED
    BY ONLY <1>3, <1>5, <2>3, Zenon
<1> QED
  BY <1>7, <1>8 DEF result

(* The largest and the least number are the first and the last one's. *)
LEMMA MaxIsFirst ==
    ASSUME NEW r, IsRecord(r), Size(r) # 0
    PROVE  LET numbers == {r[s] : s \in DOMAIN r}
           IN Max(numbers) = Num(r, 1) /\ Min(numbers) = Num(r, Size(r))
<1> DEFINE S == {r[s] : s \in DOMAIN r}
<1>1. /\ Size(r) \in Nat /\ 1 \in 1 .. Size(r) /\ Size(r) \in 1 .. Size(r)
      /\ \A i \in 1 .. Size(r) :
            Num(r, i) \in Nat /\ Num(r, 1) >= Num(r, i) /\ Num(r, i) >= Num(r, Size(r))
  BY NumTypes
<1>2. \A i \in 1 .. Size(r) : Num(r, i) \in S
  BY ListOrder DEF Num
<1>3. \A y \in S : \E i \in 1 .. Size(r) : y = Num(r, i)
  <2> SUFFICES ASSUME NEW s \in DOMAIN r
               PROVE  \E i \in 1 .. Size(r) : r[s] = Num(r, i)
    OBVIOUS
  <2>1. PICK i \in 1 .. Size(r) : SortByMeta(r)[i] = s
    BY ListOrder
  <2> QED
    BY <2>1 DEF Num
<1> HIDE DEF S
<1>4. \A y \in S : y \in Nat /\ Num(r, 1) >= y /\ Num(r, Size(r)) <= y
  BY <1>1, <1>3
<1>5. /\ Num(r, 1) \in S /\ Num(r, 1) \in Nat
      /\ Num(r, Size(r)) \in S /\ Num(r, Size(r)) \in Nat
  BY <1>1, <1>2
<1>6. \A x \in S : (\A y \in S : x >= y) => x = Num(r, 1)
  BY <1>4, <1>5
<1>7. \A x \in S : (\A y \in S : x =< y) => x = Num(r, Size(r))
  BY <1>4, <1>5
<1>8. Max(S) = Num(r, 1)
  <2>1. \E x \in S : \A y \in S : x >= y
    BY <1>4, <1>5
  <2>2. Max(S) \in S /\ \A y \in S : Max(S) >= y
    BY ONLY <2>1, Zenon DEF Max
  <2> QED
    BY <1>6, <2>2
<1>9. Min(S) = Num(r, Size(r))
  <2>1. \E x \in S : \A y \in S : x =< y
    BY <1>4, <1>5
  <2>2. Min(S) \in S /\ \A y \in S : Min(S) =< y
    BY ONLY <2>1, Zenon DEF Min
  <2> QED
    BY <1>7, <2>2
<1> QED
  BY <1>8, <1>9 DEF S

(* What PlanIsOneSource says of the record of a state. *)
LEMMA OneSource ==
    ASSUME NEW r, IsRecord(r), BelowAverage(r) # {}
    PROVE  LET result == generatePlanForEvent(r)
               numbers == {r[s] : s \in DOMAIN r}
           IN /\ result.overrun <=> Max(numbers) + Min(numbers) < 2 * CeilAverage(r)
              /\ ~ result.overrun =>
                   /\ Len(result.plans) = Cardinality(BelowAverage(r))
                   /\ Range(result.plans) = {Fills(r, d) : d \in BelowAverage(r)}
<1> DEFINE result == generatePlanForEvent(r)
           numbers == {r[s] : s \in DOMAIN r}
           short == Num(r, 1) + Num(r, Size(r)) < 2 * CeilAverage(r)
<1>1. Size(r) # 0 /\ NeedyFrom(r, 2) = BelowAverage(r)
  BY NeedyAreBelow
<1>2. Max(numbers) = Num(r, 1) /\ Min(numbers) = Num(r, Size(r))
  BY <1>1, MaxIsFirst
<1>3. (short => result.overrun = TRUE) /\ (~ short => Served(r, 2, result))
  BY PlanServes
<1>4. IsResult(r, result)
  BY PlansNameServers
<1> HIDE DEF result, numbers
<1>5. ASSUME Served(r, 2, result)
      PROVE  /\ result.overrun = FALSE
             /\ Len(result.plans) = Cardinality(BelowAverage(r))
             /\ \A i \in 1 .. Len(result.plans) : \E d \in BelowAverage(r) : result.plans[i] = Fills(r, d)
             /\ \A d \in BelowAverage(r) : \E i \in 1 .. Len(result.plans) : result.plans[i] = Fills(r, d)
  BY ONLY <1>1, <1>5, Zenon DEF Served
<1>6. DOMAIN result.plans = 1 .. Len(result.plans)
  <2>1. PICK s \in Seq(PlansOf(r)) : s = result.plans
    BY <1>4 DEF IsResult
  <2> QED
    BY <2>1
<1>7. ASSUME Served(r, 2, result)
      PROVE  Range(result.plans) = {Fills(r, d) : d \in BelowAverage(r)}
  <2>1. \A y : y \in Range(result.plans) <=> y \in {Fills(r, d) : d \in BelowAverage(r)}
    BY <1>5, <1>6, <1>7 DEF Range
  <2> QED
    BY ONLY <2>1, Zenon
<1>8. result.overrun <=> short
  BY <1>3, <1>5
<1>9. ~ result.overrun => Served(r, 2, result)
  BY <1>3, <1>8
<1> QED
  BY <1>2, <1>5, <1>7, <1>8, <1>9 DEF result, numbers

(* Every record of the run is one a coordinator can hold. *)
LEMMA RunRecords == \A r \in Records : IsRecord(r)
<1> SUFFICES ASSUME NEW n \in 1 .. MaxServers, NEW r \in [1 .. n -> 0 .. MaxNumber]
             PROVE  IsRecord(r)
  BY DEF Records
<1>1. n \in Nat /\ 0 .. MaxNumber \subseteq Nat /\ DOMAIN r = 1 .. n
  BY BoundAssumption
<1>2. IsFiniteSet(1 .. n)
  BY <1>1, FS_Interval
<1> QED
  BY <1>1, <1>2 DEF IsRecord

PlanInv == rec = <<>> \/ rec \in Records

LEMMA PlanInvOneSource == PlanInv => PlanIsOneSource
<1> SUFFICES ASSUME rec \in Records, Needy # {}
             PROVE  LET result == generatePlanForEvent(rec)
                        src == SortByMeta(rec)[1]
                    IN /\ result.overrun <=> Max(Numbers) + Min(Numbers) < 2 * CeilAverage(rec)
                       /\ ~ result.overrun =>
                            /\ Len(result.plans) = Cardinality(Needy)
                            /\ Range(result.plans) =
                                 {Plan(src, d, CeilAverage(rec) - rec[d]) : d \in Needy}
  BY DEF PlanInv, PlanIsOneSource, Planned
<1>1. IsRecord(rec)
  BY RunRecords
<1>2. Needy = BelowAverage(rec) /\ Numbers = {rec[s] : s \in DOMAIN rec}
  BY DEF Needy, BelowAverage, Numbers
<1>3. PICK r : r = rec
  OBVIOUS
<1>4. LET result == generatePlanForEvent(r)
          numbers == {r[s] : s \in DOMAIN r}
      IN /\ result.overrun <=> Max(numbers) + Min(numbers) < 2 * CeilAverage(r)
         /\ ~ result.overrun =>
              /\ Len(result.plans) = Cardinality(BelowAverage(r))
              /\ Range(result.plans) = {Fills(r, d) : d \in BelowAverage(r)}
  <2>1. IsRecord(r) /\ BelowAverage(r) # {}
    BY <1>1, <1>2, <1>3
  <2> QED
    BY <2>1, OneSource
<1> QED
  BY ONLY <1>2, <1>3, <1>4, ZenonT(60) DEF Fills

(* generatePlanForEvent on records of any size and any numbers: its walk   *)
(* reads past the end of the list exactly when the most loaded server      *)
(* cannot bring the least loaded one up to the average; otherwise that one *)
(* server gives every server below the average what it lacks.              *)
THEOREM OneSourceAlways == Spec => []PlanIsOneSource
<1>1. Init => PlanInv
  BY DEF Init, PlanInv
<1>2. PlanInv /\ [Next]_<<sub, pub, rec>> => PlanInv'
  BY DEF PlanInv, Next, Compare, MakePlan
<1> QED
  BY <1>1, <1>2, PlanInvOneSource, PTL DEF Spec



-----------------------------------------------------------------------------
(* Sums of integers, independent of the order in which they are formed. *)

Sums(num, D, h) ==
    /\ IsFiniteSet(D) /\ \A a \in D : num[a] \in Int
    /\ \A s \in SUBSET D : h[s] = SumStep(num, h, s)

LEMMA SumEmpty ==
    ASSUME NEW num, NEW D, NEW h, Sums(num, D, h)
    PROVE  h[{}] = 0
BY DEF Sums, SumStep

TakesOut(num, h, s, x) == x \in s /\ num[x] \in Int /\ h[s] = num[x] + h[s \ {x}]

LEMMA SumSome ==
    ASSUME NEW num, NEW D, NEW h, Sums(num, D, h), NEW s \in SUBSET D, s # {}
    PROVE  TakesOut(num, h, s, Some(s))
<1>1. Some(s) \in s /\ s \ {Some(s)} \in SUBSET D
  BY SmallerSubset DEF Sums
<1>2. h[s] = SumStep(num, h, s)
  BY DEF Sums
<1>3. h[s] = num[Some(s)] + h[s \ {Some(s)}]
  BY <1>2 DEF SumStep
<1> QED
  BY <1>1, <1>3 DEF Sums, TakesOut

LEMMA SumType ==
    ASSUME NEW num, NEW D, NEW h, Sums(num, D, h)
    PROVE  \A s \in SUBSET D : h[s] \in Int
<1> DEFINE Good == {s \in SUBSET D : h[s] \in Int}
<1>1. ASSUME NEW s \in SUBSET D, s = {} \/ s \ {Some(s)} \in Good
      PROVE  s \in Good
  <2>1. CASE s = {}
    BY <2>1, SumEmpty
  <2>2. CASE s # {}
    <3>0. TakesOut(num, h, s, Some(s))
      BY <2>2, SumSome
    <3>1. h[s] = num[Some(s)] + h[s \ {Some(s)}] /\ num[Some(s)] \in Int
      BY <3>0 DEF TakesOut
    <3>2. h[s \ {Some(s)}] \in Int
      BY <1>1, <2>2
    <3> QED
      BY <3>1, <3>2
  <2> QED
    BY <2>1, <2>2
<1>2. Good \in SUBSET (SUBSET D) /\ IsFiniteSet(D)
  BY DEF Sums
<1>3. \A s \in SUBSET D : s \in Good
  <2> HIDE DEF Good
  <2> QED
    BY <1>1, <1>2, SubsetInduction
<1> QED
  BY <1>3

(* Any element may be taken out first. *)
LEMMA SumRemove ==
    ASSUME NEW num, NEW D, NEW h, Sums(num, D, h)
    PROVE  \A s \in SUBSET D : \A x \in s : h[s] = num[x] + h[s \ {x}]
<1> DEFINE Free(s) == \A x \in s : h[s] = num[x] + h[s \ {x}]
           Bad == {s \in SUBSET D : ~ Free(s)}
           S == {Cardinality(s) : s \in Bad}
<1> SUFFICES ASSUME Bad # {}
             PROVE  FALSE
  OBVIOUS
<1>0. IsFiniteSet(D)
  BY DEF Sums
<1>1. \A s \in SUBSET D : Cardinality(s) \in Nat
  BY <1>0, SmallerSubset
<1>2. S \in SUBSET Nat /\ S # {}
  BY <1>1
<1>3. PICK n \in S : \A m \in S : n <= m
  BY <1>2, LeastNat
<1>4. PICK s \in Bad : Cardinality(s) = n
  BY <1>3
<1>5. s \in SUBSET D
  BY <1>4
<1>6. \A x \in s : Free(s \ {x})
  <2> SUFFICES ASSUME NEW x \in s, ~ Free(s \ {x})
               PROVE  FALSE
    OBVIOUS
  <2>1. IsFiniteSet(s) /\ Cardinality(s \ {x}) = Cardinality(s) - 1
    BY <1>0, <1>5, FS_Subset, FS_RemoveElement
  <2>2. s \ {x} \in Bad
    BY <1>5
  <2>3. Cardinality(s) <= Cardinality(s \ {x})
    BY <1>3, <1>4, <2>2
  <2> QED
    BY <1>1, <1>5, <2>1, <2>3
<1>7. PICK x \in s : h[s] # num[x] + h[s \ {x}]
  BY <1>4
<1>8. PICK y \in s : h[s] = num[y] + h[s \ {y}]
  <2>1. TakesOut(num, h, s, Some(s))
    BY <1>5, <1>7, SumSome
  <2> QED
    BY <2>1 DEF TakesOut
<1>9. x # y
  BY <1>7, <1>8
<1>10. /\ h[s \ {y}] = num[x] + h[(s \ {y}) \ {x}]
       /\ h[s \ {x}] = num[y] + h[(s \ {x}) \ {y}]
  <2>1. x \in s \ {y} /\ y \in s \ {x}
    BY <1>9
  <2>2. Free(s \ {y}) /\ Free(s \ {x})
    BY <1>6
  <2> QED
    BY <2>1, <2>2
<1>11. (s \ {y}) \ {x} = (s \ {x}) \ {y} /\ (s \ {x}) \ {y} \in SUBSET D
  BY <1>5
<1>12. PICK u \in Int : u = h[(s \ {x}) \ {y}]
  BY <1>11, SumType
<1>13. PICK a \in Int, b \in Int : a = num[x] /\ b = num[y]
  BY <1>5 DEF Sums
<1>14. h[s] = b + (a + u) /\ h[s \ {x}] = b + u
  BY <1>8, <1>10, <1>11, <1>12, <1>13
<1>15. h[s] # a + (b + u)
  BY <1>7, <1>13, <1>14
<1>16. b + (a + u) = a + (b + u)
  OBVIOUS
<1> QED
  BY <1>14, <1>15, <1>16

RemovesAny(num, D, h) == \A s \in SUBSET D : \A x \in s : h[s] = num[x] + h[s \ {x}]

LEMMA SumRemovesAny ==
    ASSUME NEW num, NEW D, NEW h, Sums(num, D, h)
    PROVE  RemovesAny(num, D, h)
<1> SUFFICES ASSUME NEW s \in SUBSET D, NEW x \in s
             PROVE  h[s] = num[x] + h[s \ {x}]
  BY DEF RemovesAny
<1> QED
  BY SumRemove

(* Zeros do not matter. *)
LEMMA SumZeros ==
    ASSUME NEW num, NEW D, NEW h, Sums(num, D, h), NEW T \in SUBSET D,
           \A a \in D \ T : num[a] = 0
    PROVE  h[D] = h[T]
<1> DEFINE Good == {s \in SUBSET D : h[s] = h[s \cap T]}
<1>1. ASSUME NEW s \in SUBSET D, s = {} \/ s \ {Some(s)} \in Good
      PROVE  s \in Good
  <2>1. CASE s = {}
    <3>1. s \cap T = s
      BY <2>1
    <3> QED
      BY <3>1
  <2>2. CASE s # {}
    <3>1. PICK x \in s : x = Some(s) /\ h[s] = num[x] + h[s \ {x}] /\ h[s \ {x}] = h[(s \ {x}) \cap T]
      <4>1. TakesOut(num, h, s, Some(s))
        BY <2>2, SumSome
      <4>2. h[s \ {Some(s)}] = h[(s \ {Some(s)}) \cap T]
        BY <1>1, <2>2
      <4> QED
        BY <4>1, <4>2 DEF TakesOut
    <3>2. s \cap T \in SUBSET D
      OBVIOUS
    <3>3. CASE x \in T
      <4>1. x \in s \cap T /\ (s \ {x}) \cap T = (s \cap T) \ {x}
        BY <3>3
      <4>2. h[s \cap T] = num[x] + h[(s \cap T) \ {x}]
        BY <3>2, <4>1, SumRemove
      <4>3. h[s] = h[s \cap T]
        BY <3>1, <4>1, <4>2
      <4> QED
        BY <4>3
    <3>4. CASE x \notin T
      <4>1. num[x] = 0 /\ (s \ {x}) \cap T = s \cap T
        BY <3>4
      <4>2. h[s \cap T] \in Int
        BY <3>2, SumType
      <4>3. h[s] = 0 + h[s \cap T]
        BY <3>1, <4>1
      <4>4. h[s] = h[s \cap T]
        BY <4>2, <4>3
      <4> QED
        BY <4>4
    <3> QED
      BY <3>3, <3>4
  <2> QED
    BY <2>1, <2>2
<1>2. Good \in SUBSET (SUBSET D) /\ IsFiniteSet(D)
  BY DEF Sums
<1>3. \A s \in SUBSET D : s \in Good
  <2> HIDE DEF Good
  <2> QED
    BY <1>1, <1>2, SubsetInduction
<1>4. h[D] = h[D \cap T] /\ D \cap T = T
  BY <1>3
<1> QED
  BY <1>4


LEMMA SumPositive ==
    ASSUME NEW num, NEW D, NEW h, Sums(num, D, h), NEW T \in SUBSET D,
           \A a \in T : num[a] >= 0
    PROVE  \A s \in SUBSET T : h[s] >= 0
<1> DEFINE Good == {s \in SUBSET T : h[s] >= 0}
<1>1. ASSUME NEW s \in SUBSET T, s = {} \/ s \ {Some(s)} \in Good
      PROVE  s \in Good
  <2>1. CASE s = {}
    <3>1. h[s] = 0
      BY <2>1, SumEmpty
    <3> QED
      BY <3>1
  <2>2. CASE s # {}
    <3>0. s \in SUBSET D
      OBVIOUS
    <3>1. TakesOut(num, h, s, Some(s))
      BY <2>2, <3>0, SumSome
    <3>2. PICK x \in s : x = Some(s) /\ num[x] \in Int /\ h[s] = num[x] + h[s \ {x}]
      BY <3>1 DEF TakesOut
    <3>3. h[s \ {x}] >= 0 /\ num[x] >= 0
      BY <1>1, <2>2, <3>2
    <3>4. h[s \ {x}] \in Int
      BY <3>0, SumType
    <3>5. h[s] >= 0
      BY <3>2, <3>3, <3>4
    <3> QED
      BY <3>5
  <2> QED
    BY <2>1, <2>2
<1>2. Good \in SUBSET (SUBSET T) /\ IsFiniteSet(T)
  BY FS_Subset DEF Sums
<1>3. \A s \in SUBSET T : s \in Good
  <2> HIDE DEF Good
  <2> QED
    BY <1>1, <1>2, SubsetInduction
<1> QED
  BY <1>3

(* A sum over one set, counted on another. *)
Image(g, s) == {g[i] : i \in s}

Carries(few, C, num, D, g) ==
    /\ g \in [C -> D] /\ \A i, j \in C : g[i] = g[j] => i = j
    /\ \A i \in C : few[i] = num[g[i]]

LEMMA SumMapped ==
    ASSUME NEW few, NEW C, NEW k, Sums(few, C, k), NEW num, NEW D, NEW h, Sums(num, D, h),
           NEW g, Carries(few, C, num, D, g)
    PROVE  k[C] = h[Image(g, C)]
<1>0. /\ g \in [C -> D] /\ \A i, j \in C : g[i] = g[j] => i = j
      /\ \A i \in C : few[i] = num[g[i]]
  BY DEF Carries
<1> USE <1>0
<1> DEFINE Good == {s \in SUBSET C : k[s] = h[Image(g, s)]}
<1>1. ASSUME NEW s \in SUBSET C, s = {} \/ s \ {Some(s)} \in Good
      PROVE  s \in Good
  <2>1. CASE s = {}
    <3>1. Image(g, s) = {}
      BY <2>1 DEF Image
    <3>2. k[s] = 0 /\ h[Image(g, s)] = 0
      BY <2>1, <3>1, SumEmpty
    <3> QED
      BY <3>2
  <2>2. CASE s # {}
    <3>1. TakesOut(few, k, s, Some(s))
      BY <2>2, SumSome
    <3>2. PICK i \in s : i = Some(s) /\ k[s] = few[i] + k[s \ {i}]
      BY <3>1 DEF TakesOut
    <3>3. k[s \ {i}] = h[Image(g, s \ {i})]
      BY <1>1, <2>2, <3>2
    <3>4. Image(g, s) \in SUBSET D /\ g[i] \in Image(g, s)
      BY DEF Image
    <3>5. h[Image(g, s)] = num[g[i]] + h[Image(g, s) \ {g[i]}]
      BY <3>4, SumRemove
    <3>6. Image(g, s) \ {g[i]} = Image(g, s \ {i})
      BY DEF Image
    <3>7. k[s] = h[Image(g, s)]
      BY <3>2, <3>3, <3>5, <3>6
    <3> QED
      BY <3>7
  <2> QED
    BY <2>1, <2>2
<1>2. Good \in SUBSET (SUBSET C) /\ IsFiniteSet(C)
  BY DEF Sums
<1>3. \A s \in SUBSET C : s \in Good
  <2> HIDE DEF Good
  <2> QED
    BY <1>1, <1>2, SubsetInduction
<1> QED
  BY <1>3

(* What the servers of a set lack together. *)
Lack(r) == [d \in DOMAIN r |-> CeilAverage(r) - r[d]]

LEMMA LackIsSum ==
    ASSUME NEW r, IsRecord(r), Size(r) # 0
    PROVE  \E h : Sums(Lack(r), DOMAIN r, h) /\ h[DOMAIN r] = CeilAverage(r) * Size(r) - Total(r)
<1> DEFINE D == DOMAIN r
<1>1. IsFiniteSet(D) /\ \A a \in D : r[a] \in Nat
  BY DEF IsRecord
<1>2. PICK A \in Int : A = CeilAverage(r)
  BY AverageType
<1>3. DOMAIN Lack(r) = D /\ \A a \in D : Lack(r)[a] = A - r[a]
  BY <1>2 DEF Lack
<1>4. PICK h : IsSum(Lack(r), D, h)
  <2>1. SumDefined(Lack(r), D)
    BY <1>1, SumExists
  <2> QED
    BY <2>1, Zenon DEF SumDefined, IsSum
<1>5. Sums(Lack(r), D, h)
  <2>1. \A s \in SUBSET D : h[s] = SumStep(Lack(r), h, s)
    BY <1>4 DEF IsSum
  <2>2. \A a \in D : Lack(r)[a] \in Int
    BY <1>1, <1>3
  <2> QED
    BY <1>1, <2>1, <2>2 DEF Sums
<1>6. PICK t : IsSum(r, D, t) /\ Total(r) = t[D]
  BY TotalIsSum, Zenon
<1>7. Sums(r, D, t)
  <2>1. \A s \in SUBSET D : t[s] = SumStep(r, t, s)
    BY <1>6 DEF IsSum
  <2> QED
    BY <1>1, <2>1 DEF Sums
<1> DEFINE Good == {s \in SUBSET D : h[s] = A * Cardinality(s) - t[s]}
<1>8. ASSUME NEW s \in SUBSET D, s = {} \/ s \ {Some(s)} \in Good
      PROVE  s \in Good
  <2>1. CASE s = {}
    <3>1. h[s] = 0 /\ t[s] = 0 /\ Cardinality(s) = 0
      BY <1>5, <1>7, <2>1, SumEmpty, FS_EmptySet
    <3>2. h[s] = A * Cardinality(s) - t[s]
      BY <3>1
    <3> QED
      BY <3>2
  <2>2. CASE s # {}
    <3>1. TakesOut(Lack(r), h, s, Some(s)) /\ TakesOut(r, t, s, Some(s))
      BY <1>5, <1>7, <2>2, SumSome
    <3>2. PICK x \in s : /\ x = Some(s) /\ h[s] = Lack(r)[x] + h[s \ {x}]
                         /\ t[s] = r[x] + t[s \ {x}]
      BY <3>1 DEF TakesOut
    <3>3. PICK c \in Nat : Cardinality(s \ {x}) = c /\ Cardinality(s) = c + 1
      <4>1. IsFiniteSet(s) /\ Cardinality(s) \in Nat
        BY <1>1, FS_Subset, FS_CardinalityType
      <4>2. Cardinality(s \ {x}) = Cardinality(s) - 1 /\ IsFiniteSet(s \ {x})
        BY <4>1, FS_RemoveElement
      <4>3. Cardinality(s \ {x}) \in Nat
        BY <4>2, FS_CardinalityType
      <4> QED
        BY <4>1, <4>2, <4>3
    <3>4. h[s \ {x}] = A * c - t[s \ {x}]
      BY <1>8, <2>2, <3>2, <3>3
    <3>5. PICK u \in Int, v \in Int, w \in Int : u = r[x] /\ v = t[s \ {x}] /\ w = A * c
      <4>1. r[x] \in Int
        BY <1>1
      <4>2. t[s \ {x}] \in Int
        BY <1>7, SumType
      <4>3. A * c \in Int
        OBVIOUS
      <4> QED
        BY <4>1, <4>2, <4>3
    <3>6. h[s] = (A - u) + (w - v) /\ t[s] = u + v
      BY <1>3, <3>2, <3>4, <3>5
    <3>7. A * (c + 1) = w + A
      BY <3>5
    <3>8. h[s] = A * Cardinality(s) - t[s]
      BY <3>3, <3>6, <3>7
    <3> QED
      BY <3>8
  <2> QED
    BY <2>1, <2>2
<1>9. \A s \in SUBSET D : s \in Good
  <2>1. Good \in SUBSET (SUBSET D)
    OBVIOUS
  <2> HIDE DEF Good, D
  <2> QED
    BY <1>1, <1>8, <2>1, SubsetInduction
<1>10. h[D] = A * Cardinality(D) - t[D]
  BY <1>9
<1> QED
  BY <1>2, <1>5, <1>6, <1>10 DEF Size


(* One server alone above an average that is a whole number: what it has   *)
(* too much is what the others lack.                                       *)
OneAbove(r, a) ==
    /\ a \in DOMAIN r /\ {s \in DOMAIN r : r[s] > CeilAverage(r)} = {a}
    /\ Total(r) = Size(r) * CeilAverage(r)

LEMMA EvenLack ==
    ASSUME NEW r, IsRecord(r), NEW a, OneAbove(r, a)
    PROVE  /\ Size(r) # 0 /\ CeilAverage(r) \in Int /\ r[a] \in Nat /\ r[a] > CeilAverage(r)
           /\ \E h : /\ Sums(Lack(r), DOMAIN r, h)
                     /\ h[BelowAverage(r)] = r[a] - CeilAverage(r)
<1> DEFINE D == DOMAIN r
           Below == BelowAverage(r)
<1>1. a \in D /\ IsFiniteSet(D) /\ \A s \in D : r[s] \in Nat
  BY DEF OneAbove, IsRecord
<1>2. Size(r) \in Nat /\ Size(r) # 0
  <2>1. Cardinality(D) # 0
    BY <1>1, FS_EmptySet
  <2> QED
    BY <1>1, <2>1, FS_CardinalityType DEF Size
<1>3. PICK A \in Int : A = CeilAverage(r)
  BY <1>2, AverageType
<1>4. r[a] > A /\ \A s \in D \ {a} : r[s] <= A
  <2>1. \A s \in D : r[s] > A <=> s = a
    BY <1>3 DEF OneAbove
  <2> QED
    BY <1>1, <2>1
<1>5. PICK h : Sums(Lack(r), D, h) /\ h[D] = A * Size(r) - Total(r)
  BY <1>2, <1>3, LackIsSum
<1>6. h[D] = 0
  <2>1. PICK n \in Nat : n = Size(r)
    BY <1>2
  <2>2. Total(r) = n * A /\ h[D] = A * n - Total(r)
    BY <1>3, <1>5, <2>1 DEF OneAbove
  <2>3. A * n = n * A /\ n * A \in Int
    OBVIOUS
  <2> QED
    BY <2>2, <2>3
<1>7. Lack(r)[a] = A - r[a] /\ \A d \in D : Lack(r)[d] = A - r[d]
  BY <1>1, <1>3 DEF Lack
<1> DEFINE T == Below \cup {a}
<1>8. T \in SUBSET D /\ a \in T /\ T \ {a} = Below
  <2>1. a \notin Below
    BY <1>1, <1>3, <1>4 DEF BelowAverage
  <2> QED
    BY <1>1, <2>1 DEF BelowAverage
<1>9. \A d \in D \ T : Lack(r)[d] = 0
  <2> SUFFICES ASSUME NEW d \in D \ T
               PROVE  Lack(r)[d] = 0
    OBVIOUS
  <2>1. ~ (r[d] < A) /\ d # a
    BY <1>3 DEF BelowAverage
  <2>2. r[d] <= A /\ r[d] \in Nat
    BY <1>1, <1>4, <2>1
  <2> QED
    BY <1>7, <2>1, <2>2
<1> HIDE DEF T, Below, D
<1>10. h[T] = 0
  BY <1>5, <1>6, <1>8, <1>9, SumZeros
<1>11. h[T] = Lack(r)[a] + h[T \ {a}]
  <2>0. Sums(Lack(r), D, h)
    BY <1>5
  <2>1. RemovesAny(Lack(r), D, h)
    BY <2>0, SumRemovesAny
  <2> QED
    BY <1>8, <2>1 DEF RemovesAny
<1>12. h[Below] \in Int
  <2>1. Below \in SUBSET D
    BY <1>8
  <2> QED
    BY <1>5, <2>1, SumType
<1>13. h[Below] = r[a] - A
  <2>1. h[T \ {a}] = h[Below]
    BY <1>8
  <2>2. PICK u \in Int, v \in Int : u = h[Below] /\ v = r[a]
    BY <1>1, <1>12 DEF D
  <2>3. 0 = (A - v) + u
    BY <1>7, <1>10, <1>11, <2>1, <2>2
  <2> QED
    BY <2>2, <2>3
<1> QED
  BY <1>1, <1>2, <1>3, <1>4, <1>5, <1>13 DEF Below, D

(* So the first server of the list is that one, some server is below the   *)
(* average, and the first one can serve each of them.                      *)
LEMMA EvenServed ==
    ASSUME NEW r, IsRecord(r), NEW a, OneAbove(r, a)
    PROVE  /\ SortByMeta(r)[1] = a /\ BelowAverage(r) # {}
           /\ Num(r, 1) + Num(r, Size(r)) >= 2 * CeilAverage(r)
<1> DEFINE Below == BelowAverage(r)
           D == DOMAIN r
<1>1. Size(r) # 0 /\ r[a] \in Nat /\ r[a] > CeilAverage(r)
  BY EvenLack
<1>2. PICK A \in Int : A = CeilAverage(r)
  BY EvenLack
<1>3. PICK h : Sums(Lack(r), D, h) /\ h[Below] = r[a] - A
  BY <1>2, EvenLack
<1>4. SortByMeta(r)[1] = a
  <2>1. /\ SortByMeta(r) \in [1 .. Size(r) -> D]
        /\ \A b \in D : \E i \in 1 .. Size(r) : SortByMeta(r)[i] = b
    BY ListOrder
  <2>2. PICK i \in 1 .. Size(r) : SortByMeta(r)[i] = a
    BY <2>1 DEF OneAbove
  <2>3. Num(r, 1) >= Num(r, i) /\ Num(r, 1) \in Nat /\ 1 \in 1 .. Size(r)
    <3>1. Size(r) \in Nat
      BY <1>1, NumTypes
    <3>2. 1 \in 1 .. Size(r)
      BY <1>1, <3>1
    <3> QED
      BY <1>1, <3>2, NumTypes
  <2>4. r[SortByMeta(r)[1]] > A /\ SortByMeta(r)[1] \in D
    BY <1>1, <1>2, <2>1, <2>2, <2>3 DEF Num
  <2>5. SortByMeta(r)[1] \in {s \in D : r[s] > CeilAverage(r)}
    BY <1>2, <2>4
  <2> QED
    BY <2>5 DEF OneAbove
<1>5. Below # {}
  <2>1. h[{}] = 0
    BY <1>3, SumEmpty
  <2>2. r[a] - A # 0
    BY <1>1, <1>2
  <2> QED
    BY <1>3, <2>1, <2>2
<1>6. Size(r) \in Nat /\ 2 <= Size(r) /\ Num(r, Size(r)) < A
  BY <1>2, <1>5, NeedyAreBelow
<1>7. PICK m \in D : m = SortByMeta(r)[Size(r)]
  <2>1. SortByMeta(r) \in [1 .. Size(r) -> D] /\ Size(r) \in 1 .. Size(r)
    BY <1>6, ListOrder
  <2> QED
    BY <2>1
<1>8. m \in Below /\ r[m] \in Nat
  BY <1>2, <1>6, <1>7 DEF Num, BelowAverage, IsRecord
<1>9. h[Below] = Lack(r)[m] + h[Below \ {m}] /\ Lack(r)[m] = A - r[m]
  <2>1. Below \in SUBSET D
    BY DEF BelowAverage
  <2>2. h[Below] = Lack(r)[m] + h[Below \ {m}]
    <3>0. Sums(Lack(r), D, h)
      BY <1>3
    <3>1. RemovesAny(Lack(r), D, h)
      BY <3>0, SumRemovesAny
    <3> QED
      BY <1>8, <2>1, <3>1 DEF RemovesAny
  <2> QED
    BY <1>2, <2>2 DEF Lack
<1>10. h[Below \ {m}] >= 0 /\ h[Below \ {m}] \in Int
  <2>1. Below \in SUBSET D
    BY DEF BelowAverage
  <2>2. \A d \in Below : Lack(r)[d] >= 0
    BY <1>2 DEF BelowAverage, Lack, IsRecord
  <2>3. Below \ {m} \in SUBSET Below /\ Below \ {m} \in SUBSET D
    BY <2>1
  <2> HIDE DEF Below, D
  <2>4. h[Below \ {m}] >= 0
    BY <1>3, <2>1, <2>2, <2>3, SumPositive
  <2>5. h[Below \ {m}] \in Int
    BY <1>3, <2>3, SumType
  <2> QED
    BY <2>4, <2>5
<1>11. r[a] + r[m] >= 2 * A
  BY <1>1, <1>3, <1>8, <1>9, <1>10
<1> QED
  BY <1>2, <1>4, <1>5, <1>7, <1>11 DEF Num


(* The plans of one source, one for each server below the average. *)
PlansFor(r, a, plans, n, g) ==
    /\ n \in Nat /\ DOMAIN plans = 1 .. n /\ g \in [1 .. n -> DOMAIN r]
    /\ \A i, j \in 1 .. n : g[i] = g[j] => i = j
    /\ Image(g, 1 .. n) = BelowAverage(r)
    /\ \A i \in 1 .. n : plans[i] = Plan(a, g[i], Lack(r)[g[i]])

LEMMA EvenPlans ==
    ASSUME NEW r, IsRecord(r), NEW a, OneAbove(r, a)
    PROVE  /\ generatePlanForEvent(r).overrun = FALSE
           /\ \E n, g : PlansFor(r, a, generatePlanForEvent(r).plans, n, g)
<1> DEFINE Below == BelowAverage(r)
           D == DOMAIN r
<1>1. PICK x : x = generatePlanForEvent(r)
  OBVIOUS
<1>2. SortByMeta(r)[1] = a /\ Below # {} /\ Num(r, 1) + Num(r, Size(r)) >= 2 * CeilAverage(r)
  BY EvenServed
<1>3. Served(r, 2, x) /\ NeedyFrom(r, 2) = Below
  <2>1. NeedyFrom(r, 2) = Below /\ Size(r) \in Nat /\ 2 <= Size(r)
    BY <1>2, NeedyAreBelow
  <2>2. 1 \in 1 .. Size(r) /\ Size(r) \in 1 .. Size(r) /\ Size(r) # 0
    BY <2>1
  <2>3. Num(r, 1) \in Nat /\ Num(r, Size(r)) \in Nat /\ CeilAverage(r) \in Int
    BY <2>2, NumTypes
  <2>4. ~ (Num(r, 1) + Num(r, Size(r)) < 2 * CeilAverage(r))
    BY <1>2, <2>3
  <2>5. Served(r, 2, x)
    BY <1>1, <1>2, <2>4, PlanServes
  <2> QED
    BY <2>1, <2>5
<1>4. IsResult(r, x)
  BY <1>1, PlansNameServers
<1>5. PICK plans \in Seq(PlansOf(r)) : plans = x.plans
  BY <1>4 DEF IsResult
<1>6. PICK n \in Nat : n = Len(plans)
  BY <1>5
<1>7. /\ x.overrun = FALSE /\ n = Cardinality(Below) /\ DOMAIN plans = 1 .. n
      /\ \A i \in 1 .. n : \E d \in Below : plans[i] = Fills(r, d)
      /\ \A d \in Below : \E i \in 1 .. n : plans[i] = Fills(r, d)
  BY <1>3, <1>5, <1>6 DEF Served
<1> DEFINE g == [i \in 1 .. n |-> plans[i].destAddr]
<1>8. \A d \in D : Fills(r, d).destAddr = d /\ Fills(r, d) = Plan(a, d, Lack(r)[d])
  BY <1>2 DEF Fills, Plan, Lack
<1>9. Below \in SUBSET D /\ IsFiniteSet(Below)
  <2>1. Below \in SUBSET D /\ IsFiniteSet(D)
    BY DEF BelowAverage, IsRecord
  <2> QED
    BY <2>1, FS_Subset
<1>10. \A i \in 1 .. n : g[i] \in Below /\ plans[i] = Plan(a, g[i], Lack(r)[g[i]])
  BY <1>7, <1>8, <1>9
<1>11. \A d \in Below : \E i \in 1 .. n : g[i] = d
  BY <1>7, <1>8, <1>9
<1>12. g \in [1 .. n -> Below]
  BY <1>10
<1> HIDE DEF g, Below, D
<1>13. g \in Surjection(1 .. n, Below)
  BY <1>11, <1>12 DEF Surjection
<1>14. IsFiniteSet(1 .. n) /\ Cardinality(1 .. n) = Cardinality(Below)
  <2>1. IsFiniteSet(1 .. n) /\ Cardinality(1 .. n) = n
    BY FS_Interval
  <2> QED
    BY <1>7, <2>1
<1>15. g \in Injection(1 .. n, Below)
  BY <1>13, <1>14, FS_SurjSameCardinalityImpliesInj
<1>16. \A i, j \in 1 .. n : g[i] = g[j] => i = j
  BY <1>12, <1>15 DEF Injection, IsInjective
<1>17. Image(g, 1 .. n) = Below
  BY <1>11, <1>12 DEF Image
<1>18. g \in [1 .. n -> D]
  BY <1>9, <1>12
<1>19. PlansFor(r, a, plans, n, g)
  BY <1>7, <1>10, <1>16, <1>17, <1>18 DEF PlansFor, Below, D
<1> QED
  BY <1>1, <1>5, <1>7, <1>19

LEMMA PlanTotal ==
    ASSUME NEW n \in Nat, NEW f, DOMAIN f = 1 .. n, \A i \in 1 .. n : f[i] \in Int
    PROVE  \E h : Sums(f, 1 .. n, h) /\ Total(f) = h[1 .. n]
<1>1. IsFiniteSet(1 .. n)
  BY FS_Interval
<1>2. PICK h : IsSum(f, 1 .. n, h) /\ Total(f) = h[1 .. n]
  BY <1>1, TotalIsSumOf
<1>3. Sums(f, 1 .. n, h)
  <2>1. \A s \in SUBSET (1 .. n) : h[s] = SumStep(f, h, s)
    BY <1>2 DEF IsSum
  <2> QED
    BY <1>1, <2>1 DEF Sums
<1> QED
  BY <1>2, <1>3

LEMMA TotalOfZeros ==
    ASSUME NEW n \in Nat, NEW f, DOMAIN f = 1 .. n, \A i \in 1 .. n : f[i] = 0
    PROVE  Total(f) = 0
<1>1. PICK h : Sums(f, 1 .. n, h) /\ Total(f) = h[1 .. n]
  BY PlanTotal
<1>2. h[1 .. n] = h[{}]
  <2>1. {} \in SUBSET (1 .. n) /\ \A i \in (1 .. n) \ {} : f[i] = 0
    OBVIOUS
  <2> QED
    BY <1>1, <2>1, SumZeros
<1> QED
  BY <1>1, <1>2, SumEmpty

LEMMA TotalOfOne ==
    ASSUME NEW n \in Nat, NEW f, DOMAIN f = 1 .. n, NEW k \in 1 .. n, f[k] \in Int,
           \A i \in 1 .. n : i # k => f[i] = 0
    PROVE  Total(f) = f[k]
<1>0. \A i \in 1 .. n : f[i] \in Int
  OBVIOUS
<1>1. PICK h : Sums(f, 1 .. n, h) /\ Total(f) = h[1 .. n]
  BY <1>0, PlanTotal
<1>2. h[1 .. n] = h[{k}]
  <2>1. {k} \in SUBSET (1 .. n) /\ \A i \in (1 .. n) \ {k} : f[i] = 0
    OBVIOUS
  <2> QED
    BY <1>1, <2>1, SumZeros
<1>3. h[{k}] = f[k] + h[{k} \ {k}] /\ {k} \ {k} = {}
  <2>1. RemovesAny(f, 1 .. n, h)
    BY <1>1, SumRemovesAny
  <2> QED
    BY <2>1 DEF RemovesAny
<1>4. h[{}] = 0
  BY <1>1, SumEmpty
<1>5. h[{k}] = f[k] + 0
  BY <1>3, <1>4
<1> QED
  BY <1>1, <1>2, <1>5


AfterOf(r, plans, s) == r[s] + Total(Got(plans, s)) - Total(Gave(plans, s))

LEMMA EvenAfter ==
    ASSUME NEW r, IsRecord(r), NEW a, OneAbove(r, a), NEW plans, NEW n, NEW g,
           PlansFor(r, a, plans, n, g), NEW s \in DOMAIN r
    PROVE  AfterOf(r, plans, s) = CeilAverage(r)
<1> DEFINE Below == BelowAverage(r)
           D == DOMAIN r
           got == Got(plans, s)
           gave == Gave(plans, s)
<1>1. PICK A \in Int : A = CeilAverage(r) /\ r[a] > A /\ r[a] \in Nat /\ r[s] \in Nat
  BY EvenLack DEF IsRecord
<1>2. /\ n \in Nat /\ DOMAIN plans = 1 .. n /\ g \in [1 .. n -> D] /\ Image(g, 1 .. n) = Below
      /\ \A i, j \in 1 .. n : g[i] = g[j] => i = j
  BY DEF PlansFor
<1>3. \A i \in 1 .. n : /\ plans[i].srcAddr = a /\ plans[i].destAddr = g[i]
                        /\ plans[i].moveNumber = Lack(r)[g[i]]
  BY DEF PlansFor, Plan
<1>4. \A d \in D : Lack(r)[d] = A - r[d] /\ r[d] \in Nat /\ Lack(r)[d] \in Int
  BY <1>1 DEF Lack, IsRecord
<1>5. /\ DOMAIN got = 1 .. n /\ \A i \in 1 .. n : got[i] = IF g[i] = s THEN Lack(r)[g[i]] ELSE 0
      /\ DOMAIN gave = 1 .. n /\ \A i \in 1 .. n : gave[i] = IF a = s THEN Lack(r)[g[i]] ELSE 0
  BY <1>2, <1>3 DEF Got, Gave
<1>6. (\A i \in 1 .. n : g[i] \in Below) /\ (\A d \in Below : \E i \in 1 .. n : g[i] = d)
  BY <1>2 DEF Image
<1>7. a \notin Below /\ Below \subseteq D /\ a \in D /\ \A d \in D : d \in Below <=> r[d] < A
  BY <1>1 DEF BelowAverage, OneAbove
<1> HIDE DEF got, gave, Below, D
<1>8. CASE s = a
  <2>1. \A i \in 1 .. n : got[i] = 0
    BY <1>5, <1>6, <1>7, <1>8
  <2>2. Total(got) = 0
    BY <1>2, <1>5, <2>1, TotalOfZeros
  <2>3. \A i \in 1 .. n : gave[i] = Lack(r)[g[i]] /\ gave[i] \in Int
    BY <1>2, <1>4, <1>5, <1>8
  <2>4. PICK k : Sums(gave, 1 .. n, k) /\ Total(gave) = k[1 .. n]
    BY <1>2, <1>5, <2>3, PlanTotal
  <2>5. PICK h : Sums(Lack(r), D, h) /\ h[Below] = r[a] - A
    BY <1>1, EvenLack DEF D, Below
  <2>6. k[1 .. n] = h[Image(g, 1 .. n)]
    <3>1. Sums(gave, 1 .. n, k) /\ Sums(Lack(r), D, h)
      BY <2>4, <2>5
    <3>2. g \in [1 .. n -> D] /\ \A i, j \in 1 .. n : g[i] = g[j] => i = j
      BY <1>2
    <3>3. \A i \in 1 .. n : gave[i] = Lack(r)[g[i]]
      BY <2>3
    <3>4. Carries(gave, 1 .. n, Lack(r), D, g)
      BY <3>2, <3>3 DEF Carries
    <3> QED
      BY <3>1, <3>4, SumMapped
  <2>7. Total(gave) = r[a] - A
    BY <1>2, <2>4, <2>5, <2>6
  <2> QED
    BY <1>1, <1>8, <2>2, <2>7 DEF AfterOf, got, gave
<1>9. CASE s # a
  <2>1. \A i \in 1 .. n : gave[i] = 0
    BY <1>5, <1>9
  <2>2. Total(gave) = 0
    BY <1>2, <1>5, <2>1, TotalOfZeros
  <2>3. CASE s \in Below
    <3>1. PICK k \in 1 .. n : g[k] = s
      BY <1>6, <2>3
    <3>2. got[k] = A - r[s] /\ got[k] \in Int
      <4>1. got[k] = Lack(r)[s]
        BY <1>5, <3>1
      <4> QED
        BY <1>4, <1>7, <2>3, <4>1
    <3>3. \A i \in 1 .. n : i # k => got[i] = 0
      BY <1>2, <1>5, <3>1
    <3>4. Total(got) = A - r[s]
      <4>1. Total(got) = got[k]
        BY <1>2, <1>5, <3>2, <3>3, TotalOfOne
      <4> QED
        BY <3>2, <4>1
    <3> QED
      BY <1>1, <2>2, <3>4 DEF AfterOf, got, gave
  <2>4. CASE s \notin Below
    <3>1. \A i \in 1 .. n : got[i] = 0
      BY <1>5, <1>6, <2>4
    <3>2. Total(got) = 0
      BY <1>2, <1>5, <3>1, TotalOfZeros
    <3>3. r[s] = A
      <4>1. ~ (r[s] < A)
        BY <1>7, <2>4 DEF D
      <4>2. ~ (r[s] > A)
        BY <1>1, <1>9 DEF OneAbove
      <4> QED
        BY <1>1, <4>1, <4>2
    <3> QED
      BY <1>1, <2>2, <3>2, <3>3 DEF AfterOf, got, gave
  <2> QED
    BY <2>3, <2>4
<1> QED
  BY <1>8, <1>9

LEMMA PlanInvEvens == PlanInv => PlanEvens
<1> SUFFICES ASSUME rec \in Records, Total(rec) = Size(rec) * CeilAverage(rec),
                    Cardinality({s \in DOMAIN rec : rec[s] > CeilAverage(rec)}) = 1
             PROVE  LET result == generatePlanForEvent(rec)
                    IN ~ result.overrun /\ \A s \in DOMAIN rec : After(result.plans, s) = CeilAverage(rec)
  BY DEF PlanInv, PlanEvens, Planned
<1>1. IsRecord(rec)
  BY RunRecords
<1>2. PICK r : r = rec
  OBVIOUS
<1>3. IsRecord(r)
  BY <1>1, <1>2
<1> DEFINE S == {s \in DOMAIN r : r[s] > CeilAverage(r)}
<1>4. PICK a : OneAbove(r, a)
  <2>1. Cardinality(S) = 1
    BY <1>2
  <2>2. IsFiniteSet(S)
    <3>1. S \in SUBSET DOMAIN r /\ IsFiniteSet(DOMAIN r)
      BY <1>3 DEF IsRecord
    <3> QED
      BY <3>1, FS_Subset
  <2>3. PICK a : S = {a}
    <3> HIDE DEF S
    <3> QED
      BY <2>1, <2>2, FS_Singleton
  <2>4. OneAbove(r, a)
    BY <1>2, <2>3 DEF OneAbove
  <2> QED
    BY <2>4
<1>5. PICK plans : plans = generatePlanForEvent(r).plans
  OBVIOUS
<1>6. /\ generatePlanForEvent(r).overrun = FALSE
      /\ \E n, g : PlansFor(r, a, plans, n, g)
  BY <1>3, <1>4, <1>5, EvenPlans
<1>7. \A s \in DOMAIN r : AfterOf(r, plans, s) = CeilAverage(r)
  BY <1>3, <1>4, <1>6, EvenAfter
<1>8. \A s : After(plans, s) = AfterOf(r, plans, s)
  BY <1>2, Zenon DEF After, AfterOf
<1> QED
  BY <1>2, <1>5, <1>6, <1>7, <1>8

(* generatePlanForEvent on records of any size and any numbers: when one   *)
(* server alone is above the average and the average is a whole number,    *)
(* the walk does not run off the list and its plans leave every server     *)
(* with exactly the average.                                               *)
THEOREM EvensAlways == Spec => []PlanEvens
<1>1. Init => PlanInv
  BY DEF Init, PlanInv
<1>2. PlanInv /\ [Next]_<<sub, pub, rec>> => PlanInv'
  BY DEF PlanInv, Next, Compare, MakePlan
<1> QED
  BY <1>1, <1>2, PlanInvEvens, PTL DEF Spec
=============================================================================
