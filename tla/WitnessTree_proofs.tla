------------------------- MODULE WitnessTree_proofs -------------------------
(***************************************************************************)
(* For a tree of any depth, chunks of any size over any number of runs,    *)
(* and any notes that are found and spent: the authentication path of each *)
(* note that is tracked leads to the root of the tree with all outputs.    *)
(*                                                                         *)
(* The invariant is that the synchronizer is a function of the number of   *)
(* outputs n: its edge is the one a node serves for n, and the ommer of a  *)
(* note at a depth is the node that is the sibling there, if this node is  *)
(* complete with n leaves (TreeInv).  A chunk keeps it because the layers  *)
(* that add builds are the nodes from the edge to the last complete one    *)
(* (CmxsIs).  A path is then the siblings at all depths (PathHasSiblings): *)
(* below the first ommer that is missing, the edge is to the right of the  *)
(* note, so that at this depth the node of the edge is the sibling; above  *)
(* it the note is on the edge, and its siblings are empty.                 *)
(*                                                                         *)
(* What is defined by recursion over the depth (the sizes of subtrees, the *)
(* layers of a chunk, the edge, the climb) is shown to be what it should   *)
(* by a set of depths that has 0 and, with each depth, the next            *)
(* (UpToDepth).                                                            *)
(***************************************************************************)
EXTENDS WitnessTree, WellFoundedInduction, SequenceTheorems, TLAPS

-------------------------------------------------------------------------------
(* Induction over the numbers, for a set of them; and up to a bound.       *)
LEMMA NatSets ==
    ASSUME NEW S, 0 \in S, \A n \in Nat : n \in S => n + 1 \in S
    PROVE  \A n \in Nat : n \in S
<1> DEFINE T == Nat \ S
<1>1. ASSUME T # {} PROVE FALSE
  <2>1. PICK n \in T : \A m \in T : ~ (<<m, n>> \in OpToRel(<, Nat))
    <3>1. T \subseteq Nat /\ T # {}
      BY <1>1
    <3> HIDE DEF T
    <3> QED
      BY <3>1, NatLessThanWellFounded, WFMin, Zenon
  <2>2. n \in Nat /\ n # 0 /\ n \notin S
    OBVIOUS
  <2>3. n - 1 \in Nat /\ n - 1 < n /\ (n - 1) + 1 = n
    BY <2>2
  <2>4. n - 1 \in T
    BY <2>2, <2>3
  <2>5. <<n - 1, n>> \in OpToRel(<, Nat)
    BY <2>2, <2>3 DEF OpToRel
  <2> QED
    BY <2>1, <2>4, <2>5
<1> QED
  BY <1>1

LEMMA DepthFacts == Depth \in Nat /\ Depth > 0 /\ 0 \in 0 .. Depth /\ 0 \in Layers
                    /\ \A d \in Layers : d \in 0 .. Depth /\ d + 1 \in 0 .. Depth /\ d \in Nat
BY WitnessTreeAssumption DEF Layers

LEMMA UpToDepth ==
    ASSUME NEW S, 0 \in S, \A d \in Layers : d \in S => d + 1 \in S
    PROVE  \A d \in 0 .. Depth : d \in S
<1> DEFINE T == {d \in Nat : d <= Depth => d \in S}
<1>1. 0 \in T
  OBVIOUS
<1>2. ASSUME NEW d \in Nat, d \in T PROVE d + 1 \in T
  <2>1. CASE d + 1 <= Depth
    <3>1. d \in Layers /\ d <= Depth
      BY <2>1, DepthFacts DEF Layers
    <3>2. d \in S
      BY <1>2, <3>1
    <3> QED
      BY <3>1, <3>2
  <2>2. CASE ~(d + 1 <= Depth)
    BY <2>2
  <2> QED
    BY <2>1, <2>2
<1>3. \A d \in Nat : d \in T
  <2> HIDE DEF T
  <2> QED
    BY <1>1, <1>2, NatSets
<1> QED
  BY <1>3, DepthFacts

(* The sizes of subtrees: the recursive definition has a function.         *)
IsSize(f, n) == f = [d \in 0 .. n |-> IF d = 0 THEN 1 ELSE 2 * f[d - 1]]

LEMMA SizeExists == \A n \in Nat : \E f : IsSize(f, n)
<1> DEFINE S == {n \in Nat : \E f : IsSize(f, n)}
<1>1. 0 \in S
  <2> DEFINE f == [d \in 0 .. 0 |-> 1]
  <2>1. f = [d \in 0 .. 0 |-> IF d = 0 THEN 1 ELSE 2 * f[d - 1]]
    OBVIOUS
  <2>2. IsSize(f, 0)
    BY <2>1 DEF IsSize
  <2> QED
    BY <2>2
<1>2. ASSUME NEW n \in Nat, n \in S PROVE n + 1 \in S
  <2>1. PICK f : IsSize(f, n)
    BY <1>2
  <2> DEFINE g == [d \in 0 .. n + 1 |-> IF d = n + 1 THEN 2 * f[n] ELSE f[d]]
  <2>2. ASSUME NEW d \in 0 .. n + 1
        PROVE  g[d] = IF d = 0 THEN 1 ELSE 2 * g[d - 1]
    <3>1. CASE d = n + 1
      <4>1. d # 0 /\ d - 1 = n /\ n \in 0 .. n + 1 /\ n # n + 1
        BY <3>1
      <4> QED
        BY <3>1, <4>1
    <3>2. CASE d # n + 1
      <4>1. d \in 0 .. n /\ (d # 0 => d - 1 \in 0 .. n /\ d - 1 \in 0 .. n + 1 /\ d - 1 # n + 1)
        BY <3>2
      <4>2. f[d] = IF d = 0 THEN 1 ELSE 2 * f[d - 1]
        BY <2>1, <4>1 DEF IsSize
      <4> QED
        BY <3>2, <4>1, <4>2
    <3> QED
      BY <3>1, <3>2
  <2>3. IsSize(g, n + 1)
    <3>1. g = [d \in 0 .. n + 1 |-> g[d]]
      OBVIOUS
    <3> HIDE DEF g
    <3>2. [d \in 0 .. n + 1 |-> g[d]] = [d \in 0 .. n + 1 |-> IF d = 0 THEN 1 ELSE 2 * g[d - 1]]
      BY <2>2
    <3> QED
      BY <3>1, <3>2 DEF IsSize
  <2> QED
    BY <2>3
<1> HIDE DEF S
<1>3. \A n \in Nat : n \in S
  BY <1>1, <1>2, NatSets
<1> QED
  BY <1>3 DEF S

LEMMA SizeIs ==
    /\ Size[0] = 1
    /\ \A d \in Layers : Size[d + 1] = 2 * Size[d]
    /\ \A d \in 0 .. Depth : Size[d] \in Nat \ {0}
<1>1. Size = [d \in 0 .. Depth |-> IF d = 0 THEN 1 ELSE 2 * Size[d - 1]]
  <2>1. \E f : IsSize(f, Depth)
    BY SizeExists, DepthFacts
  <2>2. Size = CHOOSE f : IsSize(f, Depth)
    BY DEF Size, IsSize
  <2>3. IsSize(Size, Depth)
    BY <2>1, <2>2
  <2> QED
    BY <2>3 DEF IsSize
<1>2. Size[0] = 1
  BY <1>1, DepthFacts
<1>3. ASSUME NEW d \in Layers PROVE Size[d + 1] = 2 * Size[d]
  <2>1. d + 1 \in 0 .. Depth /\ d + 1 # 0 /\ (d + 1) - 1 = d
    BY DepthFacts
  <2> QED
    BY <1>1, <2>1
<1>4. \A d \in 0 .. Depth : Size[d] \in Nat \ {0}
  <2> DEFINE S == {d \in 0 .. Depth : Size[d] \in Nat \ {0}}
  <2>1. 0 \in S
    BY <1>2, DepthFacts
  <2>2. ASSUME NEW d \in Layers, d \in S PROVE d + 1 \in S
    BY <1>3, <2>2, DepthFacts
  <2>3. \A d \in 0 .. Depth : d \in S
    <3> HIDE DEF S
    <3> QED
      BY <2>1, <2>2, UpToDepth
  <2> QED
    BY <2>3
<1> QED
  BY <1>2, <1>3, <1>4

-------------------------------------------------------------------------------
(* Positions and nodes: numbers.                                           *)
LEMMA Halves ==
    ASSUME NEW i \in Nat
    PROVE  /\ i \div 2 \in Nat /\ (IsRight(i) => i = 2 * (i \div 2) + 1)
           /\ (~IsRight(i) => i = 2 * (i \div 2))
BY DEF IsRight

LEMMA Parity ==
    ASSUME NEW i \in Nat, NEW j \in Nat, NEW k \in Nat
    PROVE  i = 2 * k + j => (IsRight(i) <=> IsRight(j))
BY DEF IsRight

LEMMA Divided ==
    ASSUME NEW x \in Nat, NEW b \in Nat \ {0}
    PROVE  /\ x \div b \in Nat /\ b * (x \div b) <= x /\ x < b * ((x \div b) + 1)
           /\ \A q \in Nat : b * q <= x /\ x < b * (q + 1) => q = x \div b
OBVIOUS

LEMMA TwiceDivided ==
    ASSUME NEW x \in Nat, NEW b \in Nat \ {0}
    PROVE  x \div (2 * b) = (x \div b) \div 2
OBVIOUS

LEMMA DividedGrows ==
    ASSUME NEW x \in Nat, NEW y \in Nat, NEW b \in Nat \ {0}, x <= y
    PROVE  x \div b <= y \div b
OBVIOUS

(* The node above a position at each depth.                                *)
LEMMA IndexIs ==
    /\ \A x \in Nat : Index(x, 0) = x
    /\ \A x \in Nat, d \in 0 .. Depth :
          /\ Index(x, d) \in Nat
          /\ Size[d] * Index(x, d) <= x /\ x < Size[d] * (Index(x, d) + 1)
    /\ \A x \in Nat, d \in Layers : Index(x, d + 1) = Index(x, d) \div 2
    /\ \A x, y \in Nat, d \in 0 .. Depth : x <= y => Index(x, d) <= Index(y, d)
<1>1. ASSUME NEW x \in Nat PROVE Index(x, 0) = x
  BY SizeIs DEF Index
<1>2. ASSUME NEW x \in Nat, NEW d \in 0 .. Depth
      PROVE  /\ Index(x, d) \in Nat
             /\ Size[d] * Index(x, d) <= x /\ x < Size[d] * (Index(x, d) + 1)
  BY SizeIs, Divided DEF Index
<1>3. ASSUME NEW x \in Nat, NEW d \in Layers PROVE Index(x, d + 1) = Index(x, d) \div 2
  <2>1. Size[d] \in Nat \ {0} /\ Size[d + 1] = 2 * Size[d]
    BY SizeIs, DepthFacts
  <2> QED
    BY <2>1, TwiceDivided DEF Index
<1>4. ASSUME NEW x \in Nat, NEW y \in Nat, NEW d \in 0 .. Depth, x <= y
      PROVE  Index(x, d) <= Index(y, d)
  BY <1>4, SizeIs, DividedGrows DEF Index
<1> QED
  BY <1>1, <1>2, <1>3, <1>4

-------------------------------------------------------------------------------
(* Positions and nodes: hashes.                                            *)
LEMMA Monotone ==
    ASSUME NEW a \in Nat, NEW b \in Nat, NEW c \in Nat, a <= b
    PROVE  c * a <= c * b
OBVIOUS

LEMMA NodeType ==
    ASSUME NEW d \in 0 .. Depth, NEW i \in Nat, NEW n \in Nat
    PROVE  /\ Node(d, i, n) \in Seq(Nat) /\ Len(Node(d, i, n)) = Size[d] /\ Node(d, i, n) # None
           /\ \A j \in 1 .. Size[d] :
                 Node(d, i, n)[j] = IF Size[d] * i + j <= n THEN Size[d] * i + j ELSE Empty
<1>1. Size[d] \in Nat /\ Size[d] > 0
  BY SizeIs
<1>2. \A j \in 1 .. Size[d] : i * Size[d] + j = Size[d] * i + j /\ Size[d] * i + j \in Nat
  BY <1>1
<1> DEFINE s == [j \in 1 .. Size[d] |-> IF Size[d] * i + j <= n THEN Size[d] * i + j ELSE Empty]
<1>3. Node(d, i, n) = s
  BY <1>2 DEF Node
<1>4. s \in [1 .. Size[d] -> Nat]
  BY <1>2 DEF Empty
<1>5. s \in Seq(Nat) /\ Len(s) = Size[d]
  <2> HIDE DEF s
  <2> QED
    BY <1>1, <1>4
<1>6. s # None
  BY <1>1, <1>5 DEF None
<1> QED
  BY <1>3, <1>5, <1>6

LEMMA SameHash ==
    ASSUME NEW s \in Seq(Nat), NEW t \in Seq(Nat), Len(s) = Len(t),
           \A j \in 1 .. Len(s) : s[j] = t[j]
    PROVE  s = t
BY SeqEqual

(* The hash of a node is that of the pair below it.                        *)
LEMMA PairOfNodes ==
    ASSUME NEW d \in Layers, NEW i \in Nat, NEW n \in Nat
    PROVE  Combine(Node(d, 2 * i, n), Node(d, 2 * i + 1, n)) = Node(d + 1, i, n)
<1> DEFINE l == Node(d, 2 * i, n)
           r == Node(d, 2 * i + 1, n)
           t == Node(d + 1, i, n)
           k == Size[d]
<1>1. d \in 0 .. Depth /\ d + 1 \in 0 .. Depth /\ k \in Nat /\ k > 0 /\ Size[d + 1] = 2 * k
      /\ 2 * i \in Nat /\ 2 * i + 1 \in Nat
  BY SizeIs, DepthFacts
<1>2. /\ l \in Seq(Nat) /\ Len(l) = k
      /\ \A j \in 1 .. k : l[j] = IF k * (2 * i) + j <= n THEN k * (2 * i) + j ELSE Empty
  BY <1>1, NodeType
<1>3. /\ r \in Seq(Nat) /\ Len(r) = k
      /\ \A j \in 1 .. k : r[j] = IF k * (2 * i + 1) + j <= n THEN k * (2 * i + 1) + j ELSE Empty
  BY <1>1, NodeType
<1>4. /\ t \in Seq(Nat) /\ Len(t) = 2 * k
      /\ \A j \in 1 .. 2 * k : t[j] = IF (2 * k) * i + j <= n THEN (2 * k) * i + j ELSE Empty
  <2>1. /\ t \in Seq(Nat) /\ Len(t) = Size[d + 1]
        /\ \A j \in 1 .. Size[d + 1] :
              t[j] = IF Size[d + 1] * i + j <= n THEN Size[d + 1] * i + j ELSE Empty
    BY <1>1, NodeType
  <2> HIDE DEF t, k
  <2> QED
    BY <1>1, <2>1
<1> HIDE DEF l, r, t, k
<1>5. /\ l \o r \in Seq(Nat) /\ Len(l \o r) = 2 * k
      /\ \A j \in 1 .. 2 * k : (l \o r)[j] = IF j <= k THEN l[j] ELSE r[j - k]
  <2>1. /\ l \o r \in Seq(Nat) /\ Len(l \o r) = Len(l) + Len(r)
        /\ \A j \in 1 .. Len(l) + Len(r) : (l \o r)[j] = IF j <= Len(l) THEN l[j] ELSE r[j - Len(l)]
    BY <1>2, <1>3, ConcatProperties
  <2>2. k + k = 2 * k
    BY <1>1
  <2> QED
    BY <1>2, <1>3, <2>1, <2>2
<1>6. k * (2 * i) = (2 * k) * i /\ k * (2 * i + 1) = (2 * k) * i + k /\ (2 * k) * i \in Nat
  BY <1>1
<1>7. ASSUME NEW j \in 1 .. 2 * k PROVE (l \o r)[j] = t[j]
  <2>1. CASE j <= k
    <3>1. j \in 1 .. k
      BY <1>1, <2>1
    <3> QED
      BY <1>2, <1>4, <1>5, <1>6, <2>1, <3>1
  <2>2. CASE ~(j <= k)
    <3>1. j - k \in 1 .. k /\ ((2 * k) * i + k) + (j - k) = (2 * k) * i + j
      BY <1>1, <1>6, <2>2
    <3> QED
      BY <1>3, <1>4, <1>5, <1>6, <2>2, <3>1
  <2> QED
    BY <2>1, <2>2
<1>8. l \o r = t
  BY <1>4, <1>5, <1>7, SameHash
<1> QED
  BY <1>8 DEF Combine, l, r, t

(* A complete node does not change any more; one that is to come is empty. *)
LEMMA NodeComplete ==
    ASSUME NEW d \in 0 .. Depth, NEW i \in Nat, NEW n \in Nat, NEW m \in Nat,
           n <= m, i < Index(n, d)
    PROVE  Node(d, i, n) = Node(d, i, m)
<1> DEFINE k == Size[d]
<1>1. k \in Nat /\ Index(n, d) \in Nat /\ k * Index(n, d) <= n
  BY SizeIs, IndexIs
<1>2. k * (i + 1) <= k * Index(n, d) /\ k * (i + 1) = k * i + k /\ k * i \in Nat
  BY <1>1, Monotone
<1> HIDE DEF k
<1>3. ASSUME NEW j \in 1 .. k PROVE k * i + j <= n /\ k * i + j <= m
  BY <1>1, <1>2
<1>4. ASSUME NEW j \in 1 .. k PROVE Node(d, i, n)[j] = Node(d, i, m)[j]
  <2>1. /\ Node(d, i, n)[j] = IF k * i + j <= n THEN k * i + j ELSE Empty
        /\ Node(d, i, m)[j] = IF k * i + j <= m THEN k * i + j ELSE Empty
    BY NodeType DEF k
  <2> QED
    BY <1>3, <2>1
<1>5. /\ Node(d, i, n) \in Seq(Nat) /\ Len(Node(d, i, n)) = k
      /\ Node(d, i, m) \in Seq(Nat) /\ Len(Node(d, i, m)) = k
  BY NodeType DEF k
<1> QED
  BY <1>4, <1>5, SameHash

LEMMA EmptyIs ==
    ASSUME NEW d \in 0 .. Depth
    PROVE  /\ EmptyRoot(d) \in Seq(Nat) /\ Len(EmptyRoot(d)) = Size[d]
           /\ \A j \in 1 .. Size[d] : EmptyRoot(d)[j] = Empty
<1>1. Size[d] \in Nat
  BY SizeIs
<1>2. EmptyRoot(d) \in [1 .. Size[d] -> Nat]
  BY DEF EmptyRoot, Empty
<1> QED
  BY <1>1, <1>2 DEF EmptyRoot

LEMMA NodeToCome ==
    ASSUME NEW d \in 0 .. Depth, NEW i \in Nat, NEW n \in Nat, i > Index(n, d)
    PROVE  Node(d, i, n) = EmptyRoot(d)
<1> DEFINE k == Size[d]
<1>1. k \in Nat /\ Index(n, d) \in Nat /\ n < k * (Index(n, d) + 1)
  BY SizeIs, IndexIs
<1>2. k * (Index(n, d) + 1) <= k * i /\ k * i \in Nat
  BY <1>1, Monotone
<1> HIDE DEF k
<1>3. ASSUME NEW j \in 1 .. k PROVE ~(k * i + j <= n)
  BY <1>1, <1>2
<1>4. ASSUME NEW j \in 1 .. k PROVE Node(d, i, n)[j] = EmptyRoot(d)[j]
  <2>1. Node(d, i, n)[j] = IF k * i + j <= n THEN k * i + j ELSE Empty
    BY NodeType DEF k
  <2>2. EmptyRoot(d)[j] = Empty
    BY EmptyIs DEF k
  <2> QED
    BY <1>3, <2>1, <2>2
<1>5. /\ Node(d, i, n) \in Seq(Nat) /\ Len(Node(d, i, n)) = k
      /\ EmptyRoot(d) \in Seq(Nat) /\ Len(EmptyRoot(d)) = k
  BY NodeType, EmptyIs DEF k
<1> QED
  BY <1>4, <1>5, SameHash

LEMMA LeafIs == ASSUME NEW i \in Nat, NEW n \in Nat, i < n PROVE Node(0, i, n) = Leaf(i)
<1>1. /\ Node(0, i, n) \in Seq(Nat) /\ Len(Node(0, i, n)) = 1
      /\ Node(0, i, n)[1] = IF 1 * i + 1 <= n THEN 1 * i + 1 ELSE Empty
  <2>1. Size[0] = 1 /\ 0 \in 0 .. Depth
    BY SizeIs, DepthFacts
  <2>2. \A j \in 1 .. Size[0] :
           Node(0, i, n)[j] = IF Size[0] * i + j <= n THEN Size[0] * i + j ELSE Empty
    BY <2>1, NodeType
  <2>3. Node(0, i, n) \in Seq(Nat) /\ Len(Node(0, i, n)) = Size[0]
    BY <2>1, NodeType
  <2> QED
    BY <2>1, <2>2, <2>3
<1>2. Node(0, i, n)[1] = i + 1
  BY <1>1
<1>3. Leaf(i) \in Seq(Nat) /\ Len(Leaf(i)) = 1 /\ Leaf(i)[1] = i + 1
  BY DEF Leaf
<1>4. \A j \in 1 .. 1 : Node(0, i, n)[j] = Leaf(i)[j]
  BY <1>2, <1>3
<1> QED
  BY <1>1, <1>3, <1>4, SameHash

-------------------------------------------------------------------------------
(* The layers of a chunk: the nodes from the edge to the last one that is  *)
(* complete when the chunk is in.                                          *)
Layer(d, n) == [j \in 1 .. Index(n, d) - First(d) |-> Node(d, First(d) + j - 1, n)]

AtEdge == position \in Nat /\ edge = Served(position)

LEMMA FirstIs ==
    ASSUME AtEdge, NEW d \in Layers
    PROVE  /\ First(d) = 2 * Index(position, d + 1) /\ First(d) \in Nat
           /\ First(d) <= Index(position, d) /\ ~IsRight(First(d))
           /\ IF IsRight(Index(position, d))
              THEN /\ Carried(d) = <<Node(d, Index(position, d) - 1, position)>>
                   /\ Index(position, d) = First(d) + 1
              ELSE Carried(d) = <<>> /\ Index(position, d) = First(d)
<1> DEFINE i == Index(position, d)
<1>1. i \in Nat /\ Index(position, d + 1) = i \div 2 /\ i \div 2 \in Nat
  BY IndexIs, DepthFacts, Halves DEF AtEdge
<1>2. CASE IsRight(i)
  <2>1. Carried(d) = <<Node(d, i - 1, position)>>
    BY <1>2 DEF Carried, AtEdge, Served
  <2>2. First(d) = i - 1
    <3> HIDE DEF i
    <3>1. \A x : Len(<<x>>) = 1
      OBVIOUS
    <3> QED
      BY <2>1, <3>1 DEF First, i
  <2>3. i = 2 * (i \div 2) + 1
    BY <1>1, <1>2, Halves
  <2>4. ~IsRight(i - 1)
    BY <1>1, <2>3 DEF IsRight
  <2> HIDE DEF i
  <2>5. First(d) = 2 * Index(position, d + 1) /\ First(d) \in Nat /\ First(d) <= i /\ i = First(d) + 1
    BY <1>1, <2>2, <2>3
  <2> QED
    BY <1>2, <2>1, <2>2, <2>4, <2>5 DEF i
<1>3. CASE ~IsRight(i)
  <2>1. Carried(d) = <<>> /\ Len(<<>>) = 0
    BY <1>3 DEF Carried
  <2>2. First(d) = i
    BY <1>1, <2>1 DEF First
  <2>3. i = 2 * (i \div 2)
    BY <1>1, <1>3, Halves
  <2> QED
    BY <1>1, <1>3, <2>1, <2>2, <2>3
<1> QED
  BY <1>2, <1>3

LEMMA LayerType ==
    ASSUME AtEdge, NEW d \in Layers, NEW n \in Nat, position <= n
    PROVE  /\ Index(n, d) \in Nat /\ Index(position, d) <= Index(n, d) /\ First(d) <= Index(n, d)
           /\ Layer(d, n) \in Seq(Seq(Nat)) /\ Len(Layer(d, n)) = Index(n, d) - First(d)
           /\ \A j \in 1 .. Index(n, d) - First(d) : Layer(d, n)[j] = Node(d, First(d) + j - 1, n)
<1>1. /\ Index(n, d) \in Nat /\ Index(position, d) <= Index(n, d) /\ Index(position, d) \in Nat
      /\ First(d) \in Nat /\ First(d) <= Index(position, d)
  BY FirstIs, IndexIs, DepthFacts DEF AtEdge
<1>2. Index(n, d) - First(d) \in Nat /\ First(d) <= Index(n, d)
  BY <1>1
<1>3. \A j \in 1 .. Index(n, d) - First(d) : First(d) + j - 1 \in Nat
  BY <1>1
<1>4. \A j \in 1 .. Index(n, d) - First(d) : Node(d, First(d) + j - 1, n) \in Seq(Nat)
  BY <1>3, NodeType, DepthFacts
<1>5. Layer(d, n) \in [1 .. Index(n, d) - First(d) -> Seq(Nat)]
  BY <1>4 DEF Layer
<1>6. Layer(d, n) \in Seq(Seq(Nat)) /\ Len(Layer(d, n)) = Index(n, d) - First(d)
  BY <1>2, <1>5
<1> QED
  BY <1>1, <1>2, <1>6 DEF Layer

(* The node of the edge and then the nodes that the chunk completes.       *)
LEMMA CarriedThen ==
    ASSUME AtEdge, NEW d \in Layers, NEW n \in Nat, position <= n,
           NEW s \in Seq(Seq(Nat)), Len(s) = Index(n, d) - Index(position, d),
           \A j \in 1 .. Index(n, d) - Index(position, d) : s[j] = Node(d, Index(position, d) + j - 1, n)
    PROVE  Carried(d) \o s = Layer(d, n)
<1> DEFINE i == Index(position, d)
           f == First(d)
           m == Index(n, d)
           t == Layer(d, n)
<1>1. /\ m \in Nat /\ i <= m /\ f <= m /\ t \in Seq(Seq(Nat)) /\ Len(t) = m - f
      /\ \A j \in 1 .. m - f : t[j] = Node(d, f + j - 1, n)
  BY LayerType
<1>2. i \in Nat /\ f \in Nat
  BY IndexIs, FirstIs, DepthFacts DEF AtEdge
<1>3. Len(s) = m - i /\ \A j \in 1 .. m - i : s[j] = Node(d, i + j - 1, n)
  OBVIOUS
<1>4. CASE IsRight(i)
  <2>1. Carried(d) = <<Node(d, i - 1, position)>> /\ i = f + 1
    BY <1>4, FirstIs
  <2>2. Node(d, i - 1, position) = Node(d, f, n)
    <3>1. i - 1 = f /\ f < i
      BY <1>2, <2>1
    <3> QED
      BY <1>2, <3>1, NodeComplete, DepthFacts DEF AtEdge
  <2> DEFINE c == Carried(d)
  <2>3. c \in Seq(Seq(Nat)) /\ Len(c) = 1 /\ c[1] = Node(d, f, n)
    <3>1. Node(d, f, n) \in Seq(Nat)
      BY <1>2, NodeType, DepthFacts
    <3>2. \A x \in Seq(Nat) : <<x>> \in Seq(Seq(Nat)) /\ Len(<<x>>) = 1 /\ <<x>>[1] = x
      OBVIOUS
    <3> QED
      BY <2>1, <2>2, <3>1, <3>2
  <2> HIDE DEF c, i, f, m, t
  <2>4. /\ c \o s \in Seq(Seq(Nat)) /\ Len(c \o s) = 1 + (m - i)
        /\ \A j \in 1 .. 1 + (m - i) : (c \o s)[j] = IF j <= 1 THEN c[j] ELSE s[j - 1]
    <3>1. /\ c \o s \in Seq(Seq(Nat)) /\ Len(c \o s) = Len(c) + Len(s)
          /\ \A j \in 1 .. Len(c) + Len(s) : (c \o s)[j] = IF j <= Len(c) THEN c[j] ELSE s[j - Len(c)]
      BY <2>3, ConcatProperties
    <3> QED
      BY <1>3, <2>3, <3>1
  <2>5. ASSUME NEW j \in 1 .. m - f PROVE (c \o s)[j] = t[j]
    <3>1. j \in 1 .. 1 + (m - i) /\ j \in Nat
      BY <1>1, <1>2, <2>1
    <3>2. CASE j <= 1
      <4>1. j = 1 /\ f + j - 1 = f
        BY <1>2, <3>1, <3>2
      <4> QED
        BY <1>1, <2>3, <2>4, <3>1, <3>2, <4>1
    <3>3. CASE ~(j <= 1)
      <4>1. j - 1 \in 1 .. m - i /\ i + (j - 1) - 1 = f + j - 1
        BY <1>1, <1>2, <2>1, <3>1, <3>3
      <4> QED
        BY <1>1, <1>3, <2>4, <3>1, <3>3, <4>1
    <3> QED
      BY <3>2, <3>3
  <2>6. Len(c \o s) = Len(t) /\ Len(t) = m - f
    BY <1>1, <1>2, <2>1, <2>4
  <2>7. c \o s = t
    BY <1>1, <2>4, <2>5, <2>6, SeqEqual
  <2> QED
    BY <2>7 DEF c, t
<1>5. CASE ~IsRight(i)
  <2>1. Carried(d) = <<>> /\ i = f
    BY <1>5, FirstIs
  <2>2. \A j \in 1 .. m - f : s[j] = t[j]
    BY <1>1, <1>3, <2>1
  <2> HIDE DEF i, f, m, t
  <2>3. s = t
    BY <1>1, <1>3, <2>1, <2>2, SeqEqual
  <2>4. <<>> \o s = s
    BY ConcatEmptySeq
  <2> QED
    BY <2>1, <2>3, <2>4 DEF t
<1> QED
  BY <1>4, <1>5

(* The pairs of a layer are the nodes of the layer above.                  *)
LEMMA PairsOfLayer ==
    ASSUME AtEdge, NEW d \in Layers, d + 1 \in Layers, NEW n \in Nat, position <= n
    PROVE  /\ Pairs(Layer(d, n)) \in Seq(Seq(Nat))
           /\ Len(Pairs(Layer(d, n))) = Index(n, d + 1) - Index(position, d + 1)
           /\ \A j \in 1 .. Index(n, d + 1) - Index(position, d + 1) :
                 Pairs(Layer(d, n))[j] = Node(d + 1, Index(position, d + 1) + j - 1, n)
<1> DEFINE i == Index(position, d + 1)
           m == Index(n, d)
           u == Index(n, d + 1)
           s == Layer(d, n)
           p == Pairs(s)
<1>1. /\ m \in Nat /\ First(d) <= m /\ Len(s) = m - First(d)
      /\ \A j \in 1 .. m - First(d) : s[j] = Node(d, First(d) + j - 1, n)
  BY LayerType
<1>2. i \in Nat /\ u \in Nat /\ u = m \div 2 /\ First(d) = 2 * i
  BY IndexIs, FirstIs, DepthFacts DEF AtEdge
<1>3. i <= u
  BY LayerType
<1> HIDE DEF i, m, u, s
<1>4. (m - 2 * i) \div 2 = u - i /\ u - i \in Nat /\ 2 * u <= m
  BY <1>1, <1>2, <1>3
<1>5. p = [j \in 1 .. u - i |-> Combine(s[2 * j - 1], s[2 * j])]
  BY <1>1, <1>2, <1>4 DEF Pairs
<1>6. ASSUME NEW j \in 1 .. u - i PROVE p[j] = Node(d + 1, i + j - 1, n)
  <2>1. 2 * j - 1 \in 1 .. m - 2 * i /\ 2 * j \in 1 .. m - 2 * i /\ i + j - 1 \in Nat
    BY <1>1, <1>2, <1>3, <1>4
  <2>2. 2 * i + (2 * j - 1) - 1 = 2 * (i + j - 1) /\ 2 * i + 2 * j - 1 = 2 * (i + j - 1) + 1
    BY <1>2
  <2>3. s[2 * j - 1] = Node(d, 2 * (i + j - 1), n) /\ s[2 * j] = Node(d, 2 * (i + j - 1) + 1, n)
    BY <1>1, <1>2, <2>1, <2>2
  <2>4. Combine(Node(d, 2 * (i + j - 1), n), Node(d, 2 * (i + j - 1) + 1, n)) = Node(d + 1, i + j - 1, n)
    BY <2>1, PairOfNodes
  <2>5. p[j] = Combine(s[2 * j - 1], s[2 * j])
    BY <1>5
  <2> QED
    BY <2>3, <2>4, <2>5
<1>7. \A j \in 1 .. u - i : p[j] \in Seq(Nat)
  <2>1. \A j \in 1 .. u - i : i + j - 1 \in Nat
    BY <1>2, <1>4
  <2>2. \A x \in Nat : Node(d + 1, x, n) \in Seq(Nat)
    BY NodeType, DepthFacts
  <2> QED
    BY <1>6, <2>1, <2>2
<1> HIDE DEF p
<1>8. p \in [1 .. u - i -> Seq(Nat)]
  BY <1>5, <1>7
<1>9. p \in Seq(Seq(Nat)) /\ Len(p) = u - i
  BY <1>4, <1>8
<1> QED
  BY <1>6, <1>9 DEF p, s, u, i

LEMMA LeavesOfChunk ==
    ASSUME AtEdge, NEW count \in Nat
    PROVE  Carried(0) \o [i \in 1 .. count |-> Leaf(position + i - 1)] = Layer(0, position + count)
<1> DEFINE s == [i \in 1 .. count |-> Leaf(position + i - 1)]
           n == position + count
<1>1. n \in Nat /\ position <= n /\ position \in Nat /\ n - position = count
  BY DEF AtEdge
<1>2. Index(n, 0) = n /\ Index(position, 0) = position
  BY <1>1, IndexIs
<1>3. ASSUME NEW j \in 1 .. count PROVE s[j] = Node(0, position + j - 1, n) /\ s[j] \in Seq(Nat)
  <2>1. position + j - 1 \in Nat /\ position + j - 1 < n
    BY <1>1
  <2>2. s[j] = Leaf(position + j - 1)
    OBVIOUS
  <2> HIDE DEF s, n
  <2>3. Node(0, position + j - 1, n) = Leaf(position + j - 1)
    BY <1>1, <2>1, LeafIs
  <2>4. Node(0, position + j - 1, n) \in Seq(Nat)
    BY <1>1, <2>1, NodeType, DepthFacts
  <2> QED
    BY <2>2, <2>3, <2>4
<1>4. s \in [1 .. count -> Seq(Nat)]
  BY <1>3
<1>5. s \in Seq(Seq(Nat)) /\ Len(s) = count
  <2> HIDE DEF s
  <2> QED
    BY <1>4
<1>6. Index(n, 0) - Index(position, 0) = count
  BY <1>1, <1>2
<1>7. \A j \in 1 .. Index(n, 0) - Index(position, 0) : s[j] = Node(0, Index(position, 0) + j - 1, n)
  <2> HIDE DEF s, n
  <2> QED
    BY <1>2, <1>3, <1>6
<1> HIDE DEF s, n
<1>8. Carried(0) \o s = Layer(0, n)
  BY <1>1, <1>5, <1>6, <1>7, CarriedThen, DepthFacts
<1> QED
  BY <1>8 DEF s, n

(* What add computes, layer by layer, are these layers.                    *)
Above(hashes, d, count) ==
    Carried(d) \o IF d = 0 THEN [i \in 1 .. count |-> Leaf(position + i - 1)] ELSE Pairs(hashes[d - 1])

IsCmxs(hashes, count) == hashes = [d \in Layers |-> Above(hashes, d, count)]

LEMMA CmxsIs ==
    ASSUME AtEdge, NEW count \in Nat
    PROVE  /\ Cmxs(count) = [d \in Layers |-> Layer(d, position + count)]
           /\ position + count \in Nat /\ position <= position + count
<1> DEFINE n == position + count
           expected == [d \in Layers |-> Layer(d, n)]
<1>1. n \in Nat /\ position <= n
  BY DEF AtEdge
<1>2. ASSUME NEW d \in Layers, d # 0, NEW hashes, hashes[d - 1] = Layer(d - 1, n)
      PROVE  Above(hashes, d, count) = Layer(d, n)
  <2>1. d - 1 \in Layers /\ (d - 1) + 1 = d
    BY <1>2, DepthFacts DEF Layers
  <2> DEFINE p == Pairs(Layer(d - 1, n))
  <2>2. /\ p \in Seq(Seq(Nat)) /\ Len(p) = Index(n, d) - Index(position, d)
        /\ \A j \in 1 .. Index(n, d) - Index(position, d) : p[j] = Node(d, Index(position, d) + j - 1, n)
    <3> DEFINE e == d - 1
    <3>1. e \in Layers /\ e + 1 \in Layers /\ e + 1 = d
      BY <2>1
    <3> HIDE DEF n, e
    <3>2. /\ Pairs(Layer(e, n)) \in Seq(Seq(Nat))
          /\ Len(Pairs(Layer(e, n))) = Index(n, e + 1) - Index(position, e + 1)
          /\ \A j \in 1 .. Index(n, e + 1) - Index(position, e + 1) :
                Pairs(Layer(e, n))[j] = Node(e + 1, Index(position, e + 1) + j - 1, n)
      BY <1>1, <3>1, PairsOfLayer
    <3> QED
      BY <3>1, <3>2 DEF e
  <2>3. Above(hashes, d, count) = Carried(d) \o p
    BY <1>2 DEF Above
  <2> HIDE DEF p, n
  <2> QED
    BY <1>1, <2>2, <2>3, CarriedThen
<1>3. \A hashes : Above(hashes, 0, count) = Layer(0, n)
  BY LeavesOfChunk DEF Above
<1> HIDE DEF n
<1>4. IsCmxs(expected, count)
  <2>1. ASSUME NEW d \in Layers PROVE Above(expected, d, count) = Layer(d, n)
    <3>1. CASE d = 0
      BY <1>3, <3>1
    <3>2. CASE d # 0
      <4>1. d - 1 \in Layers
        BY <3>2, DepthFacts DEF Layers
      <4>2. expected[d - 1] = Layer(d - 1, n)
        BY <4>1
      <4> HIDE DEF expected
      <4> QED
        BY <1>2, <3>2, <4>2
    <3> QED
      BY <3>1, <3>2
  <2> QED
    BY <2>1 DEF IsCmxs
<1> DEFINE c == Cmxs(count)
<1>5. c = CHOOSE hashes : IsCmxs(hashes, count)
  BY DEF Cmxs, IsCmxs, Above
<1>6. IsCmxs(c, count)
  <2> HIDE DEF expected, c
  <2> QED
    BY <1>4, <1>5
<1> HIDE DEF c
<1> DEFINE S == {d \in 0 .. Depth : d = Depth \/ c[d] = Layer(d, n)}
<1>7. 0 \in S
  BY <1>3, <1>6, DepthFacts DEF IsCmxs
<1>8. ASSUME NEW d \in Layers, d \in S PROVE d + 1 \in S
  <2>1. d # Depth /\ c[d] = Layer(d, n) /\ d + 1 \in 0 .. Depth /\ d \in Nat
    BY <1>8, DepthFacts DEF Layers
  <2>2. CASE d + 1 = Depth
    BY <2>1, <2>2
  <2>3. CASE d + 1 # Depth
    <3>1. d + 1 \in Layers /\ d + 1 # 0 /\ (d + 1) - 1 = d
      BY <2>1, <2>3, DepthFacts DEF Layers
    <3>2. Above(c, d + 1, count) = Layer(d + 1, n)
      BY <1>2, <2>1, <3>1
    <3>3. c[d + 1] = Above(c, d + 1, count)
      BY <1>6, <3>1 DEF IsCmxs
    <3> QED
      BY <2>1, <3>2, <3>3
  <2> QED
    BY <2>2, <2>3
<1>9. \A d \in 0 .. Depth : d \in S
  <2> HIDE DEF S
  <2> QED
    BY <1>7, <1>8, UpToDepth
<1>10. \A d \in Layers : c[d] = Layer(d, n)
  BY <1>9, DepthFacts DEF Layers
<1>11. c = expected
  <2>1. c = [d \in Layers |-> c[d]]
    BY <1>6 DEF IsCmxs
  <2> QED
    BY <1>10, <2>1
<1> QED
  BY <1>1, <1>11 DEF c, n

-------------------------------------------------------------------------------
(* The ommers: the sibling at each depth, when it is complete.             *)
Sibling(i) == IF IsRight(i) THEN i - 1 ELSE i + 1

Ommer(pos, d, n) ==
    IF Sibling(Index(pos, d)) < Index(n, d) THEN Node(d, Sibling(Index(pos, d)), n) ELSE None

LEMMA SiblingIs ==
    ASSUME NEW i \in Nat
    PROVE  /\ Sibling(i) \in Nat /\ Sibling(i) \div 2 = i \div 2 /\ Sibling(i) # i
           /\ (IsRight(i) => i = 2 * (i \div 2) + 1 /\ Sibling(i) = 2 * (i \div 2))
           /\ (~IsRight(i) => i = 2 * (i \div 2) /\ Sibling(i) = 2 * (i \div 2) + 1)
<1>1. CASE IsRight(i)
  <2>1. i = 2 * (i \div 2) + 1 /\ i \div 2 \in Nat
    BY <1>1, Halves
  <2>2. Sibling(i) = i - 1
    BY <1>1 DEF Sibling
  <2> QED
    BY <1>1, <2>1, <2>2
<1>2. CASE ~IsRight(i)
  <2>1. i = 2 * (i \div 2) /\ i \div 2 \in Nat
    BY <1>2, Halves
  <2>2. Sibling(i) = i + 1
    BY <1>2 DEF Sibling
  <2> QED
    BY <1>2, <2>1, <2>2
<1> QED
  BY <1>1, <1>2

LEMMA OmmerPresent ==
    ASSUME NEW pos \in Nat, NEW d \in 0 .. Depth, NEW n \in Nat
    PROVE  /\ (Ommer(pos, d, n) # None <=> Sibling(Index(pos, d)) < Index(n, d))
           /\ (Ommer(pos, d, n) # None => Ommer(pos, d, n) = Node(d, Sibling(Index(pos, d)), n))
<1>1. Index(pos, d) \in Nat
  BY IndexIs
<1>2. Sibling(Index(pos, d)) \in Nat
  BY <1>1, SiblingIs
<1>3. Node(d, Sibling(Index(pos, d)), n) # None
  BY <1>2, NodeType
<1> QED
  BY <1>3 DEF Ommer

(* The edge after a chunk is the one the node serves.                      *)
LEMMA EdgeAfter ==
    ASSUME AtEdge, NEW count \in Nat
    PROVE  NewEdge(Cmxs(count)) = Served(position + count)
<1> DEFINE n == position + count
           c == Cmxs(count)
<1>1. c = [d \in Layers |-> Layer(d, n)] /\ n \in Nat /\ position <= n
  BY CmxsIs
<1> HIDE DEF n, c
<1>2. ASSUME NEW d \in Layers
      PROVE  (IF IsRight(Len(c[d])) THEN c[d][Len(c[d])] ELSE None)
               = (IF IsRight(Index(n, d)) THEN Node(d, Index(n, d) - 1, n) ELSE None)
  <2>1. /\ c[d] = Layer(d, n) /\ Len(c[d]) = Index(n, d) - First(d) /\ Index(n, d) \in Nat
        /\ First(d) <= Index(n, d) /\ First(d) \in Nat /\ First(d) = 2 * Index(position, d + 1)
        /\ \A j \in 1 .. Index(n, d) - First(d) : c[d][j] = Node(d, First(d) + j - 1, n)
    BY <1>1, LayerType, FirstIs
  <2>2. Index(position, d + 1) \in Nat /\ Len(c[d]) \in Nat
    <3>1. Index(position, d + 1) \in Nat
      BY IndexIs, DepthFacts DEF AtEdge
    <3>2. \A x, y \in Nat : y <= x => x - y \in Nat
      OBVIOUS
    <3> QED
      BY <2>1, <3>1, <3>2
  <2>3. Index(n, d) = 2 * Index(position, d + 1) + Len(c[d])
    BY <2>1, <2>2
  <2>4. IsRight(Len(c[d])) <=> IsRight(Index(n, d))
    BY <2>1, <2>2, <2>3, Parity
  <2>5. ASSUME IsRight(Len(c[d])) PROVE c[d][Len(c[d])] = Node(d, Index(n, d) - 1, n)
    <3>1. Len(c[d]) # 0
      <4>1. ~IsRight(0)
        BY DEF IsRight
      <4> QED
        BY <2>5, <4>1
    <3>2. Len(c[d]) \in 1 .. Index(n, d) - First(d) /\ First(d) + Len(c[d]) - 1 = Index(n, d) - 1
      BY <2>1, <2>2, <3>1
    <3> QED
      BY <2>1, <3>2
  <2> QED
    BY <2>4, <2>5
<1>3. NewEdge(c) = Served(n)
  BY <1>2 DEF NewEdge, Served
<1> QED
  BY <1>3 DEF c, n

(* The ommers of the notes of the chunk.                                   *)
LEMMA OmmersOfChunk ==
    ASSUME AtEdge, NEW count \in Nat, NEW pos \in position .. position + count - 1
    PROVE  NewOmmers(pos, Cmxs(count)) = [d \in Layers |-> Ommer(pos, d, position + count)]
<1> DEFINE n == position + count
           c == Cmxs(count)
<1>1. c = [d \in Layers |-> Layer(d, n)] /\ n \in Nat /\ position <= n
  BY CmxsIs
<1>2. pos \in Nat /\ position \in Nat /\ position <= pos
  BY DEF AtEdge
<1> HIDE DEF n, c
<1>3. ASSUME NEW d \in Layers
      PROVE  (LET nidx == Index(pos, d) - First(d)
              IN  IF IsRight(nidx) THEN c[d][nidx]
                  ELSE IF nidx + 1 < Len(c[d]) THEN c[d][nidx + 2] ELSE None) = Ommer(pos, d, n)
  <2> DEFINE i == Index(pos, d)
             f == First(d)
             m == Index(n, d)
             k == i - f
             u == Index(position, d + 1)
  <2>1. /\ Len(c[d]) = m - f /\ m \in Nat /\ f <= m /\ f \in Nat /\ f = 2 * u /\ f <= Index(position, d)
        /\ \A j \in 1 .. m - f : c[d][j] = Node(d, f + j - 1, n)
    BY <1>1, LayerType, FirstIs
  <2>2. i \in Nat /\ u \in Nat /\ Index(position, d) \in Nat /\ Index(position, d) <= i
    BY <1>2, IndexIs, DepthFacts
  <2>3. i <= m
    <3>1. pos <= n
      BY <1>1, <1>2 DEF n
    <3> QED
      BY <1>1, <1>2, <3>1, IndexIs, DepthFacts
  <2> HIDE DEF i, f, m, u
  <2>4. k \in Nat /\ i = 2 * u + k
    BY <2>1, <2>2
  <2>5. IsRight(k) <=> IsRight(i)
    BY <2>1, <2>2, <2>4, Parity
  <2>6. CASE IsRight(k)
    <3>1. k # 0
      BY <2>6 DEF IsRight
    <3> HIDE DEF k
    <3>2. Sibling(i) = i - 1 /\ i - 1 < m
      BY <2>1, <2>2, <2>3, <2>5, <2>6 DEF Sibling
    <3>3. k \in 1 .. m - f /\ f + k - 1 = i - 1
      BY <2>1, <2>2, <2>3, <2>4, <3>1 DEF k
    <3>4. c[d][k] = Node(d, i - 1, n)
      BY <2>1, <3>3
    <3>5. Ommer(pos, d, n) = Node(d, i - 1, n)
      BY <3>2 DEF Ommer, i, m
    <3> QED
      BY <2>6, <3>4, <3>5 DEF k, i, f
  <2>7. CASE ~IsRight(k)
    <3>1. Sibling(i) = i + 1
      BY <2>5, <2>7 DEF Sibling
    <3>2. k + 1 < Len(c[d]) <=> i + 1 < m
      BY <2>1, <2>2, <2>4
    <3>3. CASE i + 1 < m
      <4>1. k + 2 \in 1 .. m - f /\ f + (k + 2) - 1 = i + 1
        BY <2>1, <2>2, <2>4, <3>3
      <4> HIDE DEF k
      <4>2. c[d][k + 2] = Node(d, i + 1, n)
        BY <2>1, <4>1
      <4>3. Ommer(pos, d, n) = Node(d, i + 1, n)
        BY <3>1, <3>3 DEF Ommer, i, m
      <4>4. k + 1 < Len(c[d])
        BY <3>2, <3>3
      <4> QED
        BY <2>7, <4>2, <4>3, <4>4 DEF k, i, f
    <3>4. CASE ~(i + 1 < m)
      <4> HIDE DEF k
      <4>1. Ommer(pos, d, n) = None
        BY <3>1, <3>4 DEF Ommer, i, m
      <4>2. ~(k + 1 < Len(c[d]))
        BY <3>2, <3>4
      <4> QED
        BY <2>7, <4>1, <4>2 DEF k, i, f
    <3> QED
      BY <3>3, <3>4
  <2> QED
    BY <2>6, <2>7
<1>4. NewOmmers(pos, c) = [d \in Layers |-> Ommer(pos, d, n)]
  BY <1>3 DEF NewOmmers
<1> QED
  BY <1>4 DEF c, n

(* The ommers of the notes that were tracked before.                       *)
LEMMA OmmersAdvanced ==
    ASSUME AtEdge, NEW count \in Nat, NEW pos \in 0 .. position - 1,
           NEW ommers, ommers = [d \in Layers |-> Ommer(pos, d, position)]
    PROVE  Advanced(ommers, Cmxs(count)) = [d \in Layers |-> Ommer(pos, d, position + count)]
<1> DEFINE n == position + count
           c == Cmxs(count)
<1>1. c = [d \in Layers |-> Layer(d, n)] /\ n \in Nat /\ position <= n
  BY CmxsIs
<1>2. pos \in Nat /\ position \in Nat /\ pos <= position
  BY DEF AtEdge
<1> HIDE DEF n, c
<1>3. ASSUME NEW d \in Layers
      PROVE  (IF ommers[d] = None /\ Len(c[d]) >= 2 THEN c[d][2] ELSE ommers[d]) = Ommer(pos, d, n)
  <2> DEFINE i == Index(pos, d)
             s == Sibling(i)
             q == Index(position, d)
             m == Index(n, d)
             u == Index(position, d + 1)
             f == First(d)
  <2>1. /\ Len(c[d]) = m - f /\ m \in Nat /\ f <= m /\ f \in Nat /\ f = 2 * u /\ q <= m
        /\ \A j \in 1 .. m - f : c[d][j] = Node(d, f + j - 1, n)
    BY <1>1, LayerType, FirstIs
  <2>2. i \in Nat /\ u \in Nat /\ q \in Nat /\ i <= q /\ u = q \div 2 /\ d \in 0 .. Depth
    BY <1>2, IndexIs, DepthFacts
  <2>3. ommers[d] = Ommer(pos, d, position)
    OBVIOUS
  <2>4. s \in Nat /\ (IsRight(i) => s = i - 1)
        /\ (~IsRight(i) => i = 2 * (i \div 2) /\ s = 2 * (i \div 2) + 1) /\ i \div 2 \in Nat
    <3> HIDE DEF i
    <3> QED
      BY <2>2, SiblingIs, Halves DEF Sibling
  <2> HIDE DEF i, q, m, u, f, s
  <2>5. CASE s < q
    <3>1. s < m
      BY <2>1, <2>2, <2>4, <2>5
    <3>2. Node(d, s, position) = Node(d, s, n)
      BY <1>1, <1>2, <2>2, <2>4, <2>5, NodeComplete DEF q
    <3>3. Ommer(pos, d, position) = Node(d, s, position) /\ Ommer(pos, d, position) # None
      BY <1>2, <2>2, <2>5, OmmerPresent DEF s, i, q
    <3>4. Ommer(pos, d, n) = Node(d, s, n)
      BY <3>1 DEF Ommer, s, i, m
    <3> QED
      BY <2>3, <3>2, <3>3, <3>4
  <2>6. CASE ~(s < q)
    <3>1. ommers[d] = None
      BY <2>3, <2>6 DEF Ommer, s, i, q
    <3>2. ~IsRight(i)
      BY <2>2, <2>4, <2>6
    <3>3. s = i + 1 /\ q - i \in {0, 1}
      BY <2>2, <2>4, <2>6, <3>2
    <3>4. f = i
      BY <2>1, <2>2, <2>4, <3>2, <3>3
    <3>5. CASE Len(c[d]) >= 2
      <4>1. 2 \in 1 .. m - f /\ f + 2 - 1 = s /\ s < m
        BY <2>1, <2>2, <3>3, <3>4, <3>5
      <4>2. c[d][2] = Node(d, s, n)
        BY <2>1, <4>1
      <4>3. Ommer(pos, d, n) = Node(d, s, n)
        BY <4>1 DEF Ommer, s, i, m
      <4> QED
        BY <3>1, <3>5, <4>2, <4>3
    <3>6. CASE ~(Len(c[d]) >= 2)
      <4>1. ~(s < m)
        BY <2>1, <2>2, <3>3, <3>4, <3>6
      <4>2. Ommer(pos, d, n) = None
        BY <4>1 DEF Ommer, s, i, m
      <4> QED
        BY <3>1, <3>6, <4>2
    <3> QED
      BY <3>5, <3>6
  <2> QED
    BY <2>5, <2>6
<1>4. Advanced(ommers, c) = [d \in Layers |-> Ommer(pos, d, n)]
  BY <1>3 DEF Advanced
<1> QED
  BY <1>4 DEF c, n

-------------------------------------------------------------------------------
(* The synchronizer is at every time what the tree of that size makes it.  *)
OmmersRight ==
    /\ DOMAIN utxos \subseteq 0 .. position - 1
    /\ \A p \in DOMAIN utxos : utxos[p] = [d \in Layers |-> Ommer(p, d, position)]

TreeInv == AtEdge /\ position <= Size[Depth] /\ OmmersRight

LEMMA TreeInit == Init => TreeInv
<1>1. Size[Depth] \in Nat
  BY SizeIs, DepthFacts
<1>2. DOMAIN [p \in {} |-> None] = {}
  OBVIOUS
<1> QED
  BY <1>1, <1>2 DEF Init, TreeInv, AtEdge, OmmersRight

LEMMA TreeNew == TreeInv /\ New => TreeInv'
BY DEF TreeInv, AtEdge, OmmersRight, New, Served, Ommer, Index, Node

LEMMA TreeAdd ==
    ASSUME TreeInv, NEW count \in Nat, position + count <= Size[Depth],
           NEW mine \in SUBSET (position .. position + count - 1), NEW spent, Add(count, mine, spent)
    PROVE  TreeInv'
<1> DEFINE c == Cmxs(count)
           n == position + count
           tracked == [p \in DOMAIN utxos \union mine |->
                          IF p \in mine THEN NewOmmers(p, c) ELSE Advanced(utxos[p], c)]
           kept == DOMAIN tracked \ spent
<1>1. AtEdge /\ OmmersRight
  BY DEF TreeInv
<1>2. utxos' = [p \in kept |-> tracked[p]] /\ edge' = NewEdge(c) /\ position' = n
  BY DEF Add, Restrict
<1>3. edge' = Served(n) /\ n \in Nat /\ position \in Nat /\ position <= n
  <2>1. n \in Nat /\ position \in Nat /\ position <= n
    BY <1>1 DEF AtEdge
  <2> QED
    BY <1>1, <1>2, <2>1, EdgeAfter
<1>4. AtEdge' /\ position' <= Size[Depth]
  <2> HIDE DEF n
  <2>1. AtEdge'
    BY <1>2, <1>3 DEF AtEdge, Served, Index, Node
  <2> QED
    BY <1>2, <2>1 DEF n
<1>5. ASSUME NEW p \in kept
      PROVE  p \in 0 .. n - 1 /\ tracked[p] = [d \in Layers |-> Ommer(p, d, n)]
  <2>1. p \in DOMAIN utxos \union mine
    OBVIOUS
  <2>2. CASE p \in mine
    <3>1. p \in position .. position + count - 1
      BY <2>2
    <3>2. NewOmmers(p, c) = [d \in Layers |-> Ommer(p, d, n)]
      BY <1>1, <3>1, OmmersOfChunk
    <3>3. tracked[p] = NewOmmers(p, c)
      BY <2>1, <2>2
    <3>4. p \in 0 .. n - 1
      BY <1>3, <3>1
    <3> QED
      BY <3>2, <3>3, <3>4
  <2>3. CASE p \notin mine
    <3>1. p \in 0 .. position - 1 /\ utxos[p] = [d \in Layers |-> Ommer(p, d, position)]
      BY <1>1, <2>1, <2>3 DEF OmmersRight
    <3>2. Advanced(utxos[p], c) = [d \in Layers |-> Ommer(p, d, n)]
      BY <1>1, <3>1, OmmersAdvanced
    <3>3. tracked[p] = Advanced(utxos[p], c)
      BY <2>1, <2>3
    <3>4. p \in 0 .. n - 1
      BY <1>3, <3>1
    <3> QED
      BY <3>2, <3>3, <3>4
  <2> QED
    BY <2>2, <2>3
<1> HIDE DEF n, c, tracked, kept
<1>6. OmmersRight'
  <2>1. DOMAIN utxos' = kept /\ kept \subseteq 0 .. n - 1
    BY <1>2, <1>5
  <2>2. \A p \in kept : utxos'[p] = [d \in Layers |-> Ommer(p, d, n)]
    BY <1>2, <1>5
  <2>3. ASSUME NEW p \in (DOMAIN utxos)'
        PROVE  utxos'[p] = [d \in Layers |-> Ommer(p, d, position)']
    <3>1. utxos'[p] = [d \in Layers |-> Ommer(p, d, n)]
      BY <2>1, <2>2, <2>3
    <3>2. \A d \in Layers : Ommer(p, d, n) = Ommer(p, d, position)'
      BY <1>2 DEF Ommer, Node, Index
    <3> QED
      BY <3>1, <3>2
  <2>4. (DOMAIN utxos)' \subseteq 0 .. position' - 1
    BY <1>2, <2>1
  <2> QED
    BY <2>3, <2>4 DEF OmmersRight
<1> QED
  BY <1>4, <1>6 DEF TreeInv

LEMMA TreeNext == TreeInv /\ [Next]_vars => TreeInv'
<1>1. CASE TreeInv /\ Next
  <2>1. CASE New
    BY <1>1, <2>1, TreeNew
  <2>2. CASE \E count \in 0 .. MaxOutputs :
                /\ position + count <= Size[Depth]
                /\ \E mine \in SUBSET (position .. position + count - 1) :
                   \E spent \in SUBSET (DOMAIN utxos \union mine) : Add(count, mine, spent)
    <3>1. PICK count \in 0 .. MaxOutputs :
                /\ position + count <= Size[Depth]
                /\ \E mine \in SUBSET (position .. position + count - 1) :
                   \E spent \in SUBSET (DOMAIN utxos \union mine) : Add(count, mine, spent)
      BY <2>2
    <3>2. PICK mine \in SUBSET (position .. position + count - 1) :
                   \E spent \in SUBSET (DOMAIN utxos \union mine) : Add(count, mine, spent)
      BY <3>1
    <3>3. PICK spent \in SUBSET (DOMAIN utxos \union mine) : Add(count, mine, spent)
      BY <3>2
    <3>4. count \in Nat
      BY WitnessTreeAssumption
    <3> QED
      BY <1>1, <3>1, <3>3, <3>4, TreeAdd
  <2> QED
    BY <1>1, <2>1, <2>2 DEF Next
<1>2. CASE TreeInv /\ UNCHANGED vars
  BY <1>2 DEF TreeInv, AtEdge, OmmersRight, Served, Ommer, Index, Node, vars
<1> QED
  BY <1>1, <1>2

-------------------------------------------------------------------------------
(* The nodes on the right edge, with empty leaves for what is to come.     *)
NodeAbove(path, d) ==
    IF d = 0 THEN EmptyRoot(0)
    ELSE IF edge[d - 1] = None THEN Combine(path[d - 1], EmptyRoot(d - 1))
    ELSE Combine(edge[d - 1], path[d - 1])

IsEdgePath(path) == path = [d \in Layers |-> NodeAbove(path, d)]

LEMMA EdgePathIs ==
    ASSUME AtEdge
    PROVE  \A d \in Layers : EdgePath[d] = Node(d, Index(position, d), position)
<1> DEFINE n == position
           expected == [d \in Layers |-> Node(d, Index(n, d), n)]
<1>1. n \in Nat
  BY DEF AtEdge
<1>2. \A path : NodeAbove(path, 0) = Node(0, Index(n, 0), n)
  <2>1. Index(n, 0) = n /\ Size[0] = 1 /\ 0 \in 0 .. Depth
    BY <1>1, IndexIs, SizeIs, DepthFacts
  <2>2. /\ Node(0, n, n) \in Seq(Nat) /\ Len(Node(0, n, n)) = 1
        /\ \A j \in 1 .. 1 : Node(0, n, n)[j] = IF 1 * n + j <= n THEN 1 * n + j ELSE Empty
    <3>1. /\ Node(0, n, n) \in Seq(Nat) /\ Len(Node(0, n, n)) = Size[0]
          /\ \A j \in 1 .. Size[0] : Node(0, n, n)[j] = IF Size[0] * n + j <= n THEN Size[0] * n + j ELSE Empty
      BY <1>1, <2>1, NodeType
    <3> QED
      BY <2>1, <3>1
  <2>3. /\ EmptyRoot(0) \in Seq(Nat) /\ Len(EmptyRoot(0)) = 1
        /\ \A j \in 1 .. 1 : EmptyRoot(0)[j] = Empty
    BY <2>1, EmptyIs
  <2>4. \A j \in 1 .. 1 : ~(1 * n + j <= n)
    BY <1>1
  <2>5. Node(0, n, n) = EmptyRoot(0)
    BY <2>2, <2>3, <2>4, SameHash
  <2> QED
    BY <2>1, <2>5 DEF NodeAbove
<1>3. ASSUME NEW d \in Layers, d + 1 \in Layers, NEW path, path[d] = Node(d, Index(n, d), n)
      PROVE  NodeAbove(path, d + 1) = Node(d + 1, Index(n, d + 1), n)
  <2> DEFINE i == Index(n, d)
  <2>1. i \in Nat /\ Index(n, d + 1) = i \div 2 /\ i \div 2 \in Nat /\ d \in 0 .. Depth
        /\ d + 1 # 0 /\ (d + 1) - 1 = d
    <3>1. d \in 0 .. Depth /\ d \in Nat
      BY DepthFacts
    <3>2. i \in Nat /\ Index(n, d + 1) = i \div 2
      BY <1>1, <3>1, IndexIs
    <3>3. i \div 2 \in Nat
      BY <3>2, Halves
    <3> QED
      BY <3>1, <3>2, <3>3
  <2>2. NodeAbove(path, d + 1) = IF edge[d] = None THEN Combine(path[d], EmptyRoot(d))
                             ELSE Combine(edge[d], path[d])
    BY <2>1 DEF NodeAbove
  <2>3. edge[d] = IF IsRight(i) THEN Node(d, i - 1, n) ELSE None
    BY DEF AtEdge, Served
  <2> HIDE DEF i
  <2>4. Combine(Node(d, 2 * (i \div 2), n), Node(d, 2 * (i \div 2) + 1, n)) = Node(d + 1, i \div 2, n)
    BY <1>1, <2>1, PairOfNodes
  <2>5. CASE IsRight(i)
    <3>1. i = 2 * (i \div 2) + 1 /\ i - 1 = 2 * (i \div 2)
      BY <2>1, <2>5, Halves
    <3>2. i - 1 \in Nat
      BY <2>1, <3>1
    <3>3. Node(d, i - 1, n) # None
      BY <1>1, <2>1, <3>2, NodeType
    <3> QED
      BY <1>3, <2>1, <2>2, <2>3, <2>4, <2>5, <3>1, <3>3 DEF i
  <2>6. CASE ~IsRight(i)
    <3>1. i = 2 * (i \div 2) /\ i + 1 = 2 * (i \div 2) + 1 /\ i + 1 > i
      BY <2>1, <2>6, Halves
    <3>2. EmptyRoot(d) = Node(d, i + 1, n)
      BY <1>1, <2>1, <3>1, NodeToCome DEF i
    <3>3. path[d] = Node(d, i, n)
      BY <1>3 DEF i
    <3>4. NodeAbove(path, d + 1) = Combine(Node(d, i, n), Node(d, i + 1, n))
      BY <2>2, <2>3, <2>6, <3>2, <3>3
    <3> QED
      BY <2>1, <2>4, <3>1, <3>4
  <2> QED
    BY <2>5, <2>6
<1>4. IsEdgePath(expected)
  <2>1. ASSUME NEW d \in Layers PROVE NodeAbove(expected, d) = Node(d, Index(n, d), n)
    <3>1. CASE d = 0
      BY <1>2, <3>1
    <3>2. CASE d # 0
      <4> DEFINE e == d - 1
      <4>1. e \in Layers /\ e + 1 = d
        BY <3>2, DepthFacts DEF Layers
      <4>2. expected[e] = Node(e, Index(n, e), n)
        BY <4>1
      <4> HIDE DEF expected, e, n
      <4>3. NodeAbove(expected, e + 1) = Node(e + 1, Index(n, e + 1), n)
        BY <1>3, <4>1, <4>2
      <4> QED
        BY <4>1, <4>3
    <3> QED
      BY <3>1, <3>2
  <2> QED
    BY <2>1 DEF IsEdgePath
<1> DEFINE c == EdgePath
<1>5. c = CHOOSE path : IsEdgePath(path)
  BY DEF EdgePath, IsEdgePath, NodeAbove
<1>6. IsEdgePath(c)
  <2> HIDE DEF expected, c
  <2> QED
    BY <1>4, <1>5
<1> HIDE DEF c
<1> DEFINE S == {d \in 0 .. Depth : d = Depth \/ c[d] = Node(d, Index(n, d), n)}
<1>7. 0 \in S
  BY <1>2, <1>6, DepthFacts DEF IsEdgePath
<1>8. ASSUME NEW d \in Layers, d \in S PROVE d + 1 \in S
  <2>1. d # Depth /\ c[d] = Node(d, Index(n, d), n) /\ d + 1 \in 0 .. Depth /\ d \in Nat
    BY <1>8, DepthFacts DEF Layers
  <2>2. CASE d + 1 = Depth
    BY <2>1, <2>2
  <2>3. CASE d + 1 # Depth
    <3>1. d + 1 \in Layers
      BY <2>1, <2>3, DepthFacts DEF Layers
    <3>2. NodeAbove(c, d + 1) = Node(d + 1, Index(n, d + 1), n)
      BY <1>3, <2>1, <3>1
    <3>3. c[d + 1] = NodeAbove(c, d + 1)
      BY <1>6, <3>1 DEF IsEdgePath
    <3> QED
      BY <2>1, <3>2, <3>3
  <2> QED
    BY <2>2, <2>3
<1>9. \A d \in 0 .. Depth : d \in S
  <2> HIDE DEF S
  <2> QED
    BY <1>7, <1>8, UpToDepth
<1> QED
  BY <1>9, DepthFacts DEF Layers, c

(* Below the first ommer that is missing, the edge is to the right of the  *)
(* note; above it, the note is on the edge.                                *)
LEMMA AllPresent ==
    ASSUME NEW n \in Nat, NEW pos \in Nat, pos < n
    PROVE  \A d \in 0 .. Depth :
              (\A e \in 0 .. d - 1 : Ommer(pos, e, n) # None) => Index(pos, d) < Index(n, d)
<1> DEFINE S == {d \in 0 .. Depth :
                    (\A e \in 0 .. d - 1 : Ommer(pos, e, n) # None) => Index(pos, d) < Index(n, d)}
<1>1. 0 \in S
  BY IndexIs, DepthFacts
<1>2. ASSUME NEW d \in Layers, d \in S PROVE d + 1 \in S
  <2> SUFFICES ASSUME \A e \in 0 .. (d + 1) - 1 : Ommer(pos, e, n) # None
               PROVE  Index(pos, d + 1) < Index(n, d + 1)
    BY DepthFacts
  <2>1. d \in 0 .. (d + 1) - 1 /\ (\A e \in 0 .. d - 1 : e \in 0 .. (d + 1) - 1) /\ d \in 0 .. Depth
    BY DepthFacts
  <2> DEFINE i == Index(pos, d)
             q == Index(n, d)
             h == i \div 2
             k == q \div 2
  <2>2. i < q
    BY <1>2, <2>1
  <2>3. Sibling(i) < q
    BY <2>1, OmmerPresent
  <2>4. i \in Nat /\ q \in Nat /\ Index(pos, d + 1) = h /\ Index(n, d + 1) = k
    BY <2>1, IndexIs
  <2> HIDE DEF i, q
  <2>5. h \in Nat /\ k \in Nat /\ 2 * k <= q /\ q <= 2 * k + 1
    BY <2>4, Halves
  <2>6. 2 * h + 1 < q
    BY <2>2, <2>3, <2>4, SiblingIs
  <2> HIDE DEF h, k
  <2>7. h < k
    BY <2>4, <2>5, <2>6
  <2> QED
    BY <2>4, <2>7
<1>3. \A d \in 0 .. Depth : d \in S
  <2> HIDE DEF S
  <2> QED
    BY <1>1, <1>2, UpToDepth
<1> QED
  BY <1>3

LEMMA OneMissing ==
    ASSUME NEW n \in Nat, NEW pos \in Nat, pos < n
    PROVE  \A d \in 0 .. Depth :
              (\E e \in 0 .. d - 1 : Ommer(pos, e, n) = None) => Index(pos, d) = Index(n, d)
<1> DEFINE S == {d \in 0 .. Depth :
                    (\E e \in 0 .. d - 1 : Ommer(pos, e, n) = None) => Index(pos, d) = Index(n, d)}
<1>1. 0 \in S
  BY DepthFacts
<1>2. ASSUME NEW d \in Layers, d \in S PROVE d + 1 \in S
  <2> SUFFICES ASSUME NEW e \in 0 .. (d + 1) - 1, Ommer(pos, e, n) = None
               PROVE  Index(pos, d + 1) = Index(n, d + 1)
    BY DepthFacts
  <2> DEFINE i == Index(pos, d)
             q == Index(n, d)
  <2>1. i \in Nat /\ q \in Nat /\ Index(pos, d + 1) = i \div 2 /\ Index(n, d + 1) = q \div 2 /\ i <= q
        /\ d \in 0 .. Depth
    BY IndexIs, DepthFacts
  <2>2. CASE e = d
    <3>1. ~(Sibling(i) < q)
      BY <2>1, <2>2, OmmerPresent
    <3> HIDE DEF i, q
    <3> DEFINE h == i \div 2
    <3>2. h \in Nat /\ (IsRight(i) => i = 2 * h + 1 /\ Sibling(i) = 2 * h)
          /\ (~IsRight(i) => i = 2 * h /\ Sibling(i) = 2 * h + 1)
      BY <2>1, SiblingIs, Halves
    <3>3. q \div 2 = h
      <4> HIDE DEF h
      <4>1. i = 2 * h /\ 2 * h <= q /\ q <= 2 * h + 1
        BY <2>1, <3>1, <3>2
      <4> QED
        BY <2>1, <3>2, <4>1
    <3> QED
      BY <2>1, <3>3
  <2>3. CASE e # d
    <3>1. e \in 0 .. d - 1
      BY <2>1, <2>3
    <3>2. i = q
      BY <1>2, <3>1
    <3> QED
      BY <2>1, <3>2
  <2> QED
    BY <2>2, <2>3
<1>3. \A d \in 0 .. Depth : d \in S
  <2> HIDE DEF S
  <2> QED
    BY <1>1, <1>2, UpToDepth
<1> QED
  BY <1>3

(* The path of a note has the sibling at each depth.                       *)
LEMMA PathHasSiblings ==
    ASSUME AtEdge, OmmersRight, NEW pos \in DOMAIN utxos, NEW d \in Layers
    PROVE  AuthPath(pos)[d] = Node(d, Sibling(Index(pos, d)), position)
<1> DEFINE i == Index(pos, d)
           s == Sibling(i)
           q == Index(position, d)
<1>1. /\ position \in Nat /\ pos \in Nat /\ pos < position
      /\ \A e \in Layers : utxos[pos][e] = Ommer(pos, e, position)
  BY DEF AtEdge, OmmersRight
<1>2. i \in Nat /\ q \in Nat /\ i <= q /\ d \in 0 .. Depth
  BY <1>1, IndexIs, DepthFacts
<1>3. \A e \in 0 .. d - 1 : e \in Layers
  BY DepthFacts DEF Layers
<1>4. AuthPath(pos)[d] = IF Ommer(pos, d, position) # None THEN Ommer(pos, d, position)
                         ELSE IF \A e \in 0 .. d - 1 : Ommer(pos, e, position) # None THEN EdgePath[d]
                         ELSE EmptyRoot(d)
  BY <1>1, <1>3 DEF AuthPath
<1>5. CASE Ommer(pos, d, position) # None
  BY <1>1, <1>2, <1>4, <1>5, OmmerPresent
<1>6. CASE Ommer(pos, d, position) = None
  <2>1. ~(s < q)
    BY <1>1, <1>2, <1>6, OmmerPresent
  <2> HIDE DEF i, q
  <2>2. s = i + 1 /\ s \in Nat
    <3>1. (IsRight(i) => s = i - 1) /\ (~IsRight(i) => s = i + 1)
      BY DEF Sibling
    <3>2. ~IsRight(i)
      <4>1. IsRight(i) => i - 1 < q
        BY <1>2
      <4> HIDE DEF s
      <4> QED
        BY <2>1, <3>1, <4>1
    <3> QED
      BY <1>2, <3>1, <3>2
  <2> HIDE DEF s
  <2>3. CASE \A e \in 0 .. d - 1 : Ommer(pos, e, position) # None
    <3>1. i < q
      BY <1>1, <1>2, <2>3, AllPresent DEF i, q
    <3>2. s = q
      BY <1>2, <2>1, <2>2, <3>1
    <3>3. EdgePath[d] = Node(d, q, position)
      BY EdgePathIs DEF q
    <3> QED
      BY <1>4, <1>6, <2>3, <3>2, <3>3 DEF s, i
  <2>4. CASE ~(\A e \in 0 .. d - 1 : Ommer(pos, e, position) # None)
    <3>1. i = q
      BY <1>1, <1>2, <2>4, OneMissing DEF i, q
    <3>2. s > q
      BY <1>2, <2>2, <3>1
    <3>3. Node(d, s, position) = EmptyRoot(d)
      BY <1>1, <1>2, <2>2, <3>2, NodeToCome DEF q
    <3> QED
      BY <1>4, <1>6, <2>4, <3>3 DEF s, i
  <2> QED
    BY <2>3, <2>4
<1> QED
  BY <1>5, <1>6

(* From its leaf, the path leads to the node above at each depth.          *)
StepUp(hash, pos, d) ==
    IF d = 0 THEN Leaf(pos)
    ELSE LET sibling == AuthPath(pos)[d - 1]
         IN  IF IsRight(Index(pos, d - 1)) THEN Combine(sibling, hash[d - 1])
             ELSE Combine(hash[d - 1], sibling)

IsClimb(hash, pos) == hash = [d \in 0 .. Depth |-> StepUp(hash, pos, d)]

LEMMA ClimbIs ==
    ASSUME AtEdge, OmmersRight, NEW pos \in DOMAIN utxos
    PROVE  Climb(pos) = Node(Depth, Index(pos, Depth), position)
<1> DEFINE n == position
           expected == [d \in 0 .. Depth |-> Node(d, Index(pos, d), n)]
<1>1. n \in Nat /\ pos \in Nat /\ pos < n
  BY DEF AtEdge, OmmersRight
<1>2. \A hash : StepUp(hash, pos, 0) = Node(0, Index(pos, 0), n)
  <2>1. Index(pos, 0) = pos
    BY <1>1, IndexIs
  <2>2. Node(0, pos, n) = Leaf(pos)
    BY <1>1, LeafIs
  <2> QED
    BY <2>1, <2>2 DEF StepUp
<1>3. ASSUME NEW d \in Layers, NEW hash, hash[d] = Node(d, Index(pos, d), n)
      PROVE  StepUp(hash, pos, d + 1) = Node(d + 1, Index(pos, d + 1), n)
  <2> DEFINE i == Index(pos, d)
             h == i \div 2
  <2>1. d \in 0 .. Depth /\ d + 1 # 0 /\ (d + 1) - 1 = d
    BY DepthFacts
  <2>2. i \in Nat /\ Index(pos, d + 1) = h
    BY <1>1, <2>1, IndexIs
  <2>3. AuthPath(pos)[d] = Node(d, Sibling(i), n)
    BY PathHasSiblings
  <2>4. StepUp(hash, pos, d + 1) = IF IsRight(i) THEN Combine(Node(d, Sibling(i), n), hash[d])
                                   ELSE Combine(hash[d], Node(d, Sibling(i), n))
    BY <2>1, <2>3 DEF StepUp
  <2>5. hash[d] = Node(d, i, n)
    BY <1>3
  <2> HIDE DEF i
  <2>6. h \in Nat /\ (IsRight(i) => i = 2 * h + 1 /\ Sibling(i) = 2 * h)
        /\ (~IsRight(i) => i = 2 * h /\ Sibling(i) = 2 * h + 1)
    BY <2>2, SiblingIs, Halves
  <2> HIDE DEF h
  <2>7. Combine(Node(d, 2 * h, n), Node(d, 2 * h + 1, n)) = Node(d + 1, h, n)
    BY <1>1, <2>6, PairOfNodes
  <2> QED
    BY <2>2, <2>4, <2>5, <2>6, <2>7
<1>4. IsClimb(expected, pos)
  <2>1. ASSUME NEW d \in 0 .. Depth PROVE StepUp(expected, pos, d) = Node(d, Index(pos, d), n)
    <3>1. CASE d = 0
      BY <1>2, <3>1
    <3>2. CASE d # 0
      <4> DEFINE e == d - 1
      <4>1. e \in Layers /\ e + 1 = d /\ e \in 0 .. Depth
        BY <3>2, DepthFacts DEF Layers
      <4>2. expected[e] = Node(e, Index(pos, e), n)
        BY <4>1
      <4> HIDE DEF expected, e, n
      <4>3. StepUp(expected, pos, e + 1) = Node(e + 1, Index(pos, e + 1), n)
        BY <1>3, <4>1, <4>2
      <4> QED
        BY <4>1, <4>3
    <3> QED
      BY <3>1, <3>2
  <2> QED
    BY <2>1 DEF IsClimb
<1> DEFINE c == CHOOSE hash : IsClimb(hash, pos)
<1>5. Climb(pos) = c[Depth]
  BY DEF Climb, IsClimb, StepUp
<1>6. IsClimb(c, pos)
  <2> HIDE DEF expected
  <2> QED
    BY <1>4
<1> HIDE DEF c
<1> DEFINE S == {d \in 0 .. Depth : c[d] = Node(d, Index(pos, d), n)}
<1>7. 0 \in S
  BY <1>2, <1>6, DepthFacts DEF IsClimb
<1>8. ASSUME NEW d \in Layers, d \in S PROVE d + 1 \in S
  <2>1. c[d] = Node(d, Index(pos, d), n) /\ d + 1 \in 0 .. Depth
    BY <1>8, DepthFacts
  <2>2. StepUp(c, pos, d + 1) = Node(d + 1, Index(pos, d + 1), n)
    BY <1>3, <2>1
  <2>3. c[d + 1] = StepUp(c, pos, d + 1)
    BY <1>6, <2>1 DEF IsClimb
  <2> QED
    BY <2>1, <2>2, <2>3
<1>9. \A d \in 0 .. Depth : d \in S
  <2> HIDE DEF S
  <2> QED
    BY <1>7, <1>8, UpToDepth
<1>10. c[Depth] = Node(Depth, Index(pos, Depth), n)
  BY <1>9, DepthFacts
<1> QED
  BY <1>5, <1>10

LEMMA TreeSafe == TreeInv => PathsLeadToRoot
<1> SUFFICES ASSUME TreeInv, NEW pos \in DOMAIN utxos
             PROVE  Climb(pos) = Node(Depth, 0, position)
  BY DEF PathsLeadToRoot
<1>1. AtEdge /\ OmmersRight /\ position <= Size[Depth]
  BY DEF TreeInv
<1>2. pos \in Nat /\ position \in Nat /\ pos < position
  BY <1>1 DEF AtEdge, OmmersRight
<1>3. Index(pos, Depth) = 0
  <2>1. /\ Size[Depth] \in Nat /\ Index(pos, Depth) \in Nat
        /\ Size[Depth] * Index(pos, Depth) <= pos
    <3>1. Depth \in 0 .. Depth
      BY DepthFacts
    <3> QED
      BY <1>2, <3>1, SizeIs, IndexIs
  <2>2. Index(pos, Depth) >= 1 => Size[Depth] * 1 <= Size[Depth] * Index(pos, Depth)
    BY <2>1, Monotone
  <2> QED
    BY <1>1, <1>2, <2>1, <2>2
<1> QED
  BY <1>1, <1>3, ClimbIs

(* For every depth of the tree, with chunks of any size, over any number   *)
(* of runs, and with any notes found and spent: the authentication path of *)
(* every note that is tracked leads from its leaf to the root of the tree  *)
(* with all the outputs so far (Synchronizer::add of warp/sync/shielded.rs *)
(* and build_auth_path and to_auth_path of warp/edge.rs).                  *)
THEOREM PathsAlwaysLead == Spec => []PathsLeadToRoot
<1>1. Spec => []TreeInv
  BY TreeInit, TreeNext, PTL DEF Spec
<1> QED
  BY <1>1, TreeSafe, PTL

(* The edge that add leaves is the one that a node serves for the height:  *)
(* it does not matter whether a segment continues from memory or from the  *)
(* node, nor where the chunks were cut.                                    *)
THEOREM EdgeAsServed == Spec => [](edge = Served(position))
<1>1. Spec => []TreeInv
  BY TreeInit, TreeNext, PTL DEF Spec
<1>2. TreeInv => edge = Served(position)
  BY DEF TreeInv, AtEdge
<1> QED
  BY <1>1, <1>2, PTL

(* Every hash that add combines or hands out is there: its assertions hold *)
(* and it unwraps no node that is missing, at any depth of any chunk.      *)
AllHashesThere ==
    \A count \in Nat : \A d \in Layers :
       \A j \in 1 .. Len(Cmxs(count)[d]) : Cmxs(count)[d][j] # None

THEOREM AssertionsHold == Spec => []AllHashesThere
<1>1. TreeInv => AllHashesThere
  <2> SUFFICES ASSUME TreeInv, NEW count \in Nat, NEW d \in Layers, NEW j \in 1 .. Len(Cmxs(count)[d])
               PROVE  Cmxs(count)[d][j] # None
    BY DEF AllHashesThere
  <2> DEFINE n == position + count
  <2>1. AtEdge
    BY DEF TreeInv
  <2>2. Cmxs(count)[d] = Layer(d, n) /\ n \in Nat /\ position <= n
    BY <2>1, CmxsIs
  <2> HIDE DEF n
  <2>3. /\ Len(Layer(d, n)) = Index(n, d) - First(d)
        /\ \A k \in 1 .. Index(n, d) - First(d) : Layer(d, n)[k] = Node(d, First(d) + k - 1, n)
    BY <2>1, <2>2, LayerType
  <2>4. First(d) + j - 1 \in Nat
    <3>1. j \in Nat /\ j >= 1 /\ First(d) \in Nat
      BY <2>1, <2>2, <2>3, FirstIs
    <3> QED
      BY <3>1
  <2>5. Node(d, First(d) + j - 1, n) # None
    BY <2>2, <2>4, NodeType, DepthFacts
  <2> QED
    BY <2>2, <2>3, <2>5
<1>2. Spec => []TreeInv
  BY TreeInit, TreeNext, PTL DEF Spec
<1> QED
  BY <1>1, <1>2, PTL
=============================================================================
