----------------------------- MODULE WitnessTree -----------------------------
(***************************************************************************)
(* The authentication paths of the wallet's notes (Synchronizer::add of    *)
(* warp/sync/shielded.rs).  The commitment tree has a leaf for each output *)
(* of the chain; a synchronizer keeps its right edge and, for each note it *)
(* tracks, the siblings on the way to the root that are complete.  A chunk *)
(* of blocks is added layer by layer.                                      *)
(*                                                                         *)
(* A hash is what it commits to: that of a subtree is the sequence of its  *)
(* leaves, so combining two hashes is concatenation, and different         *)
(* subtrees of one depth have different hashes.                            *)
(***************************************************************************)
EXTENDS Integers, Sequences, FiniteSets, Functions

CONSTANTS
    Depth,        \* MERKLE_DEPTH
    MaxOutputs,   \* bound: outputs of a chunk
    MaxTracked    \* bound: notes that are tracked at a time

ASSUME WitnessTreeAssumption ==
    Depth \in Nat \ {0} /\ MaxOutputs \in Nat /\ MaxTracked \in Nat

VARIABLES
    position,     \* the number of outputs before the next chunk
    edge,         \* tree_state
    utxos         \* the ommers of each note that is tracked, by its position

vars == <<position, edge, utxos>>

Layers == 0 .. Depth - 1

(* The number of leaves below a node at depth d, a power of two.           *)
Size[d \in 0 .. Depth] == IF d = 0 THEN 1 ELSE 2 * Size[d - 1]

Empty  == 0
None   == <<>>

Leaf(i)       == <<i + 1>>
Combine(l, r) == l \o r
EmptyRoot(d)  == [i \in 1 .. Size[d] |-> Empty]

(* The node with index i of the layer at depth d, in a tree of n leaves:   *)
(* what the hash of the layer below is by definition.                      *)
Node(d, i, n) ==
    [j \in 1 .. Size[d] |-> IF i * Size[d] + j <= n THEN i * Size[d] + j ELSE Empty]

Index(pos, d) == pos \div Size[d]
IsRight(i)    == i % 2 = 1

----------------------------------------------------------------------------
(* The state of the tree at a height, as the node serves it, and its edge: *)
(* at each depth the last node, when it is complete and has no sibling.    *)
Served(n) == [d \in Layers |-> IF IsRight(Index(n, d)) THEN Node(d, Index(n, d) - 1, n) ELSE None]

(* What is combined at each depth: the node on the edge if the chunk meets *)
(* it as a left sibling, then the outputs, or the pairs of the layer below.*)
Carried(d) == IF IsRight(Index(position, d)) THEN <<edge[d]>> ELSE <<>>

First(d) == Index(position, d) - Len(Carried(d))

Pairs(hashes) ==
    [i \in 1 .. Len(hashes) \div 2 |-> Combine(hashes[2 * i - 1], hashes[2 * i])]

Cmxs(count) ==
    LET cmxs[d \in Layers] ==
            Carried(d) \o IF d = 0 THEN [i \in 1 .. count |-> Leaf(position + i - 1)]
                                   ELSE Pairs(cmxs[d - 1])
    IN  cmxs

(* The last node of a layer of odd length waits for its sibling.           *)
NewEdge(cmxs) ==
    [d \in Layers |-> IF IsRight(Len(cmxs[d])) THEN cmxs[d][Len(cmxs[d])] ELSE None]

(* The ommers of a note of the chunk: its sibling at each depth, if it is  *)
(* there.  Sequences start at 1.                                           *)
NewOmmers(pos, cmxs) ==
    [d \in Layers |->
        LET nidx == Index(pos, d) - First(d)
        IN  IF IsRight(nidx) THEN cmxs[d][nidx]
            ELSE IF nidx + 1 < Len(cmxs[d]) THEN cmxs[d][nidx + 2] ELSE None]

(* The ommers of a note that was tracked: the one that is missing at a     *)
(* depth is the second hash of the layer.                                  *)
(* Mutant: only where the chunk begins with the node on the edge.          *)
AdvancedAtEdge(ommers, cmxs) ==
    [d \in Layers |->
        IF ommers[d] = None /\ Len(cmxs[d]) >= 2 /\ Carried(d) # <<>> THEN cmxs[d][2] ELSE ommers[d]]

Advanced(ommers, cmxs) ==
    [d \in Layers |-> IF ommers[d] = None /\ Len(cmxs[d]) >= 2 THEN cmxs[d][2] ELSE ommers[d]]

(* add: a chunk with count outputs.  Those at the positions of mine are    *)
(* notes of the wallet, and the notes at the positions of spent are spent  *)
(* in the chunk; their witnesses have been sent before they are removed.   *)
Add(count, mine, spent) ==
    LET cmxs    == Cmxs(count)
        tracked == [p \in DOMAIN utxos \union mine |->
                       IF p \in mine THEN NewOmmers(p, cmxs) ELSE Advanced(utxos[p], cmxs)]
    IN  /\ utxos' = Restrict(tracked, DOMAIN tracked \ spent)
        /\ edge' = NewEdge(cmxs)
        /\ position' = position + count

(* new: the next run, or the next segment, takes the edge from the node    *)
(* and the notes with the witnesses that were stored.                      *)
New ==
    /\ edge' = Served(position)
    /\ UNCHANGED <<position, utxos>>

Init ==
    /\ position \in 0 .. Size[Depth]
    /\ edge = Served(position)
    /\ utxos = [p \in {} |-> None]

Next ==
    \/ New
    \/ \E count \in 0 .. MaxOutputs :
        /\ position + count <= Size[Depth]
        /\ \E mine \in SUBSET (position .. position + count - 1) :
           \E spent \in SUBSET (DOMAIN utxos \union mine) :
            /\ Cardinality(DOMAIN utxos \union mine) <= MaxTracked
            /\ Add(count, mine, spent)

Spec == Init /\ [][Next]_vars

----------------------------------------------------------------------------
(* to_auth_path: the nodes on the right edge that are not complete, with   *)
(* empty leaves in the place of what is to come.                           *)
EdgePath ==
    LET path[d \in Layers] ==
            IF d = 0 THEN EmptyRoot(0)
            ELSE IF edge[d - 1] = None THEN Combine(path[d - 1], EmptyRoot(d - 1))
            ELSE Combine(edge[d - 1], path[d - 1])
    IN  path

(* build_auth_path: an ommer, or, at the first depth where it is missing,  *)
(* the node of the edge, and then empty trees.                             *)
AuthPath(pos) ==
    [d \in Layers |->
        IF utxos[pos][d] # None THEN utxos[pos][d]
        ELSE IF \A e \in 0 .. d - 1 : utxos[pos][e] # None THEN EdgePath[d]
        ELSE EmptyRoot(d)]

(* The root that a path leads to from its leaf.                            *)
Climb(pos) ==
    LET hash[d \in 0 .. Depth] ==
            IF d = 0 THEN Leaf(pos)
            ELSE LET sibling == AuthPath(pos)[d - 1]
                 IN  IF IsRight(Index(pos, d - 1)) THEN Combine(sibling, hash[d - 1])
                     ELSE Combine(hash[d - 1], sibling)
    IN  hash[Depth]

(* After any chunks, in any sizes, over any number of runs, the path of    *)
(* every note that is tracked leads to the root of the tree with all the   *)
(* outputs so far: the note can be spent under the anchor of that height.  *)
PathsLeadToRoot ==
    \A pos \in DOMAIN utxos : Climb(pos) = Node(Depth, 0, position)
=============================================================================
