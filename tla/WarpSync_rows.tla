--------------------------- MODULE WarpSync_rows ----------------------------
(***************************************************************************)
(* Types of WarpSync; that no witness and no spend is left without its     *)
(* note, whatever is interrupted, rewound or reorganized; and that a run   *)
(* leaves the accounts alone that it is not for.  TypeOK,                  *)
(* WitnessesHaveNotes and SpendsHaveNotes are invariants of every instance. *)
(*                                                                         *)
(* By themselves they are not inductive.  That the height of a row written *)
(* by a chunk exists rests on the messages of the channel and on the       *)
(* position of the reader, which InFlight describes.                       *)
(*                                                                         *)
(* The rows that a chunk adds for a note that the synchronizers already    *)
(* track lie at the end of the chunk; that the note is below rests on the  *)
(* order of the chunks in the channel and on what the synchronizers were   *)
(* given when the stream was opened (RowsInv).                             *)
(*                                                                         *)
(* A row of spends comes from a chunk or from a scanned address.  For a    *)
(* note of the same chunk, that it is created first rests on the blocks of *)
(* the chunk being a stretch of one branch (StreamInv); for a note that    *)
(* was tracked before, on the order of the chunks.  For a scanned address  *)
(* it rests on the rows of an account not reaching the segment until the   *)
(* address is scanned (Behind).                                            *)
(***************************************************************************)
EXTENDS WarpSync, TLAPS, WellFoundedInduction

-------------------------------------------------------------------------------
(* BlockTree alone: its types, the blocks that two paths share, and that a *)
(* path creates and spends a note once.                                    *)

(* The first blocks of the chain are well formed.                          *)
LEMMA TreeInitType == TreeInit => TreeTypeOK
<1> SUFFICES ASSUME TreeInit PROVE TreeTypeOK
  OBVIOUS
<1> DEFINE b(i) == [path |-> [k \in 1..i |-> k], mints |-> {}, spends |-> {}]
<1>1. InitHeight \in Nat /\ InitHeight >= 1 /\ InitHeight <= MaxHeight /\ MaxHeight \in Nat
  BY BlockTreeAssumption
<1>2. blocks = [i \in 1..InitHeight |-> b(i)] /\ best = InitHeight
  BY DEF TreeInit
<1>3. \A i \in 1..InitHeight : [k \in 1..i |-> k] \in Seq(Nat) /\ Len([k \in 1..i |-> k]) = i
  BY <1>1
<1>4. \A i \in 1..InitHeight : b(i) \in BlockType
  BY <1>3 DEF BlockType
<1> HIDE DEF b
<1>5. blocks \in Seq(BlockType) /\ Len(blocks) = InitHeight
  BY <1>1, <1>2, <1>4
<1>6. ASSUME NEW id \in 1..InitHeight
      PROVE  Len(PathOf(id)) = id /\ \A k \in 1..id : PathOf(id)[k] = k
  BY <1>2, <1>3 DEF PathOf, b
<1> QED
  BY <1>1, <1>2, <1>5, <1>6 DEF TreeTypeOK

(* The chain is a path of known blocks.                                    *)
LEMMA ChainType ==
    TreeTypeOK => /\ Tip \in 1..MaxHeight
                  /\ Chain \in Seq(Nat)
                  /\ \A k \in 1..Tip : Chain[k] \in 1..Len(blocks)
<1> SUFFICES ASSUME TreeTypeOK
             PROVE  /\ Tip \in 1..MaxHeight
                    /\ Chain \in Seq(Nat)
                    /\ \A k \in 1..Tip : Chain[k] \in 1..Len(blocks)
  OBVIOUS
<1>1. best \in 1..Len(blocks) /\ Len(blocks) \in Nat /\ blocks[best] \in BlockType
  BY DEF TreeTypeOK
<1>2. PathOf(best) \in Seq(Nat)
  BY <1>1 DEF PathOf, BlockType
<1>3. Len(PathOf(best)) \in 1..MaxHeight /\ \A k \in 1..Len(PathOf(best)) : PathOf(best)[k] \in 1..best
  BY <1>1 DEF TreeTypeOK
<1> QED
  BY <1>1, <1>2, <1>3 DEF Chain, Tip

(* Mining keeps every block and adds one.                                  *)
LEMMA MineType ==
    ASSUME TreeTypeOK, NEW mints \in SUBSET Note, NEW spends \in SUBSET Note, Mine(mints, spends)
    PROVE  TreeTypeOK'
<1> DEFINE p == Append(Chain, Len(blocks) + 1)
           b == [path |-> p, mints |-> mints, spends |-> spends]
<1>1. MaxHeight \in Nat /\ Tip < MaxHeight /\ blocks' = Append(blocks, b) /\ best' = Len(blocks) + 1
  BY BlockTreeAssumption DEF Mine
<1>2. Chain \in Seq(Nat) /\ Len(Chain) \in 1..MaxHeight /\ \A k \in 1..Len(Chain) : Chain[k] \in 1..Len(blocks)
  BY ChainType DEF Tip
<1>3. blocks \in Seq(BlockType) /\ Len(blocks) \in Nat
  BY DEF TreeTypeOK
<1>4. p \in Seq(Nat) /\ Len(p) = Len(Chain) + 1
  BY <1>2, <1>3
<1>5. \A k \in 1..Len(p) : p[k] \in 1..(Len(blocks) + 1)
  BY <1>2, <1>3, <1>4
<1>6. b \in BlockType /\ b.path = p
  BY <1>4 DEF BlockType
<1> HIDE DEF p, b
<1>7. blocks' \in Seq(BlockType) /\ Len(blocks') = Len(blocks) + 1
  BY <1>1, <1>3, <1>6
<1>8. ASSUME NEW id \in 1..Len(blocks')
      PROVE  /\ Len(PathOf(id)') \in 1..MaxHeight
             /\ \A k \in 1..Len(PathOf(id)') : PathOf(id)'[k] \in 1..id
  <2>1. CASE id = Len(blocks) + 1
    <3>1. PathOf(id)' = p
      BY <1>1, <1>3, <1>6, <2>1 DEF PathOf
    <3> QED
      BY <1>1, <1>2, <1>4, <1>5, <2>1, <3>1 DEF Tip
  <2>2. CASE id \in 1..Len(blocks)
    <3>1. PathOf(id)' = PathOf(id)
      BY <1>1, <1>3, <1>6, <2>2 DEF PathOf
    <3> QED
      BY <2>2, <3>1 DEF TreeTypeOK
  <2> QED
    BY <1>3, <1>7, <2>1, <2>2
<1> QED
  BY <1>1, <1>3, <1>7, <1>8 DEF TreeTypeOK

(* A reorganization only moves the tip to a known block.                   *)
LEMMA OrphanType ==
    ASSUME TreeTypeOK, NEW fork \in Heights, Orphan(fork)
    PROVE  TreeTypeOK'
<1>1. fork \in 1..Tip /\ best' = Chain[fork] /\ blocks' = blocks
  BY BlockTreeAssumption, ChainType DEF Orphan
<1>2. best' \in 1..Len(blocks)
  BY <1>1, ChainType
<1> QED
  BY <1>1, <1>2 DEF TreeTypeOK, PathOf

-------------------------------------------------------------------------------
(* What makes the blocks a tree.  A hash stands for the same path on every *)
(* branch that it is on ...                                                *)
PathsShared ==
    \A id \in 1..Len(blocks) : \A k \in 1..Len(PathOf(id)) :
        /\ Len(PathOf(PathOf(id)[k])) = k
        /\ \A j \in 1..k : PathOf(PathOf(id)[k])[j] = PathOf(id)[j]

(* ... and on every path, a note that is spent was created before.         *)
SpentAfterMint ==
    \A id \in 1..Len(blocks) :
        \A j \in 1..Len(PathOf(id)) : \A n \in blocks[PathOf(id)[j]].spends :
            /\ \E i \in 1..Len(PathOf(id)) : n \in blocks[PathOf(id)[i]].mints
            /\ \A i \in 1..Len(PathOf(id)) : n \in blocks[PathOf(id)[i]].mints => i < j

TreeInv == TreeTypeOK /\ PathsShared /\ SpentAfterMint

LEMMA TreeInitInv == TreeInit => TreeInv
<1> SUFFICES ASSUME TreeInit PROVE TreeInv
  OBVIOUS
<1>1. InitHeight \in Nat /\ blocks = [i \in 1..InitHeight |->
                   [path |-> [k \in 1..i |-> k], mints |-> {}, spends |-> {}]]
  BY BlockTreeAssumption DEF TreeInit
<1>2. Len(blocks) = InitHeight
  BY <1>1
<1>3. ASSUME NEW id \in 1..InitHeight
      PROVE  /\ PathOf(id) = [k \in 1..id |-> k] /\ Len(PathOf(id)) = id
             /\ blocks[id].spends = {}
  <2>1. blocks[id] = [path |-> [k \in 1..id |-> k], mints |-> {}, spends |-> {}]
    BY <1>1
  <2> QED
    BY <1>1, <2>1 DEF PathOf
<1>4. ASSUME NEW id \in 1..InitHeight, NEW k \in 1..id
      PROVE  k \in 1..InitHeight /\ PathOf(id)[k] = k
  BY <1>1, <1>3
<1>5. PathsShared
  <2>1. ASSUME NEW id \in 1..InitHeight, NEW k \in 1..id, NEW j \in 1..k
        PROVE  PathOf(k)[j] = PathOf(id)[j]
    <3>1. j \in 1..id /\ k \in 1..InitHeight
      BY <1>1
    <3> QED
      BY <1>4, <3>1
  <2> QED
    BY <1>2, <1>3, <1>4, <2>1 DEF PathsShared
<1>6. SpentAfterMint
  BY <1>2, <1>3, <1>4 DEF SpentAfterMint
<1> QED
  BY <1>5, <1>6, TreeInitType DEF TreeInv

(* the block that was mined, and those that were there                     *)
LEMMA MinedBlock ==
    ASSUME TreeTypeOK, NEW mints \in SUBSET Note, NEW spends \in SUBSET Note, Mine(mints, spends)
    PROVE  /\ Len(blocks') = Len(blocks) + 1
           /\ \A id \in 1..Len(blocks) : blocks'[id] = blocks[id]
           /\ blocks'[Len(blocks) + 1].mints = mints
           /\ blocks'[Len(blocks) + 1].spends = spends
           /\ blocks'[Len(blocks) + 1].path = Append(Chain, Len(blocks) + 1)
<1> DEFINE b == [path |-> Append(Chain, Len(blocks) + 1), mints |-> mints, spends |-> spends]
<1>1. blocks \in Seq(BlockType) /\ Len(blocks) \in Nat
  BY DEF TreeTypeOK
<1>2. Chain \in Seq(Nat)
  BY ChainType
<1>3. Append(Chain, Len(blocks) + 1) \in Seq(Nat)
  BY <1>1, <1>2
<1>4. b \in BlockType
  BY <1>3 DEF BlockType
<1>5. blocks' = Append(blocks, b)
  BY DEF Mine
<1>6. b.mints = mints /\ b.spends = spends /\ b.path = Append(Chain, Len(blocks) + 1)
  OBVIOUS
<1> HIDE DEF b
<1> QED
  BY <1>1, <1>4, <1>5, <1>6

LEMMA MineInv ==
    ASSUME TreeInv, NEW mints \in SUBSET Note, NEW spends \in SUBSET Note, Mine(mints, spends)
    PROVE  TreeInv'
<1> DEFINE new == Len(blocks) + 1
           p == Append(Chain, new)
           q(id) == blocks'[id].path
<1>1. TreeTypeOK /\ TreeTypeOK'
  BY MineType DEF TreeInv
<1>2. /\ Len(blocks') = new /\ blocks'[new].mints = mints /\ blocks'[new].spends = spends
      /\ blocks'[new].path = p
      /\ \A id \in 1..Len(blocks) : blocks'[id] = blocks[id]
  BY <1>1, MinedBlock
<1>3. Chain \in Seq(Nat) /\ Len(Chain) \in Nat /\ \A k \in 1..Len(Chain) : Chain[k] \in 1..Len(blocks)
  BY <1>1, ChainType DEF Tip
<1>4. Len(blocks) \in Nat /\ best \in 1..Len(blocks)
  BY <1>1 DEF TreeTypeOK
<1>5. /\ Len(p) = Len(Chain) + 1 /\ p[Len(Chain) + 1] = new
      /\ \A k \in 1..Len(Chain) : p[k] = Chain[k]
  BY <1>3, <1>4
<1>6. /\ q(new) = p
      /\ \A id \in 1..Len(blocks) : q(id) = PathOf(id)
  BY <1>2 DEF PathOf
<1>7. ASSUME NEW id \in 1..Len(blocks), NEW k \in 1..Len(PathOf(id))
      PROVE  PathOf(id)[k] \in 1..Len(blocks)
  BY <1>1, <1>4 DEF TreeTypeOK
<1>8. ASSUME NEW id \in 1..Len(blocks'), id \notin 1..Len(blocks) PROVE id = new
  BY <1>2, <1>4, <1>8
<1> HIDE DEF new, p, q
<1>9. ASSUME NEW id \in 1..Len(blocks'), NEW k \in 1..Len(q(id))
      PROVE  /\ Len(q(q(id)[k])) = k
             /\ \A j \in 1..k : q(q(id)[k])[j] = q(id)[j]
  <2>1. CASE id \in 1..Len(blocks)
    <3>1. q(id) = PathOf(id) /\ PathOf(id)[k] \in 1..Len(blocks)
      BY <1>6, <1>7, <2>1
    <3>2. q(PathOf(id)[k]) = PathOf(PathOf(id)[k])
      BY <1>6, <3>1
    <3>3. /\ Len(PathOf(PathOf(id)[k])) = k
          /\ \A j \in 1..k : PathOf(PathOf(id)[k])[j] = PathOf(id)[j]
      BY <2>1, <3>1 DEF TreeInv, PathsShared
    <3> QED
      BY <3>1, <3>2, <3>3
  <2>2. CASE id = new
    <3>1. CASE k = Len(Chain) + 1
      BY <1>5, <1>6, <2>2, <3>1
    <3>2. CASE k \in 1..Len(Chain)
      <4>1. q(id)[k] = Chain[k] /\ Chain[k] \in 1..Len(blocks)
        BY <1>3, <1>5, <1>6, <2>2, <3>2
      <4>2. q(Chain[k]) = PathOf(Chain[k])
        BY <1>6, <4>1
      <4>3. Len(PathOf(Chain[k])) = k /\ \A j \in 1..k : PathOf(Chain[k])[j] = Chain[j]
        BY <1>4, <3>2 DEF TreeInv, PathsShared, Chain
      <4>4. ASSUME NEW j \in 1..k PROVE q(id)[j] = Chain[j]
        <5>1. j \in 1..Len(Chain)
          BY <1>3, <3>2
        <5> QED
          BY <1>5, <1>6, <2>2, <5>1
      <4> QED
        BY <4>1, <4>2, <4>3, <4>4
    <3>3. k \in 1..(Len(Chain) + 1)
      BY <1>5, <1>6, <2>2
    <3> QED
      BY <1>3, <3>1, <3>2, <3>3
  <2> QED
    BY <1>8, <2>1, <2>2
<1>10. ASSUME NEW id \in 1..Len(blocks'), NEW j \in 1..Len(q(id)),
              NEW n \in blocks'[q(id)[j]].spends
       PROVE  /\ \E i \in 1..Len(q(id)) : n \in blocks'[q(id)[i]].mints
              /\ \A i \in 1..Len(q(id)) : n \in blocks'[q(id)[i]].mints => i < j
  <2>1. CASE id \in 1..Len(blocks)
    <3>1. q(id) = PathOf(id)
      BY <1>6, <2>1
    <3>2. \A i \in 1..Len(PathOf(id)) : blocks'[PathOf(id)[i]] = blocks[PathOf(id)[i]]
      BY <1>2, <1>7, <2>1
    <3> QED
      BY <1>10, <2>1, <3>1, <3>2 DEF TreeInv, SpentAfterMint
  <2>2. CASE id = new
    <3>1. q(id) = p /\ Len(q(id)) = Len(Chain) + 1
      BY <1>5, <1>6, <2>2
    <3>2. \A i \in 1..Len(Chain) : p[i] = Chain[i] /\ blocks'[p[i]] = blocks[Chain[i]]
      BY <1>2, <1>3, <1>5
    <3>3. p[Len(Chain) + 1] = new /\ blocks'[new].mints = mints /\ blocks'[new].spends = spends
      BY <1>2, <1>5
    <3>4. \A i \in 1..(Len(Chain) + 1) : i \in 1..Len(Chain) \/ i = Len(Chain) + 1
      BY <1>3
    <3>5. /\ \A x \in mints : \A i \in 1..Len(Chain) : x \notin blocks[Chain[i]].mints
          /\ \A x \in spends : \E i \in 1..Len(Chain) : x \in blocks[Chain[i]].mints
      <4>1. DOMAIN Chain = 1..Len(Chain)
        BY <1>3
      <4>2. \A x : x \in MintedOn(Chain) <=> \E i \in 1..Len(Chain) : x \in blocks[Chain[i]].mints
        BY <4>1, Zenon DEF MintedOn
      <4>3. mints \cap MintedOn(Chain) = {} /\ spends \subseteq MintedOn(Chain)
        BY DEF Mine
      <4> QED
        BY <4>2, <4>3, Zenon
    <3>6. \A k \in 1..Len(Chain) : \A x \in blocks[Chain[k]].spends :
            /\ \E i \in 1..Len(Chain) : x \in blocks[Chain[i]].mints
            /\ \A i \in 1..Len(Chain) : x \in blocks[Chain[i]].mints => i < k
      BY <1>4 DEF TreeInv, SpentAfterMint, Chain
    <3>7. \E i \in 1..Len(Chain) : n \in blocks[Chain[i]].mints
      <4>1. CASE j = Len(Chain) + 1
        BY <1>10, <3>1, <3>3, <3>5, <4>1
      <4>2. CASE j \in 1..Len(Chain)
        BY <1>10, <3>1, <3>2, <3>6, <4>2
      <4> QED
        BY <3>1, <3>4, <4>1, <4>2
    <3>8. n \notin mints
      BY <3>5, <3>7
    <3>9. \E i \in 1..(Len(Chain) + 1) : n \in blocks'[p[i]].mints
      <4>1. PICK i \in 1..Len(Chain) : n \in blocks[Chain[i]].mints
        BY <3>7
      <4>2. n \in blocks'[p[i]].mints
        BY <3>2, <4>1
      <4>3. i \in 1..(Len(Chain) + 1)
        BY <1>3
      <4> QED
        BY <4>2, <4>3
    <3>10. ASSUME NEW i \in 1..(Len(Chain) + 1), n \in blocks'[p[i]].mints PROVE i < j
      <4>1. i \in 1..Len(Chain) /\ n \in blocks[Chain[i]].mints
        BY <3>2, <3>3, <3>4, <3>8, <3>10
      <4>2. CASE j = Len(Chain) + 1
        BY <1>3, <4>1, <4>2
      <4>3. CASE j \in 1..Len(Chain)
        BY <1>10, <3>1, <3>2, <3>6, <4>1, <4>3
      <4> QED
        BY <3>1, <3>4, <4>2, <4>3
    <3> QED
      BY <3>1, <3>9, <3>10
  <2> QED
    BY <1>8, <2>1, <2>2
<1>11. PathsShared'
  BY <1>9 DEF PathsShared, PathOf, q
<1>12. SpentAfterMint'
  BY <1>10 DEF SpentAfterMint, PathOf, q
<1> QED
  BY <1>1, <1>11, <1>12 DEF TreeInv

LEMMA SameBlocksInv ==
    ASSUME TreeInv, TreeTypeOK', UNCHANGED blocks
    PROVE  TreeInv'
BY DEF TreeInv, PathsShared, SpentAfterMint, PathOf
(* On a path a note is created once and spent once.                        *)
OnceOn(path) ==
    /\ \A i, j \in 1..Len(path) : \A n \in Note :
         n \in blocks[path[i]].mints /\ n \in blocks[path[j]].mints => i = j
    /\ \A i, j \in 1..Len(path) : \A n \in Note :
         n \in blocks[path[i]].spends /\ n \in blocks[path[j]].spends => i = j

TreeOnce == \A id \in 1..Len(blocks) : OnceOn(PathOf(id))

LEMMA TreeInitOnce == TreeInit => TreeOnce
<1> SUFFICES ASSUME TreeInit, NEW id \in 1..Len(blocks) PROVE OnceOn(PathOf(id))
  BY DEF TreeOnce
<1>1. TreeTypeOK
  BY TreeInitType
<1>2. InitHeight \in Nat /\ blocks = [i \in 1..InitHeight |->
                   [path |-> [k \in 1..i |-> k], mints |-> {}, spends |-> {}]]
  BY BlockTreeAssumption DEF TreeInit
<1>3. Len(blocks) = InitHeight
  BY <1>2
<1>4. \A b \in 1..InitHeight : blocks[b].mints = {} /\ blocks[b].spends = {}
  BY <1>2
<1>5. \A k \in 1..Len(PathOf(id)) : PathOf(id)[k] \in 1..InitHeight
  BY <1>1, <1>2, <1>3 DEF TreeTypeOK
<1> QED
  BY <1>4, <1>5 DEF OnceOn

LEMMA MineOnce ==
    ASSUME TreeTypeOK, TreeOnce, NEW mints \in SUBSET Note, NEW spends \in SUBSET Note,
           Mine(mints, spends)
    PROVE  TreeOnce'
<1> DEFINE new == Len(blocks) + 1
           p == Append(Chain, new)
<1>1. /\ Len(blocks') = new /\ blocks'[new].mints = mints /\ blocks'[new].spends = spends
      /\ blocks'[new].path = p
      /\ \A id \in 1..Len(blocks) : blocks'[id] = blocks[id]
  BY MinedBlock
<1>2. Chain \in Seq(Nat) /\ Len(Chain) \in Nat /\ \A k \in 1..Len(Chain) : Chain[k] \in 1..Len(blocks)
  BY ChainType DEF Tip
<1>3. Len(blocks) \in Nat /\ best \in 1..Len(blocks)
  BY DEF TreeTypeOK
<1>4. /\ Len(p) = Len(Chain) + 1 /\ p[Len(Chain) + 1] = new
      /\ \A k \in 1..Len(Chain) : p[k] = Chain[k]
  BY <1>2, <1>3
<1>5. ASSUME NEW id \in 1..Len(blocks) PROVE OnceOn(PathOf(id))'
  <2>1. OnceOn(PathOf(id)) /\ PathOf(id)' = PathOf(id)
    BY <1>1 DEF TreeOnce, PathOf
  <2>2. \A k \in 1..Len(PathOf(id)) : blocks'[PathOf(id)[k]] = blocks[PathOf(id)[k]]
    <3>1. \A k \in 1..Len(PathOf(id)) : PathOf(id)[k] \in 1..id
      BY DEF TreeTypeOK
    <3>2. 1..id \subseteq 1..Len(blocks)
      BY <1>3
    <3> HIDE DEF new
    <3> QED
      BY <1>1, <3>1, <3>2
  <2> QED
    BY <2>1, <2>2 DEF OnceOn
<1>6. ASSUME NEW id, id = new PROVE OnceOn(PathOf(id))'
  <2>1. PathOf(id)' = p
    BY <1>1, <1>6 DEF PathOf
  <2>2. \A i \in 1..Len(Chain) : p[i] = Chain[i] /\ blocks'[p[i]] = blocks[Chain[i]]
    BY <1>1, <1>2, <1>4
  <2>3. \A i \in 1..Len(p) : i \in 1..Len(Chain) \/ i = Len(Chain) + 1
    BY <1>2, <1>4
  <2>4. OnceOn(Chain)
    BY <1>3 DEF TreeOnce, Chain
  <2>5. DOMAIN Chain = 1..Len(Chain)
    BY <1>2
  <2>6. \A x \in mints : \A i \in 1..Len(Chain) : x \notin blocks[Chain[i]].mints
    <3>1. \A x : x \in MintedOn(Chain) <=> \E i \in 1..Len(Chain) : x \in blocks[Chain[i]].mints
      BY <2>5, Zenon DEF MintedOn
    <3> QED
      BY <3>1, Zenon DEF Mine
  <2>7. \A x \in spends : \A i \in 1..Len(Chain) : x \notin blocks[Chain[i]].spends
    <3>1. \A x : x \in SpentOn(Chain) <=> \E i \in 1..Len(Chain) : x \in blocks[Chain[i]].spends
      BY <2>5, Zenon DEF SpentOn
    <3> QED
      BY <3>1, Zenon DEF Mine
  <2>8. blocks'[p[Len(Chain) + 1]].mints = mints /\ blocks'[p[Len(Chain) + 1]].spends = spends
    BY <1>1, <1>4
  <2> HIDE DEF p, new
  <2>9. ASSUME NEW i \in 1..Len(p), NEW j \in 1..Len(p), NEW n \in Note,
               n \in blocks'[p[i]].mints, n \in blocks'[p[j]].mints
        PROVE  i = j
    BY <2>2, <2>3, <2>4, <2>6, <2>8, <2>9 DEF OnceOn
  <2>10. ASSUME NEW i \in 1..Len(p), NEW j \in 1..Len(p), NEW n \in Note,
               n \in blocks'[p[i]].spends, n \in blocks'[p[j]].spends
        PROVE  i = j
    BY <2>2, <2>3, <2>4, <2>7, <2>8, <2>10 DEF OnceOn
  <2> QED
    BY <2>1, <2>9, <2>10 DEF OnceOn
<1>7. \A id \in 1..Len(blocks') : id \in 1..Len(blocks) \/ id = new
  BY <1>1, <1>3
<1> HIDE DEF new
<1> QED
  BY <1>5, <1>6, <1>7 DEF TreeOnce

LEMMA SameBlocksOnce ==
    ASSUME TreeOnce, UNCHANGED blocks
    PROVE  TreeOnce'
BY DEF TreeOnce, OnceOn, PathOf

-------------------------------------------------------------------------------
(* The wallet *)

(* A message has what its kind needs, and a chunk ends before a height.    *)
Fits(m, before) ==
    /\ m.kind = "chunk" => m.from >= 2 /\ Len(m.ids) >= 1 /\ m.from + Len(m.ids) <= before
    /\ m.kind = "header" => m.from \in 1..MaxHeight /\ Len(m.ids) = 1

(* Heights start at 1; a segment has a block; nothing is in flight outside *)
(* the stream; and the channel and the buffer of the reader hold blocks    *)
(* below the next one to read.                                             *)
InFlight ==
    /\ \A a \in Account : \A p \in PoolsOf[a] : height[a][p] >= 1
    /\ \A w \in witnesses : w.height >= 1
    /\ 0 \notin todo /\ 1 \notin todo
    /\ pc \in {"scan", "open", "read", "times"} => seg.start >= 2 /\ seg.start <= seg.end
    /\ pc # "read" => reading = FALSE /\ buf = <<>> /\ chan = <<>>
    /\ pc = "read" => /\ next >= 2 /\ next <= MaxHeight + 1
                      /\ Len(buf) + 2 <= next
    /\ \A i \in 1..Len(chan) : Fits(chan[i], next - Len(buf))

Typed == TypeOK /\ InFlight

-------------------------------------------------------------------------------
(* Extrema of sets of numbers *)

LEMMA NatHasMin ==
    ASSUME NEW S \in SUBSET Nat, S # {}
    PROVE  \E x \in S : \A y \in S : x <= y
<1>1. PICK x \in S : \A y \in S : ~ (<<y, x>> \in OpToRel(<, Nat))
  BY NatLessThanWellFounded, WFMin, Zenon
<1>2. ASSUME NEW y \in S PROVE x <= y
  <2>1. ~ (<<y, x>> \in OpToRel(<, Nat))
    BY <1>1
  <2> QED
    BY <2>1 DEF OpToRel
<1> QED
  BY <1>2

LEMMA MinOfIsMin ==
    ASSUME NEW S \in SUBSET Nat, S # {}
    PROVE  MinOf(S) \in S /\ \A y \in S : MinOf(S) <= y
BY NatHasMin DEF MinOf

LEMMA MaxOfIsMax ==
    ASSUME NEW N \in Nat, NEW S \in SUBSET (0..N), S # {}
    PROVE  MaxOf(S) \in S /\ \A y \in S : y <= MaxOf(S)
<1> DEFINE T == {N - y : y \in S}
<1>1. T \in SUBSET Nat
  OBVIOUS
<1>2. T # {}
  OBVIOUS
<1>3. PICK t \in T : \A u \in T : t <= u
  BY <1>1, <1>2, NatHasMin
<1>4. PICK x \in S : t = N - x
  OBVIOUS
<1>5. ASSUME NEW y \in S PROVE y <= x
  BY <1>3, <1>4
<1> QED
  BY <1>5 DEF MaxOf

(* the bounds of the constants *)
LEMMA Bounds ==
    /\ MaxHeight \in Nat /\ MaxHeight >= 1
    /\ \A a \in Account : Birth[a] \in 1..MaxHeight /\ PoolsOf[a] # {} /\ PoolsOf[a] \subseteq Pools
    /\ Heights = 0..MaxHeight
    /\ \A n \in Note : Owner[n] \in Account
    /\ ChanCap \in Nat /\ ChanCap >= 1
    /\ Faults \in [FaultKinds -> Nat]
BY BlockTreeAssumption, WarpSyncAssumption DEF Heights

LEMMA SyncHeightType ==
    ASSUME Typed, NEW a \in Account
    PROVE  SyncHeight(a) \in 1..MaxHeight /\ \A p \in PoolsOf[a] : SyncHeight(a) <= height[a][p]
<1> DEFINE S == {height[a][p] : p \in PoolsOf[a]}
<1>1. \A p \in PoolsOf[a] : height[a][p] \in 1..MaxHeight
  BY Bounds DEF Typed, TypeOK, DatabaseTypes, InFlight
<1>2. S \in SUBSET Nat /\ S # {} /\ S \subseteq 1..MaxHeight
  BY <1>1, Bounds
<1>3. MinOf(S) \in S /\ \A y \in S : MinOf(S) <= y
  BY <1>2, MinOfIsMin
<1> QED
  BY <1>2, <1>3 DEF SyncHeight

LEMMA TreeUnchanged ==
    ASSUME TreeTypeOK, UNCHANGED treeVars
    PROVE  TreeTypeOK'
BY DEF TreeTypeOK, treeVars, PathOf

-------------------------------------------------------------------------------
(* The initial states *)

LEMMA InitTyped == Init => Typed
<1> SUFFICES ASSUME Init PROVE Typed
  OBVIOUS
<1>1. TreeTypeOK
  BY TreeInitType DEF Init
<1>2. headers \in [Heights -> Nat]
  <2>1. \A h \in Heights : h \in Nat
    BY Bounds
  <2> QED
    BY <2>1 DEF Init, NoBlock
<1>3. DatabaseTypes
  BY <1>2, Bounds DEF Init, DatabaseTypes
<1>4. RunTypes
  BY Bounds DEF Init, RunTypes, NoSegment
<1>5. StreamTypes
  <2>1. <<>> \in Seq(Nat) /\ <<>> \in Seq(Message) /\ Len(<<>>) = 0
    OBVIOUS
  <2>2. Untracked \in [Note -> Int] /\ NoHeaders \in [Heights -> Nat] /\ NoBlock \in Nat
    BY DEF Untracked, NoHeaders, NoBlock
  <2>3. reading \in BOOLEAN
    BY DEF Init
  <2>4. next \in Nat /\ prevHash \in Nat /\ edge \in Int /\ wanted \subseteq Heights
    BY DEF Init, NoBlock
  <2>5. buf \in Seq(Nat)
    BY <2>1 DEF Init
  <2>6. chan \in Seq(Message) /\ Len(chan) <= ChanCap
    BY <2>1, Bounds DEF Init
  <2>7. utxo \in [Note -> Int] /\ pend \in [Heights -> Nat]
    BY <2>2 DEF Init
  <2> QED
    BY <2>3, <2>4, <2>5, <2>6, <2>7 DEF StreamTypes
<1>6. TypeOK
  BY <1>1, <1>3, <1>4, <1>5, Bounds DEF Init, TypeOK
<1>7. InFlight
  BY Bounds DEF Init, InFlight
<1> QED
  BY <1>6, <1>7 DEF Typed

-------------------------------------------------------------------------------
(* Steps that leave the database alone *)

LEMMA ScanDoneTyped == Typed /\ ScanDone => Typed'
<1> SUFFICES ASSUME Typed, ScanDone PROVE Typed'
  OBVIOUS
<1>1. TreeTypeOK'
  BY TreeUnchanged DEF ScanDone, Typed, TypeOK
<1>2. TypeOK'
  BY <1>1 DEF ScanDone, Typed, TypeOK, DatabaseTypes, RunTypes, StreamTypes, dbVars, runVars,
              readerVars, writerVars
<1>3. InFlight'
  BY DEF ScanDone, Typed, InFlight, dbVars, runVars, readerVars, writerVars
<1> QED
  BY <1>2, <1>3 DEF Typed

LEMMA EndStreamTyped == EndStream => StreamTypes'
<1> SUFFICES ASSUME EndStream PROVE StreamTypes'
  OBVIOUS
<1>1. <<>> \in Seq(Nat) /\ <<>> \in Seq(Message) /\ Len(<<>>) = 0
  OBVIOUS
<1>2. Untracked \in [Note -> Int] /\ NoHeaders \in [Heights -> Nat] /\ NoBlock \in Nat
  BY DEF Untracked, NoHeaders, NoBlock
<1>3. reading' \in BOOLEAN
  BY DEF EndStream
<1>4. next' \in Nat /\ prevHash' \in Nat /\ edge' \in Int /\ wanted' \subseteq Heights
  BY DEF EndStream, NoBlock
<1>5. buf' \in Seq(Nat)
  BY <1>1 DEF EndStream
<1>6. chan' \in Seq(Message) /\ Len(chan') <= ChanCap
  BY <1>1, Bounds DEF EndStream
<1>7. utxo' \in [Note -> Int] /\ pend' \in [Heights -> Nat]
  BY <1>2 DEF EndStream
<1> QED
  BY <1>3, <1>4, <1>5, <1>6, <1>7 DEF StreamTypes

LEMMA RunEndsTyped ==
    ASSUME Typed, EndRun, EndStream, UNCHANGED <<treeVars, dbVars>>,
           left' \in [FaultKinds -> Nat]
    PROVE  Typed'
<1>1. TreeTypeOK'
  BY TreeUnchanged DEF Typed, TypeOK
<1>2. DatabaseTypes'
  BY DEF Typed, TypeOK, DatabaseTypes, dbVars
<1>3. RunTypes'
  BY Bounds DEF EndRun, RunTypes, NoSegment
<1>4. StreamTypes'
  BY EndStreamTyped
<1>5. InFlight'
  BY Bounds DEF EndRun, EndStream, Typed, InFlight, dbVars
<1> QED
  BY <1>1, <1>2, <1>3, <1>4, <1>5 DEF Typed, TypeOK

LEMMA FaultType ==
    ASSUME TypeOK, NEW k \in FaultKinds, Fault(k)
    PROVE  left' \in [FaultKinds -> Nat]
BY DEF TypeOK, Fault

LEMMA AbortTyped == Typed /\ Abort => Typed'
<1> SUFFICES ASSUME Typed, Abort PROVE Typed'
  OBVIOUS
<1>1. left' \in [FaultKinds -> Nat]
  <2>1. "crash" \in FaultKinds
    BY DEF FaultKinds
  <2> QED
    BY <2>1, FaultType DEF Typed, Abort
<1> QED
  BY <1>1, RunEndsTyped DEF Abort

LEMMA RequestFailsTyped == Typed /\ RequestFails => Typed'
BY RunEndsTyped DEF RequestFails, Typed, TypeOK

LEMMA FailChunkTyped == Typed /\ FailChunk => Typed'
BY RunEndsTyped DEF FailChunk, Typed, TypeOK

LEMMA NodeStepTyped == Typed /\ NodeStep => Typed'
<1> SUFFICES ASSUME Typed, NodeStep PROVE Typed'
  OBVIOUS
<1> USE DEF Typed
<1>1. TreeTypeOK'
  BY MineType, OrphanType DEF NodeStep, TypeOK
<1>2. left' \in [FaultKinds -> Nat]
  <2>1. "midblock" \in FaultKinds /\ "orphan" \in FaultKinds /\ "midorphan" \in FaultKinds
    BY DEF FaultKinds
  <2> QED
    BY <2>1, FaultType DEF NodeStep, TypeOK
<1>3. TypeOK'
  BY <1>1, <1>2 DEF NodeStep, TypeOK, DatabaseTypes, RunTypes, StreamTypes, dbVars, runVars,
                    readerVars, writerVars
<1>4. InFlight'
  BY DEF NodeStep, InFlight, dbVars, runVars, readerVars, writerVars
<1> QED
  BY <1>3, <1>4

LEMMA BeginSegmentTyped == Typed /\ BeginSegment => Typed'
<1> SUFFICES ASSUME Typed, BeginSegment PROVE Typed'
  OBVIOUS
<1> USE DEF Typed
<1> DEFINE start == MinOf(todo)
           later == todo \ {start}
           end == SegmentEnd(later)
<1>1. todo \in SUBSET Nat /\ todo # {}
  BY Bounds DEF BeginSegment, TypeOK, RunTypes
<1>0. todo \subseteq 2..(MaxHeight + 1)
  <2>1. todo \subseteq 0..(MaxHeight + 1) /\ 0 \notin todo /\ 1 \notin todo
    BY DEF TypeOK, RunTypes, InFlight
  <2> QED
    BY <2>1, Bounds
<1>2. start \in todo /\ start \in 2..(MaxHeight + 1)
  BY <1>0, <1>1, MinOfIsMin
<1>3. end \in Heights
  <2>1. CASE later = {}
    BY <2>1 DEF SegmentEnd, TypeOK, RunTypes
  <2>2. CASE later # {}
    <3>1. MinOf(later) \in later
      BY <1>1, <2>2, MinOfIsMin
    <3>2. MinOf(later) \in 2..(MaxHeight + 1)
      BY <1>0, <3>1
    <3> QED
      BY <2>2, <3>2, Bounds DEF SegmentEnd
  <2> QED
    BY <2>1, <2>2
<1>4. TreeTypeOK'
  BY TreeUnchanged DEF BeginSegment, TypeOK
<1> HIDE DEF start, later, end
<1>5. CASE start > end
  <2>1. EndRun
    BY <1>5 DEF BeginSegment, start, later, end
  <2>2. RunTypes'
    BY <2>1, Bounds DEF EndRun, RunTypes, NoSegment
  <2>3. DatabaseTypes' /\ StreamTypes' /\ left' \in [FaultKinds -> Nat]
    BY DEF BeginSegment, TypeOK, DatabaseTypes, StreamTypes, dbVars, readerVars, writerVars
  <2>4. InFlight'
    BY <2>1 DEF BeginSegment, EndRun, InFlight, dbVars, readerVars, writerVars
  <2> QED
    BY <1>4, <2>2, <2>3, <2>4 DEF TypeOK
<1>6. CASE start <= end
  <2> DEFINE accounts == {a \in chosen : resume[a] <= start}
  <2>1. /\ pc' = "scan" /\ seg' = [start |-> start, end |-> end, accounts |-> accounts]
        /\ todo' = later
        /\ scan' = {s \in accounts \X AddrIndexes : s[2] \in DOMAIN AddrsOf[s[1]]}
        /\ UNCHANGED <<chosen, target, resume>>
    BY <1>2, <1>3, <1>6, Bounds DEF BeginSegment, start, later, end
  <2>2. accounts \subseteq Account
    BY DEF TypeOK, RunTypes
  <2>3. scan' \subseteq Account \X AddrIndexes
    BY <2>1, <2>2
  <2>4. later \subseteq todo
    BY DEF later
  <2> HIDE DEF accounts
  <2>5. TypeOK'
    BY <1>2, <1>3, <1>4, <2>1, <2>2, <2>3, <2>4, Bounds
    DEF BeginSegment, TypeOK, DatabaseTypes, RunTypes, StreamTypes, dbVars, readerVars, writerVars
  <2>6. InFlight'
    BY <1>2, <1>3, <1>6, <2>1, <2>4, Bounds DEF BeginSegment, InFlight, dbVars, readerVars, writerVars
  <2> QED
    BY <2>5, <2>6
<1> QED
  BY <1>2, <1>3, <1>5, <1>6, Bounds
-------------------------------------------------------------------------------
(* Steps that trim the database *)

LEMMA HeightsOfRows ==
    Typed => /\ \A a \in Account : height[a] \in [PoolsOf[a] -> 1..MaxHeight]
             /\ \A w \in witnesses : w \in WitnessRow /\ w.height \in 1..MaxHeight
<1> SUFFICES ASSUME Typed
             PROVE  /\ \A a \in Account : height[a] \in [PoolsOf[a] -> 1..MaxHeight]
                    /\ \A w \in witnesses : w \in WitnessRow /\ w.height \in 1..MaxHeight
  OBVIOUS
<1>1. ASSUME NEW a \in Account PROVE height[a] \in [PoolsOf[a] -> 1..MaxHeight]
  <2>1. height[a] \in [PoolsOf[a] -> Heights] /\ \A p \in PoolsOf[a] : height[a][p] >= 1
    BY DEF Typed, TypeOK, DatabaseTypes, InFlight
  <2> QED
    BY <2>1, Bounds
<1>2. ASSUME NEW w \in witnesses PROVE w \in WitnessRow /\ w.height \in 1..MaxHeight
  <2>1. w \in WitnessRow /\ w.height >= 1
    BY DEF Typed, TypeOK, DatabaseTypes, InFlight
  <2> QED
    BY <2>1, Bounds DEF WitnessRow
<1> QED
  BY <1>1, <1>2

(* Trimming only takes rows away and puts accounts at existing heights.    *)
LEMMA TrimTyped ==
    ASSUME Typed, NEW S \in SUBSET Account, NEW cut, NEW to,
           \A a \in S : to[a] \in 1..MaxHeight,
           Trim(S, cut, to)
    PROVE  /\ noted' \in [Note -> Heights] /\ spent' \in [Note -> Heights]
           /\ witnesses' \subseteq witnesses
           /\ DOMAIN height' = Account
           /\ \A a \in Account : height'[a] \in [PoolsOf[a] -> 1..MaxHeight]
<1>1. noted \in [Note -> Heights] /\ spent \in [Note -> Heights] /\ 0 \in Heights
  BY Bounds DEF Typed, TypeOK, DatabaseTypes
<1>2. noted' = [n \in Note |-> IF Gone(S, cut, Owner[n], noted[n]) THEN 0 ELSE noted[n]]
  BY DEF Trim, TrimNotes
<1>3. spent' = [n \in Note |-> IF Gone(S, cut, Owner[n], spent[n]) THEN 0 ELSE spent[n]]
  BY DEF Trim, TrimSpends
<1>4. witnesses' \subseteq witnesses
  BY DEF Trim, TrimWitnesses
<1>5. height' = [a \in Account |-> IF a \in S THEN [p \in PoolsOf[a] |-> to[a]] ELSE height[a]]
  BY DEF Trim
<1>6. noted' \in [Note -> Heights] /\ spent' \in [Note -> Heights]
  BY <1>1, <1>2, <1>3
<1>7. ASSUME NEW a \in Account PROVE height'[a] \in [PoolsOf[a] -> 1..MaxHeight]
  BY <1>5, HeightsOfRows
<1> QED
  BY <1>4, <1>5, <1>6, <1>7

(* what a change of the database must leave true *)
LEMMA DatabaseChange ==
    ASSUME Typed,
           noted' \in [Note -> Heights], spent' \in [Note -> Heights],
           headers' \in [Heights -> Nat], untimed' \subseteq Account \X Heights,
           \A w \in witnesses' : w \in WitnessRow /\ w.height \in 1..MaxHeight,
           DOMAIN height' = Account,
           \A a \in Account : height'[a] \in [PoolsOf[a] -> 1..MaxHeight]
    PROVE  /\ DatabaseTypes'
           /\ \A a \in Account : \A p \in PoolsOf[a] : height'[a][p] >= 1
           /\ \A w \in witnesses' : w.height >= 1
<1>1. \A a \in Account : height'[a] \in [PoolsOf[a] -> Heights]
  BY Bounds
<1>2. \A a \in Account : \A p \in PoolsOf[a] : height'[a][p] >= 1
  BY Bounds
<1>3. \A w \in witnesses' : w.height >= 1
  BY Bounds
<1> QED
  BY <1>1, <1>2, <1>3 DEF DatabaseTypes

LEMMA StoreHeadersType ==
    ASSUME NEW old \in [Heights -> Nat], NEW new \in [Heights -> Nat]
    PROVE  StoreHeaders(old, new) \in [Heights -> Nat]
BY DEF StoreHeaders

(* A rewind ends at a checkpoint or at the birth height.                   *)
LEMMA RewindTyped ==
    ASSUME Typed, NEW S \in SUBSET Account, NEW h, NEW hs \in [Heights -> Nat],
           NEW rows \in SUBSET (Account \X Heights), Rewind(S, h, hs, rows)
    PROVE  /\ DatabaseTypes'
           /\ \A a \in Account : \A p \in PoolsOf[a] : height'[a][p] >= 1
           /\ \A w \in witnesses' : w.height >= 1
<1> DEFINE cut == [a \in Account |-> IF CheckpointsBelow(a, h) = {} THEN 0
                                     ELSE MaxOf(CheckpointsBelow(a, h))]
           to == [a \in Account |-> IF CheckpointsBelow(a, h) = {} THEN Birth[a] ELSE cut[a]]
<1>1. ASSUME NEW a \in Account PROVE to[a] \in 1..MaxHeight
  <2>1. CheckpointsBelow(a, h) \subseteq 1..MaxHeight
    BY HeightsOfRows DEF CheckpointsBelow
  <2>2. CASE CheckpointsBelow(a, h) = {}
    BY <2>2, Bounds
  <2>3. CASE CheckpointsBelow(a, h) # {}
    <3>1. CheckpointsBelow(a, h) \subseteq 0..MaxHeight /\ MaxHeight \in Nat
      BY <2>1, Bounds
    <3>2. MaxOf(CheckpointsBelow(a, h)) \in CheckpointsBelow(a, h)
      BY <2>3, <3>1, MaxOfIsMax
    <3> QED
      BY <2>1, <2>3, <3>2
  <2> QED
    BY <2>2, <2>3
<1>2. Trim(S, cut, to)
  BY DEF Rewind
<1>3. headers' = [k \in Heights |-> IF k > h THEN NoBlock ELSE hs[k]]
  BY DEF Rewind
<1>4. headers' \in [Heights -> Nat]
  BY <1>3 DEF NoBlock
<1>5. untimed' \subseteq Account \X Heights
  BY DEF Rewind, TrimUntimed
<1> HIDE DEF cut, to
<1>6. /\ noted' \in [Note -> Heights] /\ spent' \in [Note -> Heights]
      /\ witnesses' \subseteq witnesses
      /\ DOMAIN height' = Account
      /\ \A a \in Account : height'[a] \in [PoolsOf[a] -> 1..MaxHeight]
  BY <1>1, <1>2, TrimTyped
<1>7. \A w \in witnesses' : w \in WitnessRow /\ w.height \in 1..MaxHeight
  BY <1>6, HeightsOfRows
<1> QED
  BY <1>4, <1>5, <1>6, <1>7, DatabaseChange

LEMMA UserFaultType ==
    ASSUME Typed, UserFault
    PROVE  left' \in [FaultKinds -> Nat]
<1>1. "rewind" \in FaultKinds /\ "midrewind" \in FaultKinds
  BY DEF FaultKinds
<1> QED
  BY <1>1, FaultType DEF UserFault, Typed

LEMMA UserRewindTyped ==
    ASSUME NEW a \in Account, NEW h \in Heights
    PROVE  Typed /\ UserRewind(a, h) => Typed'
<1> SUFFICES ASSUME Typed, UserRewind(a, h) PROVE Typed'
  OBVIOUS
<1>1. headers \in [Heights -> Nat] /\ untimed \in SUBSET (Account \X Heights) /\ {a} \in SUBSET Account
  BY DEF Typed, TypeOK, DatabaseTypes
<1>2. /\ DatabaseTypes'
      /\ \A b \in Account : \A p \in PoolsOf[b] : height'[b][p] >= 1
      /\ \A w \in witnesses' : w.height >= 1
  BY <1>1, RewindTyped DEF UserRewind
<1>3. left' \in [FaultKinds -> Nat]
  BY UserFaultType DEF UserRewind
<1>4. TreeTypeOK'
  BY TreeUnchanged DEF UserRewind, Typed, TypeOK
<1>5. RunTypes' /\ StreamTypes'
  BY DEF UserRewind, Typed, TypeOK, RunTypes, StreamTypes, runVars, readerVars, writerVars
<1>6. InFlight'
  BY <1>2 DEF UserRewind, Typed, InFlight, runVars, readerVars, writerVars
<1> QED
  BY <1>2, <1>3, <1>4, <1>5, <1>6 DEF Typed, TypeOK

LEMMA UserResetTyped ==
    ASSUME NEW a \in Account
    PROVE  Typed /\ UserReset(a) => Typed'
<1> SUFFICES ASSUME Typed, UserReset(a) PROVE Typed'
  OBVIOUS
<1> DEFINE cut == [b \in Account |-> 0]
<1>1. Trim({a}, cut, Birth) /\ untimed' = TrimUntimed({a}, cut, untimed)
  BY DEF UserReset
<1>2. Birth[a] \in 1..MaxHeight
  BY Bounds
<1> HIDE DEF cut
<1>3. /\ noted' \in [Note -> Heights] /\ spent' \in [Note -> Heights]
      /\ witnesses' \subseteq witnesses
      /\ DOMAIN height' = Account
      /\ \A b \in Account : height'[b] \in [PoolsOf[b] -> 1..MaxHeight]
  BY <1>1, <1>2, TrimTyped
<1>4. \A w \in witnesses' : w \in WitnessRow /\ w.height \in 1..MaxHeight
  BY <1>3, HeightsOfRows
<1>5. headers' \in [Heights -> Nat] /\ untimed' \subseteq Account \X Heights
  BY <1>1 DEF UserReset, TrimUntimed, Typed, TypeOK, DatabaseTypes
<1>6. /\ DatabaseTypes'
      /\ \A b \in Account : \A p \in PoolsOf[b] : height'[b][p] >= 1
      /\ \A w \in witnesses' : w.height >= 1
  BY <1>3, <1>4, <1>5, DatabaseChange
<1>7. TreeTypeOK' /\ left' \in [FaultKinds -> Nat]
  BY TreeUnchanged, UserFaultType DEF UserReset, Typed, TypeOK
<1>8. RunTypes' /\ StreamTypes'
  BY DEF UserReset, Typed, TypeOK, RunTypes, StreamTypes, runVars, readerVars, writerVars
<1>9. InFlight'
  BY <1>6 DEF UserReset, Typed, InFlight, runVars, readerVars, writerVars
<1> QED
  BY <1>6, <1>7, <1>8, <1>9 DEF Typed, TypeOK

LEMMA StartSyncTyped ==
    ASSUME NEW S \in SUBSET Account
    PROVE  Typed /\ StartSync(S) => Typed'
<1> SUFFICES ASSUME Typed, StartSync(S) PROVE Typed'
  OBVIOUS
<1>1. TreeTypeOK'
  BY TreeUnchanged DEF StartSync, Typed, TypeOK
<1>2. Tip \in Heights
  BY ChainType, Bounds DEF Typed, TypeOK
<1>3. witnesses' \subseteq witnesses
  BY DEF StartSync
<1>4. DatabaseTypes'
  BY <1>3 DEF StartSync, Typed, TypeOK, DatabaseTypes
<1>5. RunTypes'
  BY <1>2 DEF StartSync, Typed, TypeOK, RunTypes
<1>6. StreamTypes' /\ left' \in [FaultKinds -> Nat]
  BY DEF StartSync, Typed, TypeOK, StreamTypes, readerVars, writerVars
<1>7. InFlight'
  BY <1>3 DEF StartSync, Typed, InFlight, readerVars, writerVars
<1> QED
  BY <1>1, <1>4, <1>5, <1>6, <1>7 DEF Typed, TypeOK

LEMMA RecoverTyped == Typed /\ Recover => Typed'
<1> SUFFICES ASSUME Typed, Recover PROVE Typed'
  OBVIOUS
<1> DEFINE cut == [a \in Account |-> SyncHeight(a)]
<1>1. \A a \in Account : cut[a] \in 1..MaxHeight
  BY SyncHeightType
<1>2. chosen \in SUBSET Account
  BY DEF Typed, TypeOK, RunTypes
<1>3. /\ Trim(chosen, cut, cut)
      /\ untimed' = TrimUntimed(chosen, cut, untimed)
      /\ resume' = [a \in Account |-> IF a \in chosen THEN cut[a] + 1 ELSE 0]
      /\ todo' = {cut[a] + 1 : a \in chosen}
  BY DEF Recover
<1> HIDE DEF cut
<1>4. /\ noted' \in [Note -> Heights] /\ spent' \in [Note -> Heights]
      /\ witnesses' \subseteq witnesses
      /\ DOMAIN height' = Account
      /\ \A a \in Account : height'[a] \in [PoolsOf[a] -> 1..MaxHeight]
  BY <1>1, <1>2, <1>3, TrimTyped
<1>5. \A w \in witnesses' : w \in WitnessRow /\ w.height \in 1..MaxHeight
  BY <1>4, HeightsOfRows
<1>6. headers' \in [Heights -> Nat] /\ untimed' \subseteq Account \X Heights
  BY <1>3 DEF Recover, Typed, TypeOK, DatabaseTypes, TrimUntimed
<1>7. /\ DatabaseTypes'
      /\ \A a \in Account : \A p \in PoolsOf[a] : height'[a][p] >= 1
      /\ \A w \in witnesses' : w.height >= 1
  BY <1>4, <1>5, <1>6, DatabaseChange
<1>8. todo' \subseteq 2..(MaxHeight + 1)
  BY <1>1, <1>2, <1>3, Bounds
<1>9. RunTypes'
  <2>1. resume' \in [Account -> 0..(MaxHeight + 1)]
    BY <1>1, <1>2, <1>3, Bounds
  <2>2. todo' \subseteq 0..(MaxHeight + 1)
    BY <1>8, Bounds
  <2> QED
    BY <2>1, <2>2 DEF Recover, Typed, TypeOK, RunTypes
<1>10. TreeTypeOK' /\ StreamTypes' /\ left' \in [FaultKinds -> Nat]
  BY TreeUnchanged DEF Recover, Typed, TypeOK, StreamTypes, readerVars, writerVars
<1>11. InFlight'
  <2>1. 0 \notin todo' /\ 1 \notin todo'
    BY <1>8, Bounds
  <2> QED
    BY <1>7, <2>1 DEF Recover, Typed, InFlight, readerVars, writerVars
<1> QED
  BY <1>7, <1>9, <1>10, <1>11 DEF Typed, TypeOK
-------------------------------------------------------------------------------
(* The transparent scan *)

LEMMA ScanAddressTyped ==
    ASSUME NEW a \in Account, NEW i \in AddrIndexes, NEW upto \in Heights
    PROVE  Typed /\ ScanAddress(a, i, upto) => Typed'
<1> SUFFICES ASSUME Typed, ScanAddress(a, i, upto) PROVE Typed'
  OBVIOUS
<1> DEFINE range == seg.start..upto
           mine == {n \in Note : PoolOf[n] = 0 /\ AddrOf[n] = AddrsOf[a][i] /\ Owner[n] = a}
           mintedAt(n) == {k \in range : n \in blocks[Chain[k]].mints}
           spentAt(n) == {k \in range : n \in blocks[Chain[k]].spends}
<1>1. seg.start \in Nat /\ seg.start >= 2 /\ seg.end \in 1..MaxHeight /\ range \subseteq Heights
  BY Bounds DEF ScanAddress, Typed, TypeOK, RunTypes, InFlight
<1>2. /\ noted' = [n \in Note |-> IF n \in mine /\ noted[n] = 0 /\ mintedAt(n) # {}
                                   THEN MinOf(mintedAt(n)) ELSE noted[n]]
      /\ spent' = [n \in Note |-> IF n \in mine /\ noted'[n] # 0 /\ spent[n] = 0
                                        /\ spentAt(n) # {}
                                   THEN MinOf(spentAt(n)) ELSE spent[n]]
      /\ untimed' = untimed \cup {<<a, k>> : k \in {j \in range : \E n \in mine : ActiveAt(n, j)}}
      /\ height' = IF 0 \in PoolsOf[a] THEN [height EXCEPT ![a][0] = seg.end] ELSE height
  BY DEF ScanAddress, ScanOne
<1>3. ASSUME NEW T \in SUBSET range, T # {} PROVE MinOf(T) \in Heights
  <2>1. T \in SUBSET Nat
    BY <1>1, Bounds
  <2> QED
    BY <1>1, <1>3, <2>1, MinOfIsMin
<1>4. \A n \in Note : mintedAt(n) \subseteq range /\ spentAt(n) \subseteq range
  OBVIOUS
<1>5. noted \in [Note -> Heights] /\ spent \in [Note -> Heights] /\ headers \in [Heights -> Nat]
      /\ untimed \subseteq Account \X Heights /\ DOMAIN height = Account
  BY DEF Typed, TypeOK, DatabaseTypes
<1>6. untimed' \subseteq Account \X Heights
  <2> HIDE DEF mine
  <2>1. {j \in range : \E n \in mine : ActiveAt(n, j)} \subseteq Heights
    BY <1>1
  <2> QED
    BY <1>2, <1>5, <2>1
<1>7. noted' \in [Note -> Heights] /\ spent' \in [Note -> Heights]
  <2> HIDE DEF mine, mintedAt, spentAt, range
  <2> QED
    BY <1>2, <1>3, <1>4, <1>5
<1>8. DOMAIN height' = Account /\ \A b \in Account : height'[b] \in [PoolsOf[b] -> 1..MaxHeight]
  BY <1>1, <1>2, <1>5, HeightsOfRows
<1>9. headers' \in [Heights -> Nat] /\ \A w \in witnesses' : w \in WitnessRow /\ w.height \in 1..MaxHeight
  BY <1>5, HeightsOfRows DEF ScanAddress
<1>10. /\ DatabaseTypes'
       /\ \A b \in Account : \A p \in PoolsOf[b] : height'[b][p] >= 1
       /\ \A w \in witnesses' : w.height >= 1
  BY <1>6, <1>7, <1>8, <1>9, DatabaseChange
<1>11. left' \in [FaultKinds -> Nat]
  <2>1. "scancut" \in FaultKinds
    BY DEF FaultKinds
  <2> QED
    BY <2>1, FaultType DEF ScanAddress, Typed, TypeOK
<1>12. TreeTypeOK'
  BY TreeUnchanged DEF ScanAddress, Typed, TypeOK
<1>13. RunTypes' /\ StreamTypes'
  BY DEF ScanAddress, Typed, TypeOK, RunTypes, StreamTypes, readerVars, writerVars
<1>14. InFlight'
  BY <1>10 DEF ScanAddress, Typed, InFlight, readerVars, writerVars
<1> QED
  BY <1>10, <1>11, <1>12, <1>13, <1>14 DEF Typed, TypeOK

-------------------------------------------------------------------------------
(* The reader *)

LEMMA OpenStreamTyped == Typed /\ OpenStream => Typed'
<1> SUFFICES ASSUME Typed, OpenStream PROVE Typed'
  OBVIOUS
<1>1. TreeTypeOK' /\ DatabaseTypes' /\ left' \in [FaultKinds -> Nat]
  BY TreeUnchanged DEF OpenStream, Typed, TypeOK, DatabaseTypes, dbVars
<1>2. pc = "open" /\ seg.start \in 2..MaxHeight /\ seg.end \in Heights /\ seg.start - 1 \in 1..Tip
  BY Bounds, ChainType DEF OpenStream, Typed, TypeOK, RunTypes, InFlight
<1>3. RunTypes'
  BY DEF OpenStream, Typed, TypeOK, RunTypes, runVars
<1>4. CASE \E a \in seg.accounts : PoolsOf[a] \cap Shielded # {}
  <2>1. /\ pc' = "read" /\ reading' = TRUE /\ next' = seg.start
        /\ prevHash' = headers[seg.start - 1]
        /\ wanted' = HeightsWithoutTime(seg.start, seg.end)
        /\ edge' = Chain[seg.start - 1]
        /\ utxo' = [n \in Note |-> IF Tracked(n) /\ noted[n] # 0 /\ spent[n] = 0
                                    THEN RootAt(n, seg.start - 1) ELSE 0]
        /\ UNCHANGED <<buf, chan, pend>>
    BY <1>4 DEF OpenStream
  <2>2. reading' \in BOOLEAN
    BY <2>1
  <2>3. next' \in Nat
    BY <1>2, <2>1
  <2>4. prevHash' \in Nat /\ edge' \in Int
    <3>1. seg.start - 1 \in Heights
      BY <1>2, Bounds
    <3>2. headers[seg.start - 1] \in Nat
      BY <3>1 DEF Typed, TypeOK, DatabaseTypes
    <3>3. Chain[seg.start - 1] \in 1..Len(blocks)
      BY <1>2, ChainType DEF Typed, TypeOK
    <3> QED
      BY <2>1, <3>2, <3>3
  <2>5. wanted' \subseteq Heights
    <3>1. seg.start..seg.end \subseteq Heights
      BY <1>2, Bounds
    <3> QED
      BY <2>1, <3>1 DEF HeightsWithoutTime
  <2>6. utxo' \in [Note -> Int]
    <3>1. ASSUME NEW n \in Note, NEW h PROVE RootAt(n, h) \in Int
      <4> DEFINE rows == {w \in witnesses : w.note = n /\ w.height = h}
      <4>1. \A w \in rows : w.root \in Int
        BY HeightsOfRows DEF WitnessRow
      <4> HIDE DEF rows
      <4>2. rows # {} => (CHOOSE w \in rows : TRUE) \in rows
        OBVIOUS
      <4>3. RootAt(n, h) = IF rows = {} THEN 0 ELSE (CHOOSE w \in rows : TRUE).root
        BY DEF RootAt, rows
      <4> QED
        BY <4>1, <4>2, <4>3
    <3> QED
      BY <2>1, <3>1
  <2>7. buf' \in Seq(Nat)
    BY <2>1 DEF Typed, TypeOK, StreamTypes
  <2>8. chan' \in Seq(Message) /\ Len(chan') <= ChanCap
    BY <2>1 DEF Typed, TypeOK, StreamTypes
  <2>9. pend' \in [Heights -> Nat]
    BY <2>1 DEF Typed, TypeOK, StreamTypes
  <2>10. StreamTypes'
    BY <2>2, <2>3, <2>4, <2>5, <2>6, <2>7, <2>8, <2>9 DEF StreamTypes
  <2>11. buf = <<>> /\ chan = <<>>
    BY <1>2 DEF Typed, InFlight
  <2>12. InFlight'
    BY <1>2, <2>1, <2>11, Bounds, ChainType DEF OpenStream, Typed, TypeOK, InFlight, dbVars, runVars
  <2> QED
    BY <1>1, <1>3, <2>10, <2>12 DEF OpenStream, Typed, TypeOK, RunTypes, runVars
<1>5. CASE ~ \E a \in seg.accounts : PoolsOf[a] \cap Shielded # {}
  <2>1. pc' = "times" /\ UNCHANGED <<readerVars, writerVars>>
    BY <1>5 DEF OpenStream
  <2>2. StreamTypes'
    BY <2>1 DEF Typed, TypeOK, StreamTypes, readerVars, writerVars
  <2>3. InFlight'
    BY <1>2, <2>1 DEF OpenStream, Typed, InFlight, dbVars, runVars, readerVars, writerVars
  <2> QED
    BY <1>1, <1>3, <2>1, <2>2, <2>3 DEF Typed, TypeOK
<1> QED
  BY <1>4, <1>5
(* Sending keeps the order of the channel; the reader does not go back.    *)
LEMMA SendTyped ==
    ASSUME Typed, pc = "read", NEW msgs \in Seq(Message), Send(msgs),
           UNCHANGED <<treeVars, dbVars, pc, runVars, writerVars>>,
           reading' \in BOOLEAN, next' \in 2..(MaxHeight + 1), prevHash' \in Nat,
           wanted' \subseteq Heights, buf' \in Seq(Nat), Len(buf') + 2 <= next',
           next - Len(buf) <= next' - Len(buf'),
           \A i \in 1..Len(msgs) : Fits(msgs[i], next' - Len(buf')),
           left' \in [FaultKinds -> Nat]
    PROVE  Typed'
<1>1. TreeTypeOK' /\ DatabaseTypes' /\ RunTypes'
  BY TreeUnchanged DEF Typed, TypeOK, DatabaseTypes, RunTypes, dbVars, runVars
<1>2. /\ chan \in Seq(Message) /\ Len(chan) \in Nat /\ Len(msgs) \in Nat
      /\ buf \in Seq(Nat) /\ Len(buf) \in Nat /\ next \in Nat
      /\ Len(buf') \in Nat /\ next' \in Nat
  BY Bounds DEF Typed, TypeOK, StreamTypes
<1>3. /\ chan' \in Seq(Message) /\ Len(chan') <= ChanCap /\ Len(chan') = Len(chan) + Len(msgs)
      /\ \A i \in 1..Len(chan) : chan'[i] = chan[i]
      /\ \A i \in (Len(chan) + 1)..Len(chan') : chan'[i] = msgs[i - Len(chan)]
  BY <1>2 DEF Send
<1>4. ASSUME NEW i \in 1..Len(chan') PROVE Fits(chan'[i], next' - Len(buf'))
  <2> DEFINE m == chan'[i]
             b == next' - Len(buf')
  <2>1. CASE i \in 1..Len(chan)
    <3>1. m = chan[i] /\ chan[i] \in Message
      BY <1>2, <1>3, <2>1
    <3>2. Fits(m, next - Len(buf))
      BY <2>1, <3>1 DEF Typed, InFlight
    <3>3. m.from \in Nat /\ Len(m.ids) \in Nat
      BY SMTT(30), <3>1 DEF Message
    <3>4. next - Len(buf) \in Int /\ b \in Int /\ next - Len(buf) <= b
      BY <1>2
    <3> HIDE DEF m, b
    <3>5. Fits(m, b)
      BY SMTT(30), <3>2, <3>3, <3>4 DEF Fits
    <3> QED
      BY <3>5 DEF m, b
  <2>2. CASE i \in (Len(chan) + 1)..Len(chan')
    <3>1. i - Len(chan) \in 1..Len(msgs)
      BY <1>2, <1>3, <2>2
    <3>2. chan'[i] = msgs[i - Len(chan)]
      BY <1>3, <2>2
    <3> QED
      BY <3>1, <3>2
  <2>3. i \in 1..Len(chan) \/ i \in (Len(chan) + 1)..Len(chan')
    BY <1>2, <1>3
  <2> QED
    BY <2>1, <2>2, <2>3
<1>5. StreamTypes'
  <2>1. utxo' \in [Note -> Int] /\ edge' \in Int /\ pend' \in [Heights -> Nat]
    BY DEF Typed, TypeOK, StreamTypes, writerVars
  <2>2. reading' \in BOOLEAN
    OBVIOUS
  <2> QED
    BY <1>2, <1>3, <2>1, <2>2 DEF StreamTypes
<1>6. InFlight'
  <2>1. pc' = "read" /\ UNCHANGED <<dbVars, runVars>>
    OBVIOUS
  <2> QED
    BY <1>4, <2>1, Bounds DEF Typed, InFlight, dbVars, runVars
<1> QED
  BY <1>1, <1>5, <1>6 DEF Typed, TypeOK

(* a message of a kind that is neither a chunk nor a header *)
LEMMA OneMessageTyped ==
    ASSUME Typed, NEW m \in Message, m.kind \in {"reorg", "stop"}, pc = "read",
           Send(<<m>>), reading' = FALSE, buf' = <<>>,
           UNCHANGED <<treeVars, dbVars, pc, runVars, next, prevHash, wanted, writerVars>>,
           left' \in [FaultKinds -> Nat]
    PROVE  Typed'
<1>1. <<m>> \in Seq(Message) /\ Len(<<m>>) = 1 /\ <<m>>[1] = m
  OBVIOUS
<1>2. next' \in 2..(MaxHeight + 1) /\ next' = next /\ prevHash' \in Nat /\ wanted' \subseteq Heights
  BY Bounds DEF Typed, TypeOK, StreamTypes, InFlight
<1>3. buf' \in Seq(Nat) /\ Len(buf') = 0 /\ Len(buf) \in Nat
  BY DEF Typed, TypeOK, StreamTypes
<1>4. \A i \in 1..Len(<<m>>) : Fits(<<m>>[i], next' - Len(buf'))
  BY <1>1 DEF Fits
<1>5. reading' \in BOOLEAN
  OBVIOUS
<1>6. Len(buf') + 2 <= next' /\ next - Len(buf) <= next' - Len(buf')
  BY <1>2, <1>3, Bounds
<1> QED
  BY <1>1, <1>2, <1>3, <1>4, <1>5, <1>6, SendTyped

LEMMA DetectReorgTyped == Typed /\ DetectReorg => Typed'
<1> SUFFICES ASSUME Typed, DetectReorg PROVE Typed'
  OBVIOUS
<1>1. next \in 2..(MaxHeight + 1) /\ pc = "read"
  BY Bounds DEF DetectReorg, Streaming, Typed, TypeOK, StreamTypes, InFlight
<1>2. <<>> \in Seq(Nat)
  OBVIOUS
<1>3. Reorg(next - 1) \in Message /\ Reorg(next - 1).kind = "reorg"
  BY <1>1, <1>2 DEF Reorg, Message
<1> HIDE DEF Reorg
<1> QED
  BY <1>1, <1>3, OneMessageTyped DEF DetectReorg, Typed, TypeOK

LEMMA StopReaderTyped == Typed /\ StopReader => Typed'
<1> SUFFICES ASSUME Typed, StopReader PROVE Typed'
  OBVIOUS
<1>1. left' \in [FaultKinds -> Nat]
  <2>1. "stop" \in FaultKinds
    BY DEF FaultKinds
  <2> QED
    BY <2>1, FaultType DEF StopReader, Typed
<1>2. <<>> \in Seq(Nat)
  OBVIOUS
<1>3. Stop \in Message /\ Stop.kind = "stop"
  BY <1>2 DEF Stop, Message
<1> QED
  BY <1>1, <1>3, OneMessageTyped DEF StopReader

LEMMA EndOfStreamTyped == Typed /\ EndOfStream => Typed'
<1> SUFFICES ASSUME Typed, EndOfStream PROVE Typed'
  OBVIOUS
<1>1. left' \in [FaultKinds -> Nat]
  <2>1. "cut" \in FaultKinds
    BY DEF FaultKinds
  <2> QED
    BY <2>1, FaultType DEF EndOfStream, Typed, TypeOK
<1>2. pc = "read" /\ next \in 2..(MaxHeight + 1) /\ next \in Nat /\ buf \in Seq(Nat) /\ Len(buf) \in Nat
      /\ Len(buf) + 2 <= next
  BY Bounds DEF EndOfStream, Typed, TypeOK, StreamTypes, InFlight
<1>3. next' = next /\ prevHash' \in Nat /\ wanted' \subseteq Heights
  BY DEF EndOfStream, Typed, TypeOK, StreamTypes
<1>4. buf' \in Seq(Nat) /\ Len(buf') = 0
  BY DEF EndOfStream
<1>5. ChunkOf(buf) \in Seq(Message) /\ \A i \in 1..Len(ChunkOf(buf)) : Fits(ChunkOf(buf)[i], next)
  <2>1. CASE buf = <<>>
    BY <2>1 DEF ChunkOf
  <2>2. CASE buf # <<>>
    <3> DEFINE m == Chunk(next - Len(buf), buf)
    <3>1. m \in Message /\ m.kind = "chunk" /\ m.from = next - Len(buf) /\ m.ids = buf
      BY <1>2 DEF Chunk, Message
    <3>2. Len(buf) >= 1
      BY <1>2, <2>2
    <3>3. Fits(m, next)
      BY <1>2, <3>1, <3>2 DEF Fits
    <3> HIDE DEF m
    <3>4. ChunkOf(buf) = <<m>>
      BY <2>2 DEF ChunkOf, m
    <3> QED
      BY <3>1, <3>3, <3>4
  <2> QED
    BY <2>1, <2>2
<1>6. Send(ChunkOf(buf)) /\ UNCHANGED <<treeVars, dbVars, pc, runVars, writerVars>>
  BY DEF EndOfStream
<1>7. reading' \in BOOLEAN
  BY DEF EndOfStream
<1>8. next' - Len(buf') = next
  BY <1>2, <1>3, <1>4
<1> QED
  BY SMTT(30), <1>1, <1>2, <1>3, <1>4, <1>5, <1>6, <1>7, <1>8, SendTyped

LEMMA ReadBlockTyped ==
    ASSUME NEW full \in BOOLEAN
    PROVE  Typed /\ ReadBlock(full) => Typed'
<1> SUFFICES ASSUME Typed, ReadBlock(full) PROVE Typed'
  OBVIOUS
<1> DEFINE id == Chain[next]
           ids == Append(buf, id)
           hm == IF next \in wanted THEN <<SaveHeader(next, id)>> ELSE <<>>
           cm == IF full THEN <<Chunk(next - Len(buf), ids)>> ELSE <<>>
<1>1. pc = "read" /\ next \in 2..MaxHeight /\ buf \in Seq(Nat) /\ Len(buf) \in Nat
      /\ Len(buf) + 2 <= next /\ reading
  <2>1. pc = "read" /\ reading /\ next <= Tip /\ buf \in Seq(Nat) /\ Len(buf) \in Nat /\ next \in Nat
    BY DEF ReadBlock, Streaming, Typed, TypeOK, StreamTypes
  <2>2. Tip \in 1..MaxHeight
    BY ChainType DEF Typed, TypeOK
  <2>3. Len(buf) + 2 <= next
    BY <2>1 DEF Typed, InFlight
  <2> QED
    BY <2>1, <2>2, <2>3, Bounds
<1>2. id \in Nat
  BY <1>1, ChainType, Bounds DEF ReadBlock, Streaming, Typed, TypeOK
<1> HIDE DEF id
<1>3. ids \in Seq(Nat) /\ Len(ids) = Len(buf) + 1
  BY <1>1, <1>2
<1> HIDE DEF ids
<1>4. /\ prevHash' = id /\ buf' = (IF full THEN <<>> ELSE ids) /\ next' = next + 1
      /\ wanted' = wanted \ {next} /\ reading' = reading
      /\ UNCHANGED <<treeVars, dbVars, pc, runVars, writerVars, left>>
  BY DEF ReadBlock, id, ids
<1>5. Send(hm \o cm)
  BY DEF ReadBlock, id, ids
<1>6. hm \in Seq(Message) /\ \A i \in 1..Len(hm) : \A b \in Nat : Fits(hm[i], b)
  <2>1. SaveHeader(next, id) \in Message /\ \A b \in Nat : Fits(SaveHeader(next, id), b)
    <3>1. <<id>> \in Seq(Nat) /\ Len(<<id>>) = 1
      BY <1>2
    <3> QED
      BY <1>1, <3>1, Bounds DEF SaveHeader, Message, Fits
  <2> HIDE DEF SaveHeader
  <2> QED
    BY <2>1
<1>7. cm \in Seq(Message) /\ \A i \in 1..Len(cm) : Fits(cm[i], next' - Len(buf'))
  <2>1. CASE full
    <3> DEFINE m == Chunk(next - Len(buf), ids)
    <3>1. m \in Message /\ m.kind = "chunk" /\ m.from = next - Len(buf) /\ m.ids = ids
      BY <1>1, <1>3 DEF Chunk, Message
    <3>2. next' - Len(buf') = next + 1
      BY <1>1, <1>4, <2>1
    <3>3. Fits(m, next' - Len(buf'))
      BY <1>1, <1>3, <3>1, <3>2 DEF Fits
    <3>4. cm = <<m>>
      BY <2>1
    <3> HIDE DEF m, cm
    <3> QED
      BY <3>1, <3>3, <3>4
  <2>2. CASE ~full
    BY <2>2
  <2> QED
    BY <2>1, <2>2
<1>8. buf' \in Seq(Nat) /\ next' - Len(buf') \in Nat /\ Len(buf') + 2 <= next'
      /\ next - Len(buf) <= next' - Len(buf')
  BY <1>1, <1>3, <1>4, Bounds
<1> HIDE DEF hm, cm
<1>9. hm \o cm \in Seq(Message)
      /\ \A i \in 1..Len(hm \o cm) : Fits((hm \o cm)[i], next' - Len(buf'))
  <2>1. hm \o cm \in Seq(Message) /\ Len(hm \o cm) = Len(hm) + Len(cm)
        /\ Len(hm) \in Nat /\ Len(cm) \in Nat
    BY <1>6, <1>7
  <2>2. ASSUME NEW i \in 1..Len(hm \o cm) PROVE Fits((hm \o cm)[i], next' - Len(buf'))
    <3>1. CASE i <= Len(hm)
      <4>1. (hm \o cm)[i] = hm[i] /\ i \in 1..Len(hm)
        BY <1>6, <1>7, <2>1, <3>1
      <4> QED
        BY <1>6, <1>8, <4>1
    <3>2. CASE i > Len(hm)
      <4>1. (hm \o cm)[i] = cm[i - Len(hm)] /\ i - Len(hm) \in 1..Len(cm)
        BY <1>6, <1>7, <2>1, <3>2
      <4> QED
        BY <1>7, <4>1
    <3> QED
      BY <2>1, <3>1, <3>2
  <2> QED
    BY <2>1, <2>2
<1>10. reading' \in BOOLEAN
  BY <1>1, <1>4
<1>11. next' \in 2..(MaxHeight + 1) /\ prevHash' \in Nat /\ wanted' \subseteq Heights
       /\ left' \in [FaultKinds -> Nat]
  BY <1>1, <1>2, <1>4, Bounds DEF Typed, TypeOK, StreamTypes
<1> QED
  BY <1>1, <1>4, <1>5, <1>8, <1>9, <1>10, <1>11, SendTyped
-------------------------------------------------------------------------------
(* The writer *)

(* A commit takes the first message from the channel.                      *)
LEMMA CommitTyped ==
    ASSUME Typed, pc = "read", chan # <<>>, chan' = Tail(chan),
           UNCHANGED <<treeVars, pc, runVars, reading, next, prevHash, wanted, buf, left>>,
           utxo' \in [Note -> Int], edge' \in Int, pend' \in [Heights -> Nat],
           DatabaseTypes',
           \A a \in Account : \A p \in PoolsOf[a] : height'[a][p] >= 1,
           \A w \in witnesses' : w.height >= 1
    PROVE  Typed'
<1>1. TreeTypeOK' /\ RunTypes'
  BY TreeUnchanged DEF Typed, TypeOK, RunTypes, runVars
<1>2. chan \in Seq(Message) /\ Len(chan) \in Nat /\ Len(chan) >= 1
  BY DEF Typed, TypeOK, StreamTypes
<1>3. /\ chan' \in Seq(Message) /\ Len(chan') = Len(chan) - 1 /\ Len(chan') <= ChanCap
      /\ \A i \in 1..Len(chan') : i + 1 \in 1..Len(chan) /\ chan'[i] = chan[i + 1]
  BY <1>2, Bounds DEF Typed, TypeOK, StreamTypes
<1>4. \A i \in 1..Len(chan') : Fits(chan'[i], next' - Len(buf'))
  BY <1>3 DEF Typed, InFlight
<1>5. StreamTypes'
  <2>1. /\ next' \in Nat /\ prevHash' \in Nat /\ wanted' \subseteq Heights
        /\ buf' \in Seq(Nat)
    BY DEF Typed, TypeOK, StreamTypes
  <2>2. reading' \in BOOLEAN
    BY DEF Typed, TypeOK, StreamTypes
  <2> QED
    BY <1>3, <2>1, <2>2 DEF StreamTypes
<1>6. InFlight'
  BY <1>4 DEF Typed, InFlight, runVars
<1> QED
  BY <1>1, <1>5, <1>6 DEF Typed, TypeOK

LEMMA HandleHeaderTyped == Typed /\ HandleHeader => Typed'
<1> SUFFICES ASSUME Typed, HandleHeader PROVE Typed'
  OBVIOUS
<1>1. pc = "read" /\ chan # <<>> /\ Head(chan).kind = "header"
  BY DEF HandleHeader, Arriving
<1>2. chan \in Seq(Message) /\ Len(chan) >= 1 /\ Head(chan) = chan[1] /\ chan[1] \in Message
  BY <1>1 DEF Typed, TypeOK, StreamTypes
<1>3. Head(chan).from \in Heights /\ Head(chan).ids[1] \in Nat
  <2>1. Fits(chan[1], next - Len(buf))
    BY <1>2 DEF Typed, InFlight
  <2>2. chan[1].from \in 1..MaxHeight /\ Len(chan[1].ids) = 1 /\ chan[1].ids \in Seq(Nat)
    BY <1>1, <1>2, <2>1 DEF Fits, Message
  <2> QED
    BY <1>2, <2>2, Bounds
<1> DEFINE new == [NoHeaders EXCEPT ![Head(chan).from] = Head(chan).ids[1]]
<1>4. new \in [Heights -> Nat]
  BY <1>3 DEF NoHeaders, NoBlock
<1>5. pend' = StoreHeaders(pend, new)
  BY DEF HandleHeader
<1> HIDE DEF new
<1>6. pend' \in [Heights -> Nat]
  BY <1>4, <1>5, StoreHeadersType DEF Typed, TypeOK, StreamTypes
<1>7. DatabaseTypes' /\ utxo' \in [Note -> Int] /\ edge' \in Int
  BY DEF HandleHeader, Typed, TypeOK, DatabaseTypes, StreamTypes, dbVars
<1>8. /\ \A a \in Account : \A p \in PoolsOf[a] : height'[a][p] >= 1
      /\ \A w \in witnesses' : w.height >= 1
  BY DEF HandleHeader, Typed, InFlight, dbVars
<1> QED
  BY <1>1, <1>6, <1>7, <1>8, CommitTyped DEF HandleHeader

(* a chunk at the head of the channel: its blocks have existing heights *)
LEMMA ArrivingChunk ==
    ASSUME Typed, Arriving("chunk"), NEW m, m = Head(chan)
    PROVE  /\ m.ids \in Seq(Nat) /\ Len(m.ids) \in Nat /\ Len(m.ids) >= 1
           /\ m.from \in 2..MaxHeight /\ Upto(m) \in m.from..MaxHeight
           /\ Upto(m) < next - Len(buf)
           /\ Last(m) \in Nat
<1>1. chan \in Seq(Message) /\ Len(chan) >= 1 /\ m = chan[1] /\ m \in Message /\ m.kind = "chunk"
  BY DEF Arriving, Typed, TypeOK, StreamTypes
<1>2. Fits(m, next - Len(buf)) /\ next \in 2..(MaxHeight + 1) /\ Len(buf) \in Nat
  BY <1>1, Bounds DEF Arriving, Typed, TypeOK, StreamTypes, InFlight
<1>3. m.from >= 2 /\ Len(m.ids) >= 1 /\ m.from + Len(m.ids) <= next - Len(buf)
  BY <1>1, <1>2 DEF Fits
<1>4. m.ids \in Seq(Nat) /\ Len(m.ids) \in Nat /\ m.from \in Nat
  BY <1>1 DEF Message
<1>5. Last(m) \in Nat
  BY <1>3, <1>4 DEF Last
<1>6. next \in Nat /\ next - Len(buf) <= MaxHeight + 1 /\ MaxHeight \in Nat /\ Len(buf) \in Nat
  BY <1>2, Bounds
<1>7. Upto(m) = m.from + Len(m.ids) - 1
  BY DEF Upto
<1>8. m.from \in 2..MaxHeight /\ Upto(m) \in m.from..MaxHeight /\ Upto(m) < next - Len(buf)
  BY SMTT(30), <1>3, <1>4, <1>6, <1>7
<1> QED
  BY <1>3, <1>4, <1>5, <1>8

(* The blocks of a chunk that create a note lie between its ends; so do    *)
(* those that spend it.                                                    *)
LEMMA ChunkRows ==
    ASSUME Typed, Arriving("chunk"), NEW m, m = Head(chan), NEW n \in Note
    PROVE  /\ MintsIn(m, n) # {} => m.from + MinOf(MintsIn(m, n)) - 1 \in m.from..Upto(m)
           /\ SpendsIn(m, n) # {} => m.from + MinOf(SpendsIn(m, n)) - 1 \in m.from..Upto(m)
<1>1. Len(m.ids) \in Nat /\ m.from \in Nat /\ Upto(m) = m.from + Len(m.ids) - 1
  BY ArrivingChunk, Bounds DEF Upto
<1>2. ASSUME NEW T \in SUBSET (1..Len(m.ids)), T # {} PROVE m.from + MinOf(T) - 1 \in m.from..Upto(m)
  <2>1. T \in SUBSET Nat
    BY <1>1
  <2>2. MinOf(T) \in T
    BY <1>2, <2>1, MinOfIsMin
  <2>3. MinOf(T) \in 1..Len(m.ids)
    BY <2>2
  <2> QED
    BY <1>1, <2>3
<1>3. MintsIn(m, n) \subseteq 1..Len(m.ids) /\ SpendsIn(m, n) \subseteq 1..Len(m.ids)
  BY DEF MintsIn, SpendsIn
<1> QED
  BY <1>2, <1>3

(* A transaction without outputs of the account has the height of its      *)
(* block.                                                                  *)
LEMMA TransactionRow ==
    ASSUME NEW n \in Note, NEW k
    PROVE  /\ Outs[n] = {} => TransactionHeight(n, k) = k
           /\ noted \in [Note -> Heights] /\ k \in Heights => TransactionHeight(n, k) \in Heights
<1>1. Outs[n] \subseteq Note
  BY WarpSyncAssumption
<1>2. ASSUME NEW c \in Outs[n] PROVE (CHOOSE d \in Outs[n] : TRUE) \in Note
  BY <1>1
<1> QED
  BY <1>2 DEF TransactionHeight

LEMMA HandleChunkTyped == Typed /\ HandleChunk => Typed'
<1> SUFFICES ASSUME Typed, HandleChunk PROVE Typed'
  OBVIOUS
<1> DEFINE m == Head(chan)
           live == Found(m) \cup Kept
           root(n) == Advance(m, IF n \in Found(m) THEN edge ELSE utxo[n])
           hs == StoreHeaders(pend, HeaderOf(m))
<1>1. Arriving("chunk")
  BY DEF HandleChunk
<1>2. /\ noted' = [n \in Note |-> IF n \in Found(m)
                                   THEN m.from + MinOf(MintsIn(m, n)) - 1 ELSE noted[n]]
      /\ spent' = [n \in Note |->
                      IF n \in live /\ SpendsIn(m, n) # {}
                      THEN TransactionHeight(n, m.from + MinOf(SpendsIn(m, n)) - 1)
                      ELSE spent[n]]
      /\ witnesses' = witnesses \cup
                        {[note |-> n, height |-> Upto(m), root |-> root(n)] : n \in live}
      /\ height' = [a \in Account |-> [p \in PoolsOf[a] |->
                      IF Moves(a) /\ p \in Shielded THEN Upto(m) ELSE height[a][p]]]
      /\ headers' = StoreHeaders(headers, hs)
      /\ untimed' = {r \in untimed : r[2] \notin HeadersAt(hs)}
      /\ utxo' = [n \in Note |-> IF n \in live /\ SpendsIn(m, n) = {} THEN root(n) ELSE 0]
      /\ edge' = Advance(m, edge)
      /\ chan' = Tail(chan) /\ pend' = NoHeaders
  BY DEF HandleChunk
<1>3. /\ Upto(m) \in 1..MaxHeight /\ Upto(m) \in Heights /\ Last(m) \in Nat
      /\ m.from..Upto(m) \subseteq Heights
  BY <1>1, ArrivingChunk, Bounds
<1>4. live \subseteq Note
  BY DEF Found, Kept
<1>5. \A r : Advance(m, r) \in Int
  BY <1>3 DEF Advance, Broken
<1>6. HeaderOf(m) \in [Heights -> Nat]
  BY <1>3 DEF HeaderOf, NoHeaders, NoBlock
<1>7. \A n \in Note : /\ MintsIn(m, n) # {} => m.from + MinOf(MintsIn(m, n)) - 1 \in Heights
                      /\ SpendsIn(m, n) # {} => m.from + MinOf(SpendsIn(m, n)) - 1 \in Heights
  BY <1>1, <1>3, ChunkRows
<1>8. \A n \in Found(m) : MintsIn(m, n) # {}
  BY DEF Found
<1> HIDE DEF m
<1>9. noted' \in [Note -> Heights] /\ spent' \in [Note -> Heights]
  <2>1. noted \in [Note -> Heights] /\ spent \in [Note -> Heights]
    BY DEF Typed, TypeOK, DatabaseTypes
  <2>2. noted' \in [Note -> Heights]
    BY <1>2, <1>7, <1>8, <2>1
  <2>3. ASSUME NEW n \in Note, SpendsIn(m, n) # {}
        PROVE  TransactionHeight(n, m.from + MinOf(SpendsIn(m, n)) - 1) \in Heights
    BY <1>7, <2>1, <2>3, TransactionRow
  <2>4. spent' \in [Note -> Heights]
    BY <1>2, <2>1, <2>3
  <2> QED
    BY <2>2, <2>4
<1>10. \A w \in witnesses' : w \in WitnessRow /\ w.height \in 1..MaxHeight
  <2>1. ASSUME NEW w \in witnesses', w \notin witnesses
        PROVE  w \in WitnessRow /\ w.height \in 1..MaxHeight
    <3>1. PICK n \in live : w = [note |-> n, height |-> Upto(m), root |-> root(n)]
      BY <1>2, <2>1
    <3>2. n \in Note /\ root(n) \in Int
      BY <1>4, <1>5
    <3> HIDE DEF root
    <3> QED
      BY <1>3, <3>1, <3>2 DEF WitnessRow
  <2> QED
    BY <2>1, HeightsOfRows
<1>11. DOMAIN height' = Account /\ \A a \in Account : height'[a] \in [PoolsOf[a] -> 1..MaxHeight]
  <2>1. DOMAIN height' = Account
    BY <1>2
  <2>2. ASSUME NEW a \in Account PROVE height'[a] \in [PoolsOf[a] -> 1..MaxHeight]
    <3>1. height'[a] = [p \in PoolsOf[a] |-> IF Moves(a) /\ p \in Shielded THEN Upto(m) ELSE height[a][p]]
      BY <1>2
    <3>2. height[a] \in [PoolsOf[a] -> 1..MaxHeight]
      BY HeightsOfRows
    <3> QED
      BY <1>3, <3>1, <3>2
  <2> QED
    BY <2>1, <2>2
<1>12. headers' \in [Heights -> Nat] /\ untimed' \subseteq Account \X Heights
  <2>1. hs \in [Heights -> Nat]
    BY <1>6, StoreHeadersType DEF Typed, TypeOK, StreamTypes
  <2> QED
    BY <1>2, <2>1, StoreHeadersType DEF Typed, TypeOK, DatabaseTypes
<1>13. /\ DatabaseTypes'
       /\ \A a \in Account : \A p \in PoolsOf[a] : height'[a][p] >= 1
       /\ \A w \in witnesses' : w.height >= 1
  BY <1>9, <1>10, <1>11, <1>12, DatabaseChange
<1>14. utxo' \in [Note -> Int] /\ edge' \in Int /\ pend' \in [Heights -> Nat]
  BY <1>2, <1>5 DEF NoHeaders, NoBlock
<1>15. pc = "read" /\ chan # <<>> /\ chan' = Tail(chan)
       /\ UNCHANGED <<treeVars, pc, runVars, reading, next, prevHash, wanted, buf, left>>
  BY <1>1, <1>2 DEF HandleChunk, Arriving
<1> QED
  BY <1>13, <1>14, <1>15, CommitTyped

LEMMA CloseStreamTyped == Typed /\ CloseStream => Typed'
<1> SUFFICES ASSUME Typed, CloseStream PROVE Typed'
  OBVIOUS
<1>1. /\ headers \in [Heights -> Nat] /\ pend \in [Heights -> Nat]
      /\ untimed \subseteq Account \X Heights /\ seg.accounts \in SUBSET Account
      /\ noted \in [Note -> Heights] /\ spent \in [Note -> Heights] /\ DOMAIN height = Account
  BY DEF Typed, TypeOK, DatabaseTypes, RunTypes, StreamTypes
<1> DEFINE rows == {r \in untimed : r[2] \notin HeadersAt(pend)}
           hs == StoreHeaders(headers, pend)
<1>2. hs \in [Heights -> Nat] /\ rows \in SUBSET (Account \X Heights)
  BY <1>1, StoreHeadersType
<1>3. /\ DatabaseTypes'
      /\ \A a \in Account : \A p \in PoolsOf[a] : height'[a][p] >= 1
      /\ \A w \in witnesses' : w.height >= 1
  <2>1. CASE Rewind(seg.accounts, Head(chan).from, hs, rows)
    <3> HIDE DEF hs, rows
    <3> QED
      BY <1>1, <1>2, <2>1, RewindTyped
  <2>2. CASE headers' = hs /\ untimed' = rows /\ UNCHANGED <<height, noted, spent, witnesses>>
    <3> HIDE DEF hs, rows
    <3>1. \A w \in witnesses' : w \in WitnessRow /\ w.height \in 1..MaxHeight
      BY <2>2, HeightsOfRows
    <3>2. \A a \in Account : height'[a] \in [PoolsOf[a] -> 1..MaxHeight]
      BY <2>2, HeightsOfRows
    <3> QED
      BY <1>1, <1>2, <2>2, <3>1, <3>2, DatabaseChange
  <2> QED
    BY <2>1, <2>2 DEF CloseStream
<1>4. pc = "read" /\ pc' = "times" /\ EndStream /\ UNCHANGED <<treeVars, runVars, left>>
  BY DEF CloseStream
<1>5. TreeTypeOK' /\ RunTypes' /\ left' \in [FaultKinds -> Nat]
  BY <1>4, TreeUnchanged DEF Typed, TypeOK, RunTypes, runVars
<1>6. StreamTypes'
  BY <1>4, EndStreamTyped
<1>7. InFlight'
  BY <1>3, <1>4 DEF EndStream, Typed, InFlight, runVars
<1> QED
  BY <1>3, <1>5, <1>6, <1>7 DEF Typed, TypeOK

-------------------------------------------------------------------------------
(* The end of a segment *)

LEMMA FetchTimeTyped ==
    ASSUME NEW h \in Heights
    PROVE  Typed /\ FetchTime(h) => Typed'
<1> SUFFICES ASSUME Typed, FetchTime(h) PROVE Typed'
  OBVIOUS
<1>1. h \in 1..Tip /\ pc = "times"
  <2>1. pc = "times" /\ h \in Missing /\ h <= Tip
    BY DEF FetchTime
  <2>2. h >= 1
    BY <2>1, Bounds DEF Missing, HeightsWithoutTime, Typed, TypeOK, RunTypes, InFlight
  <2> QED
    BY <2>1, <2>2, Bounds, ChainType DEF Typed, TypeOK
<1>2. Chain[h] \in Nat
  BY <1>1, ChainType DEF Typed, TypeOK
<1> DEFINE new == [NoHeaders EXCEPT ![h] = Chain[h]]
<1>3. new \in [Heights -> Nat]
  BY <1>2 DEF NoHeaders, NoBlock
<1>4. headers' = StoreHeaders(headers, new)
  BY DEF FetchTime
<1> HIDE DEF new
<1>5. headers' \in [Heights -> Nat] /\ untimed' \subseteq Account \X Heights
  <2>1. headers \in [Heights -> Nat] /\ untimed \subseteq Account \X Heights
    BY DEF Typed, TypeOK, DatabaseTypes
  <2>2. headers' \in [Heights -> Nat]
    BY <1>3, <1>4, <2>1, StoreHeadersType
  <2>3. untimed' \subseteq untimed
    BY DEF FetchTime
  <2> QED
    BY <2>1, <2>2, <2>3
<1>6. DatabaseTypes'
  BY <1>5 DEF FetchTime, Typed, TypeOK, DatabaseTypes
<1>7. TreeTypeOK' /\ RunTypes' /\ StreamTypes' /\ left' \in [FaultKinds -> Nat]
  BY TreeUnchanged DEF FetchTime, Typed, TypeOK, RunTypes, StreamTypes, runVars, readerVars, writerVars
<1>8. InFlight'
  BY DEF FetchTime, Typed, InFlight, runVars, readerVars, writerVars
<1> QED
  BY <1>6, <1>7, <1>8 DEF Typed, TypeOK

LEMMA EndSegmentTyped == Typed /\ EndSegment => Typed'
<1> SUFFICES ASSUME Typed, EndSegment PROVE Typed'
  OBVIOUS
<1>1. TreeTypeOK' /\ DatabaseTypes' /\ StreamTypes' /\ left' \in [FaultKinds -> Nat]
  BY TreeUnchanged DEF EndSegment, Typed, TypeOK, DatabaseTypes, StreamTypes, dbVars, readerVars, writerVars
<1>2. CASE todo = {}
  <2>1. EndRun
    BY <1>2 DEF EndSegment
  <2>2. RunTypes'
    BY <2>1, Bounds DEF EndRun, RunTypes, NoSegment
  <2>3. InFlight'
    BY <2>1 DEF EndSegment, EndRun, Typed, InFlight, dbVars, readerVars, writerVars
  <2> QED
    BY <1>1, <2>2, <2>3 DEF Typed, TypeOK
<1>3. CASE todo # {}
  <2>1. /\ pc = "times" /\ pc' = "plan"
        /\ resume' = [a \in Account |-> IF a \in seg.accounts THEN seg.end ELSE resume[a]]
        /\ seg' = NoSegment /\ UNCHANGED <<chosen, target, todo, scan>>
    BY <1>3 DEF EndSegment
  <2>2. RunTypes'
    <3>1. seg.end \in 0..(MaxHeight + 1) /\ resume \in [Account -> 0..(MaxHeight + 1)]
      BY Bounds DEF Typed, TypeOK, RunTypes
    <3>2. resume' \in [Account -> 0..(MaxHeight + 1)]
      BY <2>1, <3>1
    <3> QED
      BY <2>1, <3>2, Bounds DEF Typed, TypeOK, RunTypes, NoSegment
  <2>3. InFlight'
    BY <2>1 DEF EndSegment, Typed, InFlight, dbVars, readerVars, writerVars
  <2> QED
    BY <1>1, <2>2, <2>3 DEF Typed, TypeOK
<1> QED
  BY <1>2, <1>3

-------------------------------------------------------------------------------
(* No step leaves the states described, whatever happens in which order.   *)
LEMMA StepTyped == Typed /\ [Next]_vars => Typed'
<1> SUFFICES ASSUME Typed, [Next]_vars PROVE Typed'
  OBVIOUS
<1>1. CASE NodeStep
  BY <1>1, NodeStepTyped
<1>2. ASSUME NEW S \in SUBSET Account, StartSync(S) PROVE Typed'
  BY <1>2, StartSyncTyped
<1>3. CASE Begin
  BY <1>3, RecoverTyped, BeginSegmentTyped, ScanDoneTyped, OpenStreamTyped, RequestFailsTyped DEF Begin
<1>4. CASE Scan
  BY <1>4, ScanAddressTyped DEF Scan
<1>5. CASE Reader
  BY <1>5, ReadBlockTyped, DetectReorgTyped, EndOfStreamTyped DEF Reader
<1>6. CASE Writer
  BY <1>6, HandleChunkTyped, FailChunkTyped, HandleHeaderTyped, CloseStreamTyped DEF Writer
<1>7. CASE Times
  BY <1>7, FetchTimeTyped, EndSegmentTyped DEF Times
<1>8. CASE StopReader
  BY <1>8, StopReaderTyped
<1>9. CASE Abort
  BY <1>9, AbortTyped
<1>10. ASSUME NEW a \in Account, NEW h \in Heights, UserRewind(a, h) PROVE Typed'
  BY <1>10, UserRewindTyped
<1>11. ASSUME NEW a \in Account, UserReset(a) PROVE Typed'
  BY <1>11, UserResetTyped
<1>12. CASE UNCHANGED vars
  <2>1. UNCHANGED <<treeVars, dbVars, pc, runVars, readerVars, writerVars, left>>
    BY <1>12 DEF vars
  <2>2. TypeOK'
    BY <2>1, TreeUnchanged DEF Typed, TypeOK, DatabaseTypes, RunTypes, StreamTypes, dbVars, runVars,
                               readerVars, writerVars
  <2>3. InFlight'
    BY <2>1 DEF Typed, InFlight, dbVars, runVars, readerVars, writerVars
  <2> QED
    BY <2>2, <2>3 DEF Typed
<1> QED
  BY <1>1, <1>2, <1>3, <1>4, <1>5, <1>6, <1>7, <1>8, <1>9, <1>10, <1>11, <1>12 DEF Next, Synchronize

(* The rows of the database keep their types for every wallet, chain and   *)
(* capacity of the channel: each height that is ever stored is that of a   *)
(* block that exists, and the channel never holds more than its capacity.  *)
THEOREM TypeCorrect == Spec => []TypeOK
<1>1. Typed => TypeOK
  BY DEF Typed
<1> QED
  BY <1>1, InitTyped, StepTyped, PTL DEF Spec

-------------------------------------------------------------------------------
IsChunk(m) == m.kind = "chunk"

(* The chunks are in the order of the chain and do not overlap.            *)
ChunksOrdered ==
    \A i, j \in 1..Len(chan) :
        i < j /\ IsChunk(chan[i]) /\ IsChunk(chan[j]) => Upto(chan[i]) < chan[j].from

(* The row of a note is that of a block before a height.                   *)
Before(row, h) == row # 0 => row < h

(* The notes that are tracked are in blocks before all those in flight.    *)
TrackedBefore ==
    pc = "read" =>
        \A n \in Kept : /\ Before(noted[n], next - Len(buf))
                        /\ \A i \in 1..Len(chan) : IsChunk(chan[i]) => Before(noted[n], chan[i].from)

RowsInv == Typed /\ WitnessesHaveNotes /\ ChunksOrdered /\ TrackedBefore

-------------------------------------------------------------------------------
LEMMA InitRows == Init => RowsInv
<1> SUFFICES ASSUME Init PROVE RowsInv
  OBVIOUS
<1>1. Typed
  BY InitTyped
<1>2. WitnessesHaveNotes
  BY DEF Init, WitnessesHaveNotes
<1>3. chan = <<>> /\ pc = "idle"
  BY DEF Init
<1>4. ChunksOrdered
  BY <1>3 DEF ChunksOrdered
<1>5. TrackedBefore
  BY <1>3 DEF TrackedBefore
<1> QED
  BY <1>1, <1>2, <1>4, <1>5 DEF RowsInv

(* the numbers of a typed state *)
LEMMA RowNumbers ==
    ASSUME Typed
    PROVE  /\ \A n \in Note : noted[n] \in Nat
           /\ \A w \in witnesses : w.note \in Note /\ w.height \in Nat
           /\ \A i \in 1..Len(chan) : chan[i].from \in Nat /\ Len(chan[i].ids) \in Nat
           /\ Len(chan) \in Nat /\ Len(buf) \in Nat /\ next \in Nat
<1>1. ASSUME NEW n \in Note PROVE noted[n] \in Nat
  BY Bounds DEF Typed, TypeOK, DatabaseTypes
<1>2. ASSUME NEW w \in witnesses PROVE w.note \in Note /\ w.height \in Nat
  BY HeightsOfRows, Bounds DEF WitnessRow
<1>3. ASSUME NEW i \in 1..Len(chan) PROVE chan[i].from \in Nat /\ Len(chan[i].ids) \in Nat
  <2>1. chan[i] \in Message
    BY DEF Typed, TypeOK, StreamTypes
  <2> QED
    BY <2>1 DEF Message
<1> QED
  BY <1>1, <1>2, <1>3 DEF Typed, TypeOK, StreamTypes

(* Steps that leave the tables notes and witnesses alone.                  *)
LEMMA SameRows ==
    ASSUME WitnessesHaveNotes, UNCHANGED noted, witnesses' \subseteq witnesses
    PROVE  WitnessesHaveNotes'
BY DEF WitnessesHaveNotes

(* Steps outside the stream, and those that end it.                        *)
LEMMA NotReading ==
    ASSUME Typed', pc' # "read"
    PROVE  ChunksOrdered' /\ TrackedBefore'
<1>1. chan' = <<>>
  BY DEF Typed, InFlight
<1> QED
  BY <1>1 DEF ChunksOrdered, TrackedBefore

(* A trim takes the witnesses of a note with it.                           *)
LEMMA TrimRows ==
    ASSUME Typed, WitnessesHaveNotes, NEW S, NEW cut, NEW to, \A a \in S : cut[a] \in Nat,
           Trim(S, cut, to)
    PROVE  WitnessesHaveNotes' /\ \A n \in Note : noted'[n] = 0 \/ noted'[n] = noted[n]
<1>1. noted' = [n \in Note |-> IF Gone(S, cut, Owner[n], noted[n]) THEN 0 ELSE noted[n]]
  BY DEF Trim, TrimNotes
<1>2. witnesses' = {w \in witnesses : ~Gone(S, cut, Owner[w.note], w.height)}
  BY DEF Trim, TrimWitnesses
<1>3. ASSUME NEW w \in witnesses' PROVE noted'[w.note] # 0 /\ noted'[w.note] <= w.height
  <2>1. w \in witnesses /\ noted[w.note] # 0 /\ noted[w.note] <= w.height
    BY <1>2 DEF WitnessesHaveNotes
  <2>2. w.note \in Note /\ noted[w.note] \in Nat /\ w.height \in Nat
    BY <2>1, RowNumbers
  <2>3. ~Gone(S, cut, Owner[w.note], noted[w.note])
    BY <1>2, <2>1, <2>2 DEF Gone
  <2> QED
    BY <1>1, <2>1, <2>2, <2>3
<1> QED
  BY <1>1, <1>3 DEF WitnessesHaveNotes

LEMMA RewindRows ==
    ASSUME Typed, WitnessesHaveNotes, NEW S \in SUBSET Account, NEW h, NEW hs, NEW rows,
           Rewind(S, h, hs, rows)
    PROVE  WitnessesHaveNotes' /\ \A n \in Note : noted'[n] = 0 \/ noted'[n] = noted[n]
<1> DEFINE cut == [a \in Account |-> IF CheckpointsBelow(a, h) = {} THEN 0
                                     ELSE MaxOf(CheckpointsBelow(a, h))]
           to == [a \in Account |-> IF CheckpointsBelow(a, h) = {} THEN Birth[a] ELSE cut[a]]
<1>1. Trim(S, cut, to)
  BY DEF Rewind
<1>2. ASSUME NEW a \in Account PROVE cut[a] \in Nat
  <2>1. CheckpointsBelow(a, h) \subseteq 0..MaxHeight /\ MaxHeight \in Nat
    BY HeightsOfRows, Bounds DEF CheckpointsBelow
  <2>2. CASE CheckpointsBelow(a, h) = {}
    BY <2>2
  <2>3. CASE CheckpointsBelow(a, h) # {}
    <3>1. MaxOf(CheckpointsBelow(a, h)) \in CheckpointsBelow(a, h)
      BY <2>1, <2>3, MaxOfIsMax
    <3> QED
      BY <2>1, <2>3, <3>1
  <2> QED
    BY <2>2, <2>3
<1> HIDE DEF cut, to
<1> QED
  BY <1>1, <1>2, TrimRows

-------------------------------------------------------------------------------
(* The reader: what it sends comes after all that is in the channel.       *)
LEMMA SendRows ==
    ASSUME RowsInv, Typed', pc = "read", NEW msgs \in Seq(Message), Send(msgs),
           UNCHANGED <<pc, noted, witnesses, utxo>>,
           next - Len(buf) <= next' - Len(buf'),
           \A i \in 1..Len(msgs) : IsChunk(msgs[i]) => msgs[i].from = next - Len(buf),
           \A i, j \in 1..Len(msgs) : IsChunk(msgs[i]) /\ IsChunk(msgs[j]) => i = j
    PROVE  RowsInv'
<1>1. WitnessesHaveNotes'
  BY SameRows DEF RowsInv
<1>2. /\ chan \in Seq(Message) /\ Len(chan) \in Nat /\ Len(msgs) \in Nat
      /\ Len(buf) \in Nat /\ next \in Nat /\ Len(buf') \in Nat /\ next' \in Nat
  BY DEF RowsInv, Typed, TypeOK, StreamTypes
<1>3. /\ Len(chan') = Len(chan) + Len(msgs)
      /\ \A i \in 1..Len(chan) : chan'[i] = chan[i]
      /\ \A i \in (Len(chan) + 1)..Len(chan') : chan'[i] = msgs[i - Len(chan)]
  BY <1>2 DEF Send
<1>4. ASSUME NEW i \in (Len(chan) + 1)..Len(chan'), IsChunk(chan'[i])
      PROVE  chan'[i].from = next - Len(buf)
  <2>1. i - Len(chan) \in 1..Len(msgs)
    BY <1>2, <1>3
  <2>2. chan'[i] = msgs[i - Len(chan)]
    BY <1>3
  <2> QED
    BY <1>4, <2>1, <2>2
<1>5. ASSUME NEW i \in 1..Len(chan), IsChunk(chan[i])
      PROVE  Upto(chan[i]) < next - Len(buf)
  <2>1. Fits(chan[i], next - Len(buf))
    BY DEF RowsInv, Typed, InFlight
  <2>2. chan[i].from \in Nat /\ Len(chan[i].ids) \in Nat
    BY RowNumbers DEF RowsInv
  <2> QED
    BY SMTT(30), <1>2, <1>5, <2>1, <2>2 DEF Fits, IsChunk, Upto
<1>6. ASSUME NEW i \in 1..Len(chan'), NEW j \in 1..Len(chan'), i < j,
             IsChunk(chan'[i]), IsChunk(chan'[j])
      PROVE  Upto(chan'[i]) < chan'[j].from
  <2>1. CASE j \in 1..Len(chan)
    <3>1. i \in 1..Len(chan)
      BY <1>2, <1>6, <2>1
    <3> QED
      BY <1>3, <1>6, <2>1, <3>1 DEF RowsInv, ChunksOrdered
  <2>2. CASE i \in 1..Len(chan) /\ j \in (Len(chan) + 1)..Len(chan')
    <3>1. chan'[j].from = next - Len(buf)
      BY <1>4, <1>6, <2>2
    <3>2. chan'[i] = chan[i]
      BY <1>3, <2>2
    <3> QED
      BY <1>5, <1>6, <2>2, <3>1, <3>2
  <2>3. CASE i \in (Len(chan) + 1)..Len(chan') /\ j \in (Len(chan) + 1)..Len(chan')
    <3>1. i - Len(chan) \in 1..Len(msgs) /\ j - Len(chan) \in 1..Len(msgs)
      BY <1>2, <1>3, <2>3
    <3>2. chan'[i] = msgs[i - Len(chan)] /\ chan'[j] = msgs[j - Len(chan)]
      BY <1>3, <2>3
    <3>3. i - Len(chan) = j - Len(chan)
      BY <1>6, <3>1, <3>2
    <3> QED
      BY <1>2, <1>6, <3>3
  <2> QED
    BY <1>2, <1>3, <1>6, <2>1, <2>2, <2>3
<1>7. ASSUME NEW n \in Kept'
      PROVE  /\ Before(noted'[n], next' - Len(buf'))
             /\ \A i \in 1..Len(chan') : IsChunk(chan'[i]) => Before(noted'[n], chan'[i].from)
  <2>1. n \in Kept
    BY DEF Kept
  <2>2. Before(noted[n], next - Len(buf)) /\ n \in Note /\ noted[n] \in Nat
    BY <2>1, RowNumbers DEF RowsInv, TrackedBefore, Kept
  <2>3. Before(noted'[n], next' - Len(buf'))
    BY <1>2, <2>2 DEF Before
  <2>4. ASSUME NEW i \in 1..Len(chan'), IsChunk(chan'[i]) PROVE Before(noted'[n], chan'[i].from)
    <3>1. CASE i \in 1..Len(chan)
      <4>1. chan'[i] = chan[i]
        BY <1>3, <3>1
      <4>2. Before(noted[n], chan[i].from)
        BY <2>1, <2>4, <3>1, <4>1 DEF RowsInv, TrackedBefore
      <4> QED
        BY <4>1, <4>2 DEF Before
    <3>2. CASE i \in (Len(chan) + 1)..Len(chan')
      <4>1. chan'[i].from = next - Len(buf)
        BY <1>4, <2>4, <3>2
      <4> QED
        BY <2>2, <4>1 DEF Before
    <3> QED
      BY <1>2, <1>3, <3>1, <3>2
  <2> QED
    BY <2>3, <2>4
<1>8. ChunksOrdered' /\ TrackedBefore'
  BY <1>6, <1>7 DEF ChunksOrdered, TrackedBefore
<1> QED
  BY <1>1, <1>8 DEF RowsInv

LEMMA ReaderRows ==
    ASSUME RowsInv, Typed', Reader \/ StopReader
    PROVE  RowsInv'
<1>1. /\ next \in Nat /\ buf \in Seq(Nat) /\ Len(buf) \in Nat
      /\ chan \in Seq(Message)
  BY DEF RowsInv, Typed, TypeOK, StreamTypes
<1>2. ASSUME NEW m \in Message, ~IsChunk(m), pc = "read", Send(<<m>>), next' = next, buf' = <<>>,
             UNCHANGED <<pc, noted, witnesses, utxo>>
      PROVE  RowsInv'
  <2>1. <<m>> \in Seq(Message) /\ Len(<<m>>) = 1 /\ <<m>>[1] = m
    OBVIOUS
  <2>2. next - Len(buf) <= next' - Len(buf')
    BY <1>1, <1>2
  <2>3. \A i \in 1..Len(<<m>>) : ~IsChunk(<<m>>[i])
    BY <1>2, <2>1
  <2> QED
    BY <1>2, <2>1, <2>2, <2>3, SendRows
<1>3. CASE DetectReorg
  <2>1. Reorg(next - 1) \in Message /\ ~IsChunk(Reorg(next - 1))
    <3>1. <<>> \in Seq(Nat) /\ next >= 2
      BY <1>3 DEF RowsInv, Typed, InFlight, DetectReorg, Streaming
    <3> QED
      BY <1>1, <3>1 DEF Reorg, Message, IsChunk
  <2> HIDE DEF Reorg
  <2> QED
    BY <1>2, <1>3, <2>1 DEF DetectReorg, Streaming, dbVars, writerVars
<1>4. CASE StopReader
  <2>1. Stop \in Message /\ ~IsChunk(Stop)
    <3>1. <<>> \in Seq(Nat)
      OBVIOUS
    <3> QED
      BY <3>1 DEF Stop, Message, IsChunk
  <2> QED
    BY <1>2, <1>4, <2>1 DEF StopReader, dbVars, writerVars
<1>5. CASE EndOfStream
  <2>1. /\ pc = "read" /\ Send(ChunkOf(buf)) /\ next' = next /\ buf' = <<>>
        /\ UNCHANGED <<pc, noted, witnesses, utxo>>
    BY <1>5 DEF EndOfStream, dbVars, writerVars
  <2>2. CASE buf = <<>>
    <3> DEFINE none == <<>>
    <3>1. ChunkOf(buf) = none /\ none \in Seq(Message) /\ 1..Len(none) = {}
      BY <2>2 DEF ChunkOf
    <3>2. next - Len(buf) <= next' - Len(buf')
      BY <1>1, <2>1, <2>2
    <3> HIDE DEF none
    <3>3. /\ \A i \in 1..Len(none) : IsChunk(none[i]) => none[i].from = next - Len(buf)
          /\ \A i, j \in 1..Len(none) : IsChunk(none[i]) /\ IsChunk(none[j]) => i = j
      BY <3>1
    <3> QED
      BY <2>1, <3>1, <3>2, <3>3, SendRows
  <2>3. CASE buf # <<>>
    <3> DEFINE m == Chunk(next - Len(buf), buf)
    <3>1. ChunkOf(buf) = <<m>>
      BY <2>3 DEF ChunkOf
    <3>2. m \in Message /\ m.from = next - Len(buf)
      <4>1. next - Len(buf) \in Nat
        BY <1>1, <2>1 DEF RowsInv, Typed, InFlight
      <4> QED
        BY <1>1, <4>1 DEF Chunk, Message
    <3> HIDE DEF m
    <3>3. <<m>> \in Seq(Message) /\ Len(<<m>>) = 1 /\ <<m>>[1] = m
      BY <3>2
    <3>4. next - Len(buf) <= next' - Len(buf')
      BY <1>1, <2>1
    <3>5. /\ \A i \in 1..Len(<<m>>) : <<m>>[i].from = next - Len(buf)
          /\ \A i, j \in 1..Len(<<m>>) : i = j
      BY <3>2, <3>3
    <3> QED
      BY <2>1, <3>1, <3>3, <3>4, <3>5, SendRows
  <2> QED
    BY <2>2, <2>3
<1>6. ASSUME NEW full \in BOOLEAN, ReadBlock(full) PROVE RowsInv'
  <2> DEFINE id == Chain[next]
             ids == Append(buf, id)
             hm == IF next \in wanted THEN <<SaveHeader(next, id)>> ELSE <<>>
             cm == IF full THEN <<Chunk(next - Len(buf), ids)>> ELSE <<>>
  <2>1. /\ pc = "read" /\ next' = next + 1 /\ buf' = (IF full THEN <<>> ELSE ids)
        /\ Send(hm \o cm) /\ UNCHANGED <<pc, noted, witnesses, utxo>>
    BY <1>6 DEF ReadBlock, Streaming, dbVars, writerVars
  <2>2. id \in Nat
    <3>1. next \in 1..Tip
      BY <1>1, <1>6, ChainType DEF ReadBlock, Streaming, RowsInv, Typed, TypeOK, InFlight
    <3> QED
      BY <3>1, ChainType DEF RowsInv, Typed, TypeOK
  <2> HIDE DEF id
  <2>3. ids \in Seq(Nat) /\ Len(ids) = Len(buf) + 1
    BY <1>1, <2>2
  <2> HIDE DEF ids
  <2>4. next - Len(buf) <= next' - Len(buf')
    BY <1>1, <2>1, <2>3
  <2>5. /\ hm \in Seq(Message) /\ Len(hm) \in 0..1
        /\ \A i \in 1..Len(hm) : ~IsChunk(hm[i])
    <3>1. <<id>> \in Seq(Nat)
      BY <2>2
    <3>2. SaveHeader(next, id) \in Message /\ ~IsChunk(SaveHeader(next, id))
      BY <1>1, <3>1 DEF SaveHeader, Message, IsChunk
    <3> HIDE DEF SaveHeader
    <3> QED
      BY <3>2
  <2>6. /\ cm \in Seq(Message) /\ Len(cm) \in 0..1
        /\ \A i \in 1..Len(cm) : cm[i].from = next - Len(buf)
    <3> DEFINE m == Chunk(next - Len(buf), ids)
    <3>1. m \in Message /\ m.from = next - Len(buf)
      <4>1. next - Len(buf) \in Nat
        BY <1>1, <2>1 DEF RowsInv, Typed, InFlight
      <4> QED
        BY <2>3, <4>1 DEF Chunk, Message
    <3>2. cm = IF full THEN <<m>> ELSE <<>>
      OBVIOUS
    <3> HIDE DEF m, cm
    <3> QED
      BY <3>1, <3>2
  <2> HIDE DEF hm, cm
  <2>7. /\ hm \o cm \in Seq(Message) /\ Len(hm \o cm) = Len(hm) + Len(cm)
        /\ Len(hm) \in Nat /\ Len(cm) \in Nat
    BY <2>5, <2>6
  <2>8. ASSUME NEW i \in 1..Len(hm \o cm), IsChunk((hm \o cm)[i])
        PROVE  i = Len(hm) + 1 /\ (hm \o cm)[i].from = next - Len(buf)
    <3>1. CASE i \in 1..Len(hm)
      <4>1. (hm \o cm)[i] = hm[i]
        BY <2>5, <2>6, <3>1
      <4> QED
        BY <2>5, <2>8, <3>1, <4>1
    <3>2. CASE i \in (Len(hm) + 1)..(Len(hm) + Len(cm))
      <4>1. (hm \o cm)[i] = cm[i - Len(hm)] /\ i - Len(hm) \in 1..Len(cm)
        BY <2>5, <2>6, <2>7, <3>2
      <4>2. i = Len(hm) + 1
        BY <2>6, <2>7, <4>1
      <4> QED
        BY <2>6, <4>1, <4>2
    <3> QED
      BY <2>7, <3>1, <3>2
  <2>9. \A i, j \in 1..Len(hm \o cm) : IsChunk((hm \o cm)[i]) /\ IsChunk((hm \o cm)[j]) => i = j
    BY <2>8
  <2> QED
    BY <2>1, <2>4, <2>7, <2>8, <2>9, SendRows
<1> QED
  BY <1>3, <1>4, <1>5, <1>6 DEF Reader

-------------------------------------------------------------------------------
(* The writer *)

(* Taking a message from the channel keeps the order of the rest.          *)
LEMMA TailRows ==
    ASSUME RowsInv, chan # <<>>, chan' = Tail(chan), UNCHANGED <<next, buf>>
    PROVE  /\ ChunksOrdered'
           /\ Len(chan') = Len(chan) - 1 /\ 1 \in 1..Len(chan) /\ Head(chan) = chan[1]
           /\ \A i \in 1..Len(chan') : i + 1 \in 2..Len(chan) /\ chan'[i] = chan[i + 1]
<1>1. chan \in Seq(Message) /\ Len(chan) \in Nat /\ Len(chan) >= 1
  BY DEF RowsInv, Typed, TypeOK, StreamTypes
<1>2. /\ Len(chan') = Len(chan) - 1 /\ Head(chan) = chan[1]
      /\ \A i \in 1..Len(chan') : i + 1 \in 2..Len(chan) /\ chan'[i] = chan[i + 1]
  BY <1>1
<1>3. ASSUME NEW i \in 1..Len(chan'), NEW j \in 1..Len(chan'), i < j,
             IsChunk(chan'[i]), IsChunk(chan'[j])
      PROVE  Upto(chan'[i]) < chan'[j].from
  <2>1. i + 1 \in 1..Len(chan) /\ j + 1 \in 1..Len(chan) /\ i + 1 < j + 1
    BY <1>1, <1>2, <1>3
  <2>2. chan'[i] = chan[i + 1] /\ chan'[j] = chan[j + 1]
    BY <1>2
  <2> QED
    BY <1>3, <2>1, <2>2 DEF RowsInv, ChunksOrdered
<1> QED
  BY <1>1, <1>2, <1>3 DEF ChunksOrdered

LEMMA HandleHeaderRows ==
    ASSUME RowsInv, Typed', HandleHeader
    PROVE  RowsInv'
<1>1. /\ chan # <<>> /\ chan' = Tail(chan)
      /\ UNCHANGED <<pc, next, buf, noted, witnesses, utxo>>
  BY DEF HandleHeader, Arriving, dbVars
<1>2. WitnessesHaveNotes'
  BY <1>1, SameRows DEF RowsInv
<1>3. ASSUME pc' = "read", NEW n \in Kept'
      PROVE  /\ Before(noted'[n], next' - Len(buf'))
             /\ \A i \in 1..Len(chan') : IsChunk(chan'[i]) => Before(noted'[n], chan'[i].from)
  <2>1. n \in Kept
    BY <1>1 DEF Kept
  <2>2. /\ Before(noted[n], next - Len(buf))
        /\ \A i \in 1..Len(chan) : IsChunk(chan[i]) => Before(noted[n], chan[i].from)
    BY <1>1, <1>3, <2>1 DEF RowsInv, TrackedBefore
  <2>3. \A i \in 1..Len(chan') : i + 1 \in 1..Len(chan) /\ chan'[i] = chan[i + 1]
    BY <1>1, TailRows
  <2> QED
    BY <1>1, <2>2, <2>3
<1> QED
  BY <1>1, <1>2, <1>3, TailRows DEF RowsInv, TrackedBefore

LEMMA HandleChunkRows ==
    ASSUME RowsInv, Typed', HandleChunk
    PROVE  RowsInv'
<1> DEFINE m == Head(chan)
           live == Found(m) \cup Kept
           root(n) == Advance(m, IF n \in Found(m) THEN edge ELSE utxo[n])
<1>1. Arriving("chunk") /\ ~ChunkFails(m)
  BY DEF HandleChunk
<1>2. /\ noted' = [n \in Note |-> IF n \in Found(m)
                                   THEN m.from + MinOf(MintsIn(m, n)) - 1 ELSE noted[n]]
      /\ witnesses' = witnesses \cup
                        {[note |-> n, height |-> Upto(m), root |-> root(n)] : n \in live}
      /\ utxo' = [n \in Note |-> IF n \in live /\ SpendsIn(m, n) = {} THEN root(n) ELSE 0]
      /\ chan' = Tail(chan) /\ UNCHANGED <<pc, next, buf>>
  BY DEF HandleChunk
<1>3. /\ pc = "read" /\ chan # <<>> /\ m = chan[1] /\ IsChunk(m) /\ 1 \in 1..Len(chan)
      /\ \A i \in 1..Len(chan') : i + 1 \in 2..Len(chan) /\ chan'[i] = chan[i + 1]
  BY <1>1, <1>2, TailRows DEF Arriving, IsChunk
<1>4. m.from \in Nat /\ m.from >= 2 /\ Upto(m) \in Nat /\ m.from <= Upto(m) /\ Upto(m) < next - Len(buf)
  BY <1>1, ArrivingChunk, Bounds DEF RowsInv
<1>5. /\ \A n \in Note : noted[n] \in Nat
      /\ \A n \in Found(m) : n \in Note /\ noted[n] = 0
      /\ \A n \in Kept : n \in Note /\ noted[n] # 0
  BY <1>1, RowNumbers DEF RowsInv, ChunkFails, Found, Kept
<1>6. ASSUME NEW n \in Found(m)
      PROVE  m.from + MinOf(MintsIn(m, n)) - 1 \in m.from..Upto(m)
  BY <1>1, ChunkRows DEF RowsInv, Found
<1> HIDE DEF m
(* the rows of the notes that the chunk is about *)
<1>7. ASSUME NEW n \in live PROVE n \in Note /\ noted'[n] \in 1..Upto(m)
  <2>1. CASE n \in Found(m)
    <3>1. noted'[n] = m.from + MinOf(MintsIn(m, n)) - 1
      BY <1>2, <1>5, <2>1
    <3> QED
      BY <1>4, <1>5, <1>6, <2>1, <3>1
  <2>2. CASE n \in Kept /\ n \notin Found(m)
    <3>1. noted'[n] = noted[n] /\ noted[n] \in Nat /\ noted[n] # 0
      BY <1>2, <1>5, <2>2
    <3>2. Before(noted[n], m.from)
      BY <1>3, <2>2 DEF RowsInv, TrackedBefore
    <3> QED
      BY <1>4, <1>5, <2>2, <3>1, <3>2 DEF Before
  <2> QED
    BY <2>1, <2>2
<1>8. WitnessesHaveNotes'
  <2>1. ASSUME NEW w \in witnesses PROVE noted'[w.note] # 0 /\ noted'[w.note] <= w.height
    <3>1. noted[w.note] # 0 /\ noted[w.note] <= w.height /\ w.note \in Note
      BY RowNumbers DEF RowsInv, WitnessesHaveNotes
    <3>2. w.note \notin Found(m)
      BY <1>5, <3>1
    <3> QED
      BY <1>2, <3>1, <3>2
  <2>2. ASSUME NEW n \in live
        PROVE  noted'[n] # 0 /\ noted'[n] <= Upto(m)
    BY <1>4, <1>7
  <2>3. ASSUME NEW w \in witnesses', w \notin witnesses
        PROVE  noted'[w.note] # 0 /\ noted'[w.note] <= w.height
    <3>1. PICK n \in live : w = [note |-> n, height |-> Upto(m), root |-> root(n)]
      BY <1>2, <2>3
    <3> HIDE DEF root, live
    <3>2. w.note = n /\ w.height = Upto(m)
      BY <3>1
    <3> QED
      BY <2>2, <3>2
  <2> QED
    BY <2>1, <2>3 DEF WitnessesHaveNotes
<1>9. ASSUME NEW n \in Kept'
      PROVE  /\ Before(noted'[n], next' - Len(buf'))
             /\ \A i \in 1..Len(chan') : IsChunk(chan'[i]) => Before(noted'[n], chan'[i].from)
  <2>1. n \in live
    BY <1>2 DEF Kept
  <2>2. noted'[n] \in 1..Upto(m)
    BY <1>7, <2>1
  <2>3. Before(noted'[n], next' - Len(buf'))
    <3>1. next \in Nat /\ Len(buf) \in Nat
      BY RowNumbers DEF RowsInv
    <3> QED
      BY <1>2, <1>4, <2>2, <3>1 DEF Before
  <2>4. ASSUME NEW i \in 1..Len(chan'), IsChunk(chan'[i]) PROVE Before(noted'[n], chan'[i].from)
    <3>1. i + 1 \in 2..Len(chan) /\ chan'[i] = chan[i + 1]
      BY <1>3
    <3>2. i + 1 \in 1..Len(chan) /\ 1 < i + 1 /\ chan[i + 1].from \in Nat
      BY <3>1, RowNumbers DEF RowsInv
    <3>3. Upto(m) < chan[i + 1].from
      BY <1>3, <2>4, <3>1, <3>2 DEF RowsInv, ChunksOrdered
    <3> QED
      BY <1>4, <2>2, <3>1, <3>2, <3>3 DEF Before
  <2> QED
    BY <2>3, <2>4
<1>10. ChunksOrdered'
  BY <1>2, <1>3, TailRows
<1> QED
  BY <1>8, <1>9, <1>10 DEF RowsInv, TrackedBefore

-------------------------------------------------------------------------------
(* The other steps *)

LEMMA ScanAddressRows ==
    ASSUME RowsInv, Typed', NEW a \in Account, NEW i \in AddrIndexes, NEW upto \in Heights,
           ScanAddress(a, i, upto)
    PROVE  RowsInv'
<1>1. pc' = "scan" /\ witnesses' = witnesses
  BY DEF ScanAddress
<1>2. \A n \in Note : noted[n] # 0 => noted'[n] = noted[n]
  BY DEF ScanAddress, ScanOne
<1>3. \A w \in witnesses : w.note \in Note
  BY RowNumbers DEF RowsInv
<1>4. WitnessesHaveNotes'
  BY <1>1, <1>2, <1>3 DEF RowsInv, WitnessesHaveNotes
<1> QED
  BY <1>1, <1>4, NotReading DEF RowsInv

LEMMA OpenStreamRows ==
    ASSUME RowsInv, Typed', OpenStream
    PROVE  RowsInv'
<1>1. pc = "open" /\ UNCHANGED <<noted, witnesses>>
  BY DEF OpenStream, dbVars
<1>2. WitnessesHaveNotes'
  BY <1>1, SameRows DEF RowsInv
<1>3. CASE pc' # "read"
  BY <1>2, <1>3, NotReading DEF RowsInv
<1>4. CASE pc' = "read"
  <2>1. /\ next' = seg.start /\ UNCHANGED <<buf, chan>>
        /\ utxo' = [n \in Note |-> IF Tracked(n) /\ noted[n] # 0 /\ spent[n] = 0
                                    THEN RootAt(n, seg.start - 1) ELSE 0]
    BY <1>4 DEF OpenStream
  <2>2. chan = <<>> /\ buf = <<>>
    BY <1>1 DEF RowsInv, Typed, InFlight
  <2>3. seg.start \in Nat /\ next' - Len(buf') = seg.start
    BY <2>1, <2>2, Bounds DEF RowsInv, Typed, TypeOK, RunTypes
  <2>4. ASSUME NEW n \in Kept' PROVE Before(noted'[n], next' - Len(buf'))
    <3>1. n \in Note /\ RootAt(n, seg.start - 1) # 0
      BY <2>1 DEF Kept
    <3>2. PICK w \in witnesses : w.note = n /\ w.height = seg.start - 1
      BY <3>1 DEF RootAt
    <3>3. noted[n] <= seg.start - 1 /\ noted[n] \in Nat
      BY <3>1, <3>2, RowNumbers DEF RowsInv, WitnessesHaveNotes
    <3> QED
      BY <1>1, <2>3, <3>3 DEF Before
  <2>5. TrackedBefore' /\ ChunksOrdered'
    BY <2>1, <2>2, <2>4 DEF TrackedBefore, ChunksOrdered
  <2> QED
    BY <1>2, <2>5 DEF RowsInv
<1> QED
  BY <1>3, <1>4

(* the user trims an account, at any time *)
LEMMA UserTrimRows ==
    ASSUME RowsInv, Typed', WitnessesHaveNotes',
           \A n \in Note : noted'[n] = 0 \/ noted'[n] = noted[n],
           UNCHANGED <<pc, next, buf, chan, utxo>>
    PROVE  RowsInv'
<1>1. ChunksOrdered'
  BY DEF RowsInv, ChunksOrdered
<1>2. ASSUME pc = "read", NEW n \in Kept
      PROVE  /\ Before(noted'[n], next - Len(buf))
             /\ \A i \in 1..Len(chan) : IsChunk(chan[i]) => Before(noted'[n], chan[i].from)
  BY <1>2 DEF RowsInv, TrackedBefore, Before, Kept
<1>3. TrackedBefore'
  BY <1>2 DEF TrackedBefore, Kept
<1> QED
  BY <1>1, <1>3 DEF RowsInv

LEMMA UserRewindRows ==
    ASSUME RowsInv, Typed', NEW a \in Account, NEW h \in Heights, UserRewind(a, h)
    PROVE  RowsInv'
<1>1. Rewind({a}, h, headers, untimed) /\ UNCHANGED <<pc, next, buf, chan, utxo>>
  BY DEF UserRewind, readerVars, writerVars
<1>2. WitnessesHaveNotes' /\ \A n \in Note : noted'[n] = 0 \/ noted'[n] = noted[n]
  BY <1>1, RewindRows DEF RowsInv
<1> QED
  BY <1>1, <1>2, UserTrimRows

LEMMA UserResetRows ==
    ASSUME RowsInv, Typed', NEW a \in Account, UserReset(a)
    PROVE  RowsInv'
<1> DEFINE cut == [b \in Account |-> 0]
<1>1. Trim({a}, cut, Birth) /\ UNCHANGED <<pc, next, buf, chan, utxo>>
  BY DEF UserReset, readerVars, writerVars
<1>2. \A b \in {a} : cut[b] \in Nat
  OBVIOUS
<1> HIDE DEF cut
<1>3. WitnessesHaveNotes' /\ \A n \in Note : noted'[n] = 0 \/ noted'[n] = noted[n]
  BY <1>1, <1>2, TrimRows DEF RowsInv
<1> QED
  BY <1>1, <1>3, UserTrimRows

LEMMA SameStreamRows ==
    ASSUME RowsInv, Typed', UNCHANGED <<pc, noted, witnesses, next, buf, chan, utxo>>
    PROVE  RowsInv'
BY SameRows DEF RowsInv, ChunksOrdered, TrackedBefore, Kept

LEMMA RecoverRows ==
    ASSUME RowsInv, Typed', Recover
    PROVE  RowsInv'
<1> DEFINE cut == [a \in Account |-> SyncHeight(a)]
<1>1. Trim(chosen, cut, cut) /\ pc' = "plan"
  BY DEF Recover
<1>2. chosen \subseteq Account /\ \A a \in Account : cut[a] \in Nat
  BY SMTT(30), SyncHeightType, Bounds DEF RowsInv, Typed, TypeOK, RunTypes
<1> HIDE DEF cut
<1>3. WitnessesHaveNotes'
  BY <1>1, <1>2, TrimRows DEF RowsInv
<1> QED
  BY <1>1, <1>3, NotReading DEF RowsInv

LEMMA CloseStreamRows ==
    ASSUME RowsInv, Typed', CloseStream
    PROVE  RowsInv'
<1>1. seg.accounts \in SUBSET Account
  BY DEF RowsInv, Typed, TypeOK, RunTypes
<1>2. pc' = "times"
  BY DEF CloseStream
<1>3. WitnessesHaveNotes'
  BY <1>1, RewindRows, SameRows DEF RowsInv, CloseStream
<1> QED
  BY <1>2, <1>3, NotReading DEF RowsInv

(* Steps that end at another point of synchronize_impl and only take       *)
(* witnesses away.                                                         *)
LEMMA MovesOnRows ==
    ASSUME RowsInv, Typed',
           \/ \E S \in SUBSET Account : StartSync(S)
           \/ BeginSegment \/ ScanDone \/ RequestFails \/ FailChunk \/ EndSegment \/ Abort
    PROVE  RowsInv'
<1>1. pc' # "read" /\ noted' = noted /\ witnesses' \subseteq witnesses
  BY DEF StartSync, BeginSegment, ScanDone, RequestFails, FailChunk, EndSegment, Abort, EndRun, dbVars
<1>2. WitnessesHaveNotes'
  BY <1>1, SameRows DEF RowsInv
<1> QED
  BY <1>1, <1>2, NotReading DEF RowsInv

LEMMA StepRows == RowsInv /\ [Next]_vars => RowsInv'
<1> SUFFICES ASSUME RowsInv, [Next]_vars PROVE RowsInv'
  OBVIOUS
<1>1. Typed'
  BY StepTyped DEF RowsInv
<1>2. CASE NodeStep
  BY <1>1, <1>2, SameStreamRows DEF NodeStep, dbVars, readerVars, writerVars
<1>3. ASSUME NEW S \in SUBSET Account, StartSync(S) PROVE RowsInv'
  BY <1>1, <1>3, MovesOnRows
<1>4. CASE Begin
  BY <1>1, <1>4, RecoverRows, OpenStreamRows, MovesOnRows DEF Begin
<1>5. CASE Scan
  BY <1>1, <1>5, ScanAddressRows DEF Scan
<1>6. CASE Reader \/ StopReader
  BY <1>1, <1>6, ReaderRows
<1>7. CASE Writer
  BY <1>1, <1>7, HandleChunkRows, HandleHeaderRows, CloseStreamRows, MovesOnRows DEF Writer
<1>8. CASE Times
  <2>1. ASSUME NEW h \in Heights, FetchTime(h) PROVE RowsInv'
    BY <1>1, <2>1, SameStreamRows DEF FetchTime, readerVars, writerVars
  <2> QED
    BY <1>1, <1>8, <2>1, MovesOnRows DEF Times
<1>9. CASE Abort
  BY <1>1, <1>9, MovesOnRows
<1>10. ASSUME NEW a \in Account, NEW h \in Heights, UserRewind(a, h) PROVE RowsInv'
  BY <1>1, <1>10, UserRewindRows
<1>11. ASSUME NEW a \in Account, UserReset(a) PROVE RowsInv'
  BY <1>1, <1>11, UserResetRows
<1>12. CASE UNCHANGED vars
  BY <1>1, <1>12, SameStreamRows DEF vars, dbVars, readerVars, writerVars
<1> QED
  BY <1>2, <1>3, <1>4, <1>5, <1>6, <1>7, <1>8, <1>9, <1>10, <1>11, <1>12 DEF Next, Synchronize

(* Whatever is interrupted, rewound or reorganized, and however many       *)
(* accounts, notes and blocks there are: a witness has its note, which is  *)
(* not above it.  Trims take the rows of both tables or of neither, and a  *)
(* chunk that was read before its note was trimmed is never written.       *)
THEOREM NoWitnessWithoutNote == Spec => []WitnessesHaveNotes
<1>1. RowsInv => WitnessesHaveNotes
  BY DEF RowsInv
<1> QED
  BY <1>1, InitRows, StepRows, PTL DEF Spec

-------------------------------------------------------------------------------
(* Spends *)

(* The blocks ids are on a path, the first of them at height from.         *)
OnPath(p, ids, from) ==
    Len(p) = from + Len(ids) - 1 /\ \A k \in 1..Len(ids) : ids[k] = p[from + k - 1]

Stretch(bs, ids, from) == \E id \in 1..Len(bs) : OnPath(bs[id].path, ids, from)

(* What the reader holds and what it has sent are stretches of branches.   *)
StreamInv ==
    /\ buf # <<>> => prevHash = buf[Len(buf)] /\ Stretch(blocks, buf, next - Len(buf))
    /\ \A i \in 1..Len(chan) : IsChunk(chan[i]) => Stretch(blocks, chan[i].ids, chan[i].from)

TransparentOf(a) == {n \in Note : PoolOf[n] = 0 /\ Owner[n] = a}
InSegment == pc \in {"scan", "open", "read", "times"}

(* Transparent rows of an account are below the height that it resumes at, *)
(* or below all the segments that are left.                                *)
BehindPlan ==
    pc = "plan" =>
        \A a \in chosen : \A n \in TransparentOf(a) :
            \/ noted[n] < resume[a]
            \/ \A s \in todo : resume[a] < s /\ noted[n] < s

BehindSegment ==
    InSegment =>
        /\ \A s \in todo : seg.end < s
        /\ \A a \in seg.accounts : \A n \in TransparentOf(a) : noted[n] <= seg.end
        /\ \A a \in chosen \ seg.accounts : \A n \in TransparentOf(a) : noted[n] < resume[a]

BehindScan ==
    pc = "scan" =>
        \A s \in scan :
            /\ s[1] \in seg.accounts /\ s[2] \in DOMAIN AddrsOf[s[1]]
            /\ \A n \in TransparentOf(s[1]) : AddrOf[n] = AddrsOf[s[1]][s[2]] => noted[n] < seg.start

Behind == BehindPlan /\ BehindSegment /\ BehindScan

SpendsInv == RowsInv /\ TreeInv /\ StreamInv /\ Behind /\ SpendsHaveNotes

-------------------------------------------------------------------------------
(* The numbers of a run *)
LEMMA RunNumbers ==
    ASSUME Typed
    PROVE  /\ \A n \in Note : noted[n] \in Nat /\ spent[n] \in Nat
           /\ chosen \subseteq Account /\ seg.accounts \subseteq Account
           /\ \A a \in Account : resume[a] \in Nat
           /\ \A s \in todo : s \in Nat
           /\ seg.start \in Nat /\ seg.end \in Nat
<1>1. noted \in [Note -> Heights] /\ spent \in [Note -> Heights]
  BY DEF Typed, TypeOK, DatabaseTypes
<1>2. /\ chosen \subseteq Account /\ resume \in [Account -> 0..(MaxHeight + 1)]
      /\ todo \subseteq 0..(MaxHeight + 1)
      /\ seg.start \in 0..(MaxHeight + 1) /\ seg.end \in Heights /\ seg.accounts \subseteq Account
  BY DEF Typed, TypeOK, RunTypes
<1> QED
  BY <1>1, <1>2, Bounds

LEMMA InitSpends == Init => SpendsInv
<1> SUFFICES ASSUME Init PROVE SpendsInv
  OBVIOUS
<1>1. RowsInv
  BY InitRows
<1>2. TreeInv
  BY TreeInitInv DEF Init
<1>3. StreamInv
  <2>1. buf = <<>> /\ chan = <<>>
    BY DEF Init
  <2> QED
    BY <2>1 DEF StreamInv
<1>4. Behind
  BY DEF Init, Behind, BehindPlan, BehindSegment, BehindScan, InSegment
<1>5. SpendsHaveNotes
  BY DEF Init, SpendsHaveNotes
<1> QED
  BY <1>1, <1>2, <1>3, <1>4, <1>5 DEF SpendsInv

-------------------------------------------------------------------------------
(* The tree and the stream *)

(* A stretch stays one when blocks are added.                              *)
LEMMA StretchKept ==
    ASSUME NEW bs, NEW cs, Len(bs) \in Nat, Len(cs) \in Nat, Len(bs) <= Len(cs),
           \A id \in 1..Len(bs) : cs[id] = bs[id],
           NEW ids, NEW from, Stretch(bs, ids, from)
    PROVE  Stretch(cs, ids, from)
<1>1. PICK id \in 1..Len(bs) : OnPath(bs[id].path, ids, from)
  BY DEF Stretch
<1>2. id \in 1..Len(cs) /\ cs[id] = bs[id]
  BY <1>1
<1> QED
  BY <1>1, <1>2 DEF Stretch

LEMMA NodeStepTree ==
    ASSUME SpendsInv, Typed', NodeStep
    PROVE  TreeInv' /\ StreamInv'
<1>1. TreeTypeOK' /\ Len(blocks) \in Nat /\ Len(blocks') \in Nat
  BY DEF SpendsInv, TreeInv, Typed, TypeOK, TreeTypeOK
<1>2. TreeInv' /\ Len(blocks) <= Len(blocks') /\ \A id \in 1..Len(blocks) : blocks'[id] = blocks[id]
  <2>1. ASSUME NEW mints \in SUBSET Note, NEW spends \in SUBSET Note, Mine(mints, spends)
        PROVE  TreeInv' /\ Len(blocks) <= Len(blocks')
               /\ \A id \in 1..Len(blocks) : blocks'[id] = blocks[id]
    <3>1. TreeInv /\ TreeTypeOK
      BY DEF SpendsInv, TreeInv
    <3>2. TreeInv'
      BY <2>1, <3>1, MineInv
    <3>3. Len(blocks') = Len(blocks) + 1 /\ \A id \in 1..Len(blocks) : blocks'[id] = blocks[id]
      BY <2>1, <3>1, MinedBlock
    <3> QED
      BY <1>1, <3>2, <3>3
  <2>2. ASSUME NEW fork \in Heights, Orphan(fork)
        PROVE  TreeInv' /\ blocks' = blocks
    BY <1>1, <2>2, SameBlocksInv DEF SpendsInv, Orphan
  <2> QED
    BY <1>1, <2>1, <2>2 DEF NodeStep
<1>3. UNCHANGED <<next, prevHash, buf, chan>>
  BY DEF NodeStep, readerVars
<1>4. ASSUME NEW ids, NEW from, Stretch(blocks, ids, from) PROVE Stretch(blocks', ids, from)
  BY <1>1, <1>2, <1>4, StretchKept
<1>5. StreamInv'
  BY <1>3, <1>4 DEF SpendsInv, StreamInv
<1> QED
  BY <1>2, <1>5

(* Steps that leave the stream alone, and those outside it.                *)
LEMMA SameStream ==
    ASSUME SpendsInv, Typed', UNCHANGED blocks,
           UNCHANGED <<next, prevHash, buf, chan>> \/ pc' # "read"
    PROVE  TreeInv' /\ StreamInv'
<1>1. TreeInv'
  BY SameBlocksInv DEF SpendsInv, Typed, TypeOK
<1>2. CASE UNCHANGED <<next, prevHash, buf, chan>>
  BY <1>1, <1>2 DEF SpendsInv, StreamInv
<1>3. CASE pc' # "read"
  <2>1. buf' = <<>> /\ chan' = <<>>
    BY <1>3 DEF Typed, InFlight
  <2> QED
    BY <1>1, <2>1 DEF StreamInv
<1> QED
  BY <1>2, <1>3

(* A message leaves the channel.                                           *)
LEMMA TailStream ==
    ASSUME SpendsInv, Typed', UNCHANGED <<blocks, next, prevHash, buf>>,
           chan # <<>>, chan' = Tail(chan)
    PROVE  TreeInv' /\ StreamInv'
<1>1. TreeInv'
  BY SameBlocksInv DEF SpendsInv, Typed, TypeOK
<1>2. \A i \in 1..Len(chan') : i + 1 \in 2..Len(chan) /\ chan'[i] = chan[i + 1]
  BY TailRows DEF SpendsInv
<1>3. Len(chan) \in Nat
  BY RowNumbers DEF SpendsInv, RowsInv
<1>4. ASSUME NEW i \in 1..Len(chan'), IsChunk(chan'[i])
      PROVE  Stretch(blocks, chan'[i].ids, chan'[i].from)
  <2>1. i + 1 \in 1..Len(chan) /\ chan'[i] = chan[i + 1]
    BY <1>2, <1>3
  <2> QED
    BY <1>4, <2>1 DEF SpendsInv, StreamInv
<1> QED
  BY <1>1, <1>4 DEF SpendsInv, StreamInv

(* The reader sends what is a stretch.                                     *)
LEMMA SendStream ==
    ASSUME SpendsInv, Typed', UNCHANGED blocks, NEW msgs \in Seq(Message), Send(msgs),
           \A i \in 1..Len(msgs) : IsChunk(msgs[i]) => Stretch(blocks, msgs[i].ids, msgs[i].from),
           buf' # <<>> => prevHash' = buf'[Len(buf')] /\ Stretch(blocks, buf', next' - Len(buf'))
    PROVE  TreeInv' /\ StreamInv'
<1>1. TreeInv'
  BY SameBlocksInv DEF SpendsInv, Typed, TypeOK
<1>2. chan \in Seq(Message) /\ Len(chan) \in Nat /\ Len(msgs) \in Nat
  BY DEF SpendsInv, RowsInv, Typed, TypeOK, StreamTypes
<1>3. /\ Len(chan') = Len(chan) + Len(msgs)
      /\ \A i \in 1..Len(chan) : chan'[i] = chan[i]
      /\ \A i \in (Len(chan) + 1)..Len(chan') : chan'[i] = msgs[i - Len(chan)]
  BY <1>2 DEF Send
<1>4. ASSUME NEW i \in 1..Len(chan'), IsChunk(chan'[i])
      PROVE  Stretch(blocks, chan'[i].ids, chan'[i].from)
  <2>1. CASE i \in 1..Len(chan)
    BY <1>3, <1>4, <2>1 DEF SpendsInv, StreamInv
  <2>2. CASE i \in (Len(chan) + 1)..Len(chan')
    <3>1. i - Len(chan) \in 1..Len(msgs) /\ chan'[i] = msgs[i - Len(chan)]
      BY <1>2, <1>3, <2>2
    <3> QED
      BY <1>4, <3>1
  <2> QED
    BY <1>2, <1>3, <2>1, <2>2
<1> QED
  BY <1>1, <1>4 DEF StreamInv

(* A block that has the expected parent continues the stretch of the       *)
(* blocks before it.                                                       *)
LEMMA NextBlock ==
    ASSUME SpendsInv, Streaming, Linked
    PROVE  Stretch(blocks, Append(buf, Chain[next]), next - Len(buf))
<1> DEFINE id == Chain[next]
           q == PathOf(id)
           ids == Append(buf, id)
           from == next - Len(buf)
<1>1. /\ next \in Nat /\ next >= 2 /\ next <= Tip /\ Tip \in Nat
      /\ buf \in Seq(Nat) /\ Len(buf) \in Nat /\ Len(buf) + 2 <= next
  BY ChainType, Bounds DEF Streaming, SpendsInv, RowsInv, Typed, TypeOK, StreamTypes, InFlight
<1>2. TreeTypeOK /\ best \in 1..Len(blocks) /\ Len(blocks) \in Nat
  BY DEF SpendsInv, TreeInv, TreeTypeOK
<1>3. id \in 1..Len(blocks) /\ id \in Nat
  BY <1>1, <1>2, ChainType
<1>4. Len(q) = next /\ \A k \in 1..next : q[k] = Chain[k]
  BY <1>1, <1>2 DEF SpendsInv, TreeInv, PathsShared, Chain, Tip
<1>5. /\ Len(ids) = Len(buf) + 1 /\ ids[Len(buf) + 1] = id
      /\ \A k \in 1..Len(buf) : ids[k] = buf[k]
  BY <1>1, <1>3
<1>6. ASSUME NEW k \in 1..Len(buf) PROVE buf[k] = q[from + k - 1]
  <2>1. prevHash = buf[Len(buf)] /\ Stretch(blocks, buf, from)
    BY <1>1 DEF SpendsInv, StreamInv
  <2>2. PICK b \in 1..Len(blocks) : OnPath(PathOf(b), buf, from)
    BY <2>1 DEF Stretch, PathOf
  <2> DEFINE p == PathOf(b)
  <2>3. Len(p) = next - 1 /\ \A j \in 1..Len(buf) : buf[j] = p[from + j - 1]
    BY <1>1, <2>2 DEF OnPath
  <2>4. prevHash = p[next - 1] /\ prevHash \in 1..Len(blocks)
    <3>1. p[next - 1] \in 1..b
      BY <1>1, <1>2, <2>3 DEF TreeTypeOK
    <3>2. buf[Len(buf)] = p[next - 1]
      <4>1. Len(buf) \in 1..Len(buf) /\ from + Len(buf) - 1 = next - 1
        BY <1>1
      <4> HIDE DEF p, from
      <4> QED
        BY <2>3, <4>1
    <3>3. 1..b \subseteq 1..Len(blocks)
      BY <1>2
    <3> HIDE DEF p
    <3> QED
      BY <2>1, <3>1, <3>2, <3>3
  <2>5. prevHash = q[next - 1]
    <3>1. PrevHash(id) = q[next - 1]
      BY <1>1, <1>4 DEF PrevHash
    <3> QED
      BY <1>2, <2>4, <3>1 DEF Linked, NoBlock
  <2> HIDE DEF p, q
  <2>6. \A j \in 1..(next - 1) : PathOf(prevHash)[j] = p[j]
    <3>1. next - 1 \in 1..Len(PathOf(b)) /\ PathOf(b)[next - 1] = prevHash
      BY <1>1, <2>3, <2>4 DEF p
    <3> HIDE DEF id
    <3>2. \A j \in 1..(next - 1) : PathOf(PathOf(b)[next - 1])[j] = PathOf(b)[j]
      BY <3>1 DEF SpendsInv, TreeInv, PathsShared
    <3> QED
      BY <3>1, <3>2 DEF p
  <2>7. \A j \in 1..(next - 1) : PathOf(prevHash)[j] = q[j]
    <3>1. next - 1 \in 1..Len(PathOf(id)) /\ PathOf(id)[next - 1] = prevHash
      BY <1>1, <1>4, <2>5 DEF q
    <3> HIDE DEF id
    <3>2. \A j \in 1..(next - 1) : PathOf(PathOf(id)[next - 1])[j] = PathOf(id)[j]
      BY <1>3, <3>1 DEF SpendsInv, TreeInv, PathsShared
    <3> QED
      BY <3>1, <3>2 DEF q
  <2>8. from + k - 1 \in 1..(next - 1)
    BY <1>1
  <2> QED
    BY <2>3, <2>6, <2>7, <2>8
<1>7. OnPath(q, ids, from)
  <2> HIDE DEF q, ids, id
  <2>1. Len(q) = from + Len(ids) - 1
    BY <1>1, <1>4, <1>5
  <2>2. ASSUME NEW k \in 1..Len(ids) PROVE ids[k] = q[from + k - 1]
    <3>1. CASE k \in 1..Len(buf)
      BY <1>5, <1>6, <3>1
    <3>2. CASE k = Len(buf) + 1
      <4>1. from + k - 1 = next /\ q[next] = Chain[next]
        BY <1>1, <1>4, <3>2
      <4> QED
        BY <1>5, <3>2, <4>1 DEF id
    <3> QED
      BY <1>1, <1>5, <3>1, <3>2
  <2> QED
    BY <2>1, <2>2 DEF OnPath
<1> QED
  BY <1>3, <1>7 DEF Stretch, PathOf

LEMMA ReaderStream ==
    ASSUME SpendsInv, Typed', Reader \/ StopReader
    PROVE  TreeInv' /\ StreamInv'
<1>1. UNCHANGED blocks
  BY DEF Reader, ReadBlock, DetectReorg, EndOfStream, StopReader, treeVars
<1>2. /\ next \in Nat /\ buf \in Seq(Nat) /\ Len(buf) \in Nat
      /\ pc = "read" => next - Len(buf) \in Nat
  BY DEF SpendsInv, RowsInv, Typed, TypeOK, StreamTypes, InFlight
<1>3. ASSUME NEW m \in Message, ~IsChunk(m), Send(<<m>>), buf' = <<>>
      PROVE  TreeInv' /\ StreamInv'
  <2>1. <<m>> \in Seq(Message) /\ Len(<<m>>) = 1 /\ <<m>>[1] = m
    OBVIOUS
  <2>2. \A i \in 1..Len(<<m>>) : ~IsChunk(<<m>>[i])
    BY <1>3, <2>1
  <2> QED
    BY <1>1, <1>3, <2>1, <2>2, SendStream
<1>4. CASE DetectReorg
  <2>1. Reorg(next - 1) \in Message /\ ~IsChunk(Reorg(next - 1))
    <3>1. <<>> \in Seq(Nat) /\ next >= 2
      BY <1>4 DEF SpendsInv, RowsInv, Typed, InFlight, DetectReorg, Streaming
    <3> QED
      BY <1>2, <3>1 DEF Reorg, Message, IsChunk
  <2> HIDE DEF Reorg
  <2> QED
    BY <1>3, <1>4, <2>1 DEF DetectReorg
<1>5. CASE StopReader
  <2>1. Stop \in Message /\ ~IsChunk(Stop)
    <3>1. <<>> \in Seq(Nat)
      OBVIOUS
    <3> QED
      BY <3>1 DEF Stop, Message, IsChunk
  <2> QED
    BY <1>3, <1>5, <2>1 DEF StopReader
<1>6. CASE EndOfStream
  <2>1. pc = "read" /\ Send(ChunkOf(buf)) /\ buf' = <<>>
    BY <1>6 DEF EndOfStream
  <2>2. CASE buf = <<>>
    <3> DEFINE none == <<>>
    <3>1. ChunkOf(buf) = none /\ none \in Seq(Message) /\ 1..Len(none) = {}
      BY <2>2 DEF ChunkOf
    <3> HIDE DEF none
    <3> QED
      BY <1>1, <2>1, <3>1, SendStream
  <2>3. CASE buf # <<>>
    <3> DEFINE m == Chunk(next - Len(buf), buf)
    <3>1. ChunkOf(buf) = <<m>>
      BY <2>3 DEF ChunkOf
    <3>2. m \in Message /\ m.from = next - Len(buf) /\ m.ids = buf
      BY <1>2, <2>1 DEF Chunk, Message
    <3> HIDE DEF m
    <3>3. <<m>> \in Seq(Message) /\ Len(<<m>>) = 1 /\ <<m>>[1] = m
      BY <3>2
    <3>4. Stretch(blocks, m.ids, m.from)
      BY <2>3, <3>2 DEF SpendsInv, StreamInv
    <3>5. \A i \in 1..Len(<<m>>) : Stretch(blocks, <<m>>[i].ids, <<m>>[i].from)
      BY <3>3, <3>4
    <3> QED
      BY <1>1, <2>1, <3>1, <3>3, <3>5, SendStream
  <2> QED
    BY <2>2, <2>3
<1>7. ASSUME NEW full \in BOOLEAN, ReadBlock(full) PROVE TreeInv' /\ StreamInv'
  <2> DEFINE id == Chain[next]
             ids == Append(buf, id)
             hm == IF next \in wanted THEN <<SaveHeader(next, id)>> ELSE <<>>
             m == Chunk(next - Len(buf), ids)
             cm == IF full THEN <<m>> ELSE <<>>
  <2>1. /\ pc = "read" /\ next' = next + 1 /\ prevHash' = id
        /\ buf' = (IF full THEN <<>> ELSE ids) /\ Send(hm \o cm)
    BY <1>7 DEF ReadBlock, Streaming
  <2>2. Stretch(blocks, ids, next - Len(buf))
    BY <1>7, NextBlock DEF ReadBlock
  <2>3. id \in Nat
    <3>1. TreeTypeOK /\ next \in 1..Tip
      BY <1>2, <1>7, ChainType DEF ReadBlock, Streaming, SpendsInv, TreeInv, RowsInv, Typed, InFlight
    <3> QED
      BY <3>1, ChainType
  <2> HIDE DEF id
  <2>4. ids \in Seq(Nat) /\ Len(ids) = Len(buf) + 1 /\ ids[Len(ids)] = id
    BY <1>2, <2>3
  <2> HIDE DEF ids
  <2>5. buf' # <<>> => prevHash' = buf'[Len(buf')] /\ Stretch(blocks, buf', next' - Len(buf'))
    <3>1. CASE full
      BY <2>1, <3>1
    <3>2. CASE ~full
      <4>1. buf' = ids /\ next' - Len(buf') = next - Len(buf)
        <5>1. buf' = ids
          BY <2>1, <3>2
        <5>2. next' = next + 1 /\ Len(ids) = Len(buf) + 1 /\ next \in Nat /\ Len(buf) \in Nat
          BY <1>2, <2>1, <2>4
        <5> QED
          BY <5>1, <5>2
      <4> QED
        BY <2>1, <2>2, <2>4, <4>1
    <3> QED
      BY <3>1, <3>2
  <2>6. /\ hm \in Seq(Message) /\ Len(hm) \in 0..1
        /\ \A i \in 1..Len(hm) : ~IsChunk(hm[i])
    <3>1. <<id>> \in Seq(Nat)
      BY <2>3
    <3>2. SaveHeader(next, id) \in Message /\ ~IsChunk(SaveHeader(next, id))
      BY <1>2, <3>1 DEF SaveHeader, Message, IsChunk
    <3> HIDE DEF SaveHeader
    <3> QED
      BY <3>2
  <2>7. m \in Message /\ m.from = next - Len(buf) /\ m.ids = ids
    BY <1>2, <2>1, <2>4 DEF Chunk, Message
  <2> HIDE DEF m
  <2>8. cm \in Seq(Message) /\ Len(cm) \in 0..1 /\ \A i \in 1..Len(cm) : cm[i] = m
    BY <2>7
  <2> HIDE DEF hm, cm
  <2>9. hm \o cm \in Seq(Message) /\ Len(hm \o cm) = Len(hm) + Len(cm)
    BY <2>6, <2>8
  <2>10. ASSUME NEW i \in 1..Len(hm \o cm), IsChunk((hm \o cm)[i])
         PROVE  (hm \o cm)[i] = m
    <3>1. CASE i \in 1..Len(hm)
      <4>1. (hm \o cm)[i] = hm[i]
        BY <2>6, <2>8, <3>1
      <4> QED
        BY <2>6, <2>10, <3>1, <4>1
    <3>2. CASE i \in (Len(hm) + 1)..(Len(hm) + Len(cm))
      <4>1. (hm \o cm)[i] = cm[i - Len(hm)] /\ i - Len(hm) \in 1..Len(cm)
        BY <2>6, <2>8, <2>9, <3>2
      <4> QED
        BY <2>8, <4>1
    <3> QED
      BY <2>6, <2>8, <2>9, <3>1, <3>2
  <2>11. \A i \in 1..Len(hm \o cm) :
            IsChunk((hm \o cm)[i]) => Stretch(blocks, (hm \o cm)[i].ids, (hm \o cm)[i].from)
    BY <2>2, <2>7, <2>10
  <2> HIDE DEF Stretch
  <2> QED
    BY <1>1, <2>1, <2>5, <2>9, <2>11, SendStream
<1> QED
  BY <1>4, <1>5, <1>6, <1>7 DEF Reader

-------------------------------------------------------------------------------
(* Transparent rows and the segments *)

(* Rows are taken away or stay, while the run goes on.                     *)
LEMMA SameRun ==
    ASSUME SpendsInv, UNCHANGED <<chosen, resume, todo, seg, scan>>,
           pc' = pc \/ (InSegment /\ pc' \in {"open", "read", "times"}),
           \A n \in Note : PoolOf[n] = 0 => noted'[n] = 0 \/ noted'[n] = noted[n]
    PROVE  Behind'
<1>1. /\ \A n \in Note : noted[n] \in Nat
      /\ chosen \subseteq Account /\ seg.accounts \subseteq Account
      /\ \A a \in Account : resume[a] \in Nat
      /\ \A s \in todo : s \in Nat
      /\ seg.start \in Nat /\ seg.end \in Nat
  BY RunNumbers DEF SpendsInv, RowsInv
<1>2. ASSUME NEW a, NEW n \in TransparentOf(a)
      PROVE  noted[n] \in Nat /\ (noted'[n] = 0 \/ noted'[n] = noted[n])
  BY <1>1 DEF TransparentOf
<1>3. BehindPlan'
  <2>1. ASSUME pc = "plan", NEW a \in chosen, NEW n \in TransparentOf(a)
        PROVE  \/ noted'[n] < resume[a]
               \/ \A s \in todo : resume[a] < s /\ noted'[n] < s
    <3>1. \/ noted[n] < resume[a]
          \/ \A s \in todo : resume[a] < s /\ noted[n] < s
      BY <2>1 DEF SpendsInv, Behind, BehindPlan
    <3>2. /\ noted[n] \in Nat /\ (noted'[n] = 0 \/ noted'[n] = noted[n])
          /\ resume[a] \in Nat
      BY <1>1, <1>2
    <3> QED
      BY <1>1, <3>1, <3>2
  <2>2. pc' = "plan" => pc = "plan"
    OBVIOUS
  <2> QED
    BY <2>1, <2>2 DEF BehindPlan
<1>4. BehindSegment'
  <2>1. ASSUME InSegment, NEW a \in seg.accounts, NEW n \in TransparentOf(a)
        PROVE  noted'[n] <= seg.end
    <3>1. noted[n] <= seg.end
      BY <2>1 DEF SpendsInv, Behind, BehindSegment
    <3> QED
      BY <1>1, <1>2, <3>1
  <2>2. ASSUME InSegment, NEW a \in chosen \ seg.accounts, NEW n \in TransparentOf(a)
        PROVE  noted'[n] < resume[a]
    <3>1. noted[n] < resume[a] /\ resume[a] \in Nat
      BY <1>1, <2>2 DEF SpendsInv, Behind, BehindSegment
    <3> QED
      BY <1>2, <3>1
  <2>3. InSegment' => InSegment
    BY DEF InSegment
  <2>4. InSegment => \A s \in todo : seg.end < s
    BY DEF SpendsInv, Behind, BehindSegment
  <2> QED
    BY <2>1, <2>2, <2>3, <2>4 DEF BehindSegment
<1>5. BehindScan'
  <2>1. ASSUME pc = "scan", NEW s \in scan, NEW n \in TransparentOf(s[1]), AddrOf[n] = AddrsOf[s[1]][s[2]]
        PROVE  noted'[n] < seg.start
    <3>1. noted[n] < seg.start
      BY <2>1 DEF SpendsInv, Behind, BehindScan
    <3> QED
      BY <1>1, <1>2, <3>1
  <2>2. pc = "scan" => \A s \in scan : s[1] \in seg.accounts /\ s[2] \in DOMAIN AddrsOf[s[1]]
    BY DEF SpendsInv, Behind, BehindScan
  <2>3. pc' = "scan" => pc = "scan"
    OBVIOUS
  <2> QED
    BY <2>1, <2>2, <2>3 DEF BehindScan
<1> QED
  BY <1>3, <1>4, <1>5 DEF Behind

(* Outside the segments there is nothing to say.                           *)
LEMMA NoRun ==
    ASSUME pc' \in {"idle", "recover"}
    PROVE  Behind'
BY DEF Behind, BehindPlan, BehindSegment, BehindScan, InSegment

(* After Recover every row of an account is below where it resumes.        *)
LEMMA RecoverBehind ==
    ASSUME SpendsInv, Recover
    PROVE  Behind'
<1> DEFINE cut == [a \in Account |-> SyncHeight(a)]
<1>1. /\ pc' = "plan" /\ UNCHANGED chosen
      /\ noted' = [n \in Note |-> IF Gone(chosen, cut, Owner[n], noted[n]) THEN 0 ELSE noted[n]]
      /\ resume' = [a \in Account |-> IF a \in chosen THEN cut[a] + 1 ELSE 0]
  BY DEF Recover, Trim, TrimNotes
<1>2. chosen \subseteq Account /\ \A n \in Note : noted[n] \in Nat
  BY RunNumbers DEF SpendsInv, RowsInv
<1>3. \A a \in Account : cut[a] \in Nat
  BY SyncHeightType, Bounds DEF SpendsInv, RowsInv
<1> HIDE DEF cut
<1>4. ASSUME NEW a \in chosen, NEW n \in TransparentOf(a) PROVE noted'[n] < resume'[a]
  <2>1. n \in Note /\ Owner[n] = a /\ a \in Account
    BY <1>2 DEF TransparentOf
  <2>2. resume'[a] = cut[a] + 1 /\ cut[a] \in Nat /\ noted[n] \in Nat
    BY <1>1, <1>2, <1>3, <2>1
  <2>3. noted'[n] = 0 \/ (noted'[n] = noted[n] /\ noted[n] <= cut[a])
    BY <1>1, <2>1, <2>2 DEF Gone
  <2> QED
    BY <2>2, <2>3
<1> QED
  BY <1>1, <1>4 DEF Behind, BehindPlan, BehindSegment, BehindScan, InSegment

(* The accounts of a segment have no row in it; the others wait.           *)
LEMMA BeginSegmentBehind ==
    ASSUME SpendsInv, BeginSegment
    PROVE  Behind'
<1> DEFINE start == MinOf(todo)
           later == todo \ {start}
           end == SegmentEnd(later)
           accounts == {a \in chosen : resume[a] <= start}
<1>1. pc = "plan" /\ todo # {} /\ UNCHANGED noted
  BY DEF BeginSegment, dbVars
<1>2. CASE start > end
  BY <1>2, NoRun DEF BeginSegment, EndRun
<1>3. CASE ~(start > end)
  <2>1. /\ pc' = "scan" /\ todo' = later /\ UNCHANGED <<chosen, resume>>
        /\ seg' = [start |-> start, end |-> end, accounts |-> accounts]
        /\ scan' = {s \in accounts \X AddrIndexes : s[2] \in DOMAIN AddrsOf[s[1]]}
    BY <1>3 DEF BeginSegment
  <2>2. /\ \A n \in Note : noted[n] \in Nat
        /\ chosen \subseteq Account
        /\ \A a \in Account : resume[a] \in Nat
        /\ todo \in SUBSET Nat /\ target \in Nat
    BY RunNumbers, Bounds DEF SpendsInv, RowsInv, Typed, TypeOK, RunTypes
  <2>3. start \in todo /\ start \in Nat
    BY <1>1, <2>2, MinOfIsMin
  <2>4. end \in Int /\ \A s \in later : end < s
    <3>1. CASE later = {}
      BY <2>2, <3>1 DEF SegmentEnd
    <3>2. CASE later # {}
      <4>1. later \in SUBSET Nat
        BY <2>2
      <4>2. MinOf(later) \in Nat /\ \A s \in later : MinOf(later) <= s
        BY <3>2, <4>1, MinOfIsMin
      <4> QED
        BY <3>2, <4>1, <4>2 DEF SegmentEnd
    <3> QED
      BY <3>1, <3>2
  <2> HIDE DEF start, later, end
  <2>5. ASSUME NEW a \in chosen, NEW n \in TransparentOf(a)
        PROVE  /\ resume[a] <= start => noted[n] < start
               /\ ~(resume[a] <= start) => noted[n] < resume[a]
    <3>1. \/ noted[n] < resume[a]
          \/ \A s \in todo : resume[a] < s /\ noted[n] < s
      BY <1>1 DEF SpendsInv, Behind, BehindPlan
    <3>2. noted[n] \in Nat /\ resume[a] \in Nat
      BY <2>2 DEF TransparentOf
    <3> QED
      BY <2>3, <3>1, <3>2
  <2>6. seg'.start = start /\ seg'.end = end /\ seg'.accounts = accounts
    BY <2>1
  <2>7. BehindSegment'
    <3>1. ASSUME NEW a \in accounts, NEW n \in TransparentOf(a) PROVE noted[n] <= end
      <4>1. noted[n] < start /\ noted[n] \in Nat
        BY <2>2, <2>5, <3>1 DEF TransparentOf
      <4> QED
        BY <1>3, <2>3, <2>4, <4>1
    <3>2. ASSUME NEW a \in chosen \ accounts, NEW n \in TransparentOf(a) PROVE noted[n] < resume[a]
      BY <2>5, <3>2
    <3> QED
      BY <1>1, <2>1, <2>4, <2>6, <3>1, <3>2 DEF BehindSegment
  <2>8. BehindScan'
    <3>1. ASSUME NEW s \in scan'
          PROVE  /\ s[1] \in accounts /\ s[2] \in DOMAIN AddrsOf[s[1]]
                 /\ \A n \in TransparentOf(s[1]) : noted[n] < start
      <4>1. s[1] \in accounts /\ s[2] \in DOMAIN AddrsOf[s[1]]
        BY <2>1
      <4> QED
        BY <2>5, <4>1
    <3> QED
      BY <1>1, <2>6, <3>1 DEF BehindScan
  <2>9. BehindPlan'
    BY <2>1 DEF BehindPlan
  <2> QED
    BY <2>7, <2>8, <2>9 DEF Behind
<1> QED
  BY <1>2, <1>3

(* After a segment its accounts are below all that are left.               *)
LEMMA EndSegmentBehind ==
    ASSUME SpendsInv, EndSegment
    PROVE  Behind'
<1>1. CASE todo = {}
  BY <1>1, NoRun DEF EndSegment, EndRun
<1>2. CASE todo # {}
  <2>1. /\ pc = "times" /\ pc' = "plan" /\ UNCHANGED <<noted, chosen, todo>>
        /\ resume' = [a \in Account |-> IF a \in seg.accounts THEN seg.end ELSE resume[a]]
    BY <1>2 DEF EndSegment, dbVars
  <2>2. chosen \subseteq Account
    BY RunNumbers DEF SpendsInv, RowsInv
  <2>3. ASSUME NEW a \in chosen, NEW n \in TransparentOf(a)
        PROVE  \/ noted[n] < resume'[a]
               \/ \A s \in todo : resume'[a] < s /\ noted[n] < s
    <3>1. CASE a \in seg.accounts
      <4>1. resume'[a] = seg.end /\ noted[n] <= seg.end /\ \A s \in todo : seg.end < s
        BY <2>1, <2>2, <3>1 DEF SpendsInv, Behind, BehindSegment, InSegment
      <4>2. noted[n] \in Nat /\ seg.end \in Nat /\ \A s \in todo : s \in Nat
        BY RunNumbers DEF SpendsInv, RowsInv, TransparentOf
      <4> QED
        BY <4>1, <4>2
    <3>2. CASE a \notin seg.accounts
      BY <2>1, <2>2, <3>2 DEF SpendsInv, Behind, BehindSegment, InSegment
    <3> QED
      BY <3>1, <3>2
  <2> QED
    BY <2>1, <2>3 DEF Behind, BehindPlan, BehindSegment, BehindScan, InSegment
<1> QED
  BY <1>1, <1>2

-------------------------------------------------------------------------------
(* Steps that write rows *)

LEMMA SameSpends ==
    ASSUME SpendsInv, UNCHANGED <<noted, spent>>
    PROVE  SpendsHaveNotes'
BY DEF SpendsInv, SpendsHaveNotes

(* A trim takes the spends of a note with it.                              *)
LEMMA TrimSpendRows ==
    ASSUME SpendsInv, NEW S, NEW cut, NEW to, \A a \in S : cut[a] \in Nat, Trim(S, cut, to)
    PROVE  SpendsHaveNotes' /\ \A n \in Note : noted'[n] = 0 \/ noted'[n] = noted[n]
<1>1. /\ noted' = [n \in Note |-> IF Gone(S, cut, Owner[n], noted[n]) THEN 0 ELSE noted[n]]
      /\ spent' = [n \in Note |-> IF Gone(S, cut, Owner[n], spent[n]) THEN 0 ELSE spent[n]]
  BY DEF Trim, TrimNotes, TrimSpends
<1>2. \A n \in Note : noted[n] \in Nat /\ spent[n] \in Nat
  BY RunNumbers DEF SpendsInv, RowsInv
<1>3. ASSUME NEW n \in Note, Outs[n] = {}, spent'[n] # 0
      PROVE  noted'[n] # 0 /\ noted'[n] <= spent'[n]
  <2>1. spent'[n] = spent[n] /\ ~Gone(S, cut, Owner[n], spent[n]) /\ spent[n] # 0
    BY <1>1, <1>3
  <2>2. noted[n] # 0 /\ noted[n] <= spent[n]
    BY <1>3, <2>1 DEF SpendsInv, SpendsHaveNotes
  <2>3. ~Gone(S, cut, Owner[n], noted[n])
    BY <1>2, <2>1, <2>2 DEF Gone
  <2> QED
    BY <1>1, <2>1, <2>2, <2>3
<1> QED
  BY <1>1, <1>3 DEF SpendsHaveNotes

LEMMA RewindSpendRows ==
    ASSUME SpendsInv, NEW S \in SUBSET Account, NEW h, NEW hs, NEW rows, Rewind(S, h, hs, rows)
    PROVE  SpendsHaveNotes' /\ \A n \in Note : noted'[n] = 0 \/ noted'[n] = noted[n]
<1> DEFINE cut == [a \in Account |-> IF CheckpointsBelow(a, h) = {} THEN 0
                                     ELSE MaxOf(CheckpointsBelow(a, h))]
           to == [a \in Account |-> IF CheckpointsBelow(a, h) = {} THEN Birth[a] ELSE cut[a]]
<1>1. Trim(S, cut, to)
  BY DEF Rewind
<1>2. ASSUME NEW a \in Account PROVE cut[a] \in Nat
  <2>1. CheckpointsBelow(a, h) \subseteq 0..MaxHeight /\ MaxHeight \in Nat
    BY HeightsOfRows, Bounds DEF CheckpointsBelow, SpendsInv, RowsInv
  <2>2. CASE CheckpointsBelow(a, h) = {}
    BY <2>2
  <2>3. CASE CheckpointsBelow(a, h) # {}
    <3>1. MaxOf(CheckpointsBelow(a, h)) \in CheckpointsBelow(a, h)
      BY <2>1, <2>3, MaxOfIsMax
    <3> QED
      BY <2>1, <2>3, <3>1
  <2> QED
    BY <2>2, <2>3
<1> HIDE DEF cut, to
<1> QED
  BY <1>1, <1>2, TrimSpendRows

(* A scan finds the note of a spend in a block before it, or in a row      *)
(* below the segment.                                                      *)
LEMMA ScanAddressSpends ==
    ASSUME SpendsInv, NEW a \in Account, NEW i \in AddrIndexes, NEW upto \in Heights,
           ScanAddress(a, i, upto)
    PROVE  SpendsHaveNotes' /\ Behind'
<1> DEFINE range == seg.start..upto
           mine == {n \in Note : PoolOf[n] = 0 /\ AddrOf[n] = AddrsOf[a][i] /\ Owner[n] = a}
           mintedAt(n) == {k \in range : n \in blocks[Chain[k]].mints}
           spentAt(n) == {k \in range : n \in blocks[Chain[k]].spends}
<1>1. /\ pc = "scan" /\ <<a, i>> \in scan /\ scan' = scan \ {<<a, i>>}
      /\ UNCHANGED <<pc, chosen, resume, todo, seg>>
  BY DEF ScanAddress
<1>2. /\ noted' = [n \in Note |-> IF n \in mine /\ noted[n] = 0 /\ mintedAt(n) # {}
                                   THEN MinOf(mintedAt(n)) ELSE noted[n]]
      /\ spent' = [n \in Note |-> IF n \in mine /\ noted'[n] # 0 /\ spent[n] = 0
                                        /\ spentAt(n) # {}
                                   THEN MinOf(spentAt(n)) ELSE spent[n]]
  BY DEF ScanAddress, ScanOne
<1>3. /\ \A n \in Note : noted[n] \in Nat /\ spent[n] \in Nat
      /\ seg.start \in Nat /\ seg.start >= 2 /\ seg.end \in Nat
      /\ chosen \subseteq Account /\ \A b \in Account : resume[b] \in Nat
      /\ \A s \in todo : s \in Nat
  BY <1>1, RunNumbers DEF SpendsInv, RowsInv, Typed, InFlight
<1>4. Tip \in Nat /\ best \in 1..Len(blocks)
  BY ChainType, Bounds DEF SpendsInv, TreeInv, TreeTypeOK
<1>5. upto \in Nat /\ upto <= Tip /\ upto <= seg.end
  <2> DEFINE served == IF seg.end < Tip THEN seg.end ELSE Tip
  <2>1. upto = served \/ upto \in (seg.start - 1)..(served - 1)
    BY DEF ScanAddress
  <2>2. upto \in Nat
    BY Bounds
  <2> QED
    BY <1>3, <1>4, <2>1, <2>2
<1>6. range \subseteq Nat /\ range \subseteq 1..Tip /\ \A k \in range : seg.start <= k /\ k <= seg.end
  BY <1>3, <1>4, <1>5
<1>7. ASSUME NEW n, NEW j \in mintedAt(n), NEW k \in spentAt(n) PROVE j < k
  <2>1. j \in 1..Len(PathOf(best)) /\ k \in 1..Len(PathOf(best))
    BY <1>6 DEF Tip, Chain
  <2>2. n \in blocks[PathOf(best)[j]].mints /\ n \in blocks[PathOf(best)[k]].spends
    BY DEF Chain
  <2> QED
    BY <1>4, <2>1, <2>2 DEF SpendsInv, TreeInv, SpentAfterMint
<1>8. ASSUME NEW T \in SUBSET range, T # {} PROVE MinOf(T) \in T
  <2>1. T \in SUBSET Nat
    BY <1>6
  <2> QED
    BY <1>8, <2>1, MinOfIsMin
<1>9. \A n : mintedAt(n) \subseteq range /\ spentAt(n) \subseteq range
  OBVIOUS
<1>10. ASSUME NEW n \in mine PROVE n \in Note /\ n \in TransparentOf(a) /\ noted[n] < seg.start
  <2>1. n \in Note /\ n \in TransparentOf(a) /\ AddrOf[n] = AddrsOf[a][i]
    BY DEF TransparentOf
  <2> QED
    BY <1>1, <2>1 DEF SpendsInv, Behind, BehindScan
<1> HIDE DEF mine, mintedAt, spentAt, range
<1>11. ASSUME NEW n \in Note, Outs[n] = {}, spent'[n] # 0
       PROVE  noted'[n] # 0 /\ noted'[n] <= spent'[n]
  <2>1. CASE spent[n] # 0
    <3>1. spent'[n] = spent[n] /\ noted[n] # 0 /\ noted[n] <= spent[n]
      BY <1>2, <1>11, <2>1 DEF SpendsInv, SpendsHaveNotes
    <3> QED
      BY <1>2, <3>1
  <2>2. CASE spent[n] = 0
    <3>1. n \in mine /\ noted'[n] # 0 /\ spentAt(n) # {} /\ spent'[n] = MinOf(spentAt(n))
      BY <1>2, <1>11, <2>2
    <3>2. spent'[n] \in spentAt(n) /\ spent'[n] \in Nat /\ seg.start <= spent'[n]
      BY <1>6, <1>8, <1>9, <3>1
    <3>3. CASE noted'[n] = noted[n]
      <4>1. noted[n] < seg.start /\ noted[n] \in Nat
        BY <1>3, <1>10, <3>1
      <4> QED
        BY <1>3, <3>1, <3>2, <3>3, <4>1
    <3>4. CASE noted'[n] # noted[n]
      <4>1. mintedAt(n) # {} /\ noted'[n] = MinOf(mintedAt(n))
        BY <1>2, <3>4
      <4>2. noted'[n] \in mintedAt(n) /\ noted'[n] \in Nat
        BY <1>6, <1>8, <1>9, <4>1
      <4> QED
        BY <1>7, <3>1, <3>2, <4>2
    <3> QED
      BY <3>3, <3>4
  <2> QED
    BY <2>1, <2>2
<1>12. ASSUME NEW n \in Note
       PROVE  \/ noted'[n] = noted[n]
              \/ n \in mine /\ noted'[n] \in Nat /\ noted'[n] <= seg.end
  <2>1. CASE noted'[n] # noted[n]
    <3>1. n \in mine /\ mintedAt(n) # {} /\ noted'[n] = MinOf(mintedAt(n))
      BY <1>2, <2>1
    <3>2. noted'[n] \in range
      BY <1>8, <1>9, <3>1
    <3> QED
      BY <1>6, <3>1, <3>2
  <2> QED
    BY <2>1
<1>13. a \in seg.accounts
  BY <1>1 DEF SpendsInv, Behind, BehindScan
<1>14. BehindSegment'
  <2>1. ASSUME NEW b \in seg.accounts, NEW n \in TransparentOf(b) PROVE noted'[n] <= seg.end
    <3>1. n \in Note /\ noted[n] <= seg.end
      BY <1>1 DEF SpendsInv, Behind, BehindSegment, InSegment, TransparentOf
    <3> QED
      BY <1>12, <3>1
  <2>2. ASSUME NEW b \in chosen \ seg.accounts, NEW n \in TransparentOf(b) PROVE noted'[n] < resume[b]
    <3>1. n \in Note /\ Owner[n] = b /\ noted[n] < resume[b]
      BY <1>1 DEF SpendsInv, Behind, BehindSegment, InSegment, TransparentOf
    <3>2. n \notin mine
      BY <1>13, <3>1 DEF mine
    <3> QED
      BY <1>12, <3>1, <3>2
  <2>3. \A s \in todo : seg.end < s
    BY <1>1 DEF SpendsInv, Behind, BehindSegment, InSegment
  <2> QED
    BY <1>1, <2>1, <2>2, <2>3 DEF BehindSegment
<1>15. BehindScan'
  <2>1. ASSUME NEW s \in scan, s # <<a, i>>, NEW n \in TransparentOf(s[1]),
               AddrOf[n] = AddrsOf[s[1]][s[2]]
        PROVE  noted'[n] < seg.start
    <3>1. n \in Note /\ Owner[n] = s[1] /\ noted[n] < seg.start
      BY <1>1, <2>1 DEF SpendsInv, Behind, BehindScan, TransparentOf
    <3>2. n \notin mine
      <4>1. SUFFICES ASSUME n \in mine PROVE FALSE
        OBVIOUS
      <4>2. s[1] = a /\ AddrsOf[a][s[2]] = AddrsOf[a][i]
        BY <2>1, <3>1, <4>1 DEF mine
      <4>3. s[2] \in DOMAIN AddrsOf[a] /\ i \in DOMAIN AddrsOf[a]
        BY <1>1, <4>2 DEF SpendsInv, Behind, BehindScan
      <4>4. s[2] = i
        BY <4>2, <4>3, WarpSyncAssumption
      <4>5. s \in Account \X AddrIndexes
        BY DEF SpendsInv, RowsInv, Typed, TypeOK, RunTypes
      <4> QED
        BY <2>1, <4>2, <4>4, <4>5
    <3> QED
      BY <1>12, <3>1, <3>2
  <2>2. \A s \in scan : s[1] \in seg.accounts /\ s[2] \in DOMAIN AddrsOf[s[1]]
    BY <1>1 DEF SpendsInv, Behind, BehindScan
  <2> QED
    BY <1>1, <2>1, <2>2 DEF BehindScan
<1>16. BehindPlan'
  BY <1>1 DEF BehindPlan
<1>17. SpendsHaveNotes'
  BY <1>11 DEF SpendsHaveNotes
<1> QED
  BY <1>14, <1>15, <1>16, <1>17 DEF Behind

(* In a chunk, the block that creates a note is before one that spends it. *)
LEMMA ChunkOrder ==
    ASSUME SpendsInv, Arriving("chunk"), NEW m, m = Head(chan),
           NEW n \in Note, NEW i \in MintsIn(m, n), NEW k \in SpendsIn(m, n)
    PROVE  i < k
<1>1. /\ Len(m.ids) \in Nat /\ m.from \in Nat /\ m.from >= 2
      /\ chan # <<>> /\ m = chan[1] /\ IsChunk(m) /\ 1 \in 1..Len(chan)
  <2>1. chan \in Seq(Message) /\ chan # <<>>
    BY DEF Arriving, SpendsInv, RowsInv, Typed, TypeOK, StreamTypes
  <2>2. m = chan[1] /\ 1 \in 1..Len(chan)
    BY <2>1
  <2>3. Len(m.ids) \in Nat /\ m.from \in 2..MaxHeight
    BY ArrivingChunk DEF SpendsInv, RowsInv
  <2> QED
    BY <2>1, <2>2, <2>3, Bounds DEF Arriving, IsChunk
<1>2. PICK id \in 1..Len(blocks) : OnPath(blocks[id].path, m.ids, m.from)
  BY <1>1 DEF SpendsInv, StreamInv, Stretch
<1>3. /\ i \in 1..Len(m.ids) /\ n \in blocks[m.ids[i]].mints
      /\ k \in 1..Len(m.ids) /\ n \in blocks[m.ids[k]].spends
  BY DEF MintsIn, SpendsIn
<1> DEFINE p == PathOf(id)
<1>4. Len(p) = m.from + Len(m.ids) - 1 /\ \A j \in 1..Len(m.ids) : m.ids[j] = p[m.from + j - 1]
  BY <1>2 DEF OnPath, PathOf
<1>5. m.from + i - 1 \in 1..Len(p) /\ m.from + k - 1 \in 1..Len(p)
  <2> HIDE DEF p
  <2> DEFINE l == Len(m.ids)
             f == m.from
  <2>1. l \in Nat /\ f \in Nat /\ f >= 2 /\ i \in 1..l /\ k \in 1..l /\ Len(p) = f + l - 1
    BY <1>1, <1>3, <1>4
  <2> HIDE DEF l, f
  <2>2. f + i - 1 \in 1..(f + l - 1) /\ f + k - 1 \in 1..(f + l - 1)
    BY <2>1
  <2> QED
    BY <2>1, <2>2 DEF f
<1>6. n \in blocks[p[m.from + i - 1]].mints /\ n \in blocks[p[m.from + k - 1]].spends
  BY <1>3, <1>4
<1>7. m.from + i - 1 < m.from + k - 1
  <2> HIDE DEF p
  <2>1. \A j \in 1..Len(p) : \A x \in blocks[p[j]].spends :
            \A h \in 1..Len(p) : x \in blocks[p[h]].mints => h < j
    BY DEF SpendsInv, TreeInv, SpentAfterMint, p
  <2> QED
    BY <1>5, <1>6, <2>1
<1> QED
  BY <1>1, <1>3, <1>7

LEMMA HandleChunkSpends ==
    ASSUME SpendsInv, HandleChunk
    PROVE  SpendsHaveNotes' /\ \A n \in Note : PoolOf[n] = 0 => noted'[n] = noted[n]
<1> DEFINE m == Head(chan)
           live == Found(m) \cup Kept
<1>1. Arriving("chunk") /\ ~ChunkFails(m)
  BY DEF HandleChunk
<1>2. /\ noted' = [n \in Note |-> IF n \in Found(m)
                                   THEN m.from + MinOf(MintsIn(m, n)) - 1 ELSE noted[n]]
      /\ spent' = [n \in Note |->
                      IF n \in live /\ SpendsIn(m, n) # {}
                      THEN TransactionHeight(n, m.from + MinOf(SpendsIn(m, n)) - 1)
                      ELSE spent[n]]
  BY DEF HandleChunk
<1>3. /\ m.from \in Nat /\ m.from >= 2 /\ Len(m.ids) \in Nat /\ pc = "read"
      /\ m = chan[1] /\ IsChunk(m) /\ 1 \in 1..Len(chan)
  <2>1. chan \in Seq(Message) /\ chan # <<>>
    BY <1>1 DEF Arriving, SpendsInv, RowsInv, Typed, TypeOK, StreamTypes
  <2>2. m = chan[1] /\ 1 \in 1..Len(chan)
    BY <2>1
  <2>3. Len(m.ids) \in Nat /\ m.from \in 2..MaxHeight
    BY <1>1, ArrivingChunk DEF SpendsInv, RowsInv
  <2> QED
    BY <1>1, <2>1, <2>2, <2>3, Bounds DEF Arriving, IsChunk
<1>4. \A n \in Note : noted[n] \in Nat /\ spent[n] \in Nat
  BY RunNumbers DEF SpendsInv, RowsInv
<1>5. /\ \A n \in Found(m) : noted[n] = 0 /\ MintsIn(m, n) # {}
      /\ \A n \in Kept : noted[n] # 0 /\ Before(noted[n], m.from)
  BY <1>1, <1>3 DEF ChunkFails, Found, SpendsInv, RowsInv, TrackedBefore
<1>6. ASSUME NEW n \in Note
      PROVE  /\ MintsIn(m, n) # {} => MinOf(MintsIn(m, n)) \in MintsIn(m, n)
             /\ SpendsIn(m, n) # {} => MinOf(SpendsIn(m, n)) \in SpendsIn(m, n)
             /\ MintsIn(m, n) \subseteq Nat \ {0} /\ SpendsIn(m, n) \subseteq Nat \ {0}
  <2>1. MintsIn(m, n) \subseteq Nat \ {0} /\ SpendsIn(m, n) \subseteq Nat \ {0}
    BY <1>3 DEF MintsIn, SpendsIn
  <2> QED
    BY <2>1, MinOfIsMin
<1>7. ASSUME NEW n \in Note, MintsIn(m, n) # {}, SpendsIn(m, n) # {}
      PROVE  MinOf(MintsIn(m, n)) < MinOf(SpendsIn(m, n))
  BY <1>1, <1>6, <1>7, ChunkOrder
<1> HIDE DEF m
<1>8. ASSUME NEW n \in Note, Outs[n] = {}, spent'[n] # 0
      PROVE  noted'[n] # 0 /\ noted'[n] <= spent'[n]
  <2> \A k : TransactionHeight(n, k) = k
    BY <1>8, TransactionRow
  <2>1. CASE n \in Found(m)
    <3>1. noted[n] = 0 /\ spent[n] = 0 /\ MintsIn(m, n) # {}
      BY <1>5, <1>8, <2>1 DEF SpendsInv, SpendsHaveNotes
    <3>2. SpendsIn(m, n) # {} /\ spent'[n] = m.from + MinOf(SpendsIn(m, n)) - 1
      BY <1>2, <1>8, <3>1
    <3>3. noted'[n] = m.from + MinOf(MintsIn(m, n)) - 1
      BY <1>2, <2>1
    <3>4. /\ MinOf(MintsIn(m, n)) \in Nat /\ MinOf(SpendsIn(m, n)) \in Nat
          /\ MinOf(MintsIn(m, n)) < MinOf(SpendsIn(m, n))
      BY <1>6, <1>7, <3>1, <3>2
    <3> QED
      BY <1>3, <3>2, <3>3, <3>4
  <2>2. CASE n \in Kept /\ n \notin Found(m) /\ SpendsIn(m, n) # {}
    <3>1. noted'[n] = noted[n] /\ noted[n] # 0 /\ Before(noted[n], m.from) /\ noted[n] \in Nat
      BY <1>2, <1>4, <1>5, <2>2
    <3>2. spent'[n] = m.from + MinOf(SpendsIn(m, n)) - 1
      BY <1>2, <2>2
    <3>3. MinOf(SpendsIn(m, n)) \in Nat \ {0}
      BY <1>6, <2>2
    <3> QED
      BY <1>3, <3>1, <3>2, <3>3 DEF Before
  <2>3. CASE n \notin Found(m) /\ ~(n \in Kept /\ SpendsIn(m, n) # {})
    <3>1. noted'[n] = noted[n] /\ spent'[n] = spent[n]
      BY <1>2, <2>3
    <3> QED
      BY <1>8, <3>1 DEF SpendsInv, SpendsHaveNotes
  <2> QED
    BY <2>1, <2>2, <2>3
<1>9. ASSUME NEW n \in Note, PoolOf[n] = 0 PROVE noted'[n] = noted[n]
  <2>1. n \notin Found(m)
    BY <1>9 DEF Found, Tracked, Shielded
  <2> QED
    BY <1>2, <2>1
<1> QED
  BY <1>8, <1>9 DEF SpendsHaveNotes

-------------------------------------------------------------------------------
(* Every step *)

LEMMA StepSpends == SpendsInv /\ [Next]_vars => SpendsInv'
<1> SUFFICES ASSUME SpendsInv, [Next]_vars PROVE SpendsInv'
  OBVIOUS
<1>1. RowsInv' /\ Typed'
  BY StepRows DEF SpendsInv, RowsInv
<1>2. SUFFICES TreeInv' /\ StreamInv' /\ Behind' /\ SpendsHaveNotes'
  BY <1>1 DEF SpendsInv
<1> DEFINE Goal == TreeInv' /\ StreamInv' /\ Behind' /\ SpendsHaveNotes'
<1>3. ASSUME UNCHANGED <<pc, chosen, resume, todo, seg, scan, noted, spent>>
      PROVE  Behind' /\ SpendsHaveNotes'
  BY <1>3, SameRun, SameSpends
<1>4. CASE NodeStep
  BY <1>1, <1>3, <1>4, NodeStepTree DEF NodeStep, dbVars, runVars
<1>5. ASSUME NEW S \in SUBSET Account, StartSync(S) PROVE Goal
  BY <1>1, <1>5, SameStream, NoRun, SameSpends DEF StartSync, treeVars
<1>6. CASE Recover
  <2> DEFINE cut == [a \in Account |-> SyncHeight(a)]
  <2>1. Trim(chosen, cut, cut) /\ pc' = "plan" /\ UNCHANGED blocks
    BY <1>6 DEF Recover, treeVars
  <2>2. \A a \in chosen : cut[a] \in Nat
    BY SyncHeightType, RunNumbers, Bounds DEF SpendsInv, RowsInv
  <2> HIDE DEF cut
  <2> QED
    BY <1>1, <1>6, <2>1, <2>2, TrimSpendRows, RecoverBehind, SameStream
<1>7. CASE BeginSegment
  <2>1. pc' # "read" /\ UNCHANGED <<blocks, noted, spent>>
    BY <1>7 DEF BeginSegment, EndRun, treeVars, dbVars
  <2> QED
    BY <1>1, <1>7, <2>1, BeginSegmentBehind, SameStream, SameSpends
<1>8. CASE ScanDone
  <2>1. /\ InSegment /\ pc' = "open"
        /\ UNCHANGED <<blocks, noted, spent, chosen, resume, todo, seg, scan>>
    BY <1>8 DEF ScanDone, InSegment, treeVars, dbVars, runVars
  <2> QED
    BY <1>1, <2>1, SameRun, SameStream, SameSpends
<1>9. CASE OpenStream
  <2>1. /\ InSegment /\ pc' \in {"read", "times"}
        /\ UNCHANGED <<blocks, noted, spent, chosen, resume, todo, seg, scan>>
    BY <1>9 DEF OpenStream, InSegment, treeVars, dbVars, runVars
  <2>2. TreeInv'
    BY <1>1, <2>1, SameBlocksInv DEF SpendsInv, Typed, TypeOK
  <2>3. buf = <<>> /\ chan = <<>> /\ UNCHANGED <<buf, chan>>
    BY <1>9 DEF OpenStream, readerVars, SpendsInv, RowsInv, Typed, InFlight
  <2>4. StreamInv'
    BY <2>3 DEF StreamInv
  <2> QED
    BY <2>1, <2>2, <2>4, SameRun, SameSpends
<1>10. CASE RequestFails \/ FailChunk \/ Abort
  <2>1. pc' = "idle" /\ UNCHANGED <<blocks, noted, spent>>
    BY <1>10 DEF RequestFails, FailChunk, Abort, EndRun, treeVars, dbVars
  <2> QED
    BY <1>1, <2>1, NoRun, SameStream, SameSpends
<1>11. CASE Scan
  <2>1. PICK a \in Account, i \in AddrIndexes, upto \in Heights : ScanAddress(a, i, upto)
    BY <1>11 DEF Scan
  <2>2. UNCHANGED <<blocks, next, prevHash, buf, chan>>
    BY <2>1 DEF ScanAddress, treeVars, readerVars
  <2> QED
    BY <1>1, <2>1, <2>2, ScanAddressSpends, SameStream
<1>12. CASE Reader \/ StopReader
  <2>1. UNCHANGED <<pc, chosen, resume, todo, seg, scan, noted, spent>>
    BY <1>12 DEF Reader, ReadBlock, DetectReorg, EndOfStream, StopReader, dbVars, runVars
  <2> QED
    BY <1>1, <1>3, <1>12, <2>1, ReaderStream
<1>13. CASE HandleChunk
  <2>1. /\ UNCHANGED <<blocks, pc, chosen, resume, todo, seg, scan, next, prevHash, buf>>
        /\ chan # <<>> /\ chan' = Tail(chan)
    BY <1>13 DEF HandleChunk, Arriving, treeVars, runVars
  <2>2. SpendsHaveNotes' /\ \A n \in Note : PoolOf[n] = 0 => noted'[n] = noted[n]
    BY <1>13, HandleChunkSpends
  <2> QED
    BY <1>1, <2>1, <2>2, SameRun, TailStream
<1>14. CASE HandleHeader
  <2>1. /\ UNCHANGED <<blocks, pc, chosen, resume, todo, seg, scan, next, prevHash, buf, noted, spent>>
        /\ chan # <<>> /\ chan' = Tail(chan)
    BY <1>14 DEF HandleHeader, Arriving, treeVars, runVars, dbVars
  <2> QED
    BY <1>1, <1>3, <2>1, TailStream
<1>15. CASE CloseStream
  <2>1. /\ InSegment /\ pc' = "times"
        /\ UNCHANGED <<blocks, chosen, resume, todo, seg, scan>>
    BY <1>15 DEF CloseStream, InSegment, treeVars, runVars
  <2>2. seg.accounts \in SUBSET Account
    BY RunNumbers DEF SpendsInv, RowsInv
  <2>3. SpendsHaveNotes' /\ \A n \in Note : noted'[n] = 0 \/ noted'[n] = noted[n]
    BY <1>15, <2>2, RewindSpendRows, SameSpends DEF CloseStream
  <2> QED
    BY <1>1, <2>1, <2>3, SameRun, SameStream
<1>16. ASSUME NEW h \in Heights, FetchTime(h) PROVE Goal
  <2>1. UNCHANGED <<blocks, pc, chosen, resume, todo, seg, scan, next, prevHash, buf, chan, noted, spent>>
    BY <1>16 DEF FetchTime, treeVars, runVars, readerVars
  <2> QED
    BY <1>1, <1>3, <2>1, SameStream
<1>17. CASE EndSegment
  <2>1. pc' # "read" /\ UNCHANGED <<blocks, noted, spent>>
    BY <1>17 DEF EndSegment, EndRun, treeVars, dbVars
  <2> QED
    BY <1>1, <1>17, <2>1, EndSegmentBehind, SameStream, SameSpends
<1>18. ASSUME NEW a \in Account, NEW h \in Heights, UserRewind(a, h) PROVE Goal
  <2>1. /\ Rewind({a}, h, headers, untimed)
        /\ UNCHANGED <<blocks, pc, chosen, resume, todo, seg, scan, next, prevHash, buf, chan>>
    BY <1>18 DEF UserRewind, treeVars, runVars, readerVars
  <2>2. SpendsHaveNotes' /\ \A n \in Note : noted'[n] = 0 \/ noted'[n] = noted[n]
    BY <2>1, RewindSpendRows
  <2> QED
    BY <1>1, <2>1, <2>2, SameRun, SameStream
<1>19. ASSUME NEW a \in Account, UserReset(a) PROVE Goal
  <2> DEFINE cut == [b \in Account |-> 0]
  <2>1. /\ Trim({a}, cut, Birth)
        /\ UNCHANGED <<blocks, pc, chosen, resume, todo, seg, scan, next, prevHash, buf, chan>>
    BY <1>19 DEF UserReset, treeVars, runVars, readerVars
  <2>2. \A b \in {a} : cut[b] \in Nat
    OBVIOUS
  <2> HIDE DEF cut
  <2>3. SpendsHaveNotes' /\ \A n \in Note : noted'[n] = 0 \/ noted'[n] = noted[n]
    BY <2>1, <2>2, TrimSpendRows
  <2> QED
    BY <1>1, <2>1, <2>3, SameRun, SameStream
<1>20. CASE UNCHANGED vars
  <2>1. UNCHANGED <<blocks, pc, chosen, resume, todo, seg, scan, next, prevHash, buf, chan, noted, spent>>
    BY <1>20 DEF vars, treeVars, dbVars, runVars, readerVars
  <2> QED
    BY <1>1, <1>3, <2>1, SameStream
<1> QED
  BY <1>4, <1>5, <1>6, <1>7, <1>8, <1>9, <1>10, <1>11, <1>12, <1>13, <1>14, <1>15, <1>16, <1>17,
     <1>18, <1>19, <1>20 DEF Next, Synchronize, Begin, Writer, Times

(* No spend refers to a note that was trimmed, and no note is spent before *)
(* it was created: a trim takes the rows of both tables or of neither, a   *)
(* chunk is a stretch of one branch, and an address is scanned above the   *)
(* rows that its account has.  So a row of notes that is written with the  *)
(* identifier of a trimmed one is never born spent.                        *)
THEOREM NoSpendWithoutNote == Spec => []SpendsHaveNotes
<1>1. SpendsInv => SpendsHaveNotes
  BY DEF SpendsInv
<1> QED
  BY <1>1, InitSpends, StepSpends, PTL DEF Spec

-------------------------------------------------------------------------------
(* The accounts that a run is not for *)

(* The accounts of a segment are some that the run was started for, and    *)
(* the synchronizers track notes of the accounts of the segment.           *)
OwnRun ==
    /\ seg.accounts \subseteq chosen
    /\ ~InSegment => seg.accounts = {}
    /\ pc = "read" => \A n \in Note : utxo[n] # 0 => Owner[n] \in seg.accounts

LEMMA InitOwnRun == Init => OwnRun
BY DEF Init, OwnRun, InSegment, NoSegment

LEMMA SameOwnRun ==
    ASSUME OwnRun, UNCHANGED <<chosen, seg>>,
           InSegment => InSegment',
           pc' = "read" => pc = "read" /\ UNCHANGED utxo
    PROVE  OwnRun'
BY DEF OwnRun, InSegment

LEMMA NoOwnRun ==
    ASSUME OwnRun, EndRun
    PROVE  OwnRun'
BY DEF OwnRun, EndRun, NoSegment, InSegment

LEMMA StepOwnRun == OwnRun /\ [Next]_vars => OwnRun'
<1> SUFFICES ASSUME OwnRun, [Next]_vars PROVE OwnRun'
  OBVIOUS
<1>1. CASE NodeStep
  BY <1>1, SameOwnRun DEF NodeStep, runVars, writerVars, InSegment
<1>2. ASSUME NEW S \in SUBSET Account, StartSync(S) PROVE OwnRun'
  BY <1>2 DEF StartSync, OwnRun, InSegment
<1>3. CASE Recover
  BY <1>3, SameOwnRun DEF Recover, InSegment
<1>4. CASE BeginSegment
  <2> DEFINE start == MinOf(todo)
             end == SegmentEnd(todo \ {start})
  <2>1. CASE start > end
    BY <1>4, <2>1, NoOwnRun DEF BeginSegment
  <2>2. CASE ~(start > end)
    <3>1. /\ pc' = "scan" /\ UNCHANGED chosen
          /\ seg' = [start |-> start, end |-> end, accounts |-> {a \in chosen : resume[a] <= start}]
      BY <1>4, <2>2 DEF BeginSegment
    <3> QED
      BY <3>1 DEF OwnRun, InSegment
  <2> QED
    BY <2>1, <2>2
<1>5. CASE ScanDone
  BY <1>5, SameOwnRun DEF ScanDone, runVars, InSegment
<1>6. CASE OpenStream
  <2>1. CASE pc' = "read"
    <3>1. UNCHANGED <<chosen, seg>> /\ pc = "open"
          /\ utxo' = [n \in Note |-> IF Tracked(n) /\ noted[n] # 0 /\ spent[n] = 0
                                     THEN RootAt(n, seg.start - 1) ELSE 0]
      BY <1>6, <2>1 DEF OpenStream, runVars
    <3>2. ASSUME NEW n \in Note, utxo'[n] # 0 PROVE Owner[n] \in seg.accounts
      BY <3>1, <3>2 DEF Tracked
    <3> QED
      BY <2>1, <3>1, <3>2 DEF OwnRun, InSegment
  <2>2. CASE pc' # "read"
    BY <1>6, <2>2, SameOwnRun DEF OpenStream, runVars, InSegment
  <2> QED
    BY <2>1, <2>2
<1>7. CASE RequestFails \/ FailChunk \/ Abort
  BY <1>7, NoOwnRun DEF RequestFails, FailChunk, Abort
<1>8. CASE Scan
  BY <1>8, SameOwnRun DEF Scan, ScanAddress, writerVars, InSegment
<1>9. CASE Reader \/ StopReader
  BY <1>9, SameOwnRun DEF Reader, ReadBlock, DetectReorg, EndOfStream, StopReader, runVars, writerVars, InSegment
<1>10. CASE HandleChunk
  <2> DEFINE m == Head(chan)
             live == Found(m) \cup Kept
             root(n) == Advance(m, IF n \in Found(m) THEN edge ELSE utxo[n])
  <2>1. /\ pc = "read" /\ UNCHANGED <<pc, chosen, seg>>
        /\ utxo' = [n \in Note |-> IF n \in live /\ SpendsIn(m, n) = {} THEN root(n) ELSE 0]
    BY <1>10 DEF HandleChunk, Arriving, runVars
  <2>2. \A n \in live : Owner[n] \in seg.accounts
    BY <2>1 DEF Found, Kept, Tracked, OwnRun
  <2> HIDE DEF m, live, root
  <2>3. ASSUME NEW n \in Note, utxo'[n] # 0 PROVE n \in live
    BY <2>1, <2>3
  <2> QED
    BY <2>1, <2>2, <2>3 DEF OwnRun, InSegment
<1>11. CASE HandleHeader
  BY <1>11, SameOwnRun DEF HandleHeader, runVars, InSegment
<1>12. CASE CloseStream
  BY <1>12, SameOwnRun DEF CloseStream, runVars, InSegment
<1>13. ASSUME NEW h \in Heights, FetchTime(h) PROVE OwnRun'
  BY <1>13, SameOwnRun DEF FetchTime, runVars, writerVars, InSegment
<1>14. CASE EndSegment
  <2>1. CASE todo = {}
    BY <1>14, <2>1, NoOwnRun DEF EndSegment
  <2>2. CASE todo # {}
    BY <1>14, <2>2 DEF EndSegment, OwnRun, NoSegment, InSegment
  <2> QED
    BY <2>1, <2>2
<1>15. ASSUME NEW a \in Account, NEW h \in Heights, UserRewind(a, h) PROVE OwnRun'
  BY <1>15, SameOwnRun DEF UserRewind, runVars, writerVars, InSegment
<1>16. ASSUME NEW a \in Account, UserReset(a) PROVE OwnRun'
  BY <1>16, SameOwnRun DEF UserReset, runVars, writerVars, InSegment
<1>17. CASE UNCHANGED vars
  BY <1>17, SameOwnRun DEF vars, runVars, writerVars, InSegment
<1> QED
  BY <1>1, <1>2, <1>3, <1>4, <1>5, <1>6, <1>7, <1>8, <1>9, <1>10, <1>11, <1>12, <1>13, <1>14, <1>15,
     <1>16, <1>17 DEF Next, Synchronize, Begin, Writer, Times

-------------------------------------------------------------------------------
(* What an account shows is a matter of its own rows and heights.          *)
SameRowsOf(a) ==
    /\ height'[a] = height[a]
    /\ \A n \in Note : Owner[n] = a => noted'[n] = noted[n] /\ spent'[n] = spent[n]

LEMMA SameView ==
    ASSUME NEW a \in Account, SameRowsOf(a)
    PROVE  View(a)' = View(a)
<1> DEFINE h == SyncHeight(a)
           shown == {n \in Note : Owner[n] = a /\ noted[n] \in 1..h}
           shownNext == {n \in Note : Owner[n] = a /\ noted'[n] \in 1..h}
<1>1. SyncHeight(a)' = h
  BY DEF SyncHeight, SameRowsOf
<1>2. shownNext = shown
  BY DEF SameRowsOf
<1>3. \A n \in shown : noted'[n] = noted[n] /\ spent'[n] = spent[n]
  BY DEF SameRowsOf
<1> HIDE DEF h
<1>4. View(a)' = [height |-> h,
         noted  |-> [n \in Note |-> IF n \in shownNext THEN noted'[n] ELSE 0],
         spent  |-> [n \in Note |-> IF n \in shownNext /\ spent'[n] <= h THEN spent'[n] ELSE 0]]
  BY <1>1 DEF View
<1>5. View(a) = [height |-> h,
         noted  |-> [n \in Note |-> IF n \in shown THEN noted[n] ELSE 0],
         spent  |-> [n \in Note |-> IF n \in shown /\ spent[n] <= h THEN spent[n] ELSE 0]]
  BY DEF View, h
<1> HIDE DEF shown, shownNext
<1>6. \A n \in Note :
        /\ (IF n \in shownNext THEN noted'[n] ELSE 0) = (IF n \in shown THEN noted[n] ELSE 0)
        /\ (IF n \in shownNext /\ spent'[n] <= h THEN spent'[n] ELSE 0)
             = (IF n \in shown /\ spent[n] <= h THEN spent[n] ELSE 0)
  BY <1>2, <1>3
<1> QED
  BY <1>4, <1>5, <1>6

(* A trim of the accounts of S leaves the others alone.                    *)
LEMMA TrimsOthersNot ==
    ASSUME NEW S \in SUBSET Account, NEW cut, NEW to, Trim(S, cut, to), NEW a \in Account \ S,
           noted \in [Note -> Heights], spent \in [Note -> Heights]
    PROVE  SameRowsOf(a)
BY DEF Trim, TrimNotes, TrimSpends, Gone, SameRowsOf

LEMMA ScansOthersNot ==
    ASSUME Typed, NEW b \in Account, NEW i \in AddrIndexes, NEW upto \in Heights, ScanAddress(b, i, upto),
           NEW a \in Account, a # b
    PROVE  SameRowsOf(a)
<1> DEFINE mine == {n \in Note : PoolOf[n] = 0 /\ AddrOf[n] = AddrsOf[b][i] /\ Owner[n] = b}
           minted(n) == {k \in seg.start..upto : n \in blocks[Chain[k]].mints}
           spentAt(n) == {k \in seg.start..upto : n \in blocks[Chain[k]].spends}
<1>1. /\ noted' = [n \in Note |-> IF n \in mine /\ noted[n] = 0 /\ minted(n) # {}
                                  THEN MinOf(minted(n)) ELSE noted[n]]
      /\ spent' = [n \in Note |-> IF n \in mine /\ noted'[n] # 0 /\ spent[n] = 0
                                       /\ spentAt(n) # {}
                                  THEN MinOf(spentAt(n)) ELSE spent[n]]
      /\ height' = IF 0 \in PoolsOf[b] THEN [height EXCEPT ![b][0] = seg.end] ELSE height
  BY DEF ScanAddress, ScanOne
<1>2. DOMAIN height = Account
  BY DEF Typed, TypeOK, DatabaseTypes
<1>3. height'[a] = height[a]
  BY <1>1, <1>2
<1>4. \A n \in mine : Owner[n] = b
  OBVIOUS
<1> HIDE DEF mine, minted, spentAt
<1> QED
  BY <1>1, <1>3, <1>4 DEF SameRowsOf

LEMMA ChunkOfOthersNot ==
    ASSUME Typed, OwnRun, HandleChunk, NEW a \in Account, a \notin seg.accounts
    PROVE  SameRowsOf(a)
<1> DEFINE m == Head(chan)
           live == Found(m) \cup Kept
<1>1. /\ pc = "read"
      /\ noted' = [n \in Note |-> IF n \in Found(m)
                                  THEN m.from + MinOf(MintsIn(m, n)) - 1 ELSE noted[n]]
      /\ spent' = [n \in Note |->
                      IF n \in live /\ SpendsIn(m, n) # {}
                      THEN TransactionHeight(n, m.from + MinOf(SpendsIn(m, n)) - 1)
                      ELSE spent[n]]
      /\ height' = [b \in Account |-> [p \in PoolsOf[b] |->
                      IF Moves(b) /\ p \in Shielded THEN Upto(m) ELSE height[b][p]]]
  BY DEF HandleChunk, Arriving
<1>2. \A n \in live : Owner[n] \in seg.accounts
  BY <1>1 DEF Found, Kept, Tracked, OwnRun
<1>3. height'[a] = height[a]
  <2>1. height'[a] = [p \in PoolsOf[a] |-> height[a][p]]
    BY <1>1 DEF Moves
  <2>2. height[a] \in [PoolsOf[a] -> Heights]
    BY DEF Typed, TypeOK, DatabaseTypes
  <2> QED
    BY <2>1, <2>2
<1>4. Found(m) \subseteq live
  OBVIOUS
<1> HIDE DEF m, live
<1> QED
  BY <1>1, <1>2, <1>3, <1>4 DEF SameRowsOf

(* The user rewinds or resets an account during a run: a fault.            *)
LEMMA UserActs ==
    ASSUME Typed, UserFault, pc # "idle"
    PROVE  left'["midrewind"] # left["midrewind"]
<1>1. left \in [FaultKinds -> Nat] /\ "midrewind" \in FaultKinds
  BY DEF Typed, TypeOK, FaultKinds
<1> QED
  BY <1>1 DEF UserFault, Fault

LEMMA RowsOfOthers ==
    ASSUME SpendsInv, OwnRun, [Next]_vars, pc # "idle", left'["midrewind"] = left["midrewind"],
           NEW a \in Account \ chosen
    PROVE  SameRowsOf(a)
<1>0. Typed
  BY DEF SpendsInv, RowsInv
<1>1. /\ noted \in [Note -> Heights] /\ spent \in [Note -> Heights]
      /\ chosen \in SUBSET Account /\ seg.accounts \in SUBSET Account
      /\ a \notin seg.accounts
  BY <1>0 DEF Typed, TypeOK, DatabaseTypes, RunTypes, OwnRun
<1>2. ASSUME UNCHANGED <<height, noted, spent>> PROVE SameRowsOf(a)
  BY <1>2 DEF SameRowsOf
<1>3. CASE NodeStep \/ BeginSegment \/ ScanDone \/ OpenStream \/ RequestFails \/ Reader \/ StopReader
             \/ FailChunk \/ HandleHeader \/ EndSegment \/ Abort \/ UNCHANGED vars
  BY <1>2, <1>3 DEF NodeStep, BeginSegment, ScanDone, OpenStream, RequestFails, Reader, ReadBlock,
       DetectReorg, EndOfStream, StopReader, FailChunk, HandleHeader, EndSegment, Abort, vars, dbVars
<1>4. CASE \E S \in SUBSET Account : StartSync(S)
  BY <1>4 DEF StartSync
<1>5. CASE Recover
  <2> DEFINE cut == [b \in Account |-> SyncHeight(b)]
  <2>1. Trim(chosen, cut, cut)
    BY <1>5 DEF Recover
  <2> QED
    BY <1>1, <2>1, TrimsOthersNot
<1>6. CASE Scan
  <2>1. PICK b \in Account, i \in AddrIndexes, upto \in Heights : ScanAddress(b, i, upto)
    BY <1>6 DEF Scan
  <2>2. b \in seg.accounts
    <3>1. pc = "scan" /\ <<b, i>> \in scan /\ <<b, i>>[1] = b
      BY <2>1 DEF ScanAddress
    <3> QED
      BY <3>1 DEF SpendsInv, Behind, BehindScan
  <2> QED
    BY <1>0, <1>1, <2>1, <2>2, ScansOthersNot
<1>7. CASE HandleChunk
  BY <1>0, <1>1, <1>7, ChunkOfOthersNot
<1>8. CASE CloseStream
  <2>1. CASE UNCHANGED <<height, noted, spent>>
    BY <1>2, <2>1
  <2>2. CASE Rewind(seg.accounts, Head(chan).from, StoreHeaders(headers, pend),
                    {r \in untimed : r[2] \notin HeadersAt(pend)})
    <3>1. \E cut, to : Trim(seg.accounts, cut, to)
      BY <2>2 DEF Rewind
    <3> QED
      BY <1>1, <3>1, TrimsOthersNot
  <2> QED
    BY <1>8, <2>1, <2>2 DEF CloseStream
<1>9. CASE \E h \in Heights : FetchTime(h)
  BY <1>2, <1>9 DEF FetchTime
<1>10. CASE (\E b \in Account, h \in Heights : UserRewind(b, h)) \/ (\E b \in Account : UserReset(b))
  BY <1>0, <1>10, UserActs DEF UserRewind, UserReset
<1> QED
  BY <1>3, <1>4, <1>5, <1>6, <1>7, <1>8, <1>9, <1>10 DEF Next, Synchronize, Begin, Writer, Times
-------------------------------------------------------------------------------
(* Headers.  As long as the node abandons no block, everything the wallet  *)
(* has of the chain, stored or in flight, is of the chain that the node    *)
(* serves; no block fails the check of prev_hash, and nothing is rewound.  *)
NoReorgs == Faults["orphan"] = 0 /\ Faults["midorphan"] = 0

OnChain(h, id) == h \in 1..Tip /\ id = Chain[h]

StoredOnChain(hs) == \A h \in Heights : hs[h] # NoBlock => OnChain(h, hs[h])
SentOnChain(m) ==
    m.kind # "reorg" /\ \A k \in 1..Len(m.ids) : OnChain(m.from + k - 1, m.ids[k])

OneChain ==
    /\ left["orphan"] = 0 /\ left["midorphan"] = 0
    /\ StoredOnChain(headers)
    /\ StoredOnChain(pend)
    /\ prevHash # NoBlock => OnChain(next - 1, prevHash)
    /\ \A k \in 1..Len(buf) : OnChain(next - Len(buf) + k - 1, buf[k])
    /\ \A i \in 1..Len(chan) : SentOnChain(chan[i])

LEMMA InitOneChain == NoReorgs /\ Init => OneChain
<1> SUFFICES ASSUME NoReorgs, Init PROVE OneChain
  OBVIOUS
<1>1. /\ InitHeight \in Nat /\ InitHeight >= 1
      /\ blocks = [i \in 1..InitHeight |-> [path |-> [k \in 1..i |-> k], mints |-> {}, spends |-> {}]]
      /\ best = InitHeight
  BY BlockTreeAssumption DEF Init, TreeInit
<1>2. Chain = [k \in 1..InitHeight |-> k]
  <2>1. blocks[InitHeight] = [path |-> [k \in 1..InitHeight |-> k], mints |-> {}, spends |-> {}]
    BY <1>1
  <2> QED
    BY <1>1, <2>1 DEF Chain, PathOf
<1>3. Tip = InitHeight
  BY <1>1, <1>2 DEF Tip
<1>4. StoredOnChain(headers)
  <2>1. \A a \in BirthCached : Birth[a] \in 1..InitHeight
    BY BlockTreeAssumption, WarpSyncAssumption
  <2>2. headers = [h \in Heights |-> IF \E a \in BirthCached : Birth[a] = h THEN h ELSE NoBlock]
    BY DEF Init
  <2> QED
    BY <1>2, <1>3, <2>1, <2>2 DEF StoredOnChain, OnChain
<1>5. StoredOnChain(pend)
  BY DEF Init, NoHeaders, StoredOnChain
<1>6. buf = <<>> /\ chan = <<>> /\ prevHash = NoBlock /\ left = Faults
  BY DEF Init
<1> QED
  BY <1>4, <1>5, <1>6 DEF NoReorgs, OneChain

(* A chain that grows keeps what was on it.                                *)
LEMMA ChainGrows ==
    ASSUME TreeTypeOK, NEW mints \in SUBSET Note, NEW spends \in SUBSET Note, Mine(mints, spends),
           NEW h, NEW id, OnChain(h, id)
    PROVE  OnChain(h, id)'
<1>1. /\ Len(blocks') = Len(blocks) + 1 /\ Len(blocks) \in Nat
      /\ blocks'[Len(blocks) + 1].path = Append(Chain, Len(blocks) + 1)
      /\ best' = Len(blocks) + 1
  BY MinedBlock DEF Mine, TreeTypeOK
<1>2. Chain \in Seq(Nat) /\ Tip \in Nat /\ Tip = Len(Chain)
  BY ChainType, Bounds DEF Tip
<1>3. Chain' = Append(Chain, Len(blocks) + 1)
  BY <1>1 DEF Chain, PathOf
<1>4. Tip' = Tip + 1 /\ \A k \in 1..Tip : Chain'[k] = Chain[k]
  <2>1. Tip' = Len(Chain')
    BY DEF Tip
  <2> QED
    BY <1>1, <1>2, <1>3, <2>1
<1> QED
  BY <1>2, <1>4 DEF OnChain

LEMMA NodeStepOneChain ==
    ASSUME SpendsInv, OneChain, NodeStep
    PROVE  OneChain'
<1>1. TreeTypeOK /\ left \in [FaultKinds -> Nat] /\ {"orphan", "midorphan", "midblock"} \subseteq FaultKinds
  BY DEF SpendsInv, RowsInv, Typed, TypeOK, FaultKinds
<1>2. UNCHANGED <<headers, pend, prevHash, next, buf, chan>>
  BY DEF NodeStep, dbVars, readerVars, writerVars
<1>3. CASE \E fork \in Heights : Orphan(fork) /\ Fault(IF pc = "idle" THEN "orphan" ELSE "midorphan")
  BY <1>1, <1>3 DEF OneChain, Fault
<1>4. ASSUME NEW mints \in SUBSET Note, NEW spends \in SUBSET Note, Mine(mints, spends),
             IF pc = "idle" THEN UNCHANGED left ELSE Fault("midblock")
      PROVE  OneChain'
  <2>1. ASSUME NEW h, NEW id, OnChain(h, id) PROVE OnChain(h, id)'
    BY <1>1, <1>4, <2>1, ChainGrows
  <2>2. left'["orphan"] = left["orphan"] /\ left'["midorphan"] = left["midorphan"]
    BY <1>1, <1>4 DEF Fault
  <2> HIDE DEF OnChain
  <2>3. StoredOnChain(headers)' /\ StoredOnChain(pend)'
    BY <1>2, <2>1 DEF OneChain, StoredOnChain
  <2>4. (\A i \in 1..Len(chan) : SentOnChain(chan[i]))'
    BY <1>2, <2>1 DEF OneChain, SentOnChain
  <2>5. /\ prevHash' # NoBlock => OnChain(next - 1, prevHash)'
        /\ (\A k \in 1..Len(buf) : OnChain(next - Len(buf) + k - 1, buf[k]))'
    BY <1>2, <2>1 DEF OneChain
  <2> QED
    BY <2>2, <2>3, <2>4, <2>5 DEF OneChain
<1> QED
  BY <1>3, <1>4 DEF NodeStep

(* Steps of the wallet on the same chain.                                  *)
LEMMA WalletOneChain ==
    ASSUME OneChain, UNCHANGED treeVars, left'["orphan"] = left["orphan"],
           left'["midorphan"] = left["midorphan"],
           StoredOnChain(headers'), StoredOnChain(pend'),
           prevHash' # NoBlock => OnChain(next' - 1, prevHash'),
           \A k \in 1..Len(buf') : OnChain(next' - Len(buf') + k - 1, buf'[k]),
           \A i \in 1..Len(chan') : SentOnChain(chan'[i])
    PROVE  OneChain'
<1>1. \A h, id : OnChain(h, id)' <=> OnChain(h, id)
  BY DEF OnChain, Tip, Chain, PathOf, treeVars
<1> QED
  BY DEF OneChain, StoredOnChain, SentOnChain, OnChain, Tip, Chain, PathOf, treeVars

LEMMA StoreOnChain ==
    ASSUME NEW old, NEW new, StoredOnChain(old), StoredOnChain(new)
    PROVE  StoredOnChain(StoreHeaders(old, new))
BY DEF StoredOnChain, StoreHeaders

LEMMA OneOnChain ==
    ASSUME NEW h \in Heights, NEW id, OnChain(h, id)
    PROVE  StoredOnChain([NoHeaders EXCEPT ![h] = id])
BY DEF StoredOnChain, NoHeaders

LEMMA NoHeadersOnChain == StoredOnChain(NoHeaders)
BY DEF StoredOnChain, NoHeaders

(* A fault of another kind.                                                *)
LEMMA OtherFault ==
    ASSUME Typed, NEW kind \in FaultKinds \ {"orphan", "midorphan"}, Fault(kind)
    PROVE  left'["orphan"] = left["orphan"] /\ left'["midorphan"] = left["midorphan"]
BY DEF Typed, TypeOK, FaultKinds, Fault

(* Every block has the expected parent.                                    *)
LEMMA AlwaysLinked ==
    ASSUME SpendsInv, OneChain, Streaming
    PROVE  Linked
<1>1. next \in Nat /\ next >= 2 /\ next <= Tip /\ Tip \in Nat
  BY ChainType, Bounds DEF Streaming, SpendsInv, RowsInv, Typed, TypeOK, StreamTypes, InFlight
<1>2. TreeTypeOK /\ best \in 1..Len(blocks) /\ Len(blocks) \in Nat
  BY DEF SpendsInv, TreeInv, TreeTypeOK
<1>3. Len(PathOf(Chain[next])) = next /\ \A k \in 1..next : PathOf(Chain[next])[k] = Chain[k]
  BY <1>1, <1>2 DEF SpendsInv, TreeInv, PathsShared, Chain, Tip
<1>4. PrevHash(Chain[next]) = Chain[next - 1]
  BY <1>1, <1>3 DEF PrevHash
<1> QED
  BY <1>4 DEF OneChain, OnChain, Linked

(* Messages that are sent, and the one that is taken.                      *)
LEMMA SendOneChain ==
    ASSUME Typed, OneChain, NEW msgs \in Seq(Message), Send(msgs),
           \A i \in 1..Len(msgs) : SentOnChain(msgs[i])
    PROVE  \A i \in 1..Len(chan') : SentOnChain(chan'[i])
<1>1. chan \in Seq(Message) /\ Len(chan) \in Nat /\ Len(msgs) \in Nat
  BY DEF Typed, TypeOK, StreamTypes
<1>2. /\ Len(chan') = Len(chan) + Len(msgs)
      /\ \A i \in 1..Len(chan) : chan'[i] = chan[i]
      /\ \A i \in (Len(chan) + 1)..Len(chan') : chan'[i] = msgs[i - Len(chan)]
  BY <1>1 DEF Send
<1> TAKE i \in 1..Len(chan')
<1>3. CASE i \in 1..Len(chan)
  BY <1>2, <1>3 DEF OneChain
<1>4. CASE i \in (Len(chan) + 1)..Len(chan')
  <2>1. i - Len(chan) \in 1..Len(msgs) /\ chan'[i] = msgs[i - Len(chan)]
    BY <1>1, <1>2, <1>4
  <2> QED
    BY <2>1
<1> QED
  BY <1>1, <1>2, <1>3, <1>4

LEMMA TailOneChain ==
    ASSUME RowsInv, OneChain, chan # <<>>
    PROVE  /\ SentOnChain(Head(chan))
           /\ chan' = Tail(chan) => \A i \in 1..Len(chan') : SentOnChain(chan'[i])
<1>1. chan \in Seq(Message) /\ Len(chan) \in Nat /\ Len(chan) >= 1 /\ Head(chan) = chan[1]
  BY DEF RowsInv, Typed, TypeOK, StreamTypes
<1>2. ASSUME chan' = Tail(chan), NEW i \in 1..Len(chan') PROVE SentOnChain(chan'[i])
  <2>1. i + 1 \in 1..Len(chan) /\ chan'[i] = chan[i + 1]
    BY <1>1, <1>2
  <2> QED
    BY <2>1 DEF OneChain
<1> QED
  BY <1>1, <1>2 DEF OneChain

LEMMA OpenStreamOneChain ==
    ASSUME SpendsInv, OneChain, OpenStream
    PROVE  OneChain'
<1>1. /\ UNCHANGED <<treeVars, headers, buf, chan, left>> /\ buf = <<>> /\ chan = <<>>
      /\ UNCHANGED pend
      /\ \/ UNCHANGED <<prevHash, next>>
         \/ prevHash' = headers[seg.start - 1] /\ next' = seg.start
  BY DEF OpenStream, dbVars, readerVars, writerVars, SpendsInv, RowsInv, Typed, InFlight
<1>2. seg.start >= 2 /\ seg.start \in 0..(MaxHeight + 1)
  BY DEF OpenStream, SpendsInv, RowsInv, Typed, TypeOK, RunTypes, InFlight
<1>3. seg.start - 1 \in Heights
  BY <1>2, Bounds
<1>4. prevHash' # NoBlock => OnChain(next' - 1, prevHash')
  <2>1. CASE UNCHANGED <<prevHash, next>>
    BY <2>1 DEF OneChain
  <2>2. CASE prevHash' = headers[seg.start - 1] /\ next' = seg.start
    BY <1>3, <2>2 DEF OneChain, StoredOnChain
  <2> QED
    BY <1>1, <2>1, <2>2
<1>5. StoredOnChain(headers') /\ StoredOnChain(pend')
  BY <1>1 DEF OneChain
<1>6. buf' = <<>> /\ chan' = <<>>
  BY <1>1
<1>7. (\A k \in 1..Len(buf') : OnChain(next' - Len(buf') + k - 1, buf'[k]))
      /\ \A i \in 1..Len(chan') : SentOnChain(chan'[i])
  BY <1>6
<1> QED
  BY <1>1, <1>4, <1>5, <1>7, WalletOneChain

LEMMA EndOneChain ==
    ASSUME OneChain, UNCHANGED treeVars, EndStream, left'["orphan"] = left["orphan"],
           left'["midorphan"] = left["midorphan"], StoredOnChain(headers')
    PROVE  OneChain'
<1>1. buf' = <<>> /\ chan' = <<>> /\ prevHash' = NoBlock /\ pend' = NoHeaders
  BY DEF EndStream
<1>2. /\ prevHash' # NoBlock => OnChain(next' - 1, prevHash')
      /\ \A k \in 1..Len(buf') : OnChain(next' - Len(buf') + k - 1, buf'[k])
      /\ \A i \in 1..Len(chan') : SentOnChain(chan'[i])
  BY <1>1
<1>3. StoredOnChain(pend')
  BY <1>1, NoHeadersOnChain
<1> QED
  BY <1>2, <1>3, WalletOneChain

(* The reader: a block that is read is on the chain, and so is a chunk.    *)
LEMMA ReadBlockOneChain ==
    ASSUME SpendsInv, OneChain, NEW full \in BOOLEAN, ReadBlock(full)
    PROVE  OneChain'
<1> DEFINE id == Chain[next]
           ids == Append(buf, id)
           hm == IF next \in wanted THEN <<SaveHeader(next, id)>> ELSE <<>>
           m == Chunk(next - Len(buf), ids)
           cm == IF full THEN <<m>> ELSE <<>>
<1>1. /\ next' = next + 1 /\ prevHash' = id /\ buf' = (IF full THEN <<>> ELSE ids) /\ Send(hm \o cm)
      /\ UNCHANGED <<treeVars, headers, pend, left>>
  BY DEF ReadBlock, dbVars, writerVars
<1>2. /\ next \in Nat /\ next >= 2 /\ next <= Tip /\ Tip \in Nat /\ pc = "read"
      /\ buf \in Seq(Nat) /\ Len(buf) \in Nat /\ Len(buf) + 2 <= next
  <2>1. pc = "read" /\ next <= Tip
    BY DEF ReadBlock, Streaming
  <2>2. Tip \in Nat
    BY ChainType, Bounds DEF SpendsInv, TreeInv
  <2> QED
    BY <2>1, <2>2 DEF SpendsInv, RowsInv, Typed, TypeOK, StreamTypes, InFlight
<1>3. id \in Nat /\ OnChain(next, id)
  <2>1. TreeTypeOK /\ Len(blocks) \in Nat /\ next \in 1..Tip
    BY <1>2 DEF SpendsInv, TreeInv, TreeTypeOK
  <2>2. Chain[next] \in 1..Len(blocks)
    BY <2>1, ChainType
  <2> QED
    BY <2>1, <2>2 DEF OnChain
<1> HIDE DEF id
<1>4. /\ ids \in Seq(Nat) /\ Len(ids) = Len(buf) + 1 /\ ids[Len(buf) + 1] = id
      /\ \A k \in 1..Len(buf) : ids[k] = buf[k]
  BY <1>2, <1>3
<1> HIDE DEF ids
<1>5. ASSUME NEW k \in 1..Len(ids) PROVE OnChain(next - Len(buf) + k - 1, ids[k])
  <2>1. CASE k \in 1..Len(buf)
    BY <1>4, <2>1 DEF OneChain
  <2>2. CASE k = Len(buf) + 1
    <3>1. next - Len(buf) + k - 1 = next
      BY <1>2, <2>2
    <3> QED
      BY <1>3, <1>4, <2>2, <3>1
  <2> QED
    BY <1>2, <1>4, <2>1, <2>2
<1>6. hm \in Seq(Message) /\ Len(hm) \in Nat /\ \A i \in 1..Len(hm) : SentOnChain(hm[i])
  <2>1. <<id>> \in Seq(Nat) /\ Len(<<id>>) = 1 /\ <<id>>[1] = id
    BY <1>3
  <2> DEFINE w == SaveHeader(next, id)
  <2>2. w \in Message /\ w.kind = "header" /\ w.from = next /\ w.ids = <<id>>
    BY <1>2, <2>1 DEF SaveHeader, Message
  <2> HIDE DEF w
  <2>3. SentOnChain(w)
    <3>1. ASSUME NEW k \in 1..Len(w.ids) PROVE OnChain(w.from + k - 1, w.ids[k])
      <4>1. k = 1 /\ w.from + k - 1 = next /\ w.ids[k] = id
        BY <1>2, <2>1, <2>2
      <4> QED
        BY <1>3, <4>1
    <3> QED
      BY <2>2, <3>1 DEF SentOnChain
  <2>4. hm = IF next \in wanted THEN <<w>> ELSE <<>>
    BY DEF w
  <2> HIDE DEF hm
  <2> QED
    BY <2>2, <2>3, <2>4
<1>7. cm \in Seq(Message) /\ Len(cm) \in Nat /\ \A i \in 1..Len(cm) : SentOnChain(cm[i])
  <2>1. m \in Message /\ m.kind = "chunk" /\ m.from = next - Len(buf) /\ m.ids = ids
    BY <1>2, <1>4 DEF Chunk, Message
  <2> HIDE DEF m
  <2>2. SentOnChain(m)
    BY <1>5, <2>1 DEF SentOnChain
  <2> QED
    BY <2>1, <2>2
<1> HIDE DEF hm, cm
<1>8. hm \o cm \in Seq(Message) /\ \A i \in 1..Len(hm \o cm) : SentOnChain((hm \o cm)[i])
  <2>1. hm \o cm \in Seq(Message) /\ Len(hm \o cm) = Len(hm) + Len(cm)
    BY <1>6, <1>7
  <2>2. ASSUME NEW i \in 1..Len(hm \o cm) PROVE SentOnChain((hm \o cm)[i])
    <3>1. CASE i \in 1..Len(hm)
      <4>1. (hm \o cm)[i] = hm[i]
        BY <1>6, <1>7, <3>1
      <4> QED
        BY <1>6, <3>1, <4>1
    <3>2. CASE i \in (Len(hm) + 1)..(Len(hm) + Len(cm))
      <4>1. (hm \o cm)[i] = cm[i - Len(hm)] /\ i - Len(hm) \in 1..Len(cm)
        BY <1>6, <1>7, <2>1, <3>2
      <4> QED
        BY <1>7, <4>1
    <3> QED
      BY <1>6, <1>7, <2>1, <3>1, <3>2
  <2> QED
    BY <2>1, <2>2
<1>9. \A i \in 1..Len(chan') : SentOnChain(chan'[i])
  BY <1>1, <1>8, SendOneChain DEF SpendsInv, RowsInv
<1>10. \A k \in 1..Len(buf') : OnChain(next' - Len(buf') + k - 1, buf'[k])
  <2>1. CASE full
    BY <1>1, <2>1
  <2>2. CASE ~full
    <3>1. buf' = ids /\ next' - Len(buf') = next - Len(buf)
      <4>1. buf' = ids
        BY <1>1, <2>2
      <4> QED
        BY <1>1, <1>2, <1>4, <4>1
    <3> QED
      BY <1>5, <3>1
  <2> QED
    BY <2>1, <2>2
<1>11. OnChain(next' - 1, prevHash')
  <2>1. next' - 1 = next
    BY <1>1, <1>2
  <2> QED
    BY <1>1, <1>3, <2>1
<1>12. StoredOnChain(headers') /\ StoredOnChain(pend')
  BY <1>1 DEF OneChain
<1> QED
  BY <1>1, <1>9, <1>10, <1>11, <1>12, WalletOneChain

LEMMA ReaderEndsOneChain ==
    ASSUME SpendsInv, OneChain, EndOfStream \/ StopReader
    PROVE  OneChain'
<1>1. /\ UNCHANGED <<treeVars, headers, pend, next, prevHash>> /\ buf' = <<>> /\ pc = "read"
  BY DEF EndOfStream, StopReader, dbVars, writerVars
<1>2. left'["orphan"] = left["orphan"] /\ left'["midorphan"] = left["midorphan"]
  BY OtherFault DEF EndOfStream, StopReader, FaultKinds, SpendsInv, RowsInv
<1>3. /\ next \in Nat /\ buf \in Seq(Nat) /\ Len(buf) \in Nat /\ next - Len(buf) \in Nat
  BY <1>1 DEF SpendsInv, RowsInv, Typed, TypeOK, StreamTypes, InFlight
<1>4. ASSUME NEW m \in Message, SentOnChain(m), Send(<<m>>)
      PROVE  \A i \in 1..Len(chan') : SentOnChain(chan'[i])
  <2>1. <<m>> \in Seq(Message) /\ \A i \in 1..Len(<<m>>) : SentOnChain(<<m>>[i])
    BY <1>4
  <2> QED
    BY <1>4, <2>1, SendOneChain DEF SpendsInv, RowsInv
<1>5. \A i \in 1..Len(chan') : SentOnChain(chan'[i])
  <2>1. CASE StopReader
    <3>1. <<>> \in Seq(Nat)
      OBVIOUS
    <3>2. Stop \in Message /\ SentOnChain(Stop)
      BY <3>1 DEF Stop, Message, SentOnChain
    <3> QED
      BY <1>4, <2>1, <3>2 DEF StopReader
  <2>2. CASE EndOfStream /\ buf = <<>>
    <3> DEFINE none == <<>>
    <3>1. Send(none) /\ none \in Seq(Message) /\ 1..Len(none) = {}
      BY <2>2 DEF EndOfStream, ChunkOf
    <3> HIDE DEF none
    <3> QED
      BY <3>1, SendOneChain DEF SpendsInv, RowsInv
  <2>3. CASE EndOfStream /\ buf # <<>>
    <3> DEFINE m == Chunk(next - Len(buf), buf)
    <3>1. Send(<<m>>)
      BY <2>3 DEF EndOfStream, ChunkOf
    <3>2. m \in Message /\ m.kind = "chunk" /\ m.from = next - Len(buf) /\ m.ids = buf
      BY <1>3 DEF Chunk, Message
    <3> HIDE DEF m
    <3>3. SentOnChain(m)
      BY <3>2 DEF SentOnChain, OneChain
    <3> QED
      BY <1>4, <3>1, <3>2, <3>3
  <2> QED
    BY <2>1, <2>2, <2>3
<1>6. /\ StoredOnChain(headers') /\ StoredOnChain(pend')
      /\ prevHash' # NoBlock => OnChain(next' - 1, prevHash')
  BY <1>1 DEF OneChain
<1>7. \A k \in 1..Len(buf') : OnChain(next' - Len(buf') + k - 1, buf'[k])
  BY <1>1
<1> QED
  BY <1>1, <1>2, <1>5, <1>6, <1>7, WalletOneChain

(* The writer stores hashes of the chain.                                  *)
LEMMA HandleChunkOneChain ==
    ASSUME SpendsInv, OneChain, HandleChunk
    PROVE  OneChain'
<1> DEFINE m == Head(chan)
<1>1. /\ chan # <<>> /\ Arriving("chunk") /\ chan' = Tail(chan)
      /\ headers' = StoreHeaders(headers, StoreHeaders(pend, HeaderOf(m)))
      /\ pend' = NoHeaders /\ UNCHANGED <<treeVars, next, prevHash, buf, left>>
  BY DEF HandleChunk, Arriving
<1>2. SentOnChain(m) /\ \A i \in 1..Len(chan') : SentOnChain(chan'[i])
  BY <1>1, TailOneChain DEF SpendsInv
<1>3. Len(m.ids) \in Nat /\ Len(m.ids) >= 1 /\ m.from \in Nat /\ Upto(m) \in m.from..MaxHeight
  BY <1>1, ArrivingChunk, Bounds DEF SpendsInv, RowsInv
<1> HIDE DEF m
<1>4. OnChain(Upto(m), Last(m)) /\ Upto(m) \in Heights
  BY <1>2, <1>3, Bounds DEF SentOnChain, Upto, Last
<1>5. StoredOnChain(HeaderOf(m))
  BY <1>4, OneOnChain DEF HeaderOf
<1>6. StoredOnChain(headers')
  BY <1>1, <1>5, StoreOnChain DEF OneChain
<1>7. StoredOnChain(pend')
  BY <1>1, NoHeadersOnChain
<1>8. /\ prevHash' # NoBlock => OnChain(next' - 1, prevHash')
      /\ \A k \in 1..Len(buf') : OnChain(next' - Len(buf') + k - 1, buf'[k])
  BY <1>1 DEF OneChain
<1> QED
  BY <1>1, <1>2, <1>6, <1>7, <1>8, WalletOneChain

LEMMA HandleHeaderOneChain ==
    ASSUME SpendsInv, OneChain, HandleHeader
    PROVE  OneChain'
<1> DEFINE m == Head(chan)
<1>1. /\ chan # <<>> /\ Arriving("header") /\ chan' = Tail(chan)
      /\ pend' = StoreHeaders(pend, [NoHeaders EXCEPT ![m.from] = m.ids[1]])
      /\ UNCHANGED <<treeVars, headers, next, prevHash, buf, left>>
  BY DEF HandleHeader, Arriving, dbVars
<1>2. SentOnChain(m) /\ \A i \in 1..Len(chan') : SentOnChain(chan'[i])
  BY <1>1, TailOneChain DEF SpendsInv
<1>3. m.from \in 1..MaxHeight /\ Len(m.ids) = 1
  <2>1. chan \in Seq(Message) /\ Len(chan) >= 1 /\ m = chan[1] /\ m.kind = "header"
    BY <1>1 DEF Arriving, SpendsInv, RowsInv, Typed, TypeOK, StreamTypes
  <2>2. Fits(m, next - Len(buf))
    BY <2>1 DEF SpendsInv, RowsInv, Typed, InFlight
  <2> QED
    BY <2>1, <2>2 DEF Fits
<1> HIDE DEF m
<1>4. OnChain(m.from, m.ids[1]) /\ m.from \in Heights
  <2>1. m.from + 1 - 1 = m.from /\ 1 \in 1..Len(m.ids)
    BY <1>3, Bounds
  <2>2. OnChain(m.from + 1 - 1, m.ids[1])
    BY <1>2, <2>1 DEF SentOnChain
  <2> QED
    BY <1>3, <2>1, <2>2, Bounds
<1>5. StoredOnChain(headers') /\ StoredOnChain(pend')
  BY <1>1, <1>4, OneOnChain, StoreOnChain DEF OneChain
<1>6. /\ prevHash' # NoBlock => OnChain(next' - 1, prevHash')
      /\ \A k \in 1..Len(buf') : OnChain(next' - Len(buf') + k - 1, buf'[k])
  BY <1>1 DEF OneChain
<1> QED
  BY <1>1, <1>2, <1>5, <1>6, WalletOneChain

(* The stream closes without a rewind.                                     *)
LEMMA NoRewind ==
    ASSUME SpendsInv, OneChain, CloseStream
    PROVE  headers' = StoreHeaders(headers, pend)
<1>1. chan # <<>> => Head(chan).kind # "reorg"
  BY TailOneChain DEF SentOnChain, SpendsInv
<1> QED
  BY <1>1 DEF CloseStream, Arriving

LEMMA FetchedOnChain ==
    ASSUME SpendsInv, NEW h \in Heights, FetchTime(h)
    PROVE  OnChain(h, Chain[h])
<1>1. seg.start >= 2 /\ seg.start \in Nat /\ seg.end \in Nat
  BY RunNumbers DEF FetchTime, SpendsInv, RowsInv, Typed, InFlight
<1>2. h >= 1
  BY <1>1, Bounds DEF FetchTime, Missing, HeightsWithoutTime
<1> QED
  BY <1>2, Bounds, ChainType DEF FetchTime, OnChain, SpendsInv, TreeInv

LEMMA StepOneChain == SpendsInv /\ OneChain /\ [Next]_vars => OneChain'
<1> SUFFICES ASSUME SpendsInv, OneChain, [Next]_vars PROVE OneChain'
  OBVIOUS
<1>0. Typed
  BY DEF SpendsInv, RowsInv
<1> DEFINE Others == left'["orphan"] = left["orphan"] /\ left'["midorphan"] = left["midorphan"]
<1>1. ASSUME UNCHANGED <<treeVars, readerVars, pend>>, Others, StoredOnChain(headers')
      PROVE  OneChain'
  <2>1. UNCHANGED <<next, prevHash, buf, chan, pend>>
    BY <1>1 DEF readerVars
  <2>2. /\ StoredOnChain(pend')
        /\ prevHash' # NoBlock => OnChain(next' - 1, prevHash')
        /\ \A k \in 1..Len(buf') : OnChain(next' - Len(buf') + k - 1, buf'[k])
        /\ \A i \in 1..Len(chan') : SentOnChain(chan'[i])
    BY <2>1 DEF OneChain
  <2> QED
    BY <1>1, <2>2, WalletOneChain
<1>2. ASSUME UNCHANGED headers PROVE StoredOnChain(headers')
  BY <1>2 DEF OneChain
<1>3. ASSUME NEW S \in SUBSET Account, NEW h \in Heights, NEW rows, Rewind(S, h, headers, rows)
      PROVE  StoredOnChain(headers')
  BY <1>3 DEF OneChain, StoredOnChain, Rewind
<1>4. CASE NodeStep
  BY <1>4, NodeStepOneChain
<1>5. CASE \E S \in SUBSET Account : StartSync(S)
  BY <1>1, <1>2, <1>5 DEF StartSync, writerVars
<1>6. CASE Recover \/ BeginSegment \/ ScanDone
  BY <1>1, <1>2, <1>6 DEF Recover, BeginSegment, ScanDone, dbVars, writerVars
<1>7. CASE OpenStream
  BY <1>7, OpenStreamOneChain
<1>8. CASE RequestFails \/ FailChunk
  BY <1>2, <1>8, EndOneChain DEF RequestFails, FailChunk, dbVars
<1>9. CASE Abort
  <2>1. Others
    BY <1>0, <1>9, OtherFault DEF Abort, FaultKinds
  <2> QED
    BY <1>2, <1>9, <2>1, EndOneChain DEF Abort, dbVars
<1>10. CASE Scan
  <2>1. PICK a \in Account, i \in AddrIndexes, upto \in Heights : ScanAddress(a, i, upto)
    BY <1>10 DEF Scan
  <2>2. UNCHANGED left \/ Fault("scancut")
    BY <2>1 DEF ScanAddress
  <2>3. Others
    BY <1>0, <2>2, OtherFault DEF FaultKinds
  <2> QED
    BY <1>1, <1>2, <2>1, <2>3 DEF ScanAddress, writerVars
<1>11. CASE \E full \in BOOLEAN : ReadBlock(full)
  BY <1>11, ReadBlockOneChain
<1>12. CASE DetectReorg
  BY <1>12, AlwaysLinked DEF DetectReorg
<1>13. CASE EndOfStream \/ StopReader
  BY <1>13, ReaderEndsOneChain
<1>14. CASE HandleChunk
  BY <1>14, HandleChunkOneChain
<1>15. CASE HandleHeader
  BY <1>15, HandleHeaderOneChain
<1>16. CASE CloseStream
  BY <1>16, NoRewind, StoreOnChain, EndOneChain DEF CloseStream, OneChain
<1>17. ASSUME NEW h \in Heights, FetchTime(h) PROVE OneChain'
  <2>1. StoredOnChain([NoHeaders EXCEPT ![h] = Chain[h]])
    BY <1>17, FetchedOnChain, OneOnChain
  <2>2. StoredOnChain(headers')
    BY <1>17, <2>1, StoreOnChain DEF FetchTime, OneChain
  <2> QED
    BY <1>1, <1>17, <2>2 DEF FetchTime, writerVars
<1>18. CASE EndSegment
  BY <1>1, <1>2, <1>18 DEF EndSegment, dbVars, writerVars
<1>19. ASSUME UserFault PROVE Others
  BY <1>0, <1>19, OtherFault DEF UserFault, FaultKinds
<1>20. ASSUME NEW a \in Account, NEW h \in Heights, UserRewind(a, h) PROVE OneChain'
  <2>1. StoredOnChain(headers')
    BY <1>3, <1>20 DEF UserRewind
  <2> QED
    BY <1>1, <1>19, <1>20, <2>1 DEF UserRewind, writerVars
<1>21. CASE \E a \in Account : UserReset(a)
  BY <1>1, <1>2, <1>19, <1>21 DEF UserReset, writerVars
<1>22. CASE UNCHANGED vars
  BY <1>1, <1>2, <1>22 DEF vars, dbVars, writerVars
<1> QED
  BY <1>4, <1>5, <1>6, <1>7, <1>8, <1>9, <1>10, <1>11, <1>12, <1>13, <1>14, <1>15, <1>16, <1>17,
     <1>18, <1>20, <1>21, <1>22 DEF Next, Synchronize, Begin, Reader, Writer, Times

(* No header is lost during a run.                                         *)
LEMMA HeadersStay ==
    ASSUME SpendsInv, OneChain, [Next]_vars, pc # "idle", left'["midrewind"] = left["midrewind"],
           NEW h \in Heights, headers[h] # NoBlock
    PROVE  headers'[h] = headers[h]
<1>0. Typed
  BY DEF SpendsInv, RowsInv
<1>1. ASSUME NEW new, headers' = StoreHeaders(headers, new) PROVE headers'[h] = headers[h]
  BY <1>1 DEF StoreHeaders
<1>2. CASE UNCHANGED headers
  BY <1>2
<1>3. CASE HandleChunk
  BY <1>1, <1>3 DEF HandleChunk
<1>4. CASE CloseStream
  BY <1>1, <1>4, NoRewind
<1>5. CASE \E k \in Heights : FetchTime(k)
  BY <1>1, <1>5 DEF FetchTime
<1>6. CASE (\E b \in Account, k \in Heights : UserRewind(b, k))
  BY <1>0, <1>6, UserActs DEF UserRewind
<1>7. ASSUME ~HandleChunk, ~CloseStream, ~(\E k \in Heights : FetchTime(k)),
             ~(\E b \in Account, k \in Heights : UserRewind(b, k))
      PROVE  UNCHANGED headers
  BY <1>7 DEF Next, Synchronize, Begin, Reader, Writer, Times, Scan, NodeStep, StartSync, Recover,
       BeginSegment, ScanDone, OpenStream, RequestFails, ScanAddress, ReadBlock, DetectReorg, EndOfStream,
       StopReader, FailChunk, HandleHeader, EndSegment, Abort, UserReset, vars, dbVars
<1> QED
  BY <1>2, <1>3, <1>4, <1>5, <1>6, <1>7

(* A run shows no other account anything else than before: the rows of an  *)
(* account that it was not started for stay, whatever chunks, recoveries,  *)
(* reorganizations and crashes there are.                                  *)
THEOREM OthersKeepRows ==
    Spec => [][pc # "idle" /\ left'["midrewind"] = left["midrewind"] =>
                 \A a \in Account \ chosen : View(a)' = View(a)]_vars
<1>1. SpendsInv /\ OwnRun /\ [Next]_vars
        => [pc # "idle" /\ left'["midrewind"] = left["midrewind"] =>
              \A a \in Account \ chosen : View(a)' = View(a)]_vars
  BY RowsOfOthers, SameView
<1>2. Init => SpendsInv /\ OwnRun
  BY InitSpends, InitOwnRun
<1>3. SpendsInv /\ OwnRun /\ [Next]_vars => (SpendsInv /\ OwnRun)'
  BY StepSpends, StepOwnRun
<1> QED
  BY <1>1, <1>2, <1>3, PTL DEF Spec

(* Nor does it take the header of their height, as long as the node        *)
(* abandons no block: then no run rewinds.  (A rewind takes the headers of *)
(* all accounts.)                                                          *)
THEOREM OthersKeepAll == NoReorgs /\ Spec => OthersUntouched
<1> DEFINE Inv == SpendsInv /\ OwnRun /\ OneChain
           Stays == pc # "idle" /\ left'["midrewind"] = left["midrewind"] =>
                      \A a \in Account \ chosen :
                        /\ View(a)' = View(a)
                        /\ headers[SyncHeight(a)] # NoBlock
                             => headers'[SyncHeight(a)] = headers[SyncHeight(a)]
<1>1. Inv /\ [Next]_vars => [Stays]_vars
  <2> SUFFICES ASSUME Inv, [Next]_vars, pc # "idle", left'["midrewind"] = left["midrewind"],
                      NEW a \in Account \ chosen
               PROVE  /\ View(a)' = View(a)
                      /\ headers[SyncHeight(a)] # NoBlock
                           => headers'[SyncHeight(a)] = headers[SyncHeight(a)]
    OBVIOUS
  <2>1. View(a)' = View(a)
    BY RowsOfOthers, SameView
  <2>2. SyncHeight(a) \in Heights
    BY SyncHeightType, Bounds DEF SpendsInv, RowsInv
  <2> QED
    BY <2>1, <2>2, HeadersStay
<1>2. NoReorgs /\ Init => Inv
  BY InitSpends, InitOwnRun, InitOneChain
<1>3. Inv /\ [Next]_vars => Inv'
  BY StepSpends, StepOwnRun, StepOneChain
<1> HIDE DEF Inv
<1> QED
  BY <1>1, <1>2, <1>3, PTL DEF Spec, OthersUntouched
=============================================================================
