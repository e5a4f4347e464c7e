------------------------------ MODULE BlockTree ------------------------------
(***************************************************************************)
(* The chain as the wallet sees it through the node it is connected to     *)
(* (net/lwd.rs, net/zebra.rs): external, modelled from the calls the       *)
(* wallet makes.                                                           *)
(*                                                                         *)
(* A block is known by its position in the sequence blocks, which stands   *)
(* for its hash; NoBlock is the absent hash.  Each block keeps the hashes  *)
(* from the first block down to itself (path), so two branches that share  *)
(* a prefix share those hashes.  Of the contents only what concerns the    *)
(* wallet is kept: the notes that the block creates and those it spends.   *)
(***************************************************************************)
EXTENDS Integers, Sequences, FiniteSets

CONSTANTS
    Account,        \* accounts of the wallet
    Note,           \* notes that the accounts may receive
    Owner,          \* account that can decrypt, or holds the address of, a note
    Birth,          \* birth height of each account
    InitHeight,     \* height of the chain when the accounts are created
    MaxHeight,      \* bound: the chain never grows above it
    MinFork,        \* bound: no block at or below it is ever orphaned
    PerBlock        \* bound: a block creates and spends at most this many notes

ASSUME BlockTreeAssumption ==
    /\ MaxHeight \in Nat /\ InitHeight \in 1..MaxHeight /\ MinFork \in 1..MaxHeight
    /\ PerBlock \in Nat
    /\ Owner \in [Note -> Account]
    /\ Birth \in [Account -> 1..InitHeight]

VARIABLES
    blocks,         \* every block ever mined, on any branch
    best            \* the tip that the node serves

treeVars == <<blocks, best>>

NoBlock == 0
Heights == 0..MaxHeight

PathOf(id) == blocks[id].path
Chain == PathOf(best)
Tip == Len(Chain)

(* hash of the parent; the first block has none *)
PrevHash(id) ==
    LET p == PathOf(id) IN IF Len(p) = 1 THEN NoBlock ELSE p[Len(p) - 1]

MintedOn(path) == UNION {blocks[path[k]].mints : k \in DOMAIN path}
SpentOn(path) == UNION {blocks[path[k]].spends : k \in DOMAIN path}

(* height at which a path creates, or spends, a note above a base height;  *)
(* 0 when it does not                                                      *)
MintHeight(n, path, base) ==
    LET at == {k \in DOMAIN path : k > base /\ n \in blocks[path[k]].mints}
    IN  IF at = {} THEN 0 ELSE CHOOSE k \in at : TRUE

SpendHeight(n, path, base) ==
    LET at == {k \in DOMAIN path : k > base /\ n \in blocks[path[k]].spends}
    IN  IF at = {} THEN 0 ELSE CHOOSE k \in at : TRUE

BlockType == [path : Seq(Nat), mints : SUBSET Note, spends : SUBSET Note]

TreeTypeOK ==
    /\ blocks \in Seq(BlockType)
    /\ best \in 1..Len(blocks)
    /\ \A id \in 1..Len(blocks) :
         /\ Len(PathOf(id)) \in 1..MaxHeight
         /\ \A k \in 1..Len(PathOf(id)) : PathOf(id)[k] \in 1..id

TreeInit ==
    /\ blocks = [i \in 1..InitHeight |->
                   [path |-> [k \in 1..i |-> k], mints |-> {}, spends |-> {}]]
    /\ best = InitHeight

(* The node accepts a block on its tip.  A note is created once on a       *)
(* branch, and spent at most once, by a later block.                       *)
Mine(mints, spends) ==
    /\ Tip < MaxHeight
    /\ Cardinality(mints) + Cardinality(spends) <= PerBlock
    /\ mints \cap MintedOn(Chain) = {}
    /\ spends \subseteq MintedOn(Chain) \ SpentOn(Chain)
    /\ blocks' = Append(blocks, [path   |-> Append(Chain, Len(blocks) + 1),
                                 mints  |-> mints,
                                 spends |-> spends])
    /\ best' = Len(blocks) + 1

(* The node abandons the blocks above fork.  The blocks that replace them  *)
(* are mined afterwards, so the node is for a while behind the wallet, as  *)
(* it also is when the user switches to a server that lags.                *)
Orphan(fork) ==
    /\ fork \in MinFork..(Tip - 1)
    /\ Tip < MaxHeight
    /\ best' = Chain[fork]
    /\ UNCHANGED blocks
=============================================================================
