------------------------------ MODULE ChainView ------------------------------
(***************************************************************************)
(* What the synchronization promises: at any time the part of the database *)
(* that an account shows is exactly what some block and its ancestors      *)
(* contain, and it only moves along a branch, forward when the account is  *)
(* synchronized and back when it is rewound.  It never mixes two branches, *)
(* skips a block, or jumps from one branch to another.                     *)
(***************************************************************************)
EXTENDS BlockTree

VARIABLE view       \* for each account, its height and the note table it shows

viewVars == <<blocks, best, view>>

(* the rows an account has when it has followed a branch down to block id  *)
Contents(a, id) ==
    LET mint == [n \in Note |->
                   IF Owner[n] = a THEN MintHeight(n, PathOf(id), Birth[a]) ELSE 0]
    IN  [height |-> Len(PathOf(id)),
         noted  |-> mint,
         spent  |-> [n \in Note |->
                       IF mint[n] # 0 THEN SpendHeight(n, PathOf(id), mint[n]) ELSE 0]]

(* blocks that the account may be standing on                              *)
Positions(a, v) ==
    {id \in 1..Len(blocks) : Len(PathOf(id)) = v.height /\ v = Contents(a, id)}

SameBranch(i, j) ==
    \/ Len(PathOf(i)) <= Len(PathOf(j)) /\ PathOf(j)[Len(PathOf(i))] = i
    \/ Len(PathOf(j)) <= Len(PathOf(i)) /\ PathOf(i)[Len(PathOf(j))] = j

ViewInit ==
    /\ TreeInit
    /\ view = [a \in Account |-> Contents(a, Birth[a])]

(* one commit of the wallet: some accounts move along a branch             *)
Move ==
    /\ \A a \in Account :
         \/ view'[a] = view[a]
         \/ \E i \in Positions(a, view[a]), j \in Positions(a, view'[a]) : SameBranch(i, j)
    /\ DOMAIN view' = Account
    /\ UNCHANGED treeVars

NodeStep ==
    /\ \/ \E mints, spends \in SUBSET Note : Mine(mints, spends)
       \/ \E fork \in Heights : Orphan(fork)
    /\ UNCHANGED view

ViewNext == NodeStep \/ Move
ViewSpec == ViewInit /\ [][ViewNext]_viewVars
=============================================================================
