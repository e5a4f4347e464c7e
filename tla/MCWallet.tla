------------------------------- MODULE MCWallet --------------------------------
(***************************************************************************)
(* A wallet for two keys.  The first one receives in block 1; in block 2   *)
(* it pays the second one and has change.  The budgets are the scenarios:  *)
(* how often the user does what.                                           *)
(***************************************************************************)
EXTENDS WalletRows, TLC

MCKeys == {[transparent |-> "extended", sapling |-> TRUE, diversifier |-> 1, firsts |-> {1}],
           [transparent |-> "single", sapling |-> FALSE, diversifier |-> 0, firsts |-> {0}]}

MCInvolved ==
    [k \in MCKeys |->
        IF k.sapling THEN [notes |-> {1, 2}, spends |-> 2 :> 1, outs |-> {2}]
        ELSE [notes |-> {2}, spends |-> Nothing, outs |-> {}]]

MCValidIndex == {1, 3}

(* No operation but these.                                                 *)
Only(some) == [k \in Kinds |-> IF k \in DOMAIN some THEN some[k] ELSE 0]

MCBudgets ==
    {Only([new |-> 3, delete |-> 1, reorder |-> 1, address |-> 2]),
     Only([new |-> 4, reorder |-> 1]),
     Only([new |-> 2, folder |-> 3, export |-> 1, import |-> 1, reorder |-> 1, open |-> 1]),
     Only([new |-> 1, run |-> 2, rewind |-> 1, details |-> 2, user |-> 1]),
     Only([new |-> 2, run |-> 3, pay |-> 1, user |-> 1]),
     Only([new |-> 1, run |-> 2, details |-> 1, user |-> 1, export |-> 1, import |-> 1]),
     Only([new |-> 2, delete |-> 1, run |-> 2, details |-> 1]),
     Only([new |-> 1, delete |-> 1, run |-> 2, user |-> 1, export |-> 1, import |-> 1]),
     Only([new |-> 1, run |-> 1, rewind |-> 1, export |-> 1, import |-> 1])}
=============================================================================
