--------------------------- MODULE MCSyncScheduler ---------------------------
(***************************************************************************)
(* Instances of SyncScheduler for TLC: two accounts, autoSync and a button *)
(* or a page.                                                              *)
(***************************************************************************)
EXTENDS SyncScheduler

CONSTANTS a1, a2, u1

Times(some) == [e \in Events |-> IF e \in DOMAIN some THEN some[e] ELSE 0]

(* Errors, streams that end early, a lock that is taken; calls of the      *)
(* user; a change of the interval; a cancellation.                         *)
Schedules ==
    {[interval |-> 1, times |-> Times([fails |-> 2, cuts |-> 1, frost |-> 2])],
     [interval |-> 2, times |-> Times([presses |-> 2, cuts |-> 1, frost |-> 1])],
     [interval |-> 0, times |-> Times([presses |-> 1, types |-> 2])],
     [interval |-> 1, times |-> Times([cancels |-> 1, types |-> 1])]}

(* An error, and a call of the user.                                       *)
Retries == {[interval |-> 1, times |-> Times([fails |-> 1, presses |-> 1])]}
=============================================================================
