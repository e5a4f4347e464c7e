----------------------------- MODULE MCWarpSync ------------------------------
(***************************************************************************)
(* Instances of WarpSync for TLC.                                          *)
(***************************************************************************)
EXTENDS WarpSync, TLC

CONSTANTS a1, a2, n1, n2, d1

One == {a1}
Two == {a1, a2}
TwoNotes == {n1, n2}

(* every note belongs to the one account, or each account has its own      *)
OwnedByOne == [n \in Note |-> a1]
OwnedByEach == [n \in Note |-> IF n = n1 THEN a1 ELSE a2]

(* accounts with sapling and orchard keys, and orchard notes               *)
ShieldedPoolsOf == [a \in Account |-> Shielded]
ShieldedPoolOf == [n \in Note |-> 2]
ShieldedAddrsOf == [a \in Account |-> <<>>]
ShieldedAddrOf == [n \in Note |-> "none"]

(* accounts with a transparent address and orchard keys; n1 is transparent *)
MixedPoolsOf == [a \in Account |-> {0, 2}]
MixedPoolOf == [n \in Note |-> IF n = n1 THEN 0 ELSE 2]
MixedAddrsOf == [a \in Account |-> <<d1>>]
MixedAddrOf == [n \in Note |-> IF n = n1 THEN d1 ELSE "none"]

(* a1 has such keys, a2 keys for shielded pools *)
FirstMixedPoolsOf == [a \in Account |-> IF a = a1 THEN {0, 2} ELSE Shielded]
FirstMixedAddrsOf == [a \in Account |-> IF a = a1 THEN <<d1>> ELSE <<>>]

(* no transaction that spends a shielded note has a transparent output of  *)
(* the account, or n1 is the output of that which spends n2                *)
NoOuts == [n \in Note |-> {}]
JoinedOuts == [n \in Note |-> IF n = n2 THEN {n1} ELSE {}]

BornAtInit == [a \in Account |-> InitHeight]

(* the notes of one account in one pool are interchangeable *)
NoteSymmetry == Permutations(Note)

(* at most one fault of each of the kinds named *)
Once(kinds) == [k \in FaultKinds |-> IF k \in kinds THEN 1 ELSE 0]
ReorgFaults == [Once({"midorphan", "cut"}) EXCEPT !["midblock"] = 2]
StopFaults == Once({"orphan", "crash"})
TwoFaults == Once({"crash", "rewind"})
HostileFaults == Once({"scancut", "midrewind", "midorphan", "stop", "crash"})
StopOnce == Once({"stop"})
=============================================================================
