----------------------------- MODULE MCFrostDkg -----------------------------
(***************************************************************************)
(* Instances of FrostDkg for TLC.                                          *)
(***************************************************************************)
EXTENDS FrostDkg

CONSTANTS p1, p2, p3

(* Nothing fails and two of the three participants are enough to sign;     *)
(* everything fails for one participant and all three are needed.          *)
CalmOrFlaky == {<<2, {}>>, <<3, {p1}>>}

(* one signing key, and a second try at the packages that make the key     *)
TwoTries == [r \in Rounds |-> IF r = 0 THEN 1 ELSE 2]
=============================================================================
