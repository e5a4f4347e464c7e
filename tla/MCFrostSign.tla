----------------------------- MODULE MCFrostSign -----------------------------
(***************************************************************************)
(* Instances of FrostSign for TLC: the coordinator and two other           *)
(* participants, two of whom are enough.                                   *)
(***************************************************************************)
EXTENDS FrostSign

CONSTANTS c, p1, p2

LosesAnswers == {"package", "share", "send"}

(* Exactly two sign, each of them may lose answers, and the transaction    *)
(* may be refused; all three want to sign, and everything happens to the   *)
(* coordinator, or to another one; the coordinator cancels and another     *)
(* loses the answer to its share.                                          *)
Signings ==
    {[t |-> 2, signers |-> {c, p1},
      faults |-> [p \in Participant |-> LosesAnswers \union {"refuse"}]],
     [t |-> 2, signers |-> Participant,
      faults |-> [p \in Participant |-> IF p = c THEN Faults ELSE {}]],
     [t |-> 2, signers |-> Participant,
      faults |-> [p \in Participant |-> IF p = p1 THEN Faults ELSE {}]],
     [t |-> 2, signers |-> Participant,
      faults |-> [p \in Participant |-> CASE p = c  -> {"cancel"}
                                          [] p = p1 -> {"share"}
                                          [] p = p2 -> {}]]}
=============================================================================
