---------------------------- MODULE MCPaymentPlan ----------------------------
(***************************************************************************)
(* Instances of PaymentPlan for TLC.                                       *)
(***************************************************************************)
EXTENDS PaymentPlan

NotesUpTo(k, values) ==
    {ns \in UNION {[1 .. m -> [pool : Pools, value : values]] : m \in 1 .. k} :
        \A i, j \in DOMAIN ns : i < j => ns[i].pool <= ns[j].pool}

RecipientsOf(amounts) == [mask : {{0}, {1}, {2}, {1, 2}}, amount : amounts]

(* One recipient or two; dust, notes that are worth one action or a little *)
(* more, and notes that pay for most of it.                                *)
SmallRequests ==
    [notes : NotesUpTo(3, {6, 11, 25}),
     recipients : [1 .. 1 -> RecipientsOf({3, 20})],
     pools : {{0, 1, 2}, {0, 1}, {0}}, recipientPays : BOOLEAN]
    \union
    [notes : NotesUpTo(2, {4, 5, 13, 30}),
     recipients : [1 .. 2 -> RecipientsOf({2, 13})],
     pools : {{0, 1, 2}, {1, 2}, {0}}, recipientPays : BOOLEAN]
=============================================================================
