----------------------------- MODULE PaymentPlan -----------------------------
(***************************************************************************)
(* The plan of a payment (plan_transaction of pay/plan.rs, pay/fee.rs,     *)
(* pay/pool.rs): which notes pay which recipients, in which pools, and     *)
(* what the fee and the change are.  fill_single_receivers is a loop over  *)
(* pairs of pools, recipients and notes; an iteration that pays something  *)
(* is a step, those that skip are not.  Amounts are in units of a hundred  *)
(* zatoshis or more; assets other than ZEC are left out.                   *)
(***************************************************************************)
EXTENDS Integers, FiniteSets, Sequences, FiniteSetsExt, SequencesExt

CONSTANTS
    Requests,   \* the payments asked for, and the notes there are to make them
    Cost,       \* COST_PER_ACTION
    Width       \* the counters of FeeManager count modulo Width (u8: 256)

Pools == 0 .. 2
Masks == SUBSET Pools

(* A note of the wallet: its pool and value; a recipient: the pools of its *)
(* address without the transparent one if there is another, and the        *)
(* amount.  "pools" are those that the account has and the user allows.    *)
Notes      == Seq([pool : Pools, value : Nat])
Recipients == Seq([mask : {{0}, {1}, {2}, {1, 2}}, amount : Nat])

ASSUME RequestAssumption ==
    \A q \in Requests :
        /\ q.notes \in Notes /\ q.recipients \in Recipients
        /\ q.pools \in Masks \ {{}} /\ q.recipientPays \in BOOLEAN
ASSUME CostAssumption == Cost \in Nat \ {0} /\ Width \in Nat \ {0, 1}

VARIABLES
    request,    \* what is asked for
    phase,      \* "single", "double": the pass of fill_single_receivers; the outcome
    place,      \* the last iteration that paid: pools, recipient, note
    dest,       \* pool_mask of the recipients
    due,        \* what the recipients are still to get
    remaining,  \* what is left of the notes
    inputs,     \* FeeManager.num_inputs
    outputs,    \* FeeManager.num_outputs
    feePaid

vars == <<request, phase, place, dest, due, remaining, inputs, outputs, feePaid>>

N == DOMAIN request.notes
R == DOMAIN request.recipients

----------------------------------------------------------------------------
(* PoolMask::to_best_pool                                                  *)
to_best_pool(mask) == Max(mask)

(* get_change_pool                                                         *)
change_pool == to_best_pool(request.pools)

Larger(a, b) == IF a > b THEN a ELSE b

(* FeeManager::fee, in 8 bits until the conversion to u64.                 *)
LogicalActions(in, out) ==
    LET Used(p)  == in[p] > 0 \/ out[p] > 0
        Count(p) == Larger(in[p], out[p])
        t == Count(0)
        s == IF Used(1) THEN Larger(Count(1), 2) ELSE 0
        o == IF Used(2) THEN Larger(Count(2), 2) ELSE 0
    IN  Larger((t + s + o) % Width, 2)
fee == LogicalActions(inputs, outputs) * Cost

fee_remaining == IF request.recipientPays THEN 0 ELSE fee - feePaid

(* The recipients of a pass: those with one receiver, then those with two. *)
Double(r) == request.recipients[r].mask = {1, 2}
InPass(r) == Double(r) <=> phase = "double"

fill_order == << <<2, 2>>, <<1, 1>>, <<2, 1>>, <<1, 2>>, <<0, 2>>, <<0, 1>>, <<2, 0>>, <<1, 0>>, <<0, 0>> >>

Iterations == (1 .. 9) \X R \X N
Before(i, j) ==
    \/ i[1] < j[1]
    \/ i[1] = j[1] /\ i[2] < j[2]
    \/ i[1] = j[1] /\ i[2] = j[2] /\ i[3] < j[3]

(* inputs of the pools the account pays from                               *)
Usable(n) == request.notes[n].pool \in request.pools

(* An iteration that pays: the loop has not passed it, the note has        *)
(* something left and is not dust, the recipient takes the pool, and there *)
(* is something to pay.                                                    *)
Pays(i) ==
    LET src == fill_order[i[1]][1]
        dst == fill_order[i[1]][2]
        r   == i[2]
        n   == i[3]
    IN  /\ Before(place, i) /\ InPass(r)
        /\ Usable(n) /\ request.notes[n].pool = src
        /\ remaining[n] > 0 /\ request.notes[n].value >= Cost
        /\ dst \in dest[r]
        /\ fee_remaining > 0 \/ due[r] > 0

Paying == {i \in Iterations : Pays(i)}

(* Mutant: a note is counted whenever it pays.                             *)
InputsAgain(n) == [inputs EXCEPT ![request.notes[n].pool] = (@ + 1) % Width]

(* The first time a note pays it is added to the fee manager.              *)
InputsWith(n) ==
    IF remaining[n] # request.notes[n].value THEN inputs
    ELSE [inputs EXCEPT ![request.notes[n].pool] = (@ + 1) % Width]

(* Mutant: the fee is not evaluated again after the input is added.        *)
OwedBefore(n) == fee_remaining

(* The fee is evaluated again after the input is added.                    *)
Owed(n) ==
    IF request.recipientPays THEN 0
    ELSE LogicalActions(InputsWith(n), outputs) * Cost - feePaid

(* Mutant: a note pays all that is due, whatever is left of it.            *)
PaidInFull(r, n) == due[r] + Owed(n)

Paid(r, n) == Min({remaining[n], due[r] + Owed(n)})

(* Mutant: all of the payment is taken for the fee.                        *)
PaidForFee(r, n) == Paid(r, n)

(* The fee is paid first, the rest is for the recipient.                   *)
ToFee(r, n) == Min({Paid(r, n), Owed(n)})

(* Mutant: what pays the fee is not taken from the note.                   *)
LeftWithoutFee(r, n) == remaining[n] - (Paid(r, n) - ToFee(r, n))

Left(r, n) == remaining[n] - Paid(r, n)

FillFrom(r, n) ==
    /\ inputs' = InputsWith(n)
    /\ feePaid' = feePaid + ToFee(r, n)
    /\ due' = [due EXCEPT ![r] = @ - (Paid(r, n) - ToFee(r, n))]
    /\ remaining' = [remaining EXCEPT ![n] = Left(r, n)]

Fill ==
    /\ phase \in {"single", "double"}
    /\ \E i \in Paying :
        /\ \A j \in Paying \ {i} : Before(i, j)
        /\ place' = i
        /\ FillFrom(i[2], i[3])
    /\ UNCHANGED <<request, phase, dest, outputs>>

(* The pool of the recipients that have two.                               *)
Balance(p) == SumFunctionOnSet(remaining, {n \in N : Usable(n) /\ request.notes[n].pool = p})
largest_shielded_pool ==
    IF change_pool # 0 THEN change_pool
    ELSE IF Balance(1) > Balance(2) THEN 1 ELSE 2

CountOutputs(out, rs, mask) ==
    [p \in Pools |-> (out[p] + Cardinality({r \in rs : to_best_pool(mask[r]) = p})) % Width]

(* The second pass.                                                        *)
EndSingle ==
    /\ phase = "single" /\ Paying = {}
    /\ phase' = "double"
    /\ place' = <<0, 0, 0>>
    /\ dest' = [r \in R |-> IF Double(r) THEN {largest_shielded_pool} ELSE dest[r]]
    /\ outputs' = CountOutputs(outputs, {r \in R : Double(r)}, dest')
    /\ UNCHANGED <<request, due, remaining, inputs, feePaid>>

(* The recipient that pays the fee, the first of the passes.               *)
First == LET rs == IF \E r \in R : ~Double(r) THEN {r \in R : ~Double(r)} ELSE R
         IN  Min(rs)

Enough ==
    /\ request.recipientPays \/ feePaid >= fee
    /\ \A r \in R : due[r] = 0
    /\ request.recipientPays => request.recipients[First].amount >= fee

EndDouble ==
    /\ phase = "double" /\ Paying = {}
    /\ phase' = IF Enough THEN "planned" ELSE "not enough"
    /\ UNCHANGED <<request, place, dest, due, remaining, inputs, outputs, feePaid>>

----------------------------------------------------------------------------
(* The transaction that is built.                                          *)
Used(n)      == remaining[n] # request.notes[n].value
Values       == [n \in N |-> request.notes[n].value]
Amounts      == [r \in R |-> request.recipients[r].amount]
total_input  == SumFunctionOnSet(Values, {n \in N : Used(n)})
Asked        == SumFunctionOnSet(Amounts, R)
total_output == IF request.recipientPays THEN Asked - fee ELSE Asked
change       == total_input - total_output - fee

(* What a recipient gets; one transparent output without value is left out *)
(* of the transaction.                                                     *)
Amount(r) == request.recipients[r].amount
             - IF request.recipientPays /\ r = First THEN fee ELSE 0
BuiltInputs  == [p \in Pools |-> Cardinality({n \in N : Used(n) /\ request.notes[n].pool = p})]
BuiltOutputs ==
    [p \in Pools |->
        Cardinality({r \in R : to_best_pool(dest[r]) = p /\ (p = 0 => Amount(r) # 0)})
        + IF change_pool = p /\ (p = 0 => change # 0) THEN 1 ELSE 0]

----------------------------------------------------------------------------
Init ==
    /\ request \in Requests
    /\ phase = "single"
    /\ place = <<0, 0, 0>>
    /\ dest = [r \in R |-> request.recipients[r].mask]
    /\ due = [r \in R |-> request.recipients[r].amount]
    /\ remaining = [n \in N |-> request.notes[n].value]
    /\ inputs = [p \in Pools |-> 0]
    /\ outputs = CountOutputs([p \in Pools |-> IF p = change_pool THEN 1 ELSE 0],
                              {r \in R : ~Double(r)}, dest)
    /\ feePaid = 0

Next == Fill \/ EndSingle \/ EndDouble

Spec == Init /\ [][Next]_vars

----------------------------------------------------------------------------
Phases == {"single", "double", "planned", "not enough"}

TypeOK ==
    /\ request \in Requests
    /\ phase \in Phases
    /\ place \in (0 .. 9) \X Nat \X Nat
    /\ dest \in [R -> Masks \ {{}}]
    /\ due \in [R -> Nat]
    /\ remaining \in [N -> Nat]
    /\ inputs \in [Pools -> 0 .. Width - 1]
    /\ outputs \in [Pools -> 0 .. Width - 1]
    /\ feePaid \in Nat

(* The subtraction fee() - fee_paid, of unsigned numbers, does not go      *)
(* below zero at any iteration: what is paid never exceeds the fee, which  *)
(* grows as notes are added.                                               *)
FeeNotOverpaid == feePaid <= fee

(* What is left of the notes that are used comes back as change, all of it *)
(* and nothing else: nobody loses what an iteration split between the fee  *)
(* and a recipient.                                                        *)
ChangeIsWhatIsLeft ==
    phase = "planned" =>
        change = SumFunctionOnSet(remaining, {n \in N : Used(n)})

(* The fee of the plan is that of the transaction, counted from what is in *)
(* it (otherwise the builder refuses it): the counters have seen each note *)
(* and each output once.  It may only be more, and only when a transparent *)
(* output without value, the change or that of a recipient, was counted by *)
(* FeeManager and then left out; it is never less.                         *)
FeeIsThatOfTheTransaction ==
    phase = "planned" =>
        /\ fee >= LogicalActions(BuiltInputs, BuiltOutputs) * Cost
        /\ \/ fee = LogicalActions(BuiltInputs, BuiltOutputs) * Cost
           \/ change_pool = 0 /\ change = 0
           \/ \E r \in R : to_best_pool(dest[r]) = 0 /\ Amount(r) = 0

(* The notes a plan could have used, and what a set of them costs.         *)
Spendable == {n \in N : Usable(n) /\ request.notes[n].value >= Cost}
ValueOf(ns) == SumFunctionOnSet(Values, ns)
FeeWith(ns) ==
    LogicalActions([p \in Pools |-> Cardinality({n \in ns : request.notes[n].pool = p})],
                   outputs) * Cost

(* When the plan says that there is not enough, no choice of notes pays    *)
(* for the outputs and the fee, unless there is a note of a shielded pool  *)
(* that is worth less than the two actions that it may add.                *)
GivesUpOnlyWithoutFunds ==
    phase = "not enough" /\ ~request.recipientPays
    /\ (\A n \in Spendable : request.notes[n].pool # 0 => request.notes[n].value >= 2 * Cost)
        => \A ns \in SUBSET Spendable : ValueOf(ns) < Asked + FeeWith(ns)
=============================================================================
