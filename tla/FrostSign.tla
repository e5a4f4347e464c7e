------------------------------ MODULE FrostSign ------------------------------
(***************************************************************************)
(* Signing of one transaction of a shared account (frost/sign.rs).  The    *)
(* participants that take part call do_sign_impl every thirty seconds,     *)
(* after a synchronization.  They send commitments to the coordinator,     *)
(* which broadcasts a signing package, collects the shares and sends the   *)
(* transaction.                                                            *)
(*                                                                         *)
(* The inputs of the transaction go through the rounds together, in the    *)
(* same transactions and memos: one stands for all of them.  The nonces    *)
(* of a participant are numbered as it draws them and its commitment has   *)
(* the number of the nonces.  A signing package is the function from its   *)
(* signers to their commitments, 0 outside; a share is known by the        *)
(* package it signs.                                                       *)
(*                                                                         *)
(* The end of a call, delete_frost_state, is one step here; in the code it *)
(* is a few statements, each committed on its own.                         *)
(***************************************************************************)
EXTENDS Integers, FiniteSets, Sequences, SequencesExt

CONSTANTS
    Participant,    \* the ids 1..n of dkg_params
    Coordinator,    \* frost_sign_params.coordinator
    MaxNonce,       \* bound: nonces a participant draws
    MaxLost,        \* bound: faults
    Scenarios       \* records: t, the signers, the faults of each participant

Kinds  == {"commitment", "package", "share"}
Faults == Kinds \union {"send", "refuse", "cancel"}

ASSUME BoundAssumption == MaxNonce \in Nat /\ MaxLost \in Nat
ASSUME CoordinatorAssumption == Coordinator \in Participant /\ IsFiniteSet(Participant)
ASSUME ScenarioAssumption ==
    Scenarios \subseteq [t : Nat, signers : SUBSET Participant,
                         faults : [Participant -> SUBSET Faults]]

VARIABLES
    scenario,  \* what the participants agreed on, and what may fail
    db,        \* the tables of each participant
    drawn,     \* number of nonces drawn
    pending,   \* messages of each kind and sender sent and not yet mined
    mined,     \* messages of each kind and sender, in the order of the chain
    sent,      \* what became of the transaction, none, accepted or refused
    lost       \* number of faults

vars == <<scenario, db, drawn, pending, mined, sent, lost>>

Packages  == [Participant -> Nat]
NoPackage == [q \in Participant |-> 0]
Signers(pkg) == {q \in Participant : pkg[q] # 0}

(* The tables when no signing is in progress.  "session" is the row        *)
(* frost_pczt of props, "mailbox" the accounts the memos are received on,  *)
(* "nonce", "package" and "share" the columns of frost_signatures,         *)
(* "commits" and "shares" the columns of frost_commitments.                *)
Fresh ==
    [session |-> FALSE, mailbox |-> FALSE, nonce |-> 0, package |-> NoPackage,
     share |-> NoPackage, commits |-> NoPackage,
     shares |-> [q \in Participant |-> NoPackage]]

----------------------------------------------------------------------------
(* One call, phase after phase.  The accounts that receive the memos are   *)
(* created by the first call and scanned by the synchronization before the *)
(* next one.                                                               *)
decode_memos(p, kind, q) == IF db[p].mailbox THEN mined[kind][q] ELSE <<>>

DrawsNonce(p) == db[p].commits[p] = 0

(* Phase 1: commitments are addressed to the coordinator, the first stored *)
(* is kept (ON CONFLICT DO NOTHING), and a participant that has none of    *)
(* its own draws nonces.                                                   *)
Commitments(p) ==
    [q \in Participant |->
        IF db[p].commits[q] # 0 THEN db[p].commits[q]
        ELSE IF q = p THEN drawn[p] + 1
        ELSE IF p # Coordinator \/ decode_memos(p, "commitment", q) = <<>> THEN 0
        ELSE Head(decode_memos(p, "commitment", q))]

(* Mutant: another commitment that comes in makes another package.          *)
MakesPackageAgain(p) ==
    p = Coordinator /\ Cardinality(Signers(Commitments(p))) >= scenario.t

(* Phase 2, the coordinator: one commitment for each of exactly t signers. *)
MakesPackage(p) ==
    /\ p = Coordinator /\ db[p].package = NoPackage
    /\ decode_memos(p, "package", Coordinator) = <<>>
    /\ Cardinality(Signers(Commitments(p))) = scenario.t

(* Phase 2: the last package broadcast replaces the one stored.            *)
SigPackage(p) ==
    IF decode_memos(p, "package", Coordinator) # <<>>
    THEN Last(decode_memos(p, "package", Coordinator))
    ELSE IF MakesPackage(p) THEN Commitments(p)
    ELSE db[p].package

(* Phase 3: sign fails when the package does not have the commitment of    *)
(* the nonces.                                                             *)
Signs(p) ==
    /\ db[p].share = NoPackage /\ SigPackage(p) # NoPackage
    /\ SigPackage(p)[p] = Commitments(p)[p]

Signed(p) == Signs(p) \/ db[p].share # NoPackage
SigShare(p) == IF Signs(p) THEN SigPackage(p) ELSE db[p].share

(* Phase 4: shares are stored next to the commitments, the last one wins.  *)
SigShares(p) ==
    [q \in Participant |->
        IF ~Signed(p) \/ Commitments(p)[q] = 0 THEN db[p].shares[q]
        ELSE IF q = p THEN SigShare(p)
        ELSE IF p # Coordinator \/ decode_memos(p, "share", q) = <<>> THEN db[p].shares[q]
        ELSE Last(decode_memos(p, "share", q))]

(* Mutant: one share more than the threshold is waited for.                *)
AggregatesLate(p) ==
    /\ p = Coordinator /\ Signed(p)
    /\ Cardinality({q \in Participant : SigShares(p)[q] # NoPackage}) > scenario.t

(* aggregate: t shares, those of the signers of the package, on it.        *)
Aggregates(p) ==
    /\ p = Coordinator /\ Signed(p)
    /\ Cardinality({q \in Participant : SigShares(p)[q] # NoPackage}) = scenario.t
    /\ \A q \in Signers(SigPackage(p)) : SigShares(p)[q] = SigPackage(p)

(* The call comes to delete_frost_state: the coordinator has sent the      *)
(* transaction, the others have sent their share.                          *)
Finishes(p) == IF p = Coordinator THEN Aggregates(p) ELSE Signed(p)

(* The phases that publish a message in this call, before their commit.    *)
Publishes(p) ==
    {kind \in Kinds :
        \/ kind = "commitment" /\ DrawsNonce(p) /\ p # Coordinator
        \/ kind = "package" /\ MakesPackage(p)
        \/ kind = "share" /\ Signs(p) /\ p # Coordinator}

(* Mutant: the commitment of one's own is stored before the transaction.   *)
AfterDecodingOwn(p) == [db[p] EXCEPT !.mailbox = TRUE, !.commits = Commitments(p)]

(* The tables after the phases up to the one given.                        *)
AfterDecoding(p) ==
    [db[p] EXCEPT !.mailbox = TRUE,
                  !.commits = [Commitments(p) EXCEPT ![p] = db[p].commits[p]]]
AfterCommitments(p) ==
    [db[p] EXCEPT !.mailbox = TRUE, !.commits = Commitments(p), !.nonce = Commitments(p)[p]]
AfterPackages(p) == [AfterCommitments(p) EXCEPT !.package = SigPackage(p)]
AfterShares(p) ==
    [AfterPackages(p) EXCEPT !.share = SigShare(p), !.shares = SigShares(p)]

(* The tables when the transaction of a phase that publishes is rolled     *)
(* back, or its commit is not reached.                                     *)
Before(p, kind) ==
    CASE kind = "commitment" -> AfterDecoding(p)
      [] kind = "package"    -> AfterCommitments(p)
      [] kind = "share"      -> AfterPackages(p)
      [] kind = "send"       -> AfterShares(p)

Send(p, kinds) ==
    /\ DrawsNonce(p) => drawn[p] < MaxNonce
    /\ drawn' = IF DrawsNonce(p) THEN [drawn EXCEPT ![p] = @ + 1] ELSE drawn
    /\ pending' =
         [kind \in Kinds |-> [q \in Participant |->
             IF q # p \/ kind \notin kinds THEN pending[kind][q]
             ELSE pending[kind][q] \union
                  CASE kind = "commitment" -> {Commitments(p)[p]}
                    [] OTHER               -> {SigPackage(p)}]]

(* A call of do_sign_impl, as far as it gets.                              *)
Call(p) ==
    /\ db[p].session
    /\ Send(p, Publishes(p))
    /\ db' = [db EXCEPT ![p] = IF Finishes(p) THEN Fresh ELSE AfterShares(p)]
    /\ sent' = IF Aggregates(p) THEN "accepted" ELSE sent
    /\ UNCHANGED <<mined, lost>>

(* A message reached the network and the call ends before the commit: the  *)
(* program stops, or the answer of the node is lost.                       *)
CallLost(p, kind) ==
    /\ db[p].session /\ kind \in scenario.faults[p] /\ lost < MaxLost
    /\ \/ kind \in Publishes(p) /\ sent' = sent
       \/ kind = "send" /\ Aggregates(p) /\ sent' = "accepted"
    /\ Send(p, IF kind = "commitment" THEN {kind} ELSE Publishes(p))
    /\ db' = [db EXCEPT ![p] = Before(p, kind)]
    /\ lost' = lost + 1
    /\ UNCHANGED mined

(* publish bails out: the notes that pay for the message are those of a    *)
(* message sent before and not yet mined.                                  *)
CallRejected(p, kind) ==
    /\ db[p].session /\ kind \in Publishes(p)
    /\ \E kind2 \in Kinds : pending[kind2][p] # {}
    /\ IF kind = "commitment" THEN UNCHANGED <<drawn, pending>> ELSE Send(p, {})
    /\ db' = [db EXCEPT ![p] = Before(p, kind)]
    /\ UNCHANGED <<mined, sent, lost>>

(* The node refuses the transaction.  Its answer, an error message, is     *)
(* taken for the txid, and the state is deleted all the same.              *)
CallRefused(p) ==
    /\ db[p].session /\ Aggregates(p) /\ "refuse" \in scenario.faults[p] /\ lost < MaxLost
    /\ Send(p, Publishes(p))
    /\ db' = [db EXCEPT ![p] = Fresh]
    /\ sent' = IF sent = "none" THEN "refused" ELSE sent
    /\ lost' = lost + 1
    /\ UNCHANGED mined

(* reset_sign, between two calls.                                          *)
Cancel(p) ==
    /\ db[p].session /\ "cancel" \in scenario.faults[p] /\ lost < MaxLost
    /\ db' = [db EXCEPT ![p] = Fresh]
    /\ lost' = lost + 1
    /\ UNCHANGED <<drawn, pending, mined, sent>>

(* init_sign, with the transaction the participants have given each other, *)
(* and again by those who may cancel.                                      *)
InitSign(p) ==
    /\ p \in scenario.signers /\ ~db[p].session
    /\ drawn[p] < MaxNonce
    /\ drawn[p] = 0 \/ "cancel" \in scenario.faults[p]
    /\ db' = [db EXCEPT ![p] = [Fresh EXCEPT !.session = TRUE]]
    /\ UNCHANGED <<drawn, pending, mined, sent, lost>>

(* A transaction is mined.                                                 *)
Mine(p, kind) ==
    \E message \in pending[kind][p] :
        /\ pending' = [pending EXCEPT ![kind][p] = @ \ {message}]
        /\ mined' = [mined EXCEPT ![kind][p] = Append(@, message)]
        /\ UNCHANGED <<db, drawn, sent, lost>>

----------------------------------------------------------------------------
Init ==
    /\ scenario \in Scenarios
    /\ db = [p \in Participant |-> Fresh]
    /\ drawn = [p \in Participant |-> 0]
    /\ pending = [kind \in Kinds |-> [p \in Participant |-> {}]]
    /\ mined = [kind \in Kinds |-> [p \in Participant |-> <<>>]]
    /\ sent = "none"
    /\ lost = 0

Next ==
    /\ UNCHANGED scenario
    /\ \E p \in Participant :
        \/ InitSign(p) \/ Call(p) \/ CallRefused(p) \/ Cancel(p)
        \/ \E kind \in Faults : CallLost(p, kind)
        \/ \E kind \in Kinds : Mine(p, kind) \/ CallRejected(p, kind)

(* The signers start, the timer of the page calls every thirty seconds and *)
(* what is sent is mined: something happens while it can.                  *)
Progress ==
    /\ UNCHANGED scenario
    /\ \E p \in Participant :
        InitSign(p) \/ Call(p) \/ \E kind \in Kinds : Mine(p, kind)

Spec     == Init /\ [][Next]_vars
FairSpec == Spec /\ WF_vars(Progress)

----------------------------------------------------------------------------
Tables ==
    [session : BOOLEAN, mailbox : BOOLEAN, nonce : Nat, package : Packages,
     share : Packages, commits : Packages, shares : [Participant -> Packages]]

Answers == {"none", "accepted", "refused"}
Content(kind) == IF kind = "commitment" THEN Nat ELSE Packages

TypeOK ==
    /\ scenario \in Scenarios
    /\ db \in [Participant -> Tables]
    /\ \A p \in Participant : db[p].commits[p] = db[p].nonce
    /\ drawn \in [Participant -> Nat]
    /\ DOMAIN pending = Kinds /\ DOMAIN mined = Kinds
    /\ \A kind \in Kinds :
        /\ pending[kind] \in [Participant -> SUBSET Content(kind)]
        /\ mined[kind] \in [Participant -> Seq(Content(kind))]
    /\ sent \in Answers
    /\ lost \in 0 .. MaxLost

MessagesOf(kind, p) == pending[kind][p] \union ToSet(mined[kind][p])

(* Nonces sign one package only, or the share of the key is known to       *)
(* whoever reads both shares: also when a participant loses the answer to  *)
(* its share and signs again, or the coordinator cancels, starts again and *)
(* makes another package with the same commitments of the others.  Both    *)
(* together break it: the second package replaces the first, and the share *)
(* that was sent is not in the tables.                                     *)
NonceSignsOnce ==
    \A p \in Participant :
        ~("share" \in scenario.faults[p] /\ "cancel" \in scenario.faults[Coordinator])
            => \A pkg, pkg2 \in MessagesOf("share", p) : pkg[p] = pkg2[p] => pkg = pkg2

(* All the packages broadcast for a transaction are the same, also when    *)
(* the coordinator loses the answer to one and makes it again, and another *)
(* commitment comes in between, as long as it does not cancel.             *)
OnePackage ==
    "cancel" \notin scenario.faults[Coordinator] =>
        \A pkg, pkg2 \in MessagesOf("package", Coordinator) : pkg = pkg2

(* With exactly t signers the transaction is accepted, or refused, by the  *)
(* network and every signer is done, also when the coordinator or a signer *)
(* loses the answer to a package, a share or the transaction, and repeats  *)
(* it.                                                                     *)
EventuallySigned ==
    (/\ Cardinality(scenario.signers) = scenario.t
     /\ \A p \in Participant : scenario.faults[p] \intersect {"commitment", "cancel"} = {})
        => <>[](sent # "none" /\ \A p \in Participant : ~db[p].session)
=============================================================================
