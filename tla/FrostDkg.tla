------------------------------ MODULE FrostDkg ------------------------------
(***************************************************************************)
(* Distributed key generation of a shared account (frost/protocol.rs and   *)
(* frost/dkg.rs): do_dkg_impl is called every thirty seconds, after a       *)
(* synchronization, until the account exists.  One call runs through the   *)
(* rounds as far as the memos in the database allow.                       *)
(*                                                                         *)
(* A package is known by its version: the number of the random secret it   *)
(* was made from.  A package of round 2 is made from the secret of round 1 *)
(* and carries that version.  The chain keeps the versions a participant   *)
(* sent for a round in the order they were mined, the order in which       *)
(* everyone reads them.                                                    *)
(***************************************************************************)
EXTENDS Integers, FiniteSets, Sequences

CONSTANTS
    Participant,    \* the ids 1..n of dkg_params
    MaxMade,        \* bound: productions of each round per participant
    MaxAccount,     \* bound: shared accounts created per participant
    Scenarios       \* pairs of a threshold and a set of participants faults happen to

ASSUME ParticipantAssumption == IsFiniteSet(Participant)
ASSUME BoundAssumption ==
    /\ MaxMade \in [0 .. 2 -> Nat] /\ MaxAccount \in Nat
    /\ Scenarios \subseteq Nat \X SUBSET Participant

VARIABLES
    t,         \* dkg_params.t, agreed on beforehand
    flaky,     \* the participants that faults happen to
    pc,        \* where the call of do_dkg_impl stands, "idle" between calls
    made,      \* number of times the round has been produced
    pending,   \* versions sent and not yet mined
    mined,     \* versions mined, in order
    secret,    \* dkg_state: signing_keypair, spkg1, spkg2; 0 when NULL
    peers,     \* dkg_peers of rounds 0 to 2; 0 when there is no row
    keyPkg,    \* dkg_state.key_pkg: the versions the key was made from
    pubPkg,    \* there is a row of round 3 in dkg_peers
    accounts,  \* number of accounts with the shared viewing key
    moved,     \* tables whose rows dkg_finalize has given to the new account
    active     \* props has a row dkg_account

local   == <<secret, peers, keyPkg, pubPkg, accounts, moved, active>>
network == <<made, pending, mined>>
vars    == <<t, flaky, pc, network, local>>

Rounds   == 0 .. 2
Versions == Nat
NoKey    == [q \in Participant |-> 0]
Tables   == {"params", "state", "peers"}
Labels   == {"idle", "part3", "public", "create", "params", "state", "peers", "close"}

Others(p) == Participant \ {p}

(* Mutant: the package of one's own is not counted, and everyone's needed.  *)
threshold_all(n, k) == n + 1

(* R::threshold, the same for the three rounds.                            *)
threshold(n, k) == k

(* Mutant: store_public replaces the row (ON CONFLICT DO UPDATE).           *)
decode_latest(p, r) ==
    [q \in Participant |->
        IF mined[q][r] = <<>> \/ (r = 2 /\ q = p) THEN peers[p][r][q]
        ELSE mined[q][r][Len(mined[q][r])]]

(* decode_dkg_memos and store_public: the memos are read in the order of   *)
(* the chain and a row that exists is kept (ON CONFLICT DO NOTHING).  The  *)
(* packages of round 2 go to the mailboxes of the others.                  *)
decode_dkg_memos(p, r) ==
    [q \in Participant |->
        IF peers[p][r][q] # 0 \/ mined[q][r] = <<>> \/ (r = 2 /\ q = p)
        THEN peers[p][r][q] ELSE Head(mined[q][r])]

Received(row, p) == {q \in Others(p) : row[q] # 0}

(* Enough packages to go on: those of the peers and one's own.             *)
Enough(p, r) ==
    Cardinality(Received(decode_dkg_memos(p, r), p)) + 1
        >= threshold(Cardinality(Participant), t)

(* Round::produce: part2 wants the packages of every other participant.    *)
CanProduce(p, r) == r = 2 => Received(decode_dkg_memos(p, 1), p) = Others(p)

(* The rounds a call comes to: those before have enough packages and have  *)
(* been produced.                                                          *)
Reached(p) == {r \in Rounds : \A r2 \in 0 .. r - 1 : Enough(p, r2)}
ToProduce(p) == {r \in Reached(p) : secret[p][r] = 0 /\ CanProduce(p, r)}

(* Mutant: the numbering of the secrets skips one.                         *)
NewSecretSkips(p, r) == made[p][r] + 2

(* part2 draws nothing: its packages come from the secret of round 1.      *)
NewSecret(p, r) ==
    IF r < 2 THEN made[p][r] + 1
    ELSE IF secret[p][1] # 0 THEN secret[p][1] ELSE made[p][1] + 1

(* Mutant: the shares are counted and not verified.                        *)
SharesPresent(p) ==
    \A q \in Others(p) : decode_dkg_memos(p, 1)[q] # 0 /\ decode_dkg_memos(p, 2)[q] # 0

(* dkg::part3: every other participant's two packages are there and its    *)
(* share lies on the polynomial of its package of round 1.                 *)
SharesVerify(p) ==
    \A q \in Others(p) :
        /\ decode_dkg_memos(p, 2)[q] # 0
        /\ decode_dkg_memos(p, 2)[q] = decode_dkg_memos(p, 1)[q]

(* Mutant: a key package found is taken without its public package.        *)
CompletesWithKey(p) ==
    /\ 2 \in Reached(p) /\ Enough(p, 2) /\ (secret[p][2] # 0 \/ CanProduce(p, 2))
    /\ keyPkg[p] = NoKey => SharesVerify(p)

(* The call comes to the end of round 2, and then part3 succeeds or a key  *)
(* package is found with the public package that goes with it; otherwise   *)
(* the call ends with an error.                                            *)
Completes(p) ==
    /\ 2 \in Reached(p) /\ Enough(p, 2) /\ (secret[p][2] # 0 \/ CanProduce(p, 2))
    /\ IF keyPkg[p] = NoKey THEN SharesVerify(p) ELSE pubPkg[p]

GroupKey(p) == [q \in Participant |-> IF q = p THEN secret[p][1] ELSE peers[p][1][q]]

----------------------------------------------------------------------------
Decode(p, rounds) ==
    peers' = [peers EXCEPT ![p] =
                [r \in Rounds |-> IF r \in rounds THEN decode_dkg_memos(p, r) ELSE @[r]]]

Publish(p, rounds) ==
    /\ \A r \in rounds : made[p][r] < MaxMade[r]
    /\ made' = [made EXCEPT ![p] = [r \in Rounds |-> IF r \in rounds THEN @[r] + 1 ELSE @[r]]]
    /\ pending' = [pending EXCEPT ![p] =
                     [r \in Rounds |-> IF r \in rounds THEN @[r] \union {NewSecret(p, r)} ELSE @[r]]]

Store(p, rounds) ==
    secret' = [secret EXCEPT ![p] =
                [r \in Rounds |-> IF r \in rounds THEN NewSecret(p, r) ELSE @[r]]]

(* The rounds of do_dkg_impl.  SYNCING keeps the synchronization out and   *)
(* nothing else writes the tables, so a call sees one state of the memos.  *)
(* In each round it comes to it stores the packages received and, if it    *)
(* has no secret yet, draws one, stores it and publishes its package in    *)
(* one database transaction.  It ends where packages are missing.  The     *)
(* messages of one call would be paid with the same notes of the funding   *)
(* account: the node takes the first one only.                             *)
RunRounds(p) ==
    /\ pc[p] = "idle" /\ active[p] /\ "params" \notin moved[p]
    /\ Cardinality(ToProduce(p)) <= 1
    /\ Decode(p, Reached(p))
    /\ Publish(p, ToProduce(p))
    /\ Store(p, ToProduce(p))
    /\ pc' = [pc EXCEPT ![p] = IF Completes(p) THEN "part3" ELSE "idle"]
    /\ UNCHANGED <<mined, keyPkg, pubPkg, accounts, moved, active>>

(* The transaction of a round reached the network and the call ends before *)
(* tx.commit: the program stops, or the answer of the node is lost.        *)
RunRoundsLost(p, last) ==
    /\ pc[p] = "idle" /\ active[p] /\ "params" \notin moved[p]
    /\ last \in ToProduce(p) /\ Cardinality(ToProduce(p) \intersect 0 .. last) = 1
    /\ Decode(p, Reached(p) \intersect 0 .. last)
    /\ Publish(p, ToProduce(p) \intersect 0 .. last)
    /\ Store(p, ToProduce(p) \intersect 0 .. last - 1)
    /\ UNCHANGED <<pc, mined, keyPkg, pubPkg, accounts, moved, active>>

(* publish bails out: the node says that the notes are spent already, by   *)
(* the message of an earlier round of this call, or by one that is not     *)
(* mined yet.  The transaction of the round is rolled back.                *)
RunRoundsRejected(p, last) ==
    /\ pc[p] = "idle" /\ active[p] /\ "params" \notin moved[p]
    /\ last \in ToProduce(p) /\ Cardinality(ToProduce(p) \intersect 0 .. last) <= 2
    /\ ToProduce(p) \intersect 0 .. last - 1 # {} \/ \E r \in Rounds : pending[p][r] # {}
    /\ Decode(p, Reached(p) \intersect 0 .. last)
    /\ Publish(p, ToProduce(p) \intersect 0 .. last - 1)
    /\ Store(p, ToProduce(p) \intersect 0 .. last - 1)
    /\ UNCHANGED <<pc, mined, keyPkg, pubPkg, accounts, moved, active>>

(* Round 3: the key is stored, then the public package; or both are read   *)
(* again, stored by an earlier call.  The user may have cancelled since    *)
(* the call began: the UPDATE finds no row, the INSERT leaves one.         *)
Part3(p) ==
    /\ pc[p] = "part3" /\ keyPkg[p] = NoKey
    /\ keyPkg' = IF active[p] THEN [keyPkg EXCEPT ![p] = GroupKey(p)] ELSE keyPkg
    /\ pc' = [pc EXCEPT ![p] = "public"]
    /\ UNCHANGED <<network, secret, peers, pubPkg, accounts, moved, active>>

StorePublic(p) ==
    /\ pc[p] = "public"
    /\ pubPkg' = [pubPkg EXCEPT ![p] = TRUE]
    /\ pc' = [pc EXCEPT ![p] = "create"]
    /\ UNCHANGED <<network, secret, peers, keyPkg, accounts, moved, active>>

Reload(p) ==
    /\ pc[p] = "part3" /\ keyPkg[p] # NoKey
    /\ pc' = [pc EXCEPT ![p] = "create"]
    /\ UNCHANGED <<network, local>>

CreateAccount(p) ==
    /\ pc[p] = "create" /\ active[p] /\ accounts[p] < MaxAccount
    /\ accounts' = [accounts EXCEPT ![p] = @ + 1]
    /\ pc' = [pc EXCEPT ![p] = "params"]
    /\ UNCHANGED <<network, secret, peers, keyPkg, pubPkg, moved, active>>

(* The broadcast account and dkg_params are gone: the call fails.          *)
NothingLeft(p) ==
    /\ pc[p] = "create" /\ ~active[p]
    /\ pc' = [pc EXCEPT ![p] = "idle"]
    /\ UNCHANGED <<network, local>>

(* dkg_finalize, one statement after the other; without effect on rows     *)
(* that the user has deleted.                                              *)
MoveRows(p, table) ==
    /\ pc[p] = table
    /\ moved' = IF active[p] THEN [moved EXCEPT ![p] = @ \union {table}] ELSE moved
    /\ pc' = [pc EXCEPT ![p] = CASE table = "params" -> "state"
                                 [] table = "state"  -> "peers"
                                 [] table = "peers"  -> "close"]
    /\ UNCHANGED <<network, secret, peers, keyPkg, pubPkg, accounts, active>>

(* The rows of props go.  The statements after that one, the seed, the     *)
(* removal of the mailbox and of the broadcast account, the key once more  *)
(* and cancel_dkg for the funding account, change nothing of this state,   *)
(* and a stop between them leaves accounts behind that nobody uses.        *)
Close(p) ==
    /\ pc[p] = "close"
    /\ active' = [active EXCEPT ![p] = FALSE]
    /\ pc' = [pc EXCEPT ![p] = "idle"]
    /\ UNCHANGED <<network, secret, peers, keyPkg, pubPkg, accounts, moved>>

Crash(p) ==
    /\ pc[p] # "idle"
    /\ pc' = [pc EXCEPT ![p] = "idle"]
    /\ UNCHANGED <<network, local>>

(* cancel_dkg, which takes no lock: also while a call is at its end.  The  *)
(* rows still under the funding account are deleted.                       *)
Cancel(p) ==
    /\ active[p]
    /\ active' = [active EXCEPT ![p] = FALSE]
    /\ secret' = IF "state" \in moved[p] THEN secret
                 ELSE [secret EXCEPT ![p] = [r \in Rounds |-> 0]]
    /\ keyPkg' = IF "state" \in moved[p] THEN keyPkg ELSE [keyPkg EXCEPT ![p] = NoKey]
    /\ peers' = IF "peers" \in moved[p] THEN peers
                ELSE [peers EXCEPT ![p] = [r \in Rounds |-> [q \in Participant |-> 0]]]
    /\ pubPkg' = IF "peers" \in moved[p] THEN pubPkg ELSE [pubPkg EXCEPT ![p] = FALSE]
    /\ UNCHANGED <<pc, network, accounts, moved>>

(* A transaction is mined.                                                 *)
Mine(p, r) ==
    \E v \in pending[p][r] :
        /\ pending' = [pending EXCEPT ![p][r] = @ \ {v}]
        /\ mined' = [mined EXCEPT ![p][r] = Append(@, v)]
        /\ UNCHANGED <<pc, made, local>>

----------------------------------------------------------------------------
Init ==
    /\ \E s \in Scenarios : t = s[1] /\ flaky = s[2]
    /\ pc = [p \in Participant |-> "idle"]
    /\ made = [p \in Participant |-> [r \in Rounds |-> 0]]
    /\ pending = [p \in Participant |-> [r \in Rounds |-> {}]]
    /\ mined = [p \in Participant |-> [r \in Rounds |-> <<>>]]
    /\ secret = [p \in Participant |-> [r \in Rounds |-> 0]]
    /\ peers = [p \in Participant |-> [r \in Rounds |-> [q \in Participant |-> 0]]]
    /\ keyPkg = [p \in Participant |-> NoKey]
    /\ pubPkg = [p \in Participant |-> FALSE]
    /\ accounts = [p \in Participant |-> 0]
    /\ moved = [p \in Participant |-> {}]
    /\ active = [p \in Participant |-> TRUE]

Proceed(p) ==
    \/ Part3(p) \/ StorePublic(p) \/ Reload(p)
    \/ CreateAccount(p) \/ NothingLeft(p) \/ Close(p)
    \/ \E table \in Tables : MoveRows(p, table)

Fault(p) ==
    \/ \E last \in Rounds : RunRoundsLost(p, last)
    \/ Crash(p)
    \/ Cancel(p)

Next ==
    /\ UNCHANGED <<t, flaky>>
    /\ \E p \in Participant :
        \/ RunRounds(p)
        \/ \E last \in Rounds : RunRoundsRejected(p, last)
        \/ Proceed(p)
        \/ p \in flaky /\ Fault(p)
        \/ \E r \in Rounds : Mine(p, r)

(* The page of each participant starts a call every thirty seconds, a call *)
(* goes on, and what is sent is mined: something happens while it can.     *)
Progress ==
    /\ UNCHANGED <<t, flaky>>
    /\ \E p \in Participant :
        \/ RunRounds(p) \/ Proceed(p)
        \/ \E r \in Rounds : Mine(p, r) \/ RunRoundsRejected(p, r)

Spec     == Init /\ [][Next]_vars
FairSpec == Spec /\ WF_vars(Progress)

----------------------------------------------------------------------------
TypeOK ==
    /\ t \in Nat /\ flaky \subseteq Participant
    /\ pc \in [Participant -> Labels]
    /\ made \in [Participant -> [Rounds -> Nat]]
    /\ \A p \in Participant, r \in Rounds : made[p][r] <= MaxMade[r]
    /\ pending \in [Participant -> [Rounds -> SUBSET Versions]]
    /\ mined \in [Participant -> [Rounds -> Seq(Versions)]]
    /\ secret \in [Participant -> [Rounds -> Versions]]
    /\ \A p \in Participant, r \in {0, 1} : secret[p][r] <= made[p][r]
    /\ peers \in [Participant -> [Rounds -> [Participant -> Versions]]]
    /\ keyPkg \in [Participant -> [Participant -> Versions]]
    /\ pubPkg \in [Participant -> BOOLEAN]
    /\ accounts \in [Participant -> 0 .. MaxAccount]
    /\ moved \in [Participant -> SUBSET Tables]
    /\ active \in [Participant -> BOOLEAN]

(* Two participants never hold different packages of the same sender, even *)
(* when the sender lost the answer to a package and published another:     *)
(* store_public keeps the first and everyone reads the same chain.         *)
SameViews ==
    \A p, p2, q \in Participant, r \in Rounds :
        peers[p][r][q] # 0 /\ peers[p2][r][q] # 0 => peers[p][r][q] = peers[p2][r][q]

(* Two participants that have computed a key have computed the same one,   *)
(* whatever was lost, repeated or cancelled on the way.                    *)
Agreement ==
    \A p, p2 \in Participant :
        keyPkg[p] # NoKey /\ keyPkg[p2] # NoKey => keyPkg[p] = keyPkg[p2]

(* The user has not cancelled the generation half-way through its end.     *)
Kept(p) == active[p] \/ moved[p] = Tables

(* A key is made from packages whose owners still hold the secret: one     *)
(* that published twice and kept the second secret is in nobody's key but  *)
(* its own.  The shares of round 2 show it, not the order of the messages. *)
KeyHasOwners ==
    \A p, q \in Participant :
        keyPkg[p] # NoKey => secret[q][1] \in {0, keyPkg[p][q]}

(* A crash at any statement of the end of do_dkg_impl leaves no shared     *)
(* account whose key package has disappeared, until the user cancels.      *)
KeyNotLost ==
    \A p \in Participant :
        accounts[p] > 0 /\ Kept(p) => keyPkg[p] # NoKey /\ pubPkg[p]

(* When nothing fails, every participant ends with one shared account and  *)
(* the generation closed, also when calls go on with fewer packages than   *)
(* the next round needs and fail.                                          *)
EventuallyShared ==
    flaky = {} => <>[](\A p \in Participant : accounts[p] = 1 /\ ~active[p])
=============================================================================
