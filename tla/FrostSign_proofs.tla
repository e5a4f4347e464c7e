-------------------------- MODULE FrostSign_proofs --------------------------
(***************************************************************************)
(* Proofs about the signing of a transaction by the owners of a shared     *)
(* account, for any number of participants, any threshold and any crashes, *)
(* lost and rejected messages and cancellations: one package is broadcast, *)
(* and nonces sign one package.                                            *)
(*                                                                         *)
(* The coordinator keeps every commitment it has put into a package, and a *)
(* package has exactly t of them: one made later has at least the same     *)
(* signers, so it is the same.  A participant that has sent a share has it *)
(* in its tables as long as they hold the nonces, unless its share was     *)
(* lost between publish and commit; then the package that it signs again   *)
(* is the one package, unless the coordinator has cancelled.               *)
(***************************************************************************)
EXTENDS FrostSign, TLAPS, FiniteSetTheorems

Broadcast == MessagesOf("package", Coordinator)

(* The nonces in the tables are among those drawn.                         *)
NoncesDrawn == \A p \in Participant : db[p].commits[p] <= drawn[p]

(* Only the coordinator broadcasts packages, and it sends itself no share. *)
Roles ==
    /\ \A p \in Participant \ {Coordinator} : MessagesOf("package", p) = {}
    /\ MessagesOf("share", Coordinator) = {}

(* What is stored and what is signed has been broadcast.                   *)
FromBroadcast ==
    \A p \in Participant :
        /\ MessagesOf("share", p) \subseteq Broadcast
        /\ db[p].package \in Broadcast \union {NoPackage}

(* A package has t signers, and the coordinator keeps their commitments.   *)
CommitmentsKept ==
    "cancel" \notin scenario.faults[Coordinator] =>
        /\ OnePackage
        /\ Broadcast # {} => drawn[Coordinator] > 0
        /\ \A pkg \in Broadcast :
            /\ Cardinality(Signers(pkg)) = scenario.t
            /\ db[Coordinator].session =>
                 \A q \in Signers(pkg) : db[Coordinator].commits[q] = pkg[q]

(* A share that was sent is in the tables as long as its nonces are.       *)
NoncesUsedUp ==
    \A p \in Participant :
        "share" \notin scenario.faults[p] =>
            \A pkg \in MessagesOf("share", p) :
                /\ 0 < pkg[p] /\ pkg[p] <= drawn[p]
                /\ db[p].commits[p] = pkg[p] => db[p].share # NoPackage
                /\ \A pkg2 \in MessagesOf("share", p) : pkg[p] = pkg2[p] => pkg = pkg2

SignInv ==
    TypeOK /\ NoncesDrawn /\ Roles /\ FromBroadcast /\ CommitmentsKept /\ NoncesUsedUp

----------------------------------------------------------------------------
(* The values a call computes from the tables and the memos.               *)
LEMMA DecodedTyped ==
    ASSUME TypeOK, NEW p \in Participant, NEW q \in Participant, NEW kind \in Kinds
    PROVE  /\ decode_memos(p, kind, q) \in Seq(Content(kind))
           /\ decode_memos(p, kind, q) # <<>> =>
                /\ Head(decode_memos(p, kind, q)) \in Content(kind)
                /\ Last(decode_memos(p, kind, q)) \in ToSet(mined[kind][q])
                /\ Last(decode_memos(p, kind, q)) \in Content(kind)
<1>1. mined[kind][q] \in Seq(Content(kind))
  BY DEF TypeOK
<1>2. ASSUME NEW T, NEW s \in Seq(T), s # <<>>
      PROVE  Head(s) \in T /\ Last(s) \in T /\ Last(s) \in ToSet(s)
  <2>1. Len(s) \in DOMAIN s /\ 1 \in DOMAIN s
    BY <1>2
  <2>2. QED
    BY <1>2, <2>1 DEF Last, ToSet
<1>3. CASE db[p].mailbox
  BY <1>1, <1>2, <1>3 DEF decode_memos
<1>4. CASE ~db[p].mailbox
  BY <1>4 DEF decode_memos
<1>5. QED
  BY <1>3, <1>4

LEMMA CommitmentsTyped ==
    ASSUME TypeOK, NEW p \in Participant
    PROVE  /\ Commitments(p) \in Packages
           /\ \A q \in Participant :
                db[p].commits[q] # 0 => Commitments(p)[q] = db[p].commits[q]
           /\ DrawsNonce(p) => Commitments(p)[p] = drawn[p] + 1
           /\ Commitments(p)[p] > 0
<1>1. db[p].commits \in Packages /\ drawn[p] \in Nat
  BY DEF TypeOK, Tables
<1>2. ASSUME NEW q \in Participant
      PROVE  decode_memos(p, "commitment", q) # <<>> =>
                Head(decode_memos(p, "commitment", q)) \in Nat
  BY DecodedTyped DEF Kinds, Content
<1>3. QED
  BY <1>1, <1>2 DEF Commitments, DrawsNonce, Packages

LEMMA PackageTyped ==
    ASSUME TypeOK, NEW p \in Participant
    PROVE  /\ SigPackage(p) \in Packages
           /\ \/ SigPackage(p) = db[p].package
              \/ SigPackage(p) \in Broadcast
              \/ MakesPackage(p) /\ SigPackage(p) = Commitments(p)
           /\ MakesPackage(p) => SigPackage(p) = Commitments(p)
<1>1. db[p].package \in Packages /\ Commitments(p) \in Packages
  BY CommitmentsTyped DEF TypeOK, Tables
<1>2. Coordinator \in Participant
  BY CoordinatorAssumption
<1>3. decode_memos(p, "package", Coordinator) # <<>> =>
        /\ Last(decode_memos(p, "package", Coordinator)) \in Packages
        /\ Last(decode_memos(p, "package", Coordinator)) \in Broadcast
  BY <1>2, DecodedTyped DEF Kinds, Content, Broadcast, MessagesOf
<1>4. QED
  BY <1>1, <1>3 DEF SigPackage, MakesPackage

LEMMA SharesTyped ==
    ASSUME TypeOK, NEW p \in Participant
    PROVE  /\ SigShare(p) \in Packages
           /\ SigShares(p) \in [Participant -> Packages]
           /\ Signs(p) => SigShare(p) # NoPackage
           /\ db[p].share # NoPackage => SigShare(p) = db[p].share
<1>1. /\ db[p].share \in Packages
      /\ db[p].shares \in [Participant -> Packages]
      /\ SigPackage(p) \in Packages
  BY PackageTyped DEF TypeOK, Tables
<1>2. SigShare(p) \in Packages
  BY <1>1 DEF SigShare
<1>3. ASSUME NEW q \in Participant
      PROVE  decode_memos(p, "share", q) # <<>> =>
                Last(decode_memos(p, "share", q)) \in Packages
  BY DecodedTyped DEF Kinds, Content
<1>4. SigShares(p) \in [Participant -> Packages]
  BY <1>1, <1>2, <1>3 DEF SigShares
<1>5. QED
  BY <1>2, <1>4 DEF SigShare, Signs

----------------------------------------------------------------------------
(* The messages after a call has sent those of some phases.                *)
Message(p, kind) == IF kind = "commitment" THEN Commitments(p)[p] ELSE SigPackage(p)

SendsMessages(p, kinds) ==
    /\ DOMAIN pending' = Kinds
    /\ \A kind \in Kinds : pending'[kind] \in [Participant -> SUBSET Content(kind)]
    /\ \A kind \in Kinds, q \in Participant :
         MessagesOf(kind, q)' =
             IF q = p /\ kind \in kinds
             THEN MessagesOf(kind, q) \union {Message(p, kind)}
             ELSE MessagesOf(kind, q)
    /\ drawn' \in [Participant -> Nat]
    /\ \A q \in Participant : drawn[q] <= drawn'[q]
    /\ kinds # {} => Commitments(p)[p] <= drawn'[p]

LEMMA SendMessages ==
    ASSUME TypeOK, NoncesDrawn, NEW p \in Participant, NEW kinds \in SUBSET Kinds,
           Send(p, kinds), mined' = mined
    PROVE  SendsMessages(p, kinds) /\ Commitments(p)[p] <= drawn'[p]
<1>1. /\ \A kind \in Kinds : pending[kind] \in [Participant -> SUBSET Content(kind)]
      /\ drawn \in [Participant -> Nat]
  BY DEF TypeOK
<1>2. ASSUME NEW kind \in Kinds
      PROVE  Message(p, kind) \in Content(kind)
  <2>1. Commitments(p)[p] \in Nat /\ SigPackage(p) \in Packages
    BY CommitmentsTyped, PackageTyped DEF Packages
  <2>2. QED
    BY <2>1 DEF Message, Content
<1>3. ASSUME NEW kind \in Kinds
      PROVE  pending'[kind] = [q \in Participant |->
                IF q # p \/ kind \notin kinds THEN pending[kind][q]
                ELSE pending[kind][q] \union {Message(p, kind)}]
  BY DEF Send, Message
<1>4. ASSUME NEW kind \in Kinds
      PROVE  pending'[kind] \in [Participant -> SUBSET Content(kind)]
  <2> DEFINE C == Content(kind)
             m == Message(p, kind)
             old == pending[kind]
  <2>1. old \in [Participant -> SUBSET C] /\ m \in C
    BY <1>1, <1>2
  <2>2. pending'[kind] = [q \in Participant |->
            IF q # p \/ kind \notin kinds THEN old[q] ELSE old[q] \union {m}]
    BY <1>3
  <2> HIDE DEF C, m, old
  <2>3. pending'[kind] \in [Participant -> SUBSET C]
    BY <2>1, <2>2
  <2>4. QED
    BY <2>3 DEF C
<1>5. ASSUME NEW kind \in Kinds, NEW q \in Participant
      PROVE  MessagesOf(kind, q)' =
                    IF q = p /\ kind \in kinds
                    THEN MessagesOf(kind, q) \union {Message(p, kind)}
                    ELSE MessagesOf(kind, q)
  <2>1. pending'[kind][q] = IF q = p /\ kind \in kinds
                            THEN pending[kind][q] \union {Message(p, kind)}
                            ELSE pending[kind][q]
    BY <1>3
  <2>2. MessagesOf(kind, q)' = pending'[kind][q] \union ToSet(mined[kind][q])
    BY DEF MessagesOf
  <2>3. QED
    BY <2>1, <2>2 DEF MessagesOf
<1>6. /\ drawn' \in [Participant -> Nat]
      /\ \A q \in Participant : drawn[q] <= drawn'[q]
      /\ DrawsNonce(p) => drawn'[p] = drawn[p] + 1
      /\ ~DrawsNonce(p) => drawn' = drawn
  BY <1>1 DEF Send
<1>7. Commitments(p)[p] <= drawn'[p]
  BY <1>6, CommitmentsTyped DEF NoncesDrawn, DrawsNonce
<1>8. DOMAIN pending' = Kinds
  BY DEF Send
<1>9. QED
  BY <1>4, <1>5, <1>6, <1>7, <1>8 DEF SendsMessages

(* Two packages of the same size, one with all commitments of the other.   *)
LEMMA SamePackage ==
    ASSUME NEW pkg \in Packages, NEW pkg2 \in Packages,
           \A q \in Signers(pkg) : pkg2[q] = pkg[q],
           Cardinality(Signers(pkg)) = Cardinality(Signers(pkg2))
    PROVE  pkg = pkg2
<1>1. IsFiniteSet(Signers(pkg2))
  BY CoordinatorAssumption, FS_Subset DEF Signers
<1>2. Signers(pkg) \subseteq Signers(pkg2)
  BY DEF Signers
<1>3. Signers(pkg) = Signers(pkg2)
  BY <1>1, <1>2, FS_Subset
<1>4. \A q \in Participant : pkg[q] = pkg2[q]
  BY <1>3 DEF Signers
<1>5. QED
  BY <1>4 DEF Packages

----------------------------------------------------------------------------
(* A call that publishes the messages of some phases and leaves a row that *)
(* is complete as far as these phases are keeps the invariant.             *)
CompleteRow(p, kinds, row) ==
    /\ row \in Tables
    /\ row.commits[p] = row.nonce /\ row.commits[p] <= drawn'[p]
    /\ row.commits[p] \in {0, db[p].commits[p], Commitments(p)[p]}
    /\ \/ row.package \in {db[p].package, NoPackage}
       \/ row.package = SigPackage(p) /\ (MakesPackage(p) => "package" \in kinds)
    /\ p = Coordinator /\ row.session => row.commits = Commitments(p)
    /\ "share" \notin scenario.faults[p] /\ row.share = NoPackage =>
         \/ row.commits[p] = 0
         \/ "share" \notin kinds /\ db[p].share = NoPackage

LEMMA CallKeeps ==
    ASSUME SignInv, NEW p \in Participant, NEW kinds \in SUBSET Publishes(p), NEW row,
           scenario' = scenario, mined' = mined, sent' \in Answers, lost' \in 0 .. MaxLost,
           db[p].session, db' = [db EXCEPT ![p] = row],
           SendsMessages(p, kinds), CompleteRow(p, kinds, row)
    PROVE  SignInv'
<1>0. /\ DOMAIN pending' = Kinds
      /\ \A kind \in Kinds : pending'[kind] \in [Participant -> SUBSET Content(kind)]
      /\ \A kind \in Kinds, q \in Participant :
           MessagesOf(kind, q)' =
               IF q = p /\ kind \in kinds
               THEN MessagesOf(kind, q) \union {Message(p, kind)}
               ELSE MessagesOf(kind, q)
      /\ drawn' \in [Participant -> Nat]
      /\ \A q \in Participant : drawn[q] <= drawn'[q]
      /\ kinds # {} => Commitments(p)[p] <= drawn'[p]
  BY DEF SendsMessages
<1>00. /\ row \in Tables
       /\ row.commits[p] = row.nonce /\ row.commits[p] <= drawn'[p]
       /\ row.commits[p] \in {0, db[p].commits[p], Commitments(p)[p]}
       /\ \/ row.package \in {db[p].package, NoPackage}
          \/ row.package = SigPackage(p) /\ (MakesPackage(p) => "package" \in kinds)
       /\ p = Coordinator /\ row.session => row.commits = Commitments(p)
       /\ "share" \notin scenario.faults[p] /\ row.share = NoPackage =>
            \/ row.commits[p] = 0
            \/ "share" \notin kinds /\ db[p].share = NoPackage
  BY DEF CompleteRow
<1> USE <1>0, <1>00
<1>1. /\ TypeOK /\ NoncesDrawn /\ Roles /\ FromBroadcast /\ CommitmentsKept /\ NoncesUsedUp
      /\ Coordinator \in Participant
  BY CoordinatorAssumption DEF SignInv
<1>2. /\ db \in [Participant -> Tables] /\ drawn \in [Participant -> Nat]
      /\ \A q \in Participant : db[q].commits[q] = db[q].nonce
  BY <1>1 DEF TypeOK
<1>3. /\ db'[p] = row
      /\ \A q \in Participant \ {p} : db'[q] = db[q]
  BY <1>2
<1>4. /\ Commitments(p) \in Packages
      /\ \A q \in Participant : db[p].commits[q] # 0 => Commitments(p)[q] = db[p].commits[q]
      /\ DrawsNonce(p) => Commitments(p)[p] = drawn[p] + 1
      /\ Commitments(p)[p] > 0
      /\ SigPackage(p) \in Packages
  BY <1>1, CommitmentsTyped, PackageTyped
<1>5. /\ "package" \in kinds => p = Coordinator /\ MakesPackage(p)
      /\ "share" \in kinds => p # Coordinator /\ Signs(p)
      /\ "package" \in Kinds /\ "share" \in Kinds
  <2>1. \A kind \in Publishes(p) :
          /\ kind = "package" => MakesPackage(p)
          /\ kind = "share" => p # Coordinator /\ Signs(p)
    BY DEF Publishes
  <2>2. MakesPackage(p) => p = Coordinator
    BY DEF MakesPackage
  <2>3. QED
    BY <2>1, <2>2 DEF Kinds
<1>6. TypeOK'
  <2>1. db' \in [Participant -> Tables]
    BY <1>2
  <2>2. \A q \in Participant : db'[q].commits[q] = db'[q].nonce
    BY <1>2, <1>3
  <2>3. QED
    BY <1>1, <2>1, <2>2 DEF TypeOK
<1>7. NoncesDrawn'
  <2>1. ASSUME NEW q \in Participant
        PROVE  db'[q].commits[q] <= drawn'[q]
    <3>1. CASE q = p
      BY <1>3, <3>1
    <3>2. CASE q # p
      <4>1. /\ db[q].commits[q] <= drawn[q] /\ drawn[q] <= drawn'[q]
            /\ db[q].commits[q] \in Nat /\ drawn[q] \in Nat /\ drawn'[q] \in Nat
        BY <1>1, <1>2 DEF NoncesDrawn, Tables, Packages
      <4>2. QED
        BY <1>3, <3>2, <4>1
    <3>3. QED
      BY <3>1, <3>2
  <2>2. QED
    BY <2>1 DEF NoncesDrawn
<1>8. Roles'
  BY <1>1, <1>5 DEF Roles
<1>9. /\ Broadcast \subseteq Broadcast'
      /\ Broadcast' = IF "package" \in kinds THEN Broadcast \union {Commitments(p)} ELSE Broadcast
      /\ MakesPackage(p) => p = Coordinator /\ SigPackage(p) = Commitments(p)
  BY <1>1, <1>5, PackageTyped DEF Broadcast, Message, MakesPackage
<1>10. SigPackage(p) \in Broadcast \union {NoPackage} \/ MakesPackage(p)
  BY <1>1, PackageTyped DEF FromBroadcast
<1>11. FromBroadcast'
  <2>1. ASSUME NEW q \in Participant
        PROVE  MessagesOf("share", q)' \subseteq Broadcast'
    <3>1. MessagesOf("share", q) \subseteq Broadcast'
      BY <1>1, <1>9 DEF FromBroadcast
    <3>2. "share" \in kinds => SigPackage(p) \in Broadcast'
      BY <1>5, <1>9, <1>10 DEF Signs
    <3>3. QED
      BY <1>5, <3>1, <3>2 DEF Message
  <2>2. ASSUME NEW q \in Participant
        PROVE  db'[q].package \in Broadcast' \union {NoPackage}
    <3>1. db[q].package \in Broadcast' \union {NoPackage}
      BY <1>1, <1>9 DEF FromBroadcast
    <3>2. CASE q # p
      BY <1>3, <3>1, <3>2
    <3>3. CASE q = p
      BY <1>3, <1>9, <1>10, <3>1, <3>3
    <3>4. QED
      BY <3>2, <3>3
  <2>3. NoPackage' = NoPackage
    BY DEF NoPackage
  <2>4. QED
    BY <2>1, <2>2, <2>3 DEF FromBroadcast
<1>12. CommitmentsKept'
  <2> SUFFICES ASSUME "cancel" \notin scenario.faults[Coordinator]
               PROVE  /\ \A pkg, pkg2 \in Broadcast' : pkg = pkg2
                      /\ Broadcast' # {} => drawn'[Coordinator] > 0
                      /\ \A pkg \in Broadcast' :
                          /\ Cardinality(Signers(pkg)) = scenario.t
                          /\ db'[Coordinator].session =>
                               \A q \in Signers(pkg) : db'[Coordinator].commits[q] = pkg[q]
    BY DEF CommitmentsKept, OnePackage, Broadcast, Signers
  <2>1. /\ \A pkg, pkg2 \in Broadcast : pkg = pkg2
        /\ Broadcast # {} => drawn[Coordinator] > 0
        /\ \A pkg \in Broadcast :
             /\ Cardinality(Signers(pkg)) = scenario.t
             /\ db[Coordinator].session =>
                  \A q \in Signers(pkg) : db[Coordinator].commits[q] = pkg[q]
    BY <1>1 DEF CommitmentsKept, OnePackage, Broadcast
  <2>2. drawn[Coordinator] <= drawn'[Coordinator] /\ drawn[Coordinator] \in Nat
        /\ drawn'[Coordinator] \in Nat
    BY <1>1, <1>2
  <2>3. CASE p # Coordinator
    <3>1. Broadcast' = Broadcast /\ db'[Coordinator] = db[Coordinator]
      BY <1>1, <1>3, <1>5, <1>9, <2>3
    <3>2. QED
      BY <2>1, <2>2, <3>1
  <2>4. CASE p = Coordinator
    <3>1. ASSUME NEW pkg \in Broadcast, NEW q \in Signers(pkg)
          PROVE  Commitments(p)[q] = pkg[q]
      BY <1>4, <2>1, <2>4 DEF Signers
    <3>2. ASSUME NEW pkg \in Broadcast
          PROVE  pkg \in Packages
      BY <1>1 DEF TypeOK, Broadcast, MessagesOf, ToSet, Content, Kinds
    <3>3. "package" \in kinds =>
            /\ Cardinality(Signers(Commitments(p))) = scenario.t
            /\ drawn'[p] > 0
      BY <1>4, <1>5, <2>2, <2>4 DEF MakesPackage, Packages
    <3>4. "package" \in kinds => \A pkg \in Broadcast : pkg = Commitments(p)
      BY <1>4, <2>1, <3>1, <3>2, <3>3, SamePackage
    <3>5. \A pkg, pkg2 \in Broadcast' : pkg = pkg2
      BY <1>9, <2>1, <3>4
    <3>6. Broadcast' # {} => drawn'[Coordinator] > 0
      BY <1>9, <2>1, <2>2, <2>4, <3>3
    <3>7. ASSUME NEW pkg \in Broadcast'
          PROVE  Cardinality(Signers(pkg)) = scenario.t
      BY <1>9, <2>1, <3>3
    <3>8. ASSUME NEW pkg \in Broadcast', db'[Coordinator].session, NEW q \in Signers(pkg)
          PROVE  db'[Coordinator].commits[q] = pkg[q]
      BY <1>3, <1>9, <2>4, <3>1, <3>8
    <3>9. QED
      BY <3>5, <3>6, <3>7, <3>8
  <2>5. QED
    BY <2>3, <2>4
<1>13. NoncesUsedUp'
  <2> SUFFICES ASSUME NEW q \in Participant, "share" \notin scenario.faults[q],
                      NEW pkg \in MessagesOf("share", q)'
               PROVE  /\ 0 < pkg[q] /\ pkg[q] <= drawn'[q]
                      /\ db'[q].commits[q] = pkg[q] => db'[q].share # NoPackage
                      /\ \A pkg2 \in MessagesOf("share", q)' : pkg[q] = pkg2[q] => pkg = pkg2
    BY DEF NoncesUsedUp, NoPackage
  <2>1. ASSUME NEW old \in MessagesOf("share", q)
        PROVE  /\ old \in Packages /\ 0 < old[q] /\ old[q] <= drawn[q]
               /\ db[q].commits[q] = old[q] => db[q].share # NoPackage
               /\ \A pkg2 \in MessagesOf("share", q) : old[q] = pkg2[q] => old = pkg2
    <3>1. old \in Packages
      BY <1>1 DEF TypeOK, MessagesOf, ToSet, Content, Kinds
    <3>2. QED
      BY <1>1, <3>1 DEF NoncesUsedUp
  <2>2. /\ drawn[q] \in Nat /\ drawn'[q] \in Nat /\ drawn[q] <= drawn'[q]
        /\ \A old \in MessagesOf("share", q) : old[q] \in Nat
    BY <1>2, <2>1 DEF Packages
  <2>3. CASE q # p
    BY <1>3, <1>5, <2>1, <2>2, <2>3
  <2>4. CASE q = p
    <3>1. \A old \in MessagesOf("share", p) :
             Commitments(p)[p] = old[p] => db[p].commits[p] = old[p]
      BY <1>2, <1>4, <2>1, <2>2, <2>4 DEF DrawsNonce
    <3>2. "share" \in kinds =>
            /\ SigPackage(p)[p] = Commitments(p)[p] /\ db[p].share = NoPackage
            /\ Commitments(p)[p] <= drawn'[p]
      BY <1>5 DEF Signs
    <3>3. MessagesOf("share", p)' = IF "share" \in kinds
                                    THEN MessagesOf("share", p) \union {SigPackage(p)}
                                    ELSE MessagesOf("share", p)
      BY <1>5 DEF Message
    <3>4. 0 < pkg[p] /\ pkg[p] <= drawn'[p]
      BY <1>4, <2>1, <2>2, <2>4, <3>2, <3>3
    <3>5. \A pkg2 \in MessagesOf("share", p)' : pkg[p] = pkg2[p] => pkg = pkg2
      BY <2>1, <2>4, <3>1, <3>2, <3>3
    <3>6. ASSUME row.commits[p] = pkg[p], row.share = NoPackage
          PROVE  FALSE
      <4>1. "share" \notin kinds /\ db[p].share = NoPackage
        BY <2>4, <3>4, <3>6
      <4>2. pkg \in MessagesOf("share", p)
        BY <2>4, <3>3, <4>1
      <4>3. db[p].commits[p] = pkg[p]
        BY <3>1, <3>4, <3>6, <4>2
      <4>4. QED
        BY <2>1, <2>4, <4>1, <4>2, <4>3
    <3>7. QED
      BY <1>3, <2>4, <3>4, <3>5, <3>6
  <2>5. QED
    BY <2>3, <2>4
<1>14. QED
  BY <1>6, <1>7, <1>8, <1>11, <1>12, <1>13 DEF SignInv

----------------------------------------------------------------------------
(* The rows after the phases of a call.                                    *)
LEMMA FreshTyped ==
    /\ Fresh \in Tables /\ [Fresh EXCEPT !.session = TRUE] \in Tables
    /\ ~Fresh.session
    /\ \A row \in {Fresh, [Fresh EXCEPT !.session = TRUE]} :
         /\ row.nonce = 0 /\ row.package = NoPackage /\ row.share = NoPackage
         /\ \A p \in Participant : row.commits[p] = 0
<1>1. NoPackage \in Packages
  BY DEF NoPackage, Packages
<1>2. [q \in Participant |-> NoPackage] \in [Participant -> Packages]
  BY <1>1
<1>3. \A p \in Participant : NoPackage[p] = 0
  BY DEF NoPackage
<1> DEFINE none == NoPackage
           nones == [q \in Participant |-> NoPackage]
<1>4. Fresh = [session |-> FALSE, mailbox |-> FALSE, nonce |-> 0, package |-> none,
               share |-> none, commits |-> none, shares |-> nones]
  BY DEF Fresh
<1> HIDE DEF none, nones
<1>5. /\ none \in Packages /\ nones \in [Participant -> Packages]
      /\ \A p \in Participant : none[p] = 0
  BY <1>1, <1>2, <1>3 DEF none, nones
<1>6. Fresh \in Tables
  BY <1>4, <1>5 DEF Tables
<1>7. [Fresh EXCEPT !.session = TRUE] \in Tables
  BY <1>6 DEF Tables
<1>8. /\ ~Fresh.session /\ Fresh.nonce = 0 /\ Fresh.package = none /\ Fresh.share = none
      /\ Fresh.commits = none
  BY <1>4
<1>9. \A row \in {[Fresh EXCEPT !.session = TRUE]} :
        /\ row.nonce = 0 /\ row.package = none /\ row.share = none
        /\ row.commits = none
  BY <1>6, <1>8 DEF Tables
<1>10. QED
  BY <1>5, <1>6, <1>7, <1>8, <1>9 DEF none

LEMMA RowsTyped ==
    ASSUME TypeOK, NEW p \in Participant
    PROVE  /\ AfterDecoding(p) \in Tables /\ AfterCommitments(p) \in Tables
           /\ AfterPackages(p) \in Tables /\ AfterShares(p) \in Tables
           /\ AfterDecoding(p).nonce = db[p].nonce
           /\ AfterDecoding(p).commits[p] = db[p].commits[p]
           /\ \A row \in {AfterCommitments(p), AfterPackages(p), AfterShares(p)} :
                row.commits = Commitments(p) /\ row.nonce = Commitments(p)[p]
           /\ \A row \in {AfterDecoding(p), AfterCommitments(p)} : row.package = db[p].package
           /\ \A row \in {AfterPackages(p), AfterShares(p)} : row.package = SigPackage(p)
           /\ \A row \in {AfterDecoding(p), AfterCommitments(p), AfterPackages(p)} :
                row.share = db[p].share
           /\ AfterShares(p).share = SigShare(p)
<1> DEFINE com == Commitments(p)
           own == [com EXCEPT ![p] = db[p].commits[p]]
           pkg == SigPackage(p)
           shr == SigShare(p)
           shs == SigShares(p)
           row == db[p]
<1>1. /\ row \in Tables /\ com \in Packages /\ pkg \in Packages /\ shr \in Packages
      /\ shs \in [Participant -> Packages] /\ row.commits[p] \in Nat
  BY CommitmentsTyped, PackageTyped, SharesTyped DEF TypeOK, Tables, Packages
<1>2. own \in Packages /\ own[p] = row.commits[p] /\ com[p] \in Nat
  BY <1>1 DEF Packages
<1>3. /\ AfterDecoding(p) = [row EXCEPT !.mailbox = TRUE, !.commits = own]
      /\ AfterCommitments(p) = [row EXCEPT !.mailbox = TRUE, !.commits = com, !.nonce = com[p]]
      /\ AfterPackages(p) = [AfterCommitments(p) EXCEPT !.package = pkg]
      /\ AfterShares(p) = [AfterPackages(p) EXCEPT !.share = shr, !.shares = shs]
  BY DEF AfterDecoding, AfterCommitments, AfterPackages, AfterShares
<1> HIDE DEF com, own, pkg, shr, shs, row
<1>4. AfterDecoding(p) \in Tables /\ AfterCommitments(p) \in Tables
  BY <1>1, <1>2, <1>3 DEF Tables
<1>5. AfterPackages(p) \in Tables
  BY <1>1, <1>3, <1>4 DEF Tables
<1>6. AfterShares(p) \in Tables
  BY <1>1, <1>3, <1>5 DEF Tables
<1>7. /\ AfterDecoding(p).nonce = row.nonce /\ AfterDecoding(p).commits = own
      /\ AfterDecoding(p).package = row.package /\ AfterDecoding(p).share = row.share
  BY <1>1, <1>3 DEF Tables
<1>8. /\ AfterCommitments(p).commits = com /\ AfterCommitments(p).nonce = com[p]
      /\ AfterCommitments(p).package = row.package /\ AfterCommitments(p).share = row.share
  BY <1>1, <1>3 DEF Tables
<1>9. /\ AfterPackages(p).commits = com /\ AfterPackages(p).nonce = com[p]
      /\ AfterPackages(p).package = pkg /\ AfterPackages(p).share = row.share
  BY <1>3, <1>4, <1>8 DEF Tables
<1>10. /\ AfterShares(p).commits = com /\ AfterShares(p).nonce = com[p]
       /\ AfterShares(p).package = pkg /\ AfterShares(p).share = shr
  BY <1>3, <1>5, <1>9 DEF Tables
<1>11. QED
  BY <1>2, <1>4, <1>5, <1>6, <1>7, <1>8, <1>9, <1>10 DEF com, pkg, shr, row

(* The steps.                                                              *)
LEMMA PublishesKinds ==
    ASSUME NEW p \in Participant
    PROVE  /\ Publishes(p) \in SUBSET Kinds
           /\ MakesPackage(p) <=> "package" \in Publishes(p)
           /\ Signs(p) /\ p # Coordinator <=> "share" \in Publishes(p)
           /\ "commitment" \in Publishes(p) => p # Coordinator /\ DrawsNonce(p)
           /\ MakesPackage(p) => p = Coordinator
BY DEF Publishes, Kinds, MakesPackage

LEMMA CallKeepsInv ==
    ASSUME SignInv, NEW p \in Participant, Call(p) \/ CallRefused(p), UNCHANGED scenario
    PROVE  SignInv'
<1> DEFINE row == IF Finishes(p) THEN Fresh ELSE AfterShares(p)
<1>1. TypeOK /\ NoncesDrawn
  BY DEF SignInv
<1>2. /\ Send(p, Publishes(p)) /\ mined' = mined /\ db[p].session
      /\ db' = [db EXCEPT ![p] = row]
      /\ sent' \in Answers /\ lost' \in 0 .. MaxLost
  <2>1. lost \in 0 .. MaxLost /\ sent \in Answers
    BY <1>1 DEF TypeOK
  <2>2. CASE Call(p)
    <3>1. /\ Send(p, Publishes(p)) /\ UNCHANGED <<mined, lost>> /\ db[p].session
          /\ db' = [db EXCEPT ![p] = row]
          /\ sent' = sent \/ sent' = "accepted"
      BY <2>2 DEF Call
    <3>2. QED
      BY <2>1, <3>1 DEF Answers
  <2>3. CASE CallRefused(p)
    <3>1. Finishes(p)
      BY <2>3 DEF CallRefused, Aggregates, Finishes
    <3>2. /\ Send(p, Publishes(p)) /\ mined' = mined /\ db[p].session
          /\ db' = [db EXCEPT ![p] = Fresh] /\ lost < MaxLost /\ lost' = lost + 1
          /\ sent' = sent \/ sent' = "refused"
      BY <2>3 DEF CallRefused
    <3>3. lost' \in 0 .. MaxLost /\ sent' \in Answers
      BY <2>1, <3>2, BoundAssumption DEF Answers
    <3>4. QED
      BY <3>1, <3>2, <3>3
  <2>4. QED
    BY <2>2, <2>3
<1>3. /\ row \in Tables /\ row.commits[p] = row.nonce
      /\ row.commits[p] = 0 \/ row.commits = Commitments(p)
      /\ row.package = NoPackage \/ row.package = SigPackage(p)
      /\ row.session => row.commits = Commitments(p)
      /\ row.share = NoPackage => row.commits[p] = 0 \/ SigShare(p) = NoPackage
  BY <1>1, FreshTyped, RowsTyped
<1> HIDE DEF row
<1>4. SigShare(p) = NoPackage => ~Signs(p) /\ db[p].share = NoPackage
  BY <1>1, SharesTyped
<1>5. /\ Publishes(p) \in SUBSET Kinds
      /\ MakesPackage(p) => "package" \in Publishes(p)
      /\ "share" \in Publishes(p) => Signs(p)
  BY PublishesKinds
<1> DEFINE kinds == Publishes(p)
<1>6. Send(p, kinds) /\ mined' = mined /\ kinds \in SUBSET Kinds
  BY <1>2, <1>5
<1> HIDE DEF kinds
<1>7. SendsMessages(p, kinds) /\ Commitments(p)[p] <= drawn'[p] /\ drawn'[p] \in Nat
  BY <1>1, <1>6, SendMessages DEF SendsMessages
<1>8. CompleteRow(p, kinds, row)
  BY <1>3, <1>4, <1>5, <1>7 DEF CompleteRow, kinds
<1>9. kinds \in SUBSET Publishes(p) /\ lost' \in 0 .. MaxLost
  BY <1>2 DEF kinds
<1>10. QED
  BY <1>2, <1>6, <1>7, <1>8, <1>9, CallKeeps

(* The row left before the commit of a phase.                              *)
LEMMA RowBefore ==
    ASSUME SignInv, NEW p \in Participant, NEW kind \in Publishes(p), NEW kinds,
           drawn'[p] \in Nat, drawn[p] <= drawn'[p],
           kind # "commitment" => Commitments(p)[p] <= drawn'[p],
           kind # "share" => "share" \notin kinds,
           kind = "share" => "share" \in scenario.faults[p] \/ kinds = {}
    PROVE  CompleteRow(p, kinds, Before(p, kind))
<1> DEFINE row == Before(p, kind)
<1>1. TypeOK /\ NoncesDrawn
  BY DEF SignInv
<1>2. /\ db[p].commits[p] = db[p].nonce /\ db[p].commits[p] <= drawn[p]
      /\ db[p].commits[p] \in Nat /\ drawn[p] \in Nat
  BY <1>1 DEF TypeOK, NoncesDrawn, Tables, Packages
<1>3. db[p].commits[p] <= drawn'[p]
  BY <1>2
<1>4. /\ kind \in Kinds
      /\ kind = "commitment" => p # Coordinator
      /\ kind = "package" => p = Coordinator
      /\ kind = "share" => Signs(p) /\ p # Coordinator
      /\ MakesPackage(p) => p = Coordinator
  BY PublishesKinds DEF Kinds
<1>5. CASE kind = "commitment"
  <2>1. row = AfterDecoding(p)
    BY <1>5 DEF Before
  <2>2. /\ row \in Tables /\ row.commits[p] = db[p].commits[p] /\ row.nonce = db[p].nonce
        /\ row.package = db[p].package /\ row.share = db[p].share
    BY <1>1, <2>1, RowsTyped
  <2> HIDE DEF row
  <2>3. CompleteRow(p, kinds, row)
    BY <1>2, <1>3, <1>4, <1>5, <2>2 DEF CompleteRow
  <2>4. QED
    BY <2>3 DEF row
<1>6. CASE kind = "package"
  <2>1. row = AfterCommitments(p)
    BY <1>6 DEF Before
  <2>2. /\ row \in Tables /\ row.commits = Commitments(p) /\ row.nonce = Commitments(p)[p]
        /\ row.package = db[p].package /\ row.share = db[p].share
    BY <1>1, <2>1, RowsTyped
  <2> HIDE DEF row
  <2>3. CompleteRow(p, kinds, row)
    BY <1>6, <2>2 DEF CompleteRow
  <2>4. QED
    BY <2>3 DEF row
<1>7. CASE kind = "share"
  <2>1. row = AfterPackages(p)
    BY <1>7 DEF Before
  <2>2. /\ row \in Tables /\ row.commits = Commitments(p) /\ row.nonce = Commitments(p)[p]
        /\ row.package = SigPackage(p) /\ row.share = db[p].share
    BY <1>1, <2>1, RowsTyped
  <2>3. db[p].share = NoPackage
    BY <1>4, <1>7 DEF Signs
  <2> HIDE DEF row
  <2>4. CompleteRow(p, kinds, row)
    BY <1>4, <1>7, <2>2, <2>3 DEF CompleteRow
  <2>5. QED
    BY <2>4 DEF row
<1>8. QED
  BY <1>4, <1>5, <1>6, <1>7 DEF Kinds

LEMMA CallLostKeepsInv ==
    ASSUME SignInv, NEW p \in Participant, NEW kind \in Faults, CallLost(p, kind),
           scenario' = scenario
    PROVE  SignInv'
<1> DEFINE kinds == IF kind = "commitment" THEN {kind} ELSE Publishes(p)
           row == Before(p, kind)
<1>1. TypeOK /\ NoncesDrawn /\ lost \in 0 .. MaxLost /\ sent \in Answers
  BY DEF SignInv, TypeOK
<1>2. /\ db[p].session /\ Send(p, kinds) /\ mined' = mined /\ kind \in scenario.faults[p]
      /\ db' = [db EXCEPT ![p] = row]
      /\ lost' \in 0 .. MaxLost /\ sent' \in Answers
      /\ kind \in Publishes(p) \/ (kind = "send" /\ Aggregates(p))
  <2>1. /\ db[p].session /\ Send(p, kinds) /\ mined' = mined /\ kind \in scenario.faults[p]
        /\ db' = [db EXCEPT ![p] = row] /\ lost < MaxLost /\ lost' = lost + 1
    BY DEF CallLost
  <2>2. /\ sent' = sent \/ sent' = "accepted"
        /\ kind \in Publishes(p) \/ (kind = "send" /\ Aggregates(p))
    BY Zenon DEF CallLost
  <2>3. lost' \in 0 .. MaxLost
    BY <1>1, <2>1, BoundAssumption
  <2>4. sent' \in Answers
    BY <1>1, <2>2 DEF Answers
  <2>5. QED
    BY <2>1, <2>2, <2>3, <2>4
<1>3. /\ Publishes(p) \in SUBSET Kinds
      /\ MakesPackage(p) => "package" \in Publishes(p)
      /\ "share" \in Publishes(p) => Signs(p) /\ p # Coordinator
      /\ MakesPackage(p) => p = Coordinator
  BY PublishesKinds
<1>4. kinds \in SUBSET Publishes(p) /\ kinds \in SUBSET Kinds
  BY <1>2, <1>3
<1>5. /\ kind = "package" => p = Coordinator
      /\ kind # "commitment" => kinds = Publishes(p)
      /\ kind = "commitment" => kinds = {"commitment"}
  BY <1>2, PublishesKinds
<1> HIDE DEF kinds
<1>6. SendsMessages(p, kinds) /\ Commitments(p)[p] <= drawn'[p]
      /\ drawn'[p] \in Nat /\ drawn[p] <= drawn'[p]
  BY <1>1, <1>2, <1>4, SendMessages DEF SendsMessages
<1>7. CompleteRow(p, kinds, row)
  <2>1. CASE kind \in Publishes(p)
    <3>1. kind # "share" => "share" \notin kinds
      BY <1>3, <1>5, <2>1 DEF Kinds
    <3>2. QED
      BY <1>2, <1>3, <1>6, <2>1, <3>1, RowBefore
  <2>2. CASE kind = "send"
    <3>1. row = AfterShares(p) /\ Signed(p)
      BY <1>2, <1>3, <2>2 DEF Before, Aggregates, Kinds
    <3>2. /\ row \in Tables /\ row.commits = Commitments(p) /\ row.nonce = Commitments(p)[p]
          /\ row.package = SigPackage(p) /\ row.share = SigShare(p)
      BY <1>1, <3>1, RowsTyped
    <3>3. row.share # NoPackage
      BY <1>1, <3>1, <3>2, SharesTyped DEF Signed
    <3> HIDE DEF row
    <3>4. QED
      BY <1>3, <1>5, <1>6, <2>2, <3>2, <3>3 DEF CompleteRow
  <2>3. QED
    BY <1>2, <2>1, <2>2
<1> HIDE DEF row
<1>8. QED
  BY <1>2, <1>4, <1>6, <1>7, CallKeeps

LEMMA CallRejectedKeepsInv ==
    ASSUME SignInv, NEW p \in Participant, NEW kind \in Kinds, CallRejected(p, kind),
           scenario' = scenario
    PROVE  SignInv'
<1> DEFINE row == Before(p, kind)
<1>1. TypeOK /\ NoncesDrawn /\ lost \in 0 .. MaxLost /\ sent \in Answers /\ drawn[p] \in Nat
  BY DEF SignInv, TypeOK
<1>2. /\ db[p].session /\ mined' = mined /\ kind \in Publishes(p)
      /\ IF kind = "commitment" THEN UNCHANGED <<drawn, pending>> ELSE Send(p, {})
      /\ db' = [db EXCEPT ![p] = row]
      /\ lost' \in 0 .. MaxLost /\ sent' \in Answers
  BY <1>1 DEF CallRejected
<1>3. /\ SendsMessages(p, {})
      /\ drawn'[p] \in Nat /\ drawn[p] <= drawn'[p]
      /\ kind # "commitment" => Commitments(p)[p] <= drawn'[p]
  <2>1. CASE kind = "commitment"
    <3>1. drawn' = drawn /\ pending' = pending
      BY <1>2, <2>1
    <3>2. DOMAIN pending' = Kinds
      BY <1>1, <3>1 DEF TypeOK
    <3>3. \A k \in Kinds : pending'[k] \in [Participant -> SUBSET Content(k)]
      BY <1>1, <3>1 DEF TypeOK
    <3>4. \A k \in Kinds, q \in Participant : MessagesOf(k, q)' = MessagesOf(k, q)
      BY <1>2, <3>1 DEF MessagesOf
    <3>5. drawn' \in [Participant -> Nat] /\ \A q \in Participant : drawn[q] <= drawn'[q]
      BY <1>1, <3>1 DEF TypeOK
    <3>6. QED
      BY <2>1, <3>2, <3>3, <3>4, <3>5 DEF SendsMessages
  <2>2. CASE kind # "commitment"
    <3>1. Send(p, {}) /\ {} \in SUBSET Kinds
      BY <1>2, <2>2
    <3>2. QED
      BY <1>1, <1>2, <3>1, SendMessages DEF SendsMessages
  <2>3. QED
    BY <2>1, <2>2
<1>4. CompleteRow(p, {}, row)
  BY <1>2, <1>3, RowBefore
<1> HIDE DEF row
<1>5. QED
  BY <1>2, <1>3, <1>4, CallKeeps

LEMMA CancelKeepsInv ==
    ASSUME SignInv, NEW p \in Participant, Cancel(p), scenario' = scenario
    PROVE  SignInv'
<1>1. TypeOK /\ NoncesDrawn /\ lost \in 0 .. MaxLost /\ sent \in Answers
  BY DEF SignInv, TypeOK
<1>2. /\ db[p].session /\ mined' = mined /\ drawn' = drawn /\ pending' = pending
      /\ db' = [db EXCEPT ![p] = Fresh]
      /\ lost' \in 0 .. MaxLost /\ sent' \in Answers
  BY <1>1, BoundAssumption DEF Cancel
<1>3. SendsMessages(p, {})
  <2>1. DOMAIN pending' = Kinds
    BY <1>1, <1>2 DEF TypeOK
  <2>2. \A k \in Kinds : pending'[k] \in [Participant -> SUBSET Content(k)]
    BY <1>1, <1>2 DEF TypeOK
  <2>3. \A k \in Kinds, q \in Participant : MessagesOf(k, q)' = MessagesOf(k, q)
    BY <1>2 DEF MessagesOf
  <2>4. drawn' \in [Participant -> Nat] /\ \A q \in Participant : drawn[q] <= drawn'[q]
    BY <1>1, <1>2 DEF TypeOK
  <2>5. QED
    BY <2>1, <2>2, <2>3, <2>4 DEF SendsMessages
<1>4. CompleteRow(p, {}, Fresh)
  <2>1. /\ Fresh \in Tables /\ ~Fresh.session /\ Fresh.nonce = 0 /\ Fresh.package = NoPackage
        /\ Fresh.commits[p] = 0
    BY FreshTyped
  <2>2. drawn'[p] \in Nat
    BY <1>1, <1>2 DEF TypeOK
  <2>3. QED
    BY <2>1, <2>2 DEF CompleteRow
<1>5. QED
  BY <1>2, <1>3, <1>4, CallKeeps

LEMMA InitSignKeepsInv ==
    ASSUME SignInv, NEW p \in Participant, InitSign(p), scenario' = scenario
    PROVE  SignInv'
<1> DEFINE row == [Fresh EXCEPT !.session = TRUE]
<1>1. /\ TypeOK /\ NoncesDrawn /\ Roles /\ FromBroadcast /\ CommitmentsKept /\ NoncesUsedUp
      /\ Coordinator \in Participant
  BY CoordinatorAssumption DEF SignInv
<1>2. /\ db' = [db EXCEPT ![p] = row]
      /\ drawn[p] = 0 \/ "cancel" \in scenario.faults[p]
      /\ drawn' = drawn /\ pending' = pending /\ mined' = mined /\ sent' = sent /\ lost' = lost
  BY DEF InitSign
<1>3. /\ row \in Tables /\ row.nonce = 0 /\ row.package = NoPackage
      /\ \A q \in Participant : row.commits[q] = 0
  BY FreshTyped
<1> HIDE DEF row
<1>4. /\ db \in [Participant -> Tables] /\ drawn \in [Participant -> Nat]
      /\ \A q \in Participant : db[q].commits[q] = db[q].nonce
  BY <1>1 DEF TypeOK
<1>5. /\ db'[p] = row
      /\ \A q \in Participant \ {p} : db'[q] = db[q]
  BY <1>2, <1>4
<1>6. /\ \A kind \in Kinds, q \in Participant : MessagesOf(kind, q)' = MessagesOf(kind, q)
      /\ Broadcast' = Broadcast /\ NoPackage' = NoPackage
  BY <1>2 DEF MessagesOf, Broadcast, NoPackage
<1>7. TypeOK'
  <2>1. db' \in [Participant -> Tables]
    BY <1>2, <1>3, <1>4
  <2>2. \A q \in Participant : db'[q].commits[q] = db'[q].nonce
    BY <1>3, <1>4, <1>5
  <2>3. QED
    BY <1>1, <1>2, <2>1, <2>2 DEF TypeOK
<1>8. NoncesDrawn'
  BY <1>1, <1>2, <1>3, <1>4, <1>5 DEF NoncesDrawn
<1>9. Roles' /\ FromBroadcast'
  BY <1>1, <1>3, <1>5, <1>6 DEF Roles, FromBroadcast, Kinds
<1>10. CommitmentsKept'
  <2> SUFFICES ASSUME "cancel" \notin scenario.faults[Coordinator]
               PROVE  /\ \A pkg, pkg2 \in Broadcast' : pkg = pkg2
                      /\ Broadcast' # {} => drawn'[Coordinator] > 0
                      /\ \A pkg \in Broadcast' :
                          /\ Cardinality(Signers(pkg)) = scenario.t
                          /\ db'[Coordinator].session =>
                               \A q \in Signers(pkg) : db'[Coordinator].commits[q] = pkg[q]
    BY DEF CommitmentsKept, OnePackage, Broadcast, Signers
  <2>1. /\ \A pkg, pkg2 \in Broadcast : pkg = pkg2
        /\ Broadcast # {} => drawn[Coordinator] > 0
        /\ \A pkg \in Broadcast :
             /\ Cardinality(Signers(pkg)) = scenario.t
             /\ db[Coordinator].session =>
                  \A q \in Signers(pkg) : db[Coordinator].commits[q] = pkg[q]
    BY <1>1 DEF CommitmentsKept, OnePackage, Broadcast
  <2>2. CASE p = Coordinator
    <3>1. Broadcast = {}
      BY <1>2, <2>1, <2>2
    <3>2. QED
      BY <1>6, <3>1
  <2>3. CASE p # Coordinator
    BY <1>1, <1>2, <1>5, <1>6, <2>1, <2>3
  <2>4. QED
    BY <2>2, <2>3
<1>11. NoncesUsedUp'
  <2> SUFFICES ASSUME NEW q \in Participant, "share" \notin scenario.faults[q],
                      NEW pkg \in MessagesOf("share", q)
               PROVE  /\ 0 < pkg[q] /\ pkg[q] <= drawn'[q]
                      /\ db'[q].commits[q] = pkg[q] => db'[q].share # NoPackage
                      /\ \A pkg2 \in MessagesOf("share", q) : pkg[q] = pkg2[q] => pkg = pkg2
    BY <1>6 DEF NoncesUsedUp, NoPackage, Kinds
  <2>1. QED
    BY <1>1, <1>2, <1>3, <1>5 DEF NoncesUsedUp
<1>12. QED
  BY <1>7, <1>8, <1>9, <1>10, <1>11 DEF SignInv

(* What is mined was sent: the messages are the same.                      *)
LEMMA MineKeepsMessages ==
    ASSUME TypeOK, NEW p \in Participant, NEW kind \in Kinds, Mine(p, kind),
           scenario' = scenario
    PROVE  /\ TypeOK'
           /\ \A kind2 \in Kinds, q \in Participant :
                MessagesOf(kind2, q)' = MessagesOf(kind2, q)
<1> DEFINE C == Content(kind)
           sends == pending[kind]
           chain == mined[kind]
<1>1. PICK message \in pending[kind][p] :
        /\ pending' = [pending EXCEPT ![kind][p] = @ \ {message}]
        /\ mined' = [mined EXCEPT ![kind][p] = Append(@, message)]
        /\ UNCHANGED <<db, drawn, sent, lost>>
  BY DEF Mine
<1>2. /\ sends \in [Participant -> SUBSET C] /\ chain \in [Participant -> Seq(C)]
      /\ DOMAIN pending = Kinds /\ DOMAIN mined = Kinds
      /\ message \in C /\ message \in sends[p]
  BY <1>1 DEF TypeOK
<1>3. /\ pending' = [pending EXCEPT ![kind] = [sends EXCEPT ![p] = sends[p] \ {message}]]
      /\ mined' = [mined EXCEPT ![kind] = [chain EXCEPT ![p] = Append(chain[p], message)]]
  BY <1>1
<1>4. /\ DOMAIN pending' = Kinds /\ DOMAIN mined' = Kinds
      /\ pending'[kind] = [sends EXCEPT ![p] = sends[p] \ {message}]
      /\ mined'[kind] = [chain EXCEPT ![p] = Append(chain[p], message)]
      /\ \A kind2 \in Kinds \ {kind} :
           pending'[kind2] = pending[kind2] /\ mined'[kind2] = mined[kind2]
  BY <1>2, <1>3
<1> HIDE DEF C, sends, chain
<1>5. /\ pending'[kind] \in [Participant -> SUBSET C]
      /\ mined'[kind] \in [Participant -> Seq(C)]
  BY <1>2, <1>4
<1>6. TypeOK'
  <2>1. ASSUME NEW kind2 \in Kinds
        PROVE  /\ pending'[kind2] \in [Participant -> SUBSET Content(kind2)]
               /\ mined'[kind2] \in [Participant -> Seq(Content(kind2))]
    BY <1>4, <1>5 DEF TypeOK, C
  <2>2. QED
    BY <1>1, <1>4, <2>1 DEF TypeOK
<1>7. ToSet(Append(chain[p], message)) = ToSet(chain[p]) \union {message}
  <2>1. chain[p] \in Seq(C) /\ message \in C
    BY <1>2
  <2>2. /\ DOMAIN Append(chain[p], message) = DOMAIN chain[p] \union {Len(chain[p]) + 1}
        /\ \A i \in DOMAIN chain[p] : Append(chain[p], message)[i] = chain[p][i]
        /\ Append(chain[p], message)[Len(chain[p]) + 1] = message
    BY <2>1
  <2>3. QED
    BY <2>1, <2>2 DEF ToSet
<1>8. ASSUME NEW kind2 \in Kinds, NEW q \in Participant
      PROVE  pending'[kind2][q] \union ToSet(mined'[kind2][q])
             = pending[kind2][q] \union ToSet(mined[kind2][q])
  <2>1. CASE kind2 = kind /\ q = p
    <3>1. /\ pending'[kind][p] = sends[p] \ {message}
          /\ ToSet(mined'[kind][p]) = ToSet(chain[p]) \union {message}
      BY <1>2, <1>4, <1>7
    <3>2. QED
      BY <1>2, <2>1, <3>1 DEF sends, chain
  <2>2. CASE kind2 = kind /\ q # p
    BY <1>2, <1>4, <2>2 DEF sends, chain
  <2>3. CASE kind2 # kind
    BY <1>4, <2>3
  <2>4. QED
    BY <2>1, <2>2, <2>3
<1>9. QED
  BY <1>6, <1>8 DEF MessagesOf

LEMMA SameMessagesKeepInv ==
    ASSUME SignInv, TypeOK', UNCHANGED <<scenario, db, drawn>>,
           \A kind \in Kinds, q \in Participant : MessagesOf(kind, q)' = MessagesOf(kind, q)
    PROVE  SignInv'
<1>1. /\ NoncesDrawn /\ Roles /\ FromBroadcast /\ CommitmentsKept /\ NoncesUsedUp
      /\ Coordinator \in Participant
  BY CoordinatorAssumption DEF SignInv
<1>2. Broadcast' = Broadcast /\ NoPackage' = NoPackage
  BY <1>1 DEF Broadcast, NoPackage, Kinds
<1>3. NoncesDrawn'
  BY <1>1 DEF NoncesDrawn
<1>4. Roles' /\ FromBroadcast'
  BY <1>1, <1>2 DEF Roles, FromBroadcast, Kinds
<1>5. CommitmentsKept'
  <2>1. OnePackage' = OnePackage
    BY <1>1 DEF OnePackage, Kinds
  <2>2. QED
    BY <1>1, <1>2, <2>1 DEF CommitmentsKept, Signers
<1>6. NoncesUsedUp'
  BY <1>1, <1>2 DEF NoncesUsedUp, Kinds
<1>7. QED
  BY <1>3, <1>4, <1>5, <1>6 DEF SignInv

LEMMA SignInvInit ==
    ASSUME Init
    PROVE  SignInv
<1>1. /\ Fresh \in Tables /\ ~Fresh.session /\ Fresh.nonce = 0 /\ Fresh.package = NoPackage
      /\ \A q \in Participant : Fresh.commits[q] = 0
  BY FreshTyped
<1>2. Coordinator \in Participant
  BY CoordinatorAssumption
<1>3. \A kind \in Kinds, q \in Participant :
        MessagesOf(kind, q) = {} /\ pending[kind][q] = {} /\ mined[kind][q] = <<>>
  BY DEF Init, MessagesOf, ToSet
<1>4. TypeOK
  <2>1. ASSUME NEW kind \in Kinds
        PROVE  /\ pending[kind] \in [Participant -> SUBSET Content(kind)]
               /\ mined[kind] \in [Participant -> Seq(Content(kind))]
    BY DEF Init
  <2>2. db \in [Participant -> Tables] /\ \A p \in Participant : db[p].commits[p] = db[p].nonce
    BY <1>1 DEF Init
  <2>3. DOMAIN pending = Kinds /\ DOMAIN mined = Kinds
    BY DEF Init
  <2>4. drawn \in [Participant -> Nat] /\ lost \in 0 .. MaxLost
    BY BoundAssumption DEF Init
  <2>5. scenario \in Scenarios /\ sent \in Answers
    BY DEF Init, Answers
  <2>6. QED
    BY <2>1, <2>2, <2>3, <2>4, <2>5 DEF TypeOK
<1>5. NoncesDrawn
  BY <1>1 DEF Init, NoncesDrawn
<1>6. Roles /\ FromBroadcast
  BY <1>1, <1>2, <1>3 DEF Init, Roles, FromBroadcast, Kinds
<1>7. CommitmentsKept /\ NoncesUsedUp
  BY <1>2, <1>3 DEF CommitmentsKept, NoncesUsedUp, OnePackage, Broadcast, Kinds
<1>8. QED
  BY <1>4, <1>5, <1>6, <1>7 DEF SignInv

LEMMA SignInvStep ==
    ASSUME SignInv, [Next]_vars
    PROVE  SignInv'
<1>1. CASE UNCHANGED vars
  <2>1. UNCHANGED <<scenario, db, drawn, pending, mined, sent, lost>>
    BY <1>1 DEF vars
  <2>2. TypeOK'
    BY <2>1 DEF SignInv, TypeOK
  <2>3. \A kind \in Kinds, q \in Participant : MessagesOf(kind, q)' = MessagesOf(kind, q)
    BY <2>1 DEF MessagesOf
  <2>4. QED
    BY <2>1, <2>2, <2>3, SameMessagesKeepInv
<1>2. CASE Next
  <2>1. scenario' = scenario
    BY <1>2 DEF Next
  <2>2. ASSUME NEW p \in Participant, InitSign(p)
        PROVE  SignInv'
    BY <2>1, <2>2, InitSignKeepsInv
  <2>3. ASSUME NEW p \in Participant, Call(p) \/ CallRefused(p)
        PROVE  SignInv'
    BY <2>1, <2>3, CallKeepsInv
  <2>4. ASSUME NEW p \in Participant, Cancel(p)
        PROVE  SignInv'
    BY <2>1, <2>4, CancelKeepsInv
  <2>5. ASSUME NEW p \in Participant, NEW kind \in Faults, CallLost(p, kind)
        PROVE  SignInv'
    BY <2>1, <2>5, CallLostKeepsInv
  <2>6. ASSUME NEW p \in Participant, NEW kind \in Kinds, CallRejected(p, kind)
        PROVE  SignInv'
    BY <2>1, <2>6, CallRejectedKeepsInv
  <2>7. ASSUME NEW p \in Participant, NEW kind \in Kinds, Mine(p, kind)
        PROVE  SignInv'
    <3>1. /\ TypeOK'
          /\ \A kind2 \in Kinds, q \in Participant :
               MessagesOf(kind2, q)' = MessagesOf(kind2, q)
      BY <2>1, <2>7, MineKeepsMessages DEF SignInv
    <3>2. db' = db /\ drawn' = drawn
      BY <2>7 DEF Mine
    <3>3. QED
      BY <2>1, <3>1, <3>2, SameMessagesKeepInv
  <2>8. QED
    BY <1>2, <2>2, <2>3, <2>4, <2>5, <2>6, <2>7 DEF Next
<1>3. QED
  BY <1>1, <1>2

(* The invariant says what the runs check.                                 *)
LEMMA SignInvImplies ==
    ASSUME SignInv
    PROVE  TypeOK /\ OnePackage /\ NonceSignsOnce
<1>1. TypeOK /\ OnePackage
  BY DEF SignInv, CommitmentsKept, OnePackage
<1>2. ASSUME NEW p \in Participant,
             ~("share" \in scenario.faults[p] /\ "cancel" \in scenario.faults[Coordinator]),
             NEW pkg \in MessagesOf("share", p), NEW pkg2 \in MessagesOf("share", p),
             pkg[p] = pkg2[p]
      PROVE  pkg = pkg2
  <2>1. CASE "share" \notin scenario.faults[p]
    BY <1>2, <2>1 DEF SignInv, NoncesUsedUp
  <2>2. CASE "cancel" \notin scenario.faults[Coordinator]
    BY <1>1, <2>2 DEF SignInv, FromBroadcast, Broadcast, OnePackage
  <2>3. QED
    BY <1>2, <2>1, <2>2
<1>3. QED
  BY <1>1, <1>2 DEF NonceSignsOnce

----------------------------------------------------------------------------
(* The tables and the messages of a signing are well formed.               *)
THEOREM TypeCorrect == Spec => []TypeOK
<1>1. Init => SignInv
  BY SignInvInit
<1>2. SignInv /\ [Next]_vars => SignInv'
  BY SignInvStep
<1>3. SignInv => TypeOK
  BY SignInvImplies
<1>4. QED
  BY <1>1, <1>2, <1>3, PTL DEF Spec

(* The coordinator broadcasts one package, unless it cancels: do_sign_impl *)
(* may be repeated after any lost answer, and other commitments come in.   *)
THEOREM OnePackageEver == Spec => []OnePackage
<1>1. Init => SignInv
  BY SignInvInit
<1>2. SignInv /\ [Next]_vars => SignInv'
  BY SignInvStep
<1>3. SignInv => OnePackage
  BY SignInvImplies
<1>4. QED
  BY <1>1, <1>2, <1>3, PTL DEF Spec

(* Nonces sign one package, unless the answer to a share is lost and the   *)
(* coordinator cancels and makes another package with its commitment.      *)
THEOREM NoncesSignOnce == Spec => []NonceSignsOnce
<1>1. Init => SignInv
  BY SignInvInit
<1>2. SignInv /\ [Next]_vars => SignInv'
  BY SignInvStep
<1>3. SignInv => NonceSignsOnce
  BY SignInvImplies
<1>4. QED
  BY <1>1, <1>2, <1>3, PTL DEF Spec
=============================================================================
