--------------------------- MODULE FrostDkg_proofs ---------------------------
(***************************************************************************)
(* Proofs about the key generation, for any number of participants, any    *)
(* threshold and any crashes, lost answers and cancellations: everybody    *)
(* holds the same packages, whoever computes a key computes the same key,  *)
(* from secrets that are still there, and a shared account has its key.    *)
(*                                                                         *)
(* The invariant has one idea for each.  A package that is stored is the   *)
(* first one mined of its sender and round, and what is first stays so.    *)
(* Packages of round 2 are made from the secret of round 1 that is stored, *)
(* never from one that was lost: a participant stores it in the            *)
(* transaction before, and only cancelling removes it.  So a key, whose    *)
(* shares of round 2 verify against the packages of round 1, is made from  *)
(* the secrets its owners kept.                                            *)
(***************************************************************************)
EXTENDS FrostDkg, TLAPS

(* A package that is stored is the first that was mined.                   *)
FirstOnes ==
    \A p, q \in Participant, r \in Rounds :
        peers[p][r][q] # 0 =>
            mined[q][r] # <<>> /\ peers[p][r][q] = Head(mined[q][r])

(* The version of a package of round 2 is that of the secret of round 1,   *)
(* unless the participant has cancelled.                                   *)
Own(p, v) == IF secret[p][1] = 0 THEN ~active[p] ELSE v = secret[p][1]

SharesOfSecret ==
    \A p \in Participant :
        /\ \A v \in pending[p][2] : Own(p, v)
        /\ mined[p][2] # <<>> => Own(p, Head(mined[p][2]))

(* The shares of the others verify against a key or a future key.          *)
Verified(p, key) ==
    \A q \in Others(p) :
        /\ mined[q][1] # <<>> /\ mined[q][2] # <<>>
        /\ key[q] = Head(mined[q][1]) /\ key[q] = Head(mined[q][2])

KeysVerified ==
    \A p \in Participant :
        keyPkg[p] # NoKey =>
            /\ secret[p][1] # 0 /\ keyPkg[p][p] = secret[p][1]
            /\ Verified(p, keyPkg[p])

(* What is known where a call stands, unless the user has cancelled.       *)
AtItsPlace ==
    \A p \in Participant :
        active[p] =>
            /\ pc[p] = "part3" /\ keyPkg[p] = NoKey =>
                  secret[p][1] # 0 /\ Verified(p, GroupKey(p))
            /\ pc[p] = "part3" /\ keyPkg[p] # NoKey => pubPkg[p]
            /\ pc[p] \notin {"idle", "part3"} => keyPkg[p] # NoKey
            /\ pc[p] \notin {"idle", "part3", "public"} => pubPkg[p]

DkgInv == TypeOK /\ FirstOnes /\ SharesOfSecret /\ KeysVerified /\ AtItsPlace /\ KeyNotLost

----------------------------------------------------------------------------
(* The first package mined stays the first.                                *)
LEMMA FirstStays ==
    ASSUME NEW s \in Seq(Nat), NEW v \in Nat
    PROVE  /\ Append(s, v) \in Seq(Nat) /\ Append(s, v) # <<>>
           /\ s # <<>> => Head(Append(s, v)) = Head(s)
           /\ s = <<>> => Head(Append(s, v)) = v
<1>1. Append(s, v) \in Seq(Nat) /\ Len(Append(s, v)) = Len(s) + 1 /\ Len(s) \in Nat
  OBVIOUS
<1>2. Append(s, v) # <<>>
  BY <1>1
<1>3. Head(Append(s, v)) = Append(s, v)[1]
  BY <1>1
<1>4. CASE s # <<>>
  <2>1. Len(s) >= 1
    BY <1>1, <1>4
  <2>2. Append(s, v)[1] = s[1]
    BY <2>1
  <2> QED BY <1>1, <1>2, <1>3, <1>4, <2>2
<1>5. CASE s = <<>>
  <2>1. Append(s, v)[1] = v
    BY <1>5
  <2> QED BY <1>1, <1>2, <1>3, <1>5, <2>1
<1> QED BY <1>4, <1>5

(* The parts of the type invariant.                                        *)
LEMMA Types ==
    ASSUME TypeOK, NEW p \in Participant
    PROVE  /\ \A r \in Rounds : made[p][r] \in Nat /\ secret[p][r] \in Nat
                                /\ pending[p][r] \in SUBSET Nat /\ mined[p][r] \in Seq(Nat)
           /\ \A r \in Rounds, q \in Participant : peers[p][r][q] \in Nat
           /\ accounts[p] \in Nat /\ pc[p] \in Labels
BY DEF TypeOK, Versions

(* What decode_dkg_memos gives is the first package, or nothing.           *)
LEMMA DecodedFirst ==
    ASSUME TypeOK, FirstOnes, NEW p \in Participant, NEW q \in Participant, NEW r \in Rounds
    PROVE  /\ decode_dkg_memos(p, r)[q] \in Nat
           /\ decode_dkg_memos(p, r)[q] # 0 =>
                mined[q][r] # <<>> /\ decode_dkg_memos(p, r)[q] = Head(mined[q][r])
<1>1. mined[q][r] \in Seq(Nat) /\ peers[p][r][q] \in Nat
  BY Types
<1>2. mined[q][r] # <<>> => Head(mined[q][r]) \in Nat
  BY <1>1
<1>3. decode_dkg_memos(p, r)[q]
        = IF peers[p][r][q] # 0 \/ mined[q][r] = <<>> \/ (r = 2 /\ q = p)
          THEN peers[p][r][q] ELSE Head(mined[q][r])
  BY DEF decode_dkg_memos
<1> QED BY <1>1, <1>2, <1>3 DEF FirstOnes

LEMMA InitDkg ==
    ASSUME Init
    PROVE  DkgInv
<1>1. TypeOK
  BY BoundAssumption DEF Init, TypeOK, Rounds, Versions, NoKey, Labels
<1>2. FirstOnes
  BY DEF Init, FirstOnes
<1>3. SharesOfSecret
  BY DEF Init, SharesOfSecret, Rounds
<1>4. KeysVerified
  BY DEF Init, KeysVerified
<1>5. AtItsPlace
  BY DEF Init, AtItsPlace
<1>6. KeyNotLost
  BY DEF Init, KeyNotLost
<1> QED BY <1>1, <1>2, <1>3, <1>4, <1>5, <1>6 DEF DkgInv

----------------------------------------------------------------------------
(* What a call does to the tables of its participant: the rounds it comes  *)
(* to are decoded, packages published, and secrets stored for some of the  *)
(* rounds that had none.  A package of round 2 is published only with a    *)
(* secret of round 1 that is stored, or is being stored.                   *)
LEMMA Sent ==
    ASSUME DkgInv, NEW p \in Participant, NEW R1, NEW R2, NEW R3,
           Decode(p, R1), Publish(p, R2), Store(p, R3),
           active[p], R3 \subseteq R2, \A r \in R2 : r \in Rounds /\ secret[p][r] = 0,
           2 \in R2 => secret[p][1] # 0 \/ 1 \in R3,
           UNCHANGED <<t, flaky, mined, keyPkg, pubPkg, accounts, moved, active>>,
           pc' \in [Participant -> Labels]
    PROVE  /\ TypeOK' /\ FirstOnes' /\ SharesOfSecret' /\ KeysVerified'
           /\ \A r \in R3 : secret'[p][r] = NewSecret(p, r)
           /\ \A r \in Rounds \ R3 : secret'[p][r] = secret[p][r]
           /\ \A q \in Participant \ {p} : secret'[q] = secret[q] /\ peers'[q] = peers[q]
           /\ \A r \in R1 \intersect Rounds : peers'[p][r] = decode_dkg_memos(p, r)
<1>1. TypeOK
  BY DEF DkgInv
<1>2. ASSUME NEW r \in Rounds PROVE NewSecret(p, r) \in Nat
  BY <1>1, Types DEF NewSecret, Rounds
<1>3. /\ \A r \in Rounds : secret'[p][r] = IF r \in R3 THEN NewSecret(p, r) ELSE secret[p][r]
      /\ \A q \in Participant \ {p} : secret'[q] = secret[q]
      /\ secret' \in [Participant -> [Rounds -> Nat]]
  <2> DEFINE row == [r \in Rounds |-> IF r \in R3 THEN NewSecret(p, r) ELSE secret[p][r]]
  <2>1. secret' = [secret EXCEPT ![p] = row]
    BY DEF Store
  <2>2. row \in [Rounds -> Nat]
    BY <1>1, <1>2, Types
  <2>3. secret \in [Participant -> [Rounds -> Nat]]
    BY <1>1 DEF TypeOK, Versions
  <2>4. \A r \in Rounds : row[r] = IF r \in R3 THEN NewSecret(p, r) ELSE secret[p][r]
    OBVIOUS
  <2> HIDE DEF row
  <2> QED BY <2>1, <2>2, <2>3, <2>4
<1>4. /\ \A r \in Rounds : peers'[p][r] = IF r \in R1 THEN decode_dkg_memos(p, r) ELSE peers[p][r]
      /\ \A q \in Participant \ {p} : peers'[q] = peers[q]
      /\ peers' \in [Participant -> [Rounds -> [Participant -> Nat]]]
  <2> DEFINE row == [r \in Rounds |-> IF r \in R1 THEN decode_dkg_memos(p, r) ELSE peers[p][r]]
  <2>1. peers' = [peers EXCEPT ![p] = row]
    BY DEF Decode
  <2>2. ASSUME NEW r \in Rounds PROVE decode_dkg_memos(p, r) \in [Participant -> Nat]
    <3>1. decode_dkg_memos(p, r) = [q \in Participant |-> decode_dkg_memos(p, r)[q]]
      BY DEF decode_dkg_memos
    <3>2. \A q \in Participant : decode_dkg_memos(p, r)[q] \in Nat
      BY DecodedFirst DEF DkgInv
    <3> QED BY <3>1, <3>2
  <2>3. peers \in [Participant -> [Rounds -> [Participant -> Nat]]]
    BY <1>1 DEF TypeOK, Versions
  <2>4. row \in [Rounds -> [Participant -> Nat]]
    BY <2>2, <2>3
  <2>5. \A r \in Rounds : row[r] = IF r \in R1 THEN decode_dkg_memos(p, r) ELSE peers[p][r]
    OBVIOUS
  <2> HIDE DEF row
  <2> QED BY <2>1, <2>3, <2>4, <2>5
<1>5. /\ \A r \in Rounds : made'[p][r] = IF r \in R2 THEN made[p][r] + 1 ELSE made[p][r]
      /\ \A q \in Participant \ {p} : made'[q] = made[q]
      /\ made' \in [Participant -> [Rounds -> Nat]]
  <2> DEFINE row == [r \in Rounds |-> IF r \in R2 THEN made[p][r] + 1 ELSE made[p][r]]
  <2>1. made' = [made EXCEPT ![p] = row]
    BY DEF Publish
  <2>2. row \in [Rounds -> Nat]
    BY <1>1, Types
  <2>3. made \in [Participant -> [Rounds -> Nat]]
    BY <1>1 DEF TypeOK
  <2>4. \A r \in Rounds : row[r] = IF r \in R2 THEN made[p][r] + 1 ELSE made[p][r]
    OBVIOUS
  <2> HIDE DEF row
  <2> QED BY <2>1, <2>2, <2>3, <2>4
<1>6. /\ \A r \in Rounds : pending'[p][r] = IF r \in R2 THEN pending[p][r] \union {NewSecret(p, r)}
                                              ELSE pending[p][r]
      /\ \A q \in Participant \ {p} : pending'[q] = pending[q]
      /\ pending' \in [Participant -> [Rounds -> SUBSET Nat]]
  <2> DEFINE row == [r \in Rounds |-> IF r \in R2 THEN pending[p][r] \union {NewSecret(p, r)}
                                      ELSE pending[p][r]]
  <2>1. pending' = [pending EXCEPT ![p] = row]
    BY DEF Publish
  <2>2. row \in [Rounds -> SUBSET Nat]
    BY <1>1, <1>2, Types
  <2>3. pending \in [Participant -> [Rounds -> SUBSET Nat]]
    BY <1>1 DEF TypeOK, Versions
  <2>4. \A r \in Rounds : row[r] = IF r \in R2 THEN pending[p][r] \union {NewSecret(p, r)}
                                     ELSE pending[p][r]
    OBVIOUS
  <2> HIDE DEF row
  <2> QED BY <2>1, <2>2, <2>3, <2>4
<1>7. TypeOK'
  <2>1. ASSUME NEW q \in Participant, NEW r \in Rounds PROVE made'[q][r] <= MaxMade[r]
    <3>1. made[q][r] <= MaxMade[r] /\ made[q][r] \in Nat /\ MaxMade[r] \in Nat
      BY <1>1, Types, BoundAssumption DEF TypeOK, Rounds
    <3>2. r \in R2 => made[p][r] < MaxMade[r]
      BY DEF Publish
    <3> QED BY <1>5, <3>1, <3>2
  <2>2. ASSUME NEW q \in Participant, NEW r \in {0, 1} PROVE secret'[q][r] <= made'[q][r]
    <3>3. r \in Rounds
      BY DEF Rounds
    <3>4. secret[q][r] <= made[q][r]
      BY <1>1 DEF TypeOK
    <3>1. secret[q][r] <= made[q][r] /\ made[q][r] \in Nat /\ r \in Rounds
      BY <1>1, <3>3, <3>4, Types
    <3>2. NewSecret(p, r) = made[p][r] + 1
      BY DEF NewSecret
    <3> QED BY <1>3, <1>5, <3>1, <3>2
  <2> QED BY <1>1, <1>3, <1>4, <1>5, <1>6, <2>1, <2>2 DEF TypeOK, Versions
<1>8. FirstOnes'
  <2> SUFFICES ASSUME NEW q \in Participant, NEW q2 \in Participant, NEW r \in Rounds,
                      peers'[q][r][q2] # 0
               PROVE  mined[q2][r] # <<>> /\ peers'[q][r][q2] = Head(mined[q2][r])
    BY DEF FirstOnes
  <2>1. CASE q = p /\ r \in R1
    BY <1>1, <1>4, <2>1, DecodedFirst DEF DkgInv
  <2>2. CASE q # p \/ r \notin R1
    <3>1. peers'[q][r][q2] = peers[q][r][q2]
      BY <1>4, <2>2
    <3> QED BY <3>1 DEF DkgInv, FirstOnes
  <2> QED BY <2>1, <2>2
<1>9. 2 \in R2 => NewSecret(p, 2) = secret'[p][1] /\ secret'[p][1] # 0
  <2>1. NewSecret(p, 1) = made[p][1] + 1 /\ made[p][1] \in Nat
    BY <1>1, Types DEF NewSecret, Rounds
  <2>2. secret[p][1] # 0 => NewSecret(p, 2) = secret[p][1] /\ 1 \notin R3
    BY DEF NewSecret
  <2>3. secret[p][1] = 0 => NewSecret(p, 2) = NewSecret(p, 1)
    BY DEF NewSecret
  <2>4. secret'[p][1] = IF 1 \in R3 THEN NewSecret(p, 1) ELSE secret[p][1]
    BY <1>3 DEF Rounds
  <2> QED BY <2>1, <2>2, <2>3, <2>4
<1>10. secret[p][1] # 0 => secret'[p][1] = secret[p][1]
  BY <1>3 DEF Rounds
<1>11. SharesOfSecret'
  <2>1. active' = active /\ mined' = mined
    OBVIOUS
  <2>2. ASSUME NEW v, Own(p, v) PROVE Own(p, v)'
    BY <1>10, <2>1, <2>2 DEF Own
  <2>3. ASSUME NEW q \in Participant, q # p, NEW v, Own(q, v) PROVE Own(q, v)'
    BY <1>3, <2>1, <2>3 DEF Own
  <2>4. ASSUME NEW v \in pending'[p][2] PROVE Own(p, v)'
    <3>1. v \in pending[p][2] \/ (2 \in R2 /\ v = NewSecret(p, 2))
      BY <1>6 DEF Rounds
    <3>2. CASE v \in pending[p][2]
      BY <2>2, <3>2 DEF DkgInv, SharesOfSecret
    <3>3. CASE 2 \in R2 /\ v = NewSecret(p, 2)
      BY <1>9, <3>3 DEF Own
    <3> QED BY <3>1, <3>2, <3>3
  <2>5. ASSUME NEW q \in Participant, q # p, NEW v \in pending'[q][2] PROVE Own(q, v)'
    BY <1>6, <2>3, <2>5 DEF DkgInv, SharesOfSecret
  <2>6. ASSUME NEW q \in Participant, mined'[q][2] # <<>> PROVE Own(q, Head(mined[q][2]))'
    <3>1. Own(q, Head(mined[q][2]))
      BY <2>1, <2>6 DEF DkgInv, SharesOfSecret
    <3>2. CASE q = p
      BY <1>10, <2>1, <3>1, <3>2 DEF Own
    <3>3. CASE q # p
      BY <1>3, <2>1, <3>1, <3>3 DEF Own
    <3> QED BY <3>2, <3>3
  <2> QED BY <2>4, <2>5, <2>6 DEF SharesOfSecret
<1>12. KeysVerified'
  <2> SUFFICES ASSUME NEW q \in Participant, keyPkg[q] # NoKey
               PROVE  /\ secret'[q][1] # 0 /\ keyPkg[q][q] = secret'[q][1]
                      /\ Verified(q, keyPkg[q])
    BY DEF KeysVerified, Verified
  <2>1. secret[q][1] # 0 /\ keyPkg[q][q] = secret[q][1] /\ Verified(q, keyPkg[q])
    BY DEF DkgInv, KeysVerified
  <2>2. secret'[q][1] = secret[q][1]
    BY <1>3, <1>10, <2>1
  <2> QED BY <2>1, <2>2
<1>13. \A r \in R3 : secret'[p][r] = NewSecret(p, r)
  BY <1>3
<1> QED BY <1>3, <1>4, <1>7, <1>8, <1>11, <1>12, <1>13

----------------------------------------------------------------------------
(* The other participants stand where they stood: nothing they rely on     *)
(* changes with what p sends.                                              *)
LEMMA OthersAtPlace ==
    ASSUME DkgInv, NEW p \in Participant, NEW q \in Participant \ {p},
           pc'[q] = pc[q], secret'[q] = secret[q], peers'[q] = peers[q],
           keyPkg'[q] = keyPkg[q], pubPkg'[q] = pubPkg[q],
           active'[q] => active[q], mined' = mined
    PROVE  active'[q] =>
           /\ pc'[q] = "part3" /\ keyPkg'[q] = NoKey =>
                  secret'[q][1] # 0 /\ Verified(q, GroupKey(q))'
           /\ pc'[q] = "part3" /\ keyPkg'[q] # NoKey => pubPkg'[q]
           /\ pc'[q] \notin {"idle", "part3"} => keyPkg'[q] # NoKey
           /\ pc'[q] \notin {"idle", "part3", "public"} => pubPkg'[q]
<1>1. GroupKey(q)' = GroupKey(q)
  BY DEF GroupKey
<1>2. Verified(q, GroupKey(q)) => Verified(q, GroupKey(q))'
  BY <1>1 DEF Verified
<1> QED BY <1>1, <1>2 DEF DkgInv, AtItsPlace

(* The rounds to produce have no secret; a call comes to round 2 only      *)
(* after round 1.                                                          *)
LEMMA InOrderOfRounds ==
    ASSUME NEW p \in Participant
    PROVE  /\ \A r \in ToProduce(p) : r \in Rounds /\ secret[p][r] = 0
           /\ 2 \in Reached(p) => 1 \in Reached(p)
           /\ 2 \in Reached(p) => secret[p][1] # 0 \/ 1 \in ToProduce(p)
           /\ Reached(p) \subseteq Rounds
<1>1. 2 \in Reached(p) => 1 \in Reached(p)
  BY DEF Reached, Rounds
<1>2. CanProduce(p, 1)
  BY DEF CanProduce
<1> QED BY <1>1, <1>2 DEF ToProduce, Reached, Rounds

LEMMA LostKeepsDkg ==
    ASSUME DkgInv, NEW p \in Participant, NEW last \in Rounds, RunRoundsLost(p, last),
           UNCHANGED <<t, flaky>>
    PROVE  DkgInv'
<1> DEFINE R1 == Reached(p) \intersect 0 .. last
           R2 == ToProduce(p) \intersect 0 .. last
           R3 == ToProduce(p) \intersect 0 .. last - 1
<1>1. Decode(p, R1) /\ Publish(p, R2) /\ Store(p, R3) /\ active[p]
      /\ UNCHANGED <<pc, mined, keyPkg, pubPkg, accounts, moved, active>>
  BY DEF RunRoundsLost
<1>2. R3 \subseteq R2 /\ \A r \in R2 : r \in Rounds /\ secret[p][r] = 0
  BY InOrderOfRounds DEF Rounds
<1>3. 2 \in R2 => secret[p][1] # 0 \/ 1 \in R3
  BY InOrderOfRounds DEF ToProduce, Rounds
<1>4. pc' \in [Participant -> Labels]
  BY <1>1 DEF DkgInv, TypeOK
<1> HIDE DEF R1, R2, R3
<1>5. /\ TypeOK' /\ FirstOnes' /\ SharesOfSecret' /\ KeysVerified'
      /\ \A q \in Participant \ {p} : secret'[q] = secret[q] /\ peers'[q] = peers[q]
  BY <1>1, <1>2, <1>3, <1>4, Sent
<1>6. pc[p] = "idle" /\ pc' = pc
  BY <1>1 DEF RunRoundsLost
<1>7. AtItsPlace'
  BY <1>1, <1>5, <1>6, OthersAtPlace DEF AtItsPlace
<1>8. KeyNotLost'
  BY <1>1 DEF DkgInv, KeyNotLost, Kept
<1> QED BY <1>5, <1>7, <1>8 DEF DkgInv

(* A message that is rejected leaves no more than one that is lost.        *)
LEMMA RejectedKeepsDkg ==
    ASSUME DkgInv, NEW p \in Participant, NEW last \in Rounds, RunRoundsRejected(p, last),
           UNCHANGED <<t, flaky>>
    PROVE  DkgInv'
<1> DEFINE R1 == Reached(p) \intersect 0 .. last
           R2 == ToProduce(p) \intersect 0 .. last - 1
           R3 == ToProduce(p) \intersect 0 .. last - 1
<1>1. Decode(p, R1) /\ Publish(p, R2) /\ Store(p, R3) /\ active[p]
      /\ UNCHANGED <<pc, mined, keyPkg, pubPkg, accounts, moved, active>>
  BY DEF RunRoundsRejected
<1>2. R3 \subseteq R2 /\ \A r \in R2 : r \in Rounds /\ secret[p][r] = 0
  BY InOrderOfRounds DEF Rounds
<1>3. 2 \in R2 => secret[p][1] # 0 \/ 1 \in R3
  BY InOrderOfRounds DEF ToProduce, Rounds
<1>4. pc' \in [Participant -> Labels]
  BY <1>1 DEF DkgInv, TypeOK
<1> HIDE DEF R1, R2, R3
<1>5. /\ TypeOK' /\ FirstOnes' /\ SharesOfSecret' /\ KeysVerified'
      /\ \A q \in Participant \ {p} : secret'[q] = secret[q] /\ peers'[q] = peers[q]
  BY <1>1, <1>2, <1>3, <1>4, Sent
<1>6. pc[p] = "idle" /\ pc' = pc
  BY <1>1 DEF RunRoundsRejected
<1>7. AtItsPlace'
  BY <1>1, <1>5, <1>6, OthersAtPlace DEF AtItsPlace
<1>8. KeyNotLost'
  BY <1>1 DEF DkgInv, KeyNotLost, Kept
<1> QED BY <1>5, <1>7, <1>8 DEF DkgInv

(* A call that has everything: the shares it has decoded verify against    *)
(* the packages it has stored.                                             *)
LEMMA RunKeepsDkg ==
    ASSUME DkgInv, NEW p \in Participant, RunRounds(p), UNCHANGED <<t, flaky>>
    PROVE  DkgInv'
<1>1. /\ Decode(p, Reached(p)) /\ Publish(p, ToProduce(p)) /\ Store(p, ToProduce(p))
      /\ active[p] /\ UNCHANGED <<mined, keyPkg, pubPkg, accounts, moved, active>>
      /\ pc' = [pc EXCEPT ![p] = IF Completes(p) THEN "part3" ELSE "idle"]
  BY DEF RunRounds
<1>2. \A r \in ToProduce(p) : r \in Rounds /\ secret[p][r] = 0
  BY InOrderOfRounds
<1>3. 2 \in ToProduce(p) => secret[p][1] # 0 \/ 1 \in ToProduce(p)
  BY InOrderOfRounds DEF ToProduce
<1>4. pc \in [Participant -> Labels]
  BY DEF DkgInv, TypeOK
<1>5. pc' \in [Participant -> Labels]
  BY <1>1, <1>4 DEF Labels
<1>6. /\ TypeOK' /\ FirstOnes' /\ SharesOfSecret' /\ KeysVerified'
      /\ \A r \in ToProduce(p) : secret'[p][r] = NewSecret(p, r)
      /\ \A r \in Rounds \ ToProduce(p) : secret'[p][r] = secret[p][r]
      /\ \A q \in Participant \ {p} : secret'[q] = secret[q] /\ peers'[q] = peers[q]
      /\ \A r \in Reached(p) \intersect Rounds : peers'[p][r] = decode_dkg_memos(p, r)
  BY <1>1, <1>2, <1>3, <1>5, Sent
<1>7. ASSUME Completes(p), keyPkg[p] = NoKey
      PROVE  secret'[p][1] # 0 /\ Verified(p, GroupKey(p))'
  <2>1. 2 \in Reached(p) /\ 1 \in Reached(p) /\ SharesVerify(p)
    BY <1>7, InOrderOfRounds DEF Completes
  <2>2. secret'[p][1] # 0
    <3>1. secret[p][1] # 0 => 1 \notin ToProduce(p)
      BY <1>2
    <3>2. NewSecret(p, 1) = made[p][1] + 1 /\ made[p][1] \in Nat
      BY Types DEF NewSecret, DkgInv, Rounds
    <3> QED BY <1>6, <2>1, <3>1, <3>2, InOrderOfRounds DEF Rounds
  <2>3. ASSUME NEW q \in Others(p)
        PROVE  /\ mined[q][1] # <<>> /\ mined[q][2] # <<>>
               /\ peers'[p][1][q] = Head(mined[q][1]) /\ peers'[p][1][q] = Head(mined[q][2])
    <3>1. q \in Participant
      BY DEF Others
    <3>2. decode_dkg_memos(p, 2)[q] # 0 /\ decode_dkg_memos(p, 2)[q] = decode_dkg_memos(p, 1)[q]
      BY <2>1 DEF SharesVerify
    <3>3. peers'[p][1] = decode_dkg_memos(p, 1)
      BY <1>6, <2>1 DEF Rounds
    <3>4. 1 \in Rounds /\ 2 \in Rounds
      BY DEF Rounds
    <3> QED BY <3>1, <3>2, <3>3, <3>4, DecodedFirst DEF DkgInv
  <2>4. \A q \in Others(p) : GroupKey(p)'[q] = peers'[p][1][q]
    BY DEF GroupKey, Others
  <2> QED BY <1>1, <2>2, <2>3, <2>4 DEF Verified
<1>8. Completes(p) /\ keyPkg[p] # NoKey => pubPkg[p]
  BY DEF Completes
<1>9. pc'[p] = (IF Completes(p) THEN "part3" ELSE "idle") /\ \A q \in Participant \ {p} : pc'[q] = pc[q]
  BY <1>1, <1>4
<1>10. AtItsPlace'
  <2>1. ASSUME NEW q \in Participant, q # p
        PROVE  active'[q] =>
               /\ pc'[q] = "part3" /\ keyPkg'[q] = NoKey =>
                      secret'[q][1] # 0 /\ Verified(q, GroupKey(q))'
               /\ pc'[q] = "part3" /\ keyPkg'[q] # NoKey => pubPkg'[q]
               /\ pc'[q] \notin {"idle", "part3"} => keyPkg'[q] # NoKey
               /\ pc'[q] \notin {"idle", "part3", "public"} => pubPkg'[q]
    BY <1>1, <1>6, <1>9, <2>1, OthersAtPlace
  <2>2. /\ pc'[p] = "part3" /\ keyPkg'[p] = NoKey =>
               secret'[p][1] # 0 /\ Verified(p, GroupKey(p))'
        /\ pc'[p] = "part3" /\ keyPkg'[p] # NoKey => pubPkg'[p]
        /\ pc'[p] \in {"idle", "part3"}
    BY <1>1, <1>7, <1>8, <1>9
  <2> QED BY <2>1, <2>2 DEF AtItsPlace
<1>11. KeyNotLost'
  BY <1>1 DEF DkgInv, KeyNotLost, Kept
<1> QED BY <1>6, <1>10, <1>11 DEF DkgInv

----------------------------------------------------------------------------
(* The end of a call changes neither packages nor secrets.                 *)
LEMMA EndKeeps ==
    ASSUME DkgInv, UNCHANGED <<t, flaky, made, pending, mined, secret, peers>>,
           pc' \in [Participant -> Labels],
           keyPkg' \in [Participant -> [Participant -> Versions]],
           pubPkg' \in [Participant -> BOOLEAN],
           accounts' \in [Participant -> 0 .. MaxAccount],
           moved' \in [Participant -> SUBSET Tables],
           active' \in [Participant -> BOOLEAN],
           \A q \in Participant : active'[q] => active[q]
    PROVE  TypeOK' /\ FirstOnes' /\ SharesOfSecret'
<1>1. TypeOK'
  BY DEF DkgInv, TypeOK
<1>2. FirstOnes'
  BY DEF DkgInv, FirstOnes
<1>3. ASSUME NEW q \in Participant, NEW v, Own(q, v) PROVE Own(q, v)'
  BY <1>3 DEF Own
<1>4. SharesOfSecret'
  <2>1. ASSUME NEW q \in Participant, NEW v \in pending'[q][2] PROVE Own(q, v)'
    BY <1>3, <2>1 DEF DkgInv, SharesOfSecret
  <2>2. ASSUME NEW q \in Participant, mined'[q][2] # <<>> PROVE Own(q, Head(mined[q][2]))'
    BY <1>3, <2>2 DEF DkgInv, SharesOfSecret
  <2> QED BY <2>1, <2>2 DEF SharesOfSecret
<1> QED BY <1>1, <1>2, <1>4

(* part3 makes a key of what was verified when the call came to it.        *)
LEMMA Part3Keeps ==
    ASSUME DkgInv, NEW p \in Participant, Part3(p), UNCHANGED <<t, flaky>>
    PROVE  DkgInv'
<1>1. pc[p] = "part3" /\ keyPkg[p] = NoKey
  BY DEF Part3
<1>2. /\ pc' = [pc EXCEPT ![p] = "public"]
      /\ keyPkg' = IF active[p] THEN [keyPkg EXCEPT ![p] = GroupKey(p)] ELSE keyPkg
      /\ UNCHANGED <<made, pending, mined, secret, peers, pubPkg, accounts, moved, active>>
  BY DEF Part3, network
<1>3. TypeOK
  BY DEF DkgInv
<1>4. GroupKey(p) \in [Participant -> Versions]
  BY <1>3, Types DEF GroupKey, Versions, Rounds
<1>5. TypeOK' /\ FirstOnes' /\ SharesOfSecret'
  <2>1. pc' \in [Participant -> Labels]
    BY <1>2, <1>3 DEF TypeOK, Labels
  <2>2. keyPkg' \in [Participant -> [Participant -> Versions]]
    BY <1>2, <1>3, <1>4 DEF TypeOK
  <2> QED BY <1>2, <1>3, <2>1, <2>2, EndKeeps DEF TypeOK
<1>6. /\ keyPkg'[p] = (IF active[p] THEN GroupKey(p) ELSE NoKey) /\ pc'[p] = "public"
      /\ \A q \in Participant \ {p} : keyPkg'[q] = keyPkg[q] /\ pc'[q] = pc[q]
  BY <1>1, <1>2, <1>3 DEF TypeOK
<1>7. active[p] => secret[p][1] # 0 /\ Verified(p, GroupKey(p))
  BY <1>1 DEF DkgInv, AtItsPlace
<1>8. GroupKey(p)[p] = secret[p][1]
  BY DEF GroupKey
<1>9. active[p] => GroupKey(p) # NoKey
  BY <1>7, <1>8 DEF NoKey
<1>10. KeysVerified'
  <2>1. ASSUME NEW q \in Participant, NEW key, Verified(q, key) PROVE Verified(q, key)'
    BY <1>2, <2>1 DEF Verified
  <2>2. keyPkg'[p] # NoKey =>
           secret'[p][1] # 0 /\ keyPkg'[p][p] = secret'[p][1] /\ Verified(p, keyPkg[p])'
    BY <1>2, <1>6, <1>7, <1>8 DEF Verified
  <2>3. ASSUME NEW q \in Participant, q # p, keyPkg'[q] # NoKey
        PROVE  secret'[q][1] # 0 /\ keyPkg'[q][q] = secret'[q][1] /\ Verified(q, keyPkg[q])'
    BY <1>2, <1>6, <2>3 DEF DkgInv, KeysVerified, Verified
  <2> QED BY <2>2, <2>3 DEF KeysVerified
<1>11. AtItsPlace'
  <2>1. ASSUME NEW q \in Participant, q # p
        PROVE  active'[q] =>
               /\ pc'[q] = "part3" /\ keyPkg'[q] = NoKey =>
                      secret'[q][1] # 0 /\ Verified(q, GroupKey(q))'
               /\ pc'[q] = "part3" /\ keyPkg'[q] # NoKey => pubPkg'[q]
               /\ pc'[q] \notin {"idle", "part3"} => keyPkg'[q] # NoKey
               /\ pc'[q] \notin {"idle", "part3", "public"} => pubPkg'[q]
    BY <1>2, <1>6, <2>1, OthersAtPlace
  <2>2. pc'[p] = "public" /\ (active'[p] => keyPkg'[p] # NoKey)
    BY <1>2, <1>6, <1>9
  <2> QED BY <2>1, <2>2 DEF AtItsPlace
<1>12. KeyNotLost'
  <2> SUFFICES ASSUME NEW q \in Participant, accounts[q] > 0, Kept(q)
               PROVE  keyPkg'[q] # NoKey /\ pubPkg[q]
    BY <1>2 DEF KeyNotLost, Kept
  <2>1. keyPkg[q] # NoKey /\ pubPkg[q]
    BY DEF DkgInv, KeyNotLost
  <2> QED BY <1>1, <1>6, <2>1
<1> QED BY <1>5, <1>10, <1>11, <1>12 DEF DkgInv

(* The other steps of the end, and a crash: the key is there already.      *)
LEMMA ProceedKeeps ==
    ASSUME DkgInv, NEW p \in Participant, UNCHANGED <<t, flaky>>,
           \/ StorePublic(p) \/ Reload(p) \/ CreateAccount(p) \/ NothingLeft(p)
           \/ Close(p) \/ Crash(p)
           \/ \E table \in Tables : MoveRows(p, table)
    PROVE  DkgInv'
<1>1. TypeOK
  BY DEF DkgInv
<1>2. /\ UNCHANGED <<made, pending, mined, secret, peers, keyPkg>>
      /\ pc' \in [Participant -> Labels] /\ pubPkg' \in [Participant -> BOOLEAN]
      /\ accounts' \in [Participant -> 0 .. MaxAccount]
      /\ moved' \in [Participant -> SUBSET Tables] /\ active' \in [Participant -> BOOLEAN]
      /\ \A q \in Participant : active'[q] => active[q]
      /\ \A q \in Participant : pubPkg[q] => pubPkg'[q]
      /\ \A q \in Participant \ {p} : /\ pc'[q] = pc[q] /\ pubPkg'[q] = pubPkg[q]
                                     /\ accounts'[q] = accounts[q] /\ active'[q] = active[q]
                                     /\ moved'[q] = moved[q]
  <2>1. CASE StorePublic(p)
    BY <1>1, <2>1 DEF StorePublic, network, TypeOK, Labels
  <2>2. CASE Reload(p)
    BY <1>1, <2>2 DEF Reload, network, local, TypeOK, Labels
  <2>3. CASE CreateAccount(p)
    BY <1>1, <2>3, BoundAssumption DEF CreateAccount, network, TypeOK, Labels
  <2>4. CASE Close(p)
    BY <1>1, <2>4 DEF Close, network, TypeOK, Labels
  <2>5. CASE Crash(p) \/ NothingLeft(p)
    BY <1>1, <2>5 DEF Crash, NothingLeft, network, local, TypeOK, Labels
  <2>6. ASSUME NEW table \in Tables, MoveRows(p, table)
        PROVE  /\ UNCHANGED <<made, pending, mined, secret, peers, keyPkg, pubPkg, accounts, active>>
               /\ pc' \in [Participant -> Labels] /\ moved' \in [Participant -> SUBSET Tables]
               /\ \A q \in Participant \ {p} : pc'[q] = pc[q] /\ moved'[q] = moved[q]
    <3> DEFINE next == CASE table = "params" -> "state"
                          [] table = "state"  -> "peers"
                          [] table = "peers"  -> "close"
    <3>1. next \in Labels
      BY DEF Tables, Labels
    <3>2. /\ pc' = [pc EXCEPT ![p] = next]
          /\ moved' = [moved EXCEPT ![p] = @ \union {table}] \/ moved' = moved
      BY <2>6 DEF MoveRows
    <3>3. UNCHANGED <<made, pending, mined, secret, peers, keyPkg, pubPkg, accounts, active>>
      BY <2>6 DEF MoveRows, network
    <3> HIDE DEF next
    <3>4. pc' \in [Participant -> Labels] /\ \A q \in Participant \ {p} : pc'[q] = pc[q]
      BY <1>1, <3>1, <3>2 DEF TypeOK
    <3>5. moved \in [Participant -> SUBSET Tables]
      BY <1>1 DEF TypeOK
    <3>6. moved' \in [Participant -> SUBSET Tables]
          /\ \A q \in Participant \ {p} : moved'[q] = moved[q]
      BY <3>2, <3>5
    <3> QED BY <3>3, <3>4, <3>6
  <2>7. CASE \E table \in Tables : MoveRows(p, table)
    BY <1>1, <2>6, <2>7 DEF TypeOK
  <2> QED BY <2>1, <2>2, <2>3, <2>4, <2>5, <2>7
<1>3. TypeOK' /\ FirstOnes' /\ SharesOfSecret'
  BY <1>1, <1>2, EndKeeps DEF TypeOK
<1>4. KeysVerified'
  BY <1>2 DEF DkgInv, KeysVerified, Verified
<1>5. /\ pc'[p] # "part3"
      /\ active'[p] /\ pc'[p] \notin {"idle", "part3"} => keyPkg[p] # NoKey
      /\ active'[p] /\ pc'[p] \notin {"idle", "part3", "public"} => pubPkg'[p]
      /\ accounts'[p] > 0 /\ Kept(p)' =>
            (accounts[p] > 0 /\ Kept(p)) \/ (keyPkg[p] # NoKey /\ pubPkg[p])
  <2>1. active[p] =>
        /\ pc[p] = "part3" /\ keyPkg[p] # NoKey => pubPkg[p]
        /\ pc[p] \notin {"idle", "part3"} => keyPkg[p] # NoKey
        /\ pc[p] \notin {"idle", "part3", "public"} => pubPkg[p]
    BY DEF DkgInv, AtItsPlace
  <2>2. /\ pc \in [Participant -> Labels] /\ pubPkg \in [Participant -> BOOLEAN]
        /\ moved \in [Participant -> SUBSET Tables] /\ active \in [Participant -> BOOLEAN]
        /\ accounts \in [Participant -> 0 .. MaxAccount]
    BY <1>1 DEF TypeOK
  <2>3. CASE StorePublic(p)
    BY <2>1, <2>2, <2>3 DEF StorePublic, Kept
  <2>4. CASE Reload(p)
    BY <2>1, <2>2, <2>4 DEF Reload, local, Kept
  <2>5. CASE CreateAccount(p)
    BY <2>1, <2>2, <2>5 DEF CreateAccount, Kept
  <2>6. CASE Close(p)
    BY <2>1, <2>2, <2>6 DEF Close, Kept
  <2>7. CASE Crash(p) \/ NothingLeft(p)
    BY <2>1, <2>2, <2>7 DEF Crash, NothingLeft, local, Kept
  <2>8. ASSUME NEW table \in Tables, MoveRows(p, table)
        PROVE  /\ pc'[p] # "part3" /\ UNCHANGED <<pubPkg, active, accounts>>
               /\ active[p] => keyPkg[p] # NoKey /\ pubPkg[p]
               /\ ~active[p] => moved' = moved
    BY <2>1, <2>2, <2>8 DEF MoveRows, Tables
  <2> QED BY <2>3, <2>4, <2>5, <2>6, <2>7, <2>8 DEF Kept
<1>6. AtItsPlace'
  <2>1. ASSUME NEW q \in Participant, q # p
        PROVE  active'[q] =>
               /\ pc'[q] = "part3" /\ keyPkg'[q] = NoKey =>
                      secret'[q][1] # 0 /\ Verified(q, GroupKey(q))'
               /\ pc'[q] = "part3" /\ keyPkg'[q] # NoKey => pubPkg'[q]
               /\ pc'[q] \notin {"idle", "part3"} => keyPkg'[q] # NoKey
               /\ pc'[q] \notin {"idle", "part3", "public"} => pubPkg'[q]
    BY <1>2, <2>1, OthersAtPlace
  <2> QED BY <1>2, <1>5, <2>1 DEF AtItsPlace
<1>7. KeyNotLost'
  <2> SUFFICES ASSUME NEW q \in Participant, accounts'[q] > 0, Kept(q)'
               PROVE  keyPkg'[q] # NoKey /\ pubPkg'[q]
    BY DEF KeyNotLost
  <2>1. accounts[q] > 0 /\ Kept(q) => keyPkg[q] # NoKey /\ pubPkg[q]
    BY DEF DkgInv, KeyNotLost
  <2>2. CASE q = p
    BY <1>2, <1>5, <2>1, <2>2
  <2>3. CASE q # p
    BY <1>2, <2>1, <2>3 DEF Kept
  <2> QED BY <2>2, <2>3
<1> QED BY <1>3, <1>4, <1>6, <1>7 DEF DkgInv

(* Cancelling removes the secret of round 1 and the key together, or, when *)
(* the rows are the shared account's already, neither.                     *)
LEMMA CancelKeeps ==
    ASSUME DkgInv, NEW p \in Participant, Cancel(p), UNCHANGED <<t, flaky>>
    PROVE  DkgInv'
<1> DEFINE none == [r \in Rounds |-> 0]
           nobody == [r \in Rounds |-> [q \in Participant |-> 0]]
<1>1. TypeOK /\ active[p]
  BY DEF DkgInv, Cancel
<1>2. /\ UNCHANGED <<made, pending, mined, pc, accounts, moved>>
      /\ active' = [active EXCEPT ![p] = FALSE]
      /\ secret' = IF "state" \in moved[p] THEN secret ELSE [secret EXCEPT ![p] = none]
      /\ keyPkg' = IF "state" \in moved[p] THEN keyPkg ELSE [keyPkg EXCEPT ![p] = NoKey]
      /\ peers' = IF "peers" \in moved[p] THEN peers ELSE [peers EXCEPT ![p] = nobody]
      /\ pubPkg' = IF "peers" \in moved[p] THEN pubPkg ELSE [pubPkg EXCEPT ![p] = FALSE]
  BY DEF Cancel, network
<1>3. none \in [Rounds -> Nat] /\ nobody \in [Rounds -> [Participant -> Nat]]
      /\ (\A r \in Rounds : none[r] = 0)
      /\ (\A r \in Rounds, q \in Participant : nobody[r][q] = 0)
  OBVIOUS
<1> HIDE DEF none, nobody
<1>4. /\ active' \in [Participant -> BOOLEAN] /\ ~active'[p]
      /\ \A q \in Participant \ {p} : active'[q] = active[q]
  BY <1>1, <1>2 DEF TypeOK
<1>5. /\ secret' \in [Participant -> [Rounds -> Nat]]
      /\ \A q \in Participant \ {p} : secret'[q] = secret[q]
      /\ secret'[p] = secret[p] \/ secret'[p] = none
      /\ "state" \in moved[p] => secret' = secret
      /\ "state" \notin moved[p] => secret'[p] = none
  BY <1>1, <1>2, <1>3 DEF TypeOK, Versions
<1>6. /\ keyPkg' \in [Participant -> [Participant -> Versions]]
      /\ \A q \in Participant \ {p} : keyPkg'[q] = keyPkg[q]
      /\ "state" \in moved[p] => keyPkg' = keyPkg
      /\ "state" \notin moved[p] => keyPkg'[p] = NoKey
  BY <1>1, <1>2 DEF TypeOK, NoKey, Versions
<1>7. /\ peers' \in [Participant -> [Rounds -> [Participant -> Nat]]]
      /\ \A q \in Participant \ {p} : peers'[q] = peers[q]
      /\ peers'[p] = peers[p] \/ peers'[p] = nobody
  BY <1>1, <1>2, <1>3 DEF TypeOK, Versions
<1>8. /\ pubPkg' \in [Participant -> BOOLEAN]
      /\ \A q \in Participant \ {p} : pubPkg'[q] = pubPkg[q]
      /\ "peers" \in moved[p] => pubPkg' = pubPkg
  BY <1>1, <1>2 DEF TypeOK
<1>9. TypeOK'
  <2>1. ASSUME NEW q \in Participant, NEW r \in {0, 1} PROVE secret'[q][r] <= made'[q][r]
    <3>1. r \in Rounds
      BY DEF Rounds
    <3>2. secret[q][r] <= made[q][r]
      BY <1>1 DEF TypeOK
    <3>3. made[q][r] \in Nat
      BY <1>1, <3>1, Types
    <3>4. secret'[q][r] = secret[q][r] \/ secret'[q][r] = 0
      BY <1>3, <1>5, <3>1
    <3> QED BY <1>2, <3>2, <3>3, <3>4
  <2> QED BY <1>1, <1>2, <1>4, <1>5, <1>6, <1>7, <1>8, <2>1 DEF TypeOK, Versions
<1>10. FirstOnes'
  <2> SUFFICES ASSUME NEW q \in Participant, NEW q2 \in Participant, NEW r \in Rounds,
                      peers'[q][r][q2] # 0
               PROVE  mined[q2][r] # <<>> /\ peers'[q][r][q2] = Head(mined[q2][r])
    BY <1>2 DEF FirstOnes
  <2>1. peers'[q] = peers[q]
    BY <1>3, <1>7
  <2> QED BY <2>1 DEF DkgInv, FirstOnes
<1>11. SharesOfSecret'
  <2>1. ASSUME NEW q \in Participant, NEW v, Own(q, v) PROVE Own(q, v)'
    <3>1. CASE q = p
      BY <1>3, <1>4, <1>5, <2>1, <3>1 DEF Own, Rounds
    <3>2. CASE q # p
      BY <1>4, <1>5, <2>1, <3>2 DEF Own
    <3> QED BY <3>1, <3>2
  <2>2. ASSUME NEW q \in Participant, NEW v \in pending'[q][2] PROVE Own(q, v)'
    BY <1>2, <2>1, <2>2 DEF DkgInv, SharesOfSecret
  <2>3. ASSUME NEW q \in Participant, mined'[q][2] # <<>> PROVE Own(q, Head(mined[q][2]))'
    <3>1. Own(q, Head(mined[q][2]))
      BY <1>2, <2>3 DEF DkgInv, SharesOfSecret
    <3> QED BY <1>2, <2>1, <3>1
  <2> QED BY <2>2, <2>3 DEF SharesOfSecret
<1>12. KeysVerified'
  <2> SUFFICES ASSUME NEW q \in Participant, keyPkg'[q] # NoKey
               PROVE  /\ secret'[q][1] # 0 /\ keyPkg'[q][q] = secret'[q][1]
                      /\ Verified(q, keyPkg[q])'
    BY DEF KeysVerified
  <2>1. keyPkg'[q] = keyPkg[q] /\ secret'[q] = secret[q]
    BY <1>5, <1>6
  <2> QED BY <1>2, <2>1 DEF DkgInv, KeysVerified, Verified
<1>13. AtItsPlace'
  <2>1. ASSUME NEW q \in Participant, q # p
        PROVE  active'[q] =>
               /\ pc'[q] = "part3" /\ keyPkg'[q] = NoKey =>
                      secret'[q][1] # 0 /\ Verified(q, GroupKey(q))'
               /\ pc'[q] = "part3" /\ keyPkg'[q] # NoKey => pubPkg'[q]
               /\ pc'[q] \notin {"idle", "part3"} => keyPkg'[q] # NoKey
               /\ pc'[q] \notin {"idle", "part3", "public"} => pubPkg'[q]
    BY <1>2, <1>4, <1>5, <1>6, <1>7, <1>8, <2>1, OthersAtPlace
  <2> QED BY <1>4, <2>1 DEF AtItsPlace
<1>14. KeyNotLost'
  <2> SUFFICES ASSUME NEW q \in Participant, accounts[q] > 0, Kept(q)'
               PROVE  keyPkg'[q] # NoKey /\ pubPkg'[q]
    BY <1>2 DEF KeyNotLost
  <2>1. CASE q = p
    <3>1. moved[p] = Tables
      BY <1>2, <1>4, <2>1 DEF Kept
    <3>2. keyPkg' = keyPkg /\ pubPkg' = pubPkg
      BY <1>6, <1>8, <3>1 DEF Tables
    <3> QED BY <1>1, <2>1, <3>2 DEF DkgInv, KeyNotLost, Kept
  <2>2. CASE q # p
    BY <1>2, <1>4, <1>6, <1>8, <2>2 DEF DkgInv, KeyNotLost, Kept
  <2> QED BY <2>1, <2>2
<1> QED BY <1>9, <1>10, <1>11, <1>12, <1>13, <1>14 DEF DkgInv

(* What is mined comes after what was mined before.                        *)
LEMMA MineKeeps ==
    ASSUME DkgInv, NEW p \in Participant, NEW r \in Rounds, Mine(p, r), UNCHANGED <<t, flaky>>
    PROVE  DkgInv'
<1>1. PICK v \in pending[p][r] :
        /\ pending' = [pending EXCEPT ![p][r] = @ \ {v}]
        /\ mined' = [mined EXCEPT ![p][r] = Append(@, v)]
        /\ UNCHANGED <<pc, made, local>>
  BY DEF Mine
<1>2. TypeOK
  BY DEF DkgInv
<1>3. UNCHANGED <<pc, made, secret, peers, keyPkg, pubPkg, accounts, moved, active>>
  BY <1>1 DEF local
<1>4. v \in Nat /\ mined[p][r] \in Seq(Nat)
  BY <1>1, <1>2, Types
<1>5. /\ pending' \in [Participant -> [Rounds -> SUBSET Nat]]
      /\ \A q \in Participant, r2 \in Rounds : pending'[q][r2] \subseteq pending[q][r2]
  BY <1>1, <1>2 DEF TypeOK, Versions
<1>6. Append(mined[p][r], v) \in Seq(Nat)
  BY <1>4, FirstStays
<1> DEFINE longer == Append(mined[p][r], v)
<1>7. /\ mined' \in [Participant -> [Rounds -> Seq(Nat)]]
      /\ mined'[p][r] = Append(mined[p][r], v)
      /\ \A q \in Participant, r2 \in Rounds : q # p \/ r2 # r => mined'[q][r2] = mined[q][r2]
  <2>1. mined' = [mined EXCEPT ![p][r] = longer]
    BY <1>1
  <2>2. mined \in [Participant -> [Rounds -> Seq(Nat)]]
    BY <1>2 DEF TypeOK, Versions
  <2>3. longer \in Seq(Nat)
    BY <1>6
  <2> HIDE DEF longer
  <2>4. /\ mined' \in [Participant -> [Rounds -> Seq(Nat)]]
        /\ mined'[p][r] = longer
        /\ \A q \in Participant, r2 \in Rounds : q # p \/ r2 # r => mined'[q][r2] = mined[q][r2]
    BY <2>1, <2>2, <2>3
  <2> QED BY <2>4 DEF longer
<1> HIDE DEF longer
<1>8. ASSUME NEW q \in Participant, NEW r2 \in Rounds, mined[q][r2] # <<>>
      PROVE  mined'[q][r2] # <<>> /\ Head(mined'[q][r2]) = Head(mined[q][r2])
  <2>1. CASE q = p /\ r2 = r
    <3>1. mined[p][r] # <<>>
      BY <1>8, <2>1
    <3>2. Append(mined[p][r], v) # <<>> /\ Head(Append(mined[p][r], v)) = Head(mined[p][r])
      BY <1>4, <3>1, FirstStays
    <3> QED BY <1>7, <2>1, <3>2
  <2>2. CASE q # p \/ r2 # r
    BY <1>7, <1>8, <2>2
  <2> QED BY <2>1, <2>2
<1>9. TypeOK'
  BY <1>2, <1>3, <1>5, <1>7 DEF TypeOK, Versions
<1>10. FirstOnes'
  BY <1>3, <1>8 DEF DkgInv, FirstOnes
<1>11. SharesOfSecret'
  <2>1. ASSUME NEW q \in Participant, NEW v2, Own(q, v2) PROVE Own(q, v2)'
    BY <1>3, <2>1 DEF Own
  <2>2. ASSUME NEW q \in Participant, NEW v2 \in pending'[q][2] PROVE Own(q, v2)'
    <3>1. v2 \in pending[q][2]
      BY <1>5, <2>2 DEF Rounds
    <3> QED BY <2>1, <3>1 DEF DkgInv, SharesOfSecret
  <2>3. ASSUME NEW q \in Participant, mined'[q][2] # <<>> PROVE Own(q, Head(mined'[q][2]))
    <3>1. CASE mined[q][2] # <<>>
      BY <1>8, <3>1 DEF DkgInv, SharesOfSecret, Rounds
    <3>2. CASE mined[q][2] = <<>>
      <4>1. q = p /\ r = 2
        BY <1>7, <2>3, <3>2 DEF Rounds
      <4>2. Head(mined'[q][2]) = v
        BY <1>4, <1>7, <3>2, <4>1, FirstStays
      <4>3. Own(p, v)
        BY <1>1, <4>1 DEF DkgInv, SharesOfSecret
      <4> QED BY <4>1, <4>2, <4>3
    <3> QED BY <3>1, <3>2
  <2> QED BY <1>3, <2>2, <2>3 DEF SharesOfSecret, Own
<1>12. ASSUME NEW q \in Participant, NEW key, Verified(q, key)
       PROVE  \A q2 \in Others(q) :
                /\ mined'[q2][1] # <<>> /\ mined'[q2][2] # <<>>
                /\ key[q2] = Head(mined'[q2][1]) /\ key[q2] = Head(mined'[q2][2])
  BY <1>8, <1>12 DEF Verified, Others, Rounds
<1>13. KeysVerified'
  BY <1>3, <1>12 DEF DkgInv, KeysVerified, Verified
<1>14. AtItsPlace'
  <2>1. \A q \in Participant : GroupKey(q)' = GroupKey(q)
    BY <1>3 DEF GroupKey
  <2> QED BY <1>3, <1>12, <2>1 DEF DkgInv, AtItsPlace, Verified
<1>15. KeyNotLost'
  BY <1>3 DEF DkgInv, KeyNotLost, Kept
<1> QED BY <1>9, <1>10, <1>11, <1>13, <1>14, <1>15 DEF DkgInv

----------------------------------------------------------------------------
LEMMA NextDkg == DkgInv /\ [Next]_vars => DkgInv'
<1> SUFFICES ASSUME DkgInv, [Next]_vars PROVE DkgInv'
  OBVIOUS
<1>1. CASE Next
  <2>1. PICK p \in Participant :
          \/ RunRounds(p)
          \/ \E last \in Rounds : RunRoundsRejected(p, last)
          \/ Proceed(p)
          \/ Fault(p)
          \/ \E r \in Rounds : Mine(p, r)
    BY <1>1 DEF Next
  <2>2. UNCHANGED <<t, flaky>>
    BY <1>1 DEF Next
  <2>3. CASE RunRounds(p)
    BY <2>2, <2>3, RunKeepsDkg
  <2>4. CASE Part3(p)
    BY <2>2, <2>4, Part3Keeps
  <2>5. CASE \/ StorePublic(p) \/ Reload(p) \/ CreateAccount(p) \/ NothingLeft(p)
             \/ Close(p) \/ Crash(p)
             \/ \E table \in Tables : MoveRows(p, table)
    BY <2>2, <2>5, ProceedKeeps
  <2>6. ASSUME NEW last \in Rounds, RunRoundsLost(p, last) PROVE DkgInv'
    BY <2>2, <2>6, LostKeepsDkg
  <2>7. CASE Cancel(p)
    BY <2>2, <2>7, CancelKeeps
  <2>8. ASSUME NEW r \in Rounds, Mine(p, r) PROVE DkgInv'
    BY <2>2, <2>8, MineKeeps
  <2>9. ASSUME NEW last \in Rounds, RunRoundsRejected(p, last) PROVE DkgInv'
    BY <2>2, <2>9, RejectedKeepsDkg
  <2> QED BY <2>1, <2>3, <2>4, <2>5, <2>6, <2>7, <2>8, <2>9 DEF Proceed, Fault
<1>2. CASE UNCHANGED vars
  <2> USE <1>2 DEF vars, network, local
  <2>1. TypeOK'
    BY DEF DkgInv, TypeOK
  <2>2. FirstOnes'
    BY DEF DkgInv, FirstOnes
  <2>3. SharesOfSecret'
    BY DEF DkgInv, SharesOfSecret, Own
  <2>4. KeysVerified'
    BY DEF DkgInv, KeysVerified, Verified
  <2>5. AtItsPlace'
    BY DEF DkgInv, AtItsPlace, Verified, GroupKey
  <2>6. KeyNotLost'
    BY DEF DkgInv, KeyNotLost, Kept
  <2> QED BY <2>1, <2>2, <2>3, <2>4, <2>5, <2>6 DEF DkgInv
<1> QED BY <1>1, <1>2

LEMMA DkgInvariant == Spec => []DkgInv
<1>1. Init => DkgInv
  BY InitDkg
<1> QED BY <1>1, NextDkg, PTL DEF Spec

(* The tables and messages of a key generation are well formed.            *)
THEOREM TypeCorrect == Spec => []TypeOK
<1>1. DkgInv => TypeOK
  BY DEF DkgInv
<1> QED BY <1>1, DkgInvariant, PTL

(* Whatever is lost, repeated or cancelled, two participants never hold    *)
(* different packages of the same sender and round.                        *)
THEOREM EverybodySeesTheSame == Spec => []SameViews
<1>1. DkgInv => SameViews
  BY DEF DkgInv, FirstOnes, SameViews
<1> QED BY <1>1, DkgInvariant, PTL

(* A key is made from the secrets its owners kept, or gave up.             *)
THEOREM KeysAreOwned == Spec => []KeyHasOwners
<1>1. DkgInv => KeyHasOwners
  <2> SUFFICES ASSUME DkgInv, NEW p \in Participant, NEW q \in Participant, keyPkg[p] # NoKey,
                      secret[q][1] # 0
               PROVE  secret[q][1] = keyPkg[p][q]
    BY DEF KeyHasOwners
  <2>1. CASE q = p
    BY <2>1 DEF DkgInv, KeysVerified
  <2>2. CASE q # p
    <3>1. mined[q][2] # <<>> /\ keyPkg[p][q] = Head(mined[q][2])
      BY <2>2 DEF DkgInv, KeysVerified, Verified, Others
    <3>2. Own(q, Head(mined[q][2]))
      BY <3>1 DEF DkgInv, SharesOfSecret
    <3> QED BY <3>1, <3>2 DEF Own
  <2> QED BY <2>1, <2>2
<1> QED BY <1>1, DkgInvariant, PTL

(* All the keys of a generation are the same, whoever computed them and    *)
(* whatever went wrong on the way.                                         *)
THEOREM KeysAgree == Spec => []Agreement
<1>1. DkgInv => Agreement
  <2> SUFFICES ASSUME DkgInv, NEW p \in Participant, NEW p2 \in Participant,
                      keyPkg[p] # NoKey, keyPkg[p2] # NoKey
               PROVE  keyPkg[p] = keyPkg[p2]
    BY DEF Agreement
  <2>1. keyPkg[p] \in [Participant -> Versions] /\ keyPkg[p2] \in [Participant -> Versions]
    BY DEF DkgInv, TypeOK
  <2>2. ASSUME NEW a \in Participant, NEW b \in Participant, keyPkg[a] # NoKey, keyPkg[b] # NoKey, a # b
        PROVE  keyPkg[a][a] = keyPkg[b][a]
    <3>1. secret[a][1] # 0 /\ keyPkg[a][a] = secret[a][1]
      BY <2>2 DEF DkgInv, KeysVerified
    <3>2. mined[a][2] # <<>> /\ keyPkg[b][a] = Head(mined[a][2])
      BY <2>2 DEF DkgInv, KeysVerified, Verified, Others
    <3>3. Own(a, Head(mined[a][2]))
      BY <3>2 DEF DkgInv, SharesOfSecret
    <3> QED BY <3>1, <3>2, <3>3 DEF Own
  <2>3. ASSUME NEW q \in Participant PROVE keyPkg[p][q] = keyPkg[p2][q]
    <3>1. CASE p = p2
      BY <3>1
    <3>2. CASE p # p2 /\ q = p
      BY <2>2, <3>2
    <3>3. CASE p # p2 /\ q = p2
      BY <2>2, <3>3
    <3>4. CASE q # p /\ q # p2
      BY <3>4 DEF DkgInv, KeysVerified, Verified, Others
    <3> QED BY <3>1, <3>2, <3>3, <3>4
  <2> QED BY <2>1, <2>3
<1> QED BY <1>1, DkgInvariant, PTL

(* No crash between the statements at the end leaves a shared account      *)
(* without its key package and public package.                             *)
THEOREM KeyNeverLost == Spec => []KeyNotLost
<1>1. DkgInv => KeyNotLost
  BY DEF DkgInv
<1> QED BY <1>1, DkgInvariant, PTL
=============================================================================
