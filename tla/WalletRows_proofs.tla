------------------------- MODULE WalletRows_proofs --------------------------
(***************************************************************************)
(* Proofs about Accounts and about the wallet file with all its rows.      *)
(*                                                                         *)
(* Of Accounts, for any keys, any number of accounts and folders and any   *)
(* sequence of operations: the tables are well typed, no two accounts have *)
(* the same position, folders exist, and the address of the current index is *)
(* known.  Positions start from 1, which import_account relies on when it  *)
(* puts an account first.                                                  *)
(*                                                                         *)
(* The wallet file implements Accounts: whatever is synchronized, fetched, *)
(* exported or imported meanwhile, its accounts change as Accounts says, and *)
(* so have all that is proved of Accounts.  The step that needs an invariant *)
(* is the import.  Accounts allows it for rows that are well typed and have *)
(* the address of their current index; the row of a file was read by an    *)
(* export long before, from a table that has changed since, and it is the  *)
(* invariant of Accounts at the time of the export that says so.           *)
(*                                                                         *)
(* Then the types of all rows, through imports that give them new          *)
(* identifiers (RowsTyped), for which each operation is first described    *)
(* table by table.                                                         *)
(*                                                                         *)
(* Then what the rows mean.  Whatever is synchronized, fetched, exported,  *)
(* deleted and imported, in any order and with any keys: details that are  *)
(* marked are there, notes keep their witnesses, and an import has exactly *)
(* what was exported, until an account is trimmed or deleted while rows of *)
(* it are in use; and for each account that this did not happen to, its    *)
(* rows are of its own key and its payments keep their categories,         *)
(* whatever happened to others.                                            *)
(*                                                                         *)
(* None of these is inductive.  The rows of a step are right because of    *)
(* what was read before, at other steps, and SoundInv says what of it is   *)
(* still true: a run knows the height of its account, above which there is *)
(* no transaction, and follows every note that is not spent (RunSound); a  *)
(* transaction that is looked up by its txid is the one that was listed    *)
(* (JobSound); an export has all the witnesses up to the height that it    *)
(* read first (ExportSound); and a file has all of this of its own rows    *)
(* (FileSound), so that an import brings only rows that are sound.         *)
(*                                                                         *)
(* OwnInv is what remains for the other accounts once one was overtaken:  *)
(* each has rows of its key that refer to each other, and all of its       *)
(* transactions up to its height.  For an import it needs SoundInv of the  *)
(* file, and it says itself that the file has all the transactions.        *)
(*                                                                         *)
(* Sound and Witnessed speak of any tables, those of the wallet and those  *)
(* of a file, and each operation is shown to keep them as one of a few     *)
(* changes: a trim, tables that are alike, a part of the tables, more      *)
(* details, a block, rows that are renewed under other identifiers.        *)
(***************************************************************************)
EXTENDS WalletRows, TLAPS, FiniteSetTheorems, WellFoundedInduction

PositionsFromOne == \A a \in ids : accounts[a].position # 0

Arranged ==
    /\ AccountTypeOK
    /\ PositionsFromOne
    /\ PositionsDistinct
    /\ FolderExists
    /\ CurrentAddressKnown

----------------------------------------------------------------------------
(* A number from NextAfter is a number, at least the first, and not one of *)
(* those that are used.                                                    *)
LEMMA NextAfterNew ==
    ASSUME NEW used \in SUBSET Nat, NEW first \in Nat, NEW n \in NextAfter(used, first)
    PROVE  n \in Nat /\ n \notin used /\ \A u \in used : u < n
<1>1. n \in Nat /\ \A u \in used : u < n
  BY DEF NextAfter
<1> QED BY <1>1

(* A number from NextAfter is at least the first one.                      *)
LEMMA NextAfterFirst ==
    ASSUME NEW used \in SUBSET Nat, NEW n \in NextAfter(used, 1)
    PROVE  n \in Nat \ {0}
BY DEF NextAfter

(* What a typed state says of one account.                                 *)
LEMMA RowTypes ==
    ASSUME AccountTypeOK, NEW a \in ids
    PROVE  /\ accounts[a] \in Account
           /\ accounts[a].key \in Keys /\ accounts[a].position \in Nat
           /\ accounts[a].dindex \in Nat /\ accounts[a].folder \in Nat
           /\ accounts[a].xvk \in XvkStates /\ accounts[a].saddr \in Int
           /\ a \in Nat \ {0} /\ taddrs[a] \subseteq {0, 1} \X Nat
<1>1. accounts[a] \in Account
  BY DEF AccountTypeOK
<1> QED BY <1>1 DEF Account, AccountTypeOK

(* Tables are typed when each row is.                                      *)
LEMMA TypedByRows ==
    ASSUME NEW acc, NEW addresses, NEW fs,
           acc = [a \in DOMAIN acc |-> acc[a]],
           \A a \in DOMAIN acc : acc[a] \in Account /\ a \in Nat \ {0},
           DOMAIN addresses = DOMAIN acc,
           \A a \in DOMAIN acc : addresses[a] \subseteq {0, 1} \X Nat,
           fs = [f \in DOMAIN fs |-> fs[f]],
           \A f \in DOMAIN fs : f \in Nat \ {0} /\ fs[f] \in FolderNames
    PROVE  /\ acc \in [DOMAIN acc -> Account]
           /\ DOMAIN acc \subseteq Nat \ {0}
           /\ DOMAIN addresses = DOMAIN acc
           /\ \A a \in DOMAIN acc : addresses[a] \subseteq {0, 1} \X Nat
           /\ DOMAIN fs \subseteq Nat \ {0}
           /\ fs \in [DOMAIN fs -> FolderNames]
OBVIOUS

LEMMA InitArranged == AccountInit => Arranged
<1> SUFFICES ASSUME AccountInit PROVE Arranged
  OBVIOUS
<1>1. ids = {} /\ DOMAIN taddrs = {} /\ DOMAIN folders = {}
  BY DEF AccountInit, ids
<1>2. accounts = [a \in ids |-> accounts[a]] /\ folders = [f \in DOMAIN folders |-> folders[f]]
  BY DEF AccountInit, ids
<1>3. AccountTypeOK
  BY <1>1, <1>2, TypedByRows DEF AccountTypeOK, ids
<1> QED
  BY <1>1, <1>3 DEF Arranged, PositionsFromOne, PositionsDistinct, FolderExists, CurrentAddressKnown

----------------------------------------------------------------------------
(* new_account: the position is above all others.                          *)
LEMMA NewArranged ==
    ASSUME Arranged, NEW k \in Keys, NewAccount(k)
    PROVE  Arranged'
<1> USE DEF ids
<1>1. PICK id \in NextId(accounts), position \in NextPosition :
        /\ accounts' = With(accounts, id, NewRow(k, position))
        /\ taddrs' = With(taddrs, id, {0} \X k.firsts)
  BY DEF NewAccount
<1>2. folders' = folders
  BY DEF NewAccount
<1>3. AccountTypeOK /\ ids \in SUBSET Nat
  BY DEF Arranged, AccountTypeOK
<1>4. id \in Nat \ {0} /\ id \notin ids
  BY <1>1, <1>3, NextAfterNew, NextAfterFirst DEF NextId
<1>5. position \in Nat \ {0} /\ \A a \in ids : accounts[a].position < position
  <2> DEFINE used == {accounts[a].position : a \in ids}
  <2>1. used \in SUBSET Nat
    BY <1>3, RowTypes
  <2>2. position \in NextAfter(used, 1)
    BY DEF NextPosition
  <2>3. position \in Nat \ {0} /\ \A u \in used : u < position
    <3> HIDE DEF used
    <3> QED BY <2>1, <2>2, NextAfterNew, NextAfterFirst
  <2> QED BY <2>3
<1>6. k.transparent \in Transparent /\ k.diversifier \in Nat /\ k.firsts \subseteq Nat
      /\ (k.transparent \in {"extended", "hardware"} => k.diversifier \in k.firsts)
  BY KeysAssumption
<1>7. NewRow(k, position) \in Account
  BY <1>5, <1>6 DEF NewRow, Account, XvkStates, Transparent
<1>8. ids' = ids \union {id} /\ accounts'[id] = NewRow(k, position)
      /\ \A a \in ids : accounts'[a] = accounts[a]
  BY <1>1, <1>4 DEF With
<1>9. DOMAIN taddrs' = ids' /\ taddrs'[id] = {0} \X k.firsts
      /\ \A a \in ids : taddrs'[a] = taddrs[a]
  BY <1>1, <1>3, <1>4, <1>8 DEF AccountTypeOK, With
<1>10. accounts' = [a \in ids' |-> accounts'[a]] /\ folders' = [f \in DOMAIN folders' |-> folders'[f]]
  BY <1>1, <1>2, <1>3, <1>8 DEF With, AccountTypeOK
<1>11. AccountTypeOK'
  <2>1. \A a \in ids' : accounts'[a] \in Account /\ a \in Nat \ {0}
    BY <1>3, <1>4, <1>7, <1>8, RowTypes
  <2>2. \A a \in ids' : taddrs'[a] \subseteq {0, 1} \X Nat
    BY <1>3, <1>6, <1>8, <1>9, RowTypes
  <2>3. \A f \in DOMAIN folders' : f \in Nat \ {0} /\ folders'[f] \in FolderNames
    BY <1>2, <1>3 DEF AccountTypeOK
  <2> QED BY <1>9, <1>10, <2>1, <2>2, <2>3, TypedByRows DEF AccountTypeOK
<1>12. accounts'[id].position = position /\ accounts'[id].folder = 0
  BY <1>8 DEF NewRow
<1>13. PositionsFromOne'
  BY <1>5, <1>8, <1>12 DEF PositionsFromOne, Arranged
<1>14. PositionsDistinct'
  <2> SUFFICES ASSUME NEW a \in ids', NEW b \in ids', accounts'[a].position = accounts'[b].position
               PROVE  a = b
    BY DEF PositionsDistinct
  <2>1. CASE a \in ids /\ b \in ids
    BY <1>8, <2>1 DEF PositionsDistinct, Arranged
  <2>2. CASE a = id /\ b \in ids
    BY <1>3, <1>5, <1>8, <1>12, <2>2, RowTypes
  <2>3. CASE a \in ids /\ b = id
    BY <1>3, <1>5, <1>8, <1>12, <2>3, RowTypes
  <2> QED BY <1>8, <2>1, <2>2, <2>3
<1>15. FolderExists'
  BY <1>2, <1>8, <1>12 DEF FolderExists, Arranged
<1>16. CurrentAddressKnown'
  <2>1. ASSUME NEW a \in ids, Derives(accounts'[a]) PROVE <<0, accounts'[a].dindex>> \in taddrs'[a]
    BY <1>8, <1>9, <2>1 DEF CurrentAddressKnown, Arranged
  <2>2. ASSUME Derives(accounts'[id]) PROVE <<0, accounts'[id].dindex>> \in taddrs'[id]
    BY <1>6, <1>8, <1>9, <2>2 DEF Derives, NewRow, Transparent
  <2> QED BY <1>8, <2>1, <2>2 DEF CurrentAddressKnown
<1> QED BY <1>11, <1>13, <1>14, <1>15, <1>16 DEF Arranged

(* delete_account.                                                         *)
LEMMA DeleteArranged ==
    ASSUME Arranged, NEW a \in ids, DeleteAccount(a)
    PROVE  Arranged'
<1> USE DEF ids
<1>1. AccountTypeOK
  BY DEF Arranged
<1>2. ids' = ids \ {a} /\ \A c \in ids' : accounts'[c] = accounts[c]
  BY DEF DeleteAccount, Without
<1>3. DOMAIN taddrs' = ids' /\ \A c \in ids' : taddrs'[c] = taddrs[c]
  BY <1>1, <1>2 DEF DeleteAccount, Without, AccountTypeOK
<1>4. folders' = folders
  BY DEF DeleteAccount
<1>5. accounts' = [c \in ids' |-> accounts'[c]] /\ folders' = [f \in DOMAIN folders' |-> folders'[f]]
  BY <1>1, <1>2, <1>4 DEF DeleteAccount, Without, AccountTypeOK
<1>6. AccountTypeOK'
  <2>1. \A c \in ids' : accounts'[c] \in Account /\ c \in Nat \ {0} /\ taddrs'[c] \subseteq {0, 1} \X Nat
    BY <1>1, <1>2, <1>3, RowTypes
  <2>2. \A f \in DOMAIN folders' : f \in Nat \ {0} /\ folders'[f] \in FolderNames
    BY <1>1, <1>4 DEF AccountTypeOK
  <2> QED BY <1>3, <1>5, <2>1, <2>2, TypedByRows DEF AccountTypeOK
<1>7. PositionsFromOne' /\ PositionsDistinct' /\ FolderExists'
  BY <1>2, <1>4 DEF Arranged, PositionsFromOne, PositionsDistinct, FolderExists
<1>8. CurrentAddressKnown'
  BY <1>2, <1>3 DEF Arranged, CurrentAddressKnown
<1> QED BY <1>6, <1>7, <1>8 DEF Arranged

----------------------------------------------------------------------------
(* Closing the gap an account leaves and making room for it moves no two   *)
(* others to one place, and nobody to where it goes.                       *)
LEMMA ShiftedApart ==
    ASSUME NEW old \in Nat \ {0}, NEW new \in Nat \ {0},
           NEW p \in Nat \ {0}, NEW q \in Nat \ {0}, p # old, q # old
    PROVE  /\ Shifted(p, old, new) \in Nat \ {0}
           /\ Shifted(p, old, new) # new
           /\ Shifted(p, old, new) < Shifted(q, old, new) <=> p < q
           /\ Shifted(p, old, new) = Shifted(q, old, new) => p = q
BY DEF Shifted

(* What a drop onto a position does to each account.                       *)
LEMMA ReorderRows ==
    ASSUME Arranged, NEW a \in ids, NEW new \in Nat \ {0}, ReorderAccount(a, new)
    PROVE  /\ ids' = ids /\ taddrs' = taddrs /\ folders' = folders
           /\ accounts' = [c \in ids |-> accounts'[c]]
           /\ accounts'[a].position = new
           /\ \A c \in ids :
                /\ accounts'[c] \in Account
                /\ c # a => accounts'[c].position
                              = Shifted(accounts[c].position, accounts[a].position, new)
                /\ accounts'[c].position # 0
                /\ accounts'[c].key = accounts[c].key /\ accounts'[c].xvk = accounts[c].xvk
                /\ accounts'[c].dindex = accounts[c].dindex
                /\ accounts'[c].folder = accounts[c].folder
<1> USE DEF ids
<1> DEFINE old == accounts[a].position
           At(c) == IF c = a THEN new ELSE Shifted(accounts[c].position, old, new)
<1>1. accounts' = [c \in ids |-> [accounts[c] EXCEPT !.position = At(c)]]
  BY DEF ReorderAccount
<1>2. taddrs' = taddrs /\ folders' = folders
  BY DEF ReorderAccount
<1>3. AccountTypeOK /\ \A c \in ids : accounts[c].position \in Nat \ {0}
  BY RowTypes DEF Arranged, PositionsFromOne
<1>4. \A c \in ids : c # a => accounts[c].position # old
  BY DEF Arranged, PositionsDistinct
<1>5. ASSUME NEW c \in ids PROVE At(c) \in Nat \ {0}
  BY <1>3, <1>4, ShiftedApart
<1>6. ASSUME NEW c \in ids
      PROVE  /\ accounts'[c] = [accounts[c] EXCEPT !.position = At(c)]
             /\ accounts[c] \in Account
  BY <1>1, <1>3, RowTypes
<1> HIDE DEF At
<1>7. ASSUME NEW c \in ids
      PROVE  /\ accounts'[c] \in Account /\ accounts'[c].position = At(c)
             /\ accounts'[c].key = accounts[c].key /\ accounts'[c].xvk = accounts[c].xvk
             /\ accounts'[c].dindex = accounts[c].dindex
             /\ accounts'[c].folder = accounts[c].folder
  BY <1>5, <1>6 DEF Account
<1> USE DEF At
<1>8. ids' = ids
  BY <1>1
<1>9. accounts' = [c \in ids |-> accounts'[c]]
  BY <1>1
<1> QED BY <1>2, <1>5, <1>7, <1>8, <1>9

LEMMA ReorderArranged ==
    ASSUME Arranged, NEW a \in ids, NEW new \in Nat \ {0}, ReorderAccount(a, new)
    PROVE  Arranged'
<1> USE DEF ids
<1>1. AccountTypeOK /\ \A c \in ids : accounts[c].position \in Nat \ {0}
  BY RowTypes DEF Arranged, PositionsFromOne
<1>2. ids' = ids /\ taddrs' = taddrs /\ folders' = folders
  BY ReorderRows
<1>3. AccountTypeOK'
  <2>1. \A c \in ids' : accounts'[c] \in Account /\ c \in Nat \ {0} /\ taddrs'[c] \subseteq {0, 1} \X Nat
    BY <1>1, <1>2, ReorderRows, RowTypes
  <2>2. folders' = [f \in DOMAIN folders' |-> folders'[f]]
        /\ \A f \in DOMAIN folders' : f \in Nat \ {0} /\ folders'[f] \in FolderNames
    BY <1>1, <1>2 DEF AccountTypeOK
  <2>3. accounts' = [c \in ids' |-> accounts'[c]] /\ DOMAIN taddrs' = ids'
    BY <1>1, <1>2, ReorderRows DEF AccountTypeOK
  <2> QED BY <2>1, <2>2, <2>3, TypedByRows DEF AccountTypeOK
<1>4. PositionsFromOne'
  BY <1>2, ReorderRows DEF PositionsFromOne
<1>5. PositionsDistinct'
  <2> SUFFICES ASSUME NEW c \in ids, NEW d \in ids, accounts'[c].position = accounts'[d].position
               PROVE  c = d
    BY <1>2 DEF PositionsDistinct
  <2>1. \A e \in ids : e # a => accounts[e].position # accounts[a].position
    BY DEF Arranged, PositionsDistinct
  <2>2. CASE c # a /\ d # a
    <3>1. Shifted(accounts[c].position, accounts[a].position, new)
            = Shifted(accounts[d].position, accounts[a].position, new)
      BY <2>2, ReorderRows
    <3>2. accounts[c].position = accounts[d].position
      BY <1>1, <2>1, <2>2, <3>1, ShiftedApart
    <3> QED BY <3>2 DEF Arranged, PositionsDistinct
  <2>3. CASE c = a /\ d # a
    BY <1>1, <2>1, <2>3, ReorderRows, ShiftedApart
  <2>4. CASE c # a /\ d = a
    BY <1>1, <2>1, <2>4, ReorderRows, ShiftedApart
  <2> QED BY <2>2, <2>3, <2>4
<1>6. FolderExists'
  BY <1>2, ReorderRows DEF Arranged, FolderExists
<1>7. CurrentAddressKnown'
  BY <1>2, ReorderRows DEF Arranged, CurrentAddressKnown, Derives
<1> QED BY <1>3, <1>4, <1>5, <1>6, <1>7 DEF Arranged

----------------------------------------------------------------------------
(* The operations that leave every account in its place.                   *)
LEMMA ArrangedByRows ==
    ASSUME Arranged, ids' = ids,
           accounts' = [c \in ids |-> accounts'[c]],
           \A c \in ids : /\ accounts'[c] \in Account
                          /\ accounts'[c].position = accounts[c].position
                          /\ accounts'[c].folder \in DOMAIN folders' \union {0}
                          /\ Derives(accounts'[c]) => <<0, accounts'[c].dindex>> \in taddrs'[c]
                          /\ taddrs'[c] \subseteq {0, 1} \X Nat,
           DOMAIN taddrs' = ids,
           folders' = [f \in DOMAIN folders' |-> folders'[f]],
           \A f \in DOMAIN folders' : f \in Nat \ {0} /\ folders'[f] \in FolderNames
    PROVE  Arranged'
<1>1. AccountTypeOK
  BY DEF Arranged
<1>2. AccountTypeOK'
  <2>1. \A c \in ids' : accounts'[c] \in Account /\ c \in Nat \ {0} /\ taddrs'[c] \subseteq {0, 1} \X Nat
    BY <1>1, RowTypes
  <2> QED BY <2>1, TypedByRows DEF AccountTypeOK, ids
<1>3. PositionsFromOne'
  BY DEF Arranged, PositionsFromOne
<1>5. PositionsDistinct'
  <2> SUFFICES ASSUME NEW c \in ids, NEW d \in ids, accounts'[c].position = accounts'[d].position
               PROVE  c = d
    BY DEF PositionsDistinct
  <2> QED BY DEF Arranged, PositionsDistinct
<1>4. FolderExists' /\ CurrentAddressKnown'
  BY DEF FolderExists, CurrentAddressKnown
<1> QED BY <1>2, <1>3, <1>4, <1>5 DEF Arranged

(* The folder of an account, and its address, as Arranged says.            *)
LEMMA RowArranged ==
    ASSUME Arranged, NEW c \in ids
    PROVE  /\ accounts[c].folder \in DOMAIN folders \union {0}
           /\ Derives(accounts[c]) => <<0, accounts[c].dindex>> \in taddrs[c]
BY DEF Arranged, FolderExists, CurrentAddressKnown

(* The tables of a typed state are functions.                              *)
LEMMA TablesTyped ==
    ASSUME Arranged
    PROVE  /\ AccountTypeOK
           /\ accounts = [c \in ids |-> accounts[c]]
           /\ DOMAIN taddrs = ids
           /\ folders = [f \in DOMAIN folders |-> folders[f]]
           /\ \A f \in DOMAIN folders : f \in Nat \ {0} /\ folders[f] \in FolderNames
BY DEF Arranged, AccountTypeOK

(* generate_next_dindex: the address of the new index is added, if there   *)
(* is a key for it.                                                        *)
LEMMA NextDindexArranged ==
    ASSUME Arranged, NEW a \in ids, GenerateNextDindex(a)
    PROVE  Arranged'
<1> USE DEF ids
<1>1. PICK di \in NextIndex(a) :
        /\ accounts' = [accounts EXCEPT ![a].dindex = di,
                                        ![a].saddr = IF accounts[a].key.sapling THEN di ELSE @]
        /\ taddrs' = [taddrs EXCEPT ![a] = @ \union NewAddress(a, di)]
  BY DEF GenerateNextDindex
<1>2. folders' = folders
  BY DEF GenerateNextDindex
<1>3. di \in Nat
  <2>1. accounts[a].dindex \in Nat
    BY RowTypes, TablesTyped
  <2>2. ValidIndex \subseteq Nat
    BY ValidIndexAssumption
  <2> QED BY <1>1, <2>1, <2>2 DEF NextIndex
<1> DEFINE addr == IF accounts[a].key.sapling THEN di ELSE accounts[a].saddr
<1>4. \A c \in ids : /\ accounts'[c] = IF c = a THEN [accounts[a] EXCEPT !.dindex = di, !.saddr = addr]
                                       ELSE accounts[c]
                     /\ accounts[c] \in Account
  BY <1>1, RowTypes, TablesTyped
<1>5. addr \in Int
  BY <1>3, RowTypes, TablesTyped
<1> HIDE DEF addr
<1>6. ASSUME NEW c \in ids
      PROVE  /\ accounts'[c] \in Account
             /\ accounts'[c].position = accounts[c].position
             /\ accounts'[c].folder = accounts[c].folder
             /\ Derives(accounts'[c]) <=> Derives(accounts[c])
             /\ accounts'[c].dindex = IF c = a THEN di ELSE accounts[c].dindex
  BY <1>3, <1>4, <1>5 DEF Account, Derives
<1>7. \A c \in ids : taddrs'[c] = IF c = a THEN taddrs[a] \union NewAddress(a, di) ELSE taddrs[c]
  BY <1>1, TablesTyped
<1>8. DOMAIN taddrs' = ids /\ ids' = ids /\ accounts' = [c \in ids |-> accounts'[c]]
  BY <1>1, TablesTyped
<1>9. NewAddress(a, di) \subseteq {0, 1} \X Nat
      /\ (Derives(accounts[a]) => NewAddress(a, di) = {<<0, di>>})
  BY <1>3 DEF NewAddress
<1>10. ASSUME NEW c \in ids
       PROVE  /\ Derives(accounts'[c]) => <<0, accounts'[c].dindex>> \in taddrs'[c]
              /\ taddrs'[c] \subseteq {0, 1} \X Nat
              /\ accounts'[c].folder \in DOMAIN folders' \union {0}
  <2>1. CASE c = a
    BY <1>2, <1>6, <1>7, <1>9, <2>1, RowArranged, RowTypes, TablesTyped
  <2>2. CASE c # a
    BY <1>2, <1>6, <1>7, <2>2, RowArranged, RowTypes, TablesTyped
  <2> QED BY <2>1, <2>2
<1> QED BY <1>2, <1>6, <1>8, <1>10, TablesTyped, ArrangedByRows

(* generate_next_change_address: an address of another scope is added.     *)
LEMMA NextChangeArranged ==
    ASSUME Arranged, NEW a \in ids, GenerateNextChangeAddress(a)
    PROVE  Arranged'
<1> USE DEF ids
<1>1. PICK di \in NextAfter(ChangeIndices(a), 0) : taddrs' = [taddrs EXCEPT ![a] = @ \union {<<1, di>>}]
  BY DEF GenerateNextChangeAddress
<1>2. accounts' = accounts /\ folders' = folders
  BY DEF GenerateNextChangeAddress
<1>3. ChangeIndices(a) \in SUBSET Nat
  BY RowTypes, TablesTyped DEF ChangeIndices
<1>4. di \in Nat
  BY <1>1, <1>3, NextAfterNew
<1>5. \A c \in ids : taddrs[c] \subseteq taddrs'[c] /\ taddrs'[c] \subseteq taddrs[c] \union {<<1, di>>}
  BY <1>1, TablesTyped
<1>6. DOMAIN taddrs' = ids
  BY <1>1, TablesTyped
<1>7. <<1, di>> \in {0, 1} \X Nat
  BY <1>4
<1>8. ASSUME NEW c \in ids
      PROVE  /\ Derives(accounts'[c]) => <<0, accounts'[c].dindex>> \in taddrs'[c]
             /\ taddrs'[c] \subseteq {0, 1} \X Nat
             /\ accounts'[c].folder \in DOMAIN folders' \union {0}
             /\ accounts'[c] \in Account
  BY <1>2, <1>5, <1>7, RowArranged, RowTypes, TablesTyped
<1> QED BY <1>2, <1>6, <1>8, TablesTyped, ArrangedByRows

(* The migration of the addresses, when the file is opened.                *)
LEMMA OpenArranged ==
    ASSUME Arranged, OpenDatabase
    PROVE  Arranged'
<1> USE DEF ids
<1>1. taddrs' = taddrs /\ folders' = folders
  BY DEF OpenDatabase
<1> DEFINE addr(a) == IF accounts[a].key.sapling /\ accounts[a].saddr = -1
                      THEN accounts[a].dindex ELSE accounts[a].saddr
<1>2. accounts' = [a \in ids |-> [accounts[a] EXCEPT !.saddr = addr(a)]]
  BY DEF OpenDatabase
<1>3. ASSUME NEW c \in ids
      PROVE  accounts'[c] = [accounts[c] EXCEPT !.saddr = addr(c)]
             /\ accounts[c] \in Account /\ addr(c) \in Int
  BY <1>2, RowTypes, TablesTyped
<1>4. ids' = ids /\ accounts' = [c \in ids |-> accounts'[c]]
  BY <1>2
<1> HIDE DEF addr
<1>5. ASSUME NEW c \in ids
      PROVE  /\ accounts'[c] \in Account
             /\ accounts'[c].position = accounts[c].position
             /\ accounts'[c].folder = accounts[c].folder
             /\ accounts'[c].dindex = accounts[c].dindex
             /\ Derives(accounts'[c]) <=> Derives(accounts[c])
  BY <1>3 DEF Account, Derives
<1>6. ASSUME NEW c \in ids
      PROVE  /\ accounts'[c].folder \in DOMAIN folders' \union {0}
             /\ Derives(accounts'[c]) => <<0, accounts'[c].dindex>> \in taddrs'[c]
             /\ taddrs'[c] \subseteq {0, 1} \X Nat
  BY <1>1, <1>5, RowArranged, RowTypes, TablesTyped
<1> QED BY <1>1, <1>4, <1>5, <1>6, TablesTyped, ArrangedByRows

----------------------------------------------------------------------------
(* create_new_folder: the others stay.                                     *)
LEMMA NewFolderTables ==
    ASSUME Arranged, NEW name \in FolderNames, NEW id \in NextId(folders),
           folders' = With(folders, id, name)
    PROVE  /\ DOMAIN folders \subseteq DOMAIN folders'
           /\ folders' = [f \in DOMAIN folders' |-> folders'[f]]
           /\ \A f \in DOMAIN folders' : f \in Nat \ {0} /\ folders'[f] \in FolderNames
<1>1. DOMAIN folders \in SUBSET Nat
  BY TablesTyped
<1>2. id \in Nat \ {0}
  BY <1>1, NextAfterFirst DEF NextId
<1> QED BY <1>1, <1>2, TablesTyped DEF With

LEMMA CreateFolderArranged ==
    ASSUME Arranged, NEW name \in FolderNames, CreateNewFolder(name)
    PROVE  Arranged'
<1> USE DEF ids
<1>1. PICK id \in NextId(folders) : folders' = With(folders, id, name)
  BY DEF CreateNewFolder
<1>2. accounts' = accounts /\ taddrs' = taddrs
  BY DEF CreateNewFolder
<1>3. DOMAIN folders \subseteq DOMAIN folders'
      /\ folders' = [f \in DOMAIN folders' |-> folders'[f]]
      /\ \A f \in DOMAIN folders' : f \in Nat \ {0} /\ folders'[f] \in FolderNames
  BY <1>1, NewFolderTables
<1>4. ASSUME NEW c \in ids
      PROVE  /\ accounts'[c] \in Account
             /\ accounts'[c].folder \in DOMAIN folders' \union {0}
             /\ Derives(accounts'[c]) => <<0, accounts'[c].dindex>> \in taddrs'[c]
             /\ taddrs'[c] \subseteq {0, 1} \X Nat
  BY <1>2, <1>3, RowArranged, RowTypes, TablesTyped
<1> QED BY <1>2, <1>3, <1>4, TablesTyped, ArrangedByRows

(* An account is put in a folder that is there, or taken out.              *)
LEMMA UpdateArranged ==
    ASSUME Arranged, NEW a \in ids, NEW folder \in DOMAIN folders \union {0}, UpdateAccount(a, folder)
    PROVE  Arranged'
<1> USE DEF ids
<1>1. accounts' = [accounts EXCEPT ![a].folder = folder]
  BY DEF UpdateAccount
<1>2. taddrs' = taddrs /\ folders' = folders
  BY DEF UpdateAccount
<1>3. folder \in Nat
  BY TablesTyped
<1>4. ASSUME NEW c \in ids
      PROVE  /\ accounts[c] \in Account
             /\ accounts'[c] = IF c = a THEN [accounts[c] EXCEPT !.folder = folder] ELSE accounts[c]
  BY <1>1, RowTypes, TablesTyped
<1>5. ids' = ids /\ accounts' = [c \in ids |-> accounts'[c]]
  BY <1>1, TablesTyped
<1>6. ASSUME NEW c \in ids
      PROVE  /\ accounts'[c] \in Account
             /\ accounts'[c].position = accounts[c].position
             /\ accounts'[c].folder \in {folder, accounts[c].folder}
             /\ accounts'[c].dindex = accounts[c].dindex
             /\ Derives(accounts'[c]) <=> Derives(accounts[c])
  BY <1>3, <1>4 DEF Account, Derives
<1>7. ASSUME NEW c \in ids
      PROVE  /\ accounts'[c].folder \in DOMAIN folders' \union {0}
             /\ Derives(accounts'[c]) => <<0, accounts'[c].dindex>> \in taddrs'[c]
             /\ taddrs'[c] \subseteq {0, 1} \X Nat
  BY <1>2, <1>6, RowArranged, RowTypes, TablesTyped
<1> QED BY <1>2, <1>5, <1>6, <1>7, TablesTyped, ArrangedByRows

(* delete_folders takes the accounts out first.                            *)
LEMMA DeleteFolderArranged ==
    ASSUME Arranged, NEW id \in DOMAIN folders, DeleteFolder(id)
    PROVE  Arranged'
<1> USE DEF ids
<1>1. accounts' = [a \in ids |-> OutOfFolder(accounts[a], id)]
  BY DEF DeleteFolder
<1>2. taddrs' = taddrs /\ folders' = [f \in DOMAIN folders \ {id} |-> folders[f]]
  BY DEF DeleteFolder, Without
<1>3. ids' = ids /\ accounts' = [c \in ids |-> accounts'[c]]
  BY <1>1
<1>4. ASSUME NEW c \in ids
      PROVE  accounts[c] \in Account /\ accounts'[c] = OutOfFolder(accounts[c], id)
  BY <1>1, RowTypes, TablesTyped
<1>5. ASSUME NEW c \in ids
      PROVE  /\ accounts'[c] \in Account
             /\ accounts'[c].position = accounts[c].position
             /\ accounts'[c].folder = IF accounts[c].folder = id THEN 0 ELSE accounts[c].folder
             /\ accounts'[c].dindex = accounts[c].dindex
             /\ Derives(accounts'[c]) <=> Derives(accounts[c])
  <2> DEFINE to == IF accounts[c].folder = id THEN 0 ELSE accounts[c].folder
  <2>1. accounts'[c] = [accounts[c] EXCEPT !.folder = to]
    BY <1>4 DEF OutOfFolder
  <2>2. to \in Nat /\ accounts[c] \in Account
    BY <1>4 DEF Account
  <2> HIDE DEF to
  <2>3. /\ accounts'[c] \in Account
        /\ accounts'[c].position = accounts[c].position
        /\ accounts'[c].folder = to
        /\ accounts'[c].dindex = accounts[c].dindex
        /\ Derives(accounts'[c]) <=> Derives(accounts[c])
    BY <2>1, <2>2 DEF Account, Derives
  <2> QED BY <2>3 DEF to
<1>6. DOMAIN folders' = DOMAIN folders \ {id}
      /\ folders' = [f \in DOMAIN folders' |-> folders'[f]]
      /\ \A f \in DOMAIN folders' : f \in Nat \ {0} /\ folders'[f] \in FolderNames
  BY <1>2, TablesTyped
<1>7. ASSUME NEW c \in ids
      PROVE  /\ accounts'[c].folder \in DOMAIN folders' \union {0}
             /\ Derives(accounts'[c]) => <<0, accounts'[c].dindex>> \in taddrs'[c]
             /\ taddrs'[c] \subseteq {0, 1} \X Nat
  BY <1>2, <1>5, <1>6, RowArranged, RowTypes, TablesTyped
<1> QED BY <1>2, <1>3, <1>5, <1>6, <1>7, TablesTyped, ArrangedByRows

----------------------------------------------------------------------------
(* The account of an import: everyone has moved down, its folder is there, *)
(* and it derives no more than the account it was exported from.           *)
LEMMA ImportArranged ==
    ASSUME Arranged, NEW id \in NextId(accounts), NEW row \in Account,
           NEW name \in FolderNames \union {NoName},
           NEW addresses \in SUBSET ({0, 1} \X Nat),
           Derives(row) => <<0, row.dindex>> \in addresses,
           ImportAccountRow(id, row, name, addresses)
    PROVE  Arranged'
<1> USE DEF ids
<1>1. PICK folder \in DOMAIN folders' \union {0} : accounts' = With(MovedDown, id, ImportedRow(row, folder))
  BY DEF ImportAccountRow
<1>2. taddrs' = With(taddrs, id, addresses) /\ ImportFolder(name)
  BY DEF ImportAccountRow
<1>3. ids \in SUBSET Nat /\ DOMAIN MovedDown = ids
  BY TablesTyped DEF AccountTypeOK, MovedDown
<1>4. id \in Nat \ {0} /\ id \notin ids
  BY <1>3, NextAfterNew, NextAfterFirst DEF NextId
<1>5. /\ DOMAIN folders \subseteq DOMAIN folders'
      /\ folders' = [f \in DOMAIN folders' |-> folders'[f]]
      /\ \A f \in DOMAIN folders' : f \in Nat \ {0} /\ folders'[f] \in FolderNames
  <2>1. CASE name = NoName
    BY <1>2, <2>1, TablesTyped DEF ImportFolder
  <2>2. CASE name # NoName
    <3>1. name \in FolderNames /\ \E f \in NextId(folders) : folders' = With(folders, f, name)
      BY <1>2, <2>2 DEF ImportFolder
    <3> QED BY <3>1, NewFolderTables
  <2> QED BY <2>1, <2>2
<1>6. folder \in Nat
  BY <1>1, <1>5
<1>7. /\ ImportedRow(row, folder) \in Account
      /\ ImportedRow(row, folder).position = 1
      /\ ImportedRow(row, folder).folder = folder
      /\ ImportedRow(row, folder).dindex = row.dindex
      /\ Derives(ImportedRow(row, folder)) => Derives(row)
  <2> DEFINE xvk == IF row.xvk = "null" THEN "empty" ELSE row.xvk
  <2>1. ImportedRow(row, folder)
          = [row EXCEPT !.position = 1, !.folder = folder, !.saddr = -1, !.xvk = xvk]
    BY DEF ImportedRow
  <2>2. xvk \in XvkStates /\ (xvk = "key" => row.xvk = "key")
    BY DEF Account, XvkStates
  <2>3. -1 \in Int /\ 1 \in Nat
    OBVIOUS
  <2> HIDE DEF xvk
  <2> QED BY <1>6, <2>1, <2>2, <2>3 DEF Account, Derives
<1>8. ids' = ids \union {id} /\ accounts' = [c \in ids' |-> accounts'[c]]
      /\ accounts'[id] = ImportedRow(row, folder)
      /\ \A c \in ids : accounts'[c] = MovedDown[c]
  BY <1>1, <1>3, <1>4 DEF With
<1>9. ASSUME NEW c \in ids
      PROVE  /\ accounts'[c] \in Account
             /\ accounts'[c].position = accounts[c].position + 1
             /\ accounts'[c].folder = accounts[c].folder
             /\ accounts'[c].dindex = accounts[c].dindex
             /\ Derives(accounts'[c]) <=> Derives(accounts[c])
  <2>1. accounts[c] \in Account /\ accounts[c].position \in Nat
    BY RowTypes, TablesTyped
  <2> DEFINE down == accounts[c].position + 1
  <2>2. accounts'[c] = [accounts[c] EXCEPT !.position = down]
    BY <1>8 DEF MovedDown
  <2>3. down \in Nat
    BY <2>1
  <2> HIDE DEF down
  <2>4. /\ accounts'[c] \in Account
        /\ accounts'[c].position = down
        /\ accounts'[c].folder = accounts[c].folder
        /\ accounts'[c].dindex = accounts[c].dindex
        /\ Derives(accounts'[c]) <=> Derives(accounts[c])
    BY <2>1, <2>2, <2>3 DEF Account, Derives
  <2> QED BY <2>4 DEF down
<1>10. DOMAIN taddrs' = ids' /\ taddrs'[id] = addresses
       /\ \A c \in ids : taddrs'[c] = taddrs[c]
  BY <1>2, <1>4, <1>8, TablesTyped DEF With
<1>11. AccountTypeOK'
  <2>1. \A c \in ids' : accounts'[c] \in Account /\ c \in Nat \ {0}
    BY <1>4, <1>7, <1>8, <1>9, RowTypes, TablesTyped
  <2>2. \A c \in ids' : taddrs'[c] \subseteq {0, 1} \X Nat
    BY <1>8, <1>10, RowTypes, TablesTyped
  <2> QED BY <1>5, <1>8, <1>10, <2>1, <2>2, TypedByRows DEF AccountTypeOK
<1>12. \A c \in ids : accounts[c].position \in Nat \ {0}
  BY RowTypes, TablesTyped DEF Arranged, PositionsFromOne
<1>13. PositionsFromOne'
  BY <1>7, <1>8, <1>9, <1>12 DEF PositionsFromOne
<1>14. PositionsDistinct'
  <2> SUFFICES ASSUME NEW c \in ids', NEW d \in ids', accounts'[c].position = accounts'[d].position
               PROVE  c = d
    BY DEF PositionsDistinct
  <2>1. CASE c \in ids /\ d \in ids
    <3>1. accounts[c].position = accounts[d].position
      BY <1>9, <1>12, <2>1
    <3> QED BY <2>1, <3>1 DEF Arranged, PositionsDistinct
  <2>2. CASE c \in ids /\ d = id
    BY <1>7, <1>8, <1>9, <1>12, <2>2
  <2>3. CASE c = id /\ d \in ids
    BY <1>7, <1>8, <1>9, <1>12, <2>3
  <2> QED BY <1>8, <2>1, <2>2, <2>3
<1>15. FolderExists'
  <2>1. \A c \in ids : accounts'[c].folder \in DOMAIN folders' \union {0}
    BY <1>5, <1>9, RowArranged
  <2>2. accounts'[id].folder \in DOMAIN folders' \union {0}
    BY <1>7, <1>8
  <2> QED BY <1>8, <2>1, <2>2 DEF FolderExists
<1>16. CurrentAddressKnown'
  <2>1. ASSUME NEW c \in ids, Derives(accounts'[c]) PROVE <<0, accounts'[c].dindex>> \in taddrs'[c]
    BY <1>9, <1>10, <2>1, RowArranged
  <2>2. ASSUME Derives(accounts'[id]) PROVE <<0, accounts'[id].dindex>> \in taddrs'[id]
    BY <1>7, <1>8, <1>10, <2>2
  <2> QED BY <1>8, <2>1, <2>2 DEF CurrentAddressKnown
<1> QED BY <1>11, <1>13, <1>14, <1>15, <1>16 DEF Arranged

----------------------------------------------------------------------------
LEMMA NextArranged == Arranged /\ [AccountNext]_accountVars => Arranged'
<1> SUFFICES ASSUME Arranged, [AccountNext]_accountVars PROVE Arranged'
  OBVIOUS
<1>1. ASSUME NEW k \in Keys, NewAccount(k) PROVE Arranged'
  BY <1>1, NewArranged
<1>2. ASSUME NEW a \in ids, DeleteAccount(a) PROVE Arranged'
  BY <1>2, DeleteArranged
<1>3. ASSUME NEW a \in ids, GenerateNextDindex(a) PROVE Arranged'
  BY <1>3, NextDindexArranged
<1>4. ASSUME NEW a \in ids, GenerateNextChangeAddress(a) PROVE Arranged'
  BY <1>4, NextChangeArranged
<1>5. ASSUME NEW a \in ids, NEW new \in Nat \ {0}, ReorderAccount(a, new) PROVE Arranged'
  BY <1>5, ReorderArranged
<1>6. ASSUME NEW name \in FolderNames, CreateNewFolder(name) PROVE Arranged'
  BY <1>6, CreateFolderArranged
<1>7. ASSUME NEW a \in ids, NEW f \in DOMAIN folders \union {0}, UpdateAccount(a, f) PROVE Arranged'
  BY <1>7, UpdateArranged
<1>8. ASSUME NEW f \in DOMAIN folders, DeleteFolder(f) PROVE Arranged'
  BY <1>8, DeleteFolderArranged
<1>9. ASSUME OpenDatabase PROVE Arranged'
  BY <1>9, OpenArranged
<1>10. ASSUME NEW id \in NextId(accounts), NEW row \in Account,
              NEW name \in FolderNames \union {NoName}, NEW addresses \in SUBSET ({0, 1} \X Nat),
              Derives(row) => <<0, row.dindex>> \in addresses,
              ImportAccountRow(id, row, name, addresses)
       PROVE  Arranged'
  BY <1>10, ImportArranged
<1>11. CASE UNCHANGED accountVars
  BY <1>11 DEF accountVars, Arranged, AccountTypeOK, PositionsFromOne, PositionsDistinct,
               FolderExists, CurrentAddressKnown, ids
<1> QED BY <1>1, <1>2, <1>3, <1>4, <1>5, <1>6, <1>7, <1>8, <1>9, <1>10, <1>11 DEF AccountNext

(* No sequence of creations, deletions, drops, moves between folders and   *)
(* imports leaves two accounts on one position, an account in a folder     *)
(* that is gone, or a current address that is not in the table.            *)
THEOREM AccountsArranged == AccountSpec => []Arranged
<1>1. AccountInit => Arranged
  BY InitArranged
<1>2. Arranged /\ [AccountNext]_accountVars => Arranged'
  BY NextArranged
<1> QED BY <1>1, <1>2, PTL DEF AccountSpec

----------------------------------------------------------------------------
(* The order of the accounts but one.                                      *)
KeepsOrder(m) ==
    \A a, b \in (ids \intersect ids') \ {m} :
        accounts[a].position < accounts[b].position
            <=> accounts'[a].position < accounts'[b].position

LEMMA SamePositions ==
    ASSUME \A c \in ids \intersect ids' : accounts'[c].position = accounts[c].position
    PROVE  KeepsOrder(0)
BY DEF KeepsOrder

(* A drop onto a position.                                                 *)
LEMMA ReorderKeepsOrder ==
    ASSUME Arranged, NEW a \in ids, NEW new \in Nat \ {0}, ReorderAccount(a, new)
    PROVE  KeepsOrder(a)
<1>1. \A c \in ids : accounts[c].position \in Nat \ {0}
  BY RowTypes, TablesTyped DEF Arranged, PositionsFromOne
<1>2. SUFFICES ASSUME NEW c \in ids, NEW d \in ids, c # a, d # a
               PROVE  accounts[c].position < accounts[d].position
                        <=> accounts'[c].position < accounts'[d].position
  BY DEF KeepsOrder
<1>3. accounts[c].position # accounts[a].position /\ accounts[d].position # accounts[a].position
  BY <1>2 DEF Arranged, PositionsDistinct
<1>4. /\ accounts'[c].position = Shifted(accounts[c].position, accounts[a].position, new)
      /\ accounts'[d].position = Shifted(accounts[d].position, accounts[a].position, new)
  BY <1>2, ReorderRows
<1> QED BY <1>1, <1>3, <1>4, ShiftedApart

(* Everyone moves down by one when an account is imported.                 *)
LEMMA ImportKeepsOrder ==
    ASSUME Arranged, NEW id \in NextId(accounts), NEW row, NEW name, NEW addresses,
           ImportAccountRow(id, row, name, addresses)
    PROVE  KeepsOrder(0)
<1> USE DEF ids
<1>1. ids \in SUBSET Nat /\ DOMAIN MovedDown = ids
  BY TablesTyped DEF AccountTypeOK, MovedDown
<1>2. id \notin ids
  BY <1>1, NextAfterNew DEF NextId
<1>3. ASSUME NEW c \in ids
      PROVE  accounts'[c].position = accounts[c].position + 1 /\ accounts[c].position \in Nat
  <2>1. accounts[c] \in Account /\ accounts[c].position \in Nat
    BY RowTypes, TablesTyped
  <2>2. accounts'[c] = MovedDown[c]
    BY <1>1, <1>2 DEF ImportAccountRow, With
  <2> DEFINE down == accounts[c].position + 1
  <2>3. accounts'[c] = [accounts[c] EXCEPT !.position = down]
    BY <2>2 DEF MovedDown
  <2> HIDE DEF down
  <2>4. accounts'[c].position = down
    BY <2>1, <2>3 DEF Account
  <2> QED BY <2>1, <2>4 DEF down
<1>4. SUFFICES ASSUME NEW c \in ids, NEW d \in ids
               PROVE  accounts[c].position < accounts[d].position
                        <=> accounts'[c].position < accounts'[d].position
  BY DEF KeepsOrder
<1> QED BY <1>3

(* The operations that do not touch the positions.                         *)
LEMMA OthersKeepOrder ==
    ASSUME Arranged,
           \/ \E k \in Keys : NewAccount(k)
           \/ \E a \in ids :
                DeleteAccount(a) \/ GenerateNextDindex(a) \/ GenerateNextChangeAddress(a)
           \/ \E name \in FolderNames : CreateNewFolder(name)
           \/ \E a \in ids, f \in DOMAIN folders \union {0} : UpdateAccount(a, f)
           \/ \E f \in DOMAIN folders : DeleteFolder(f)
           \/ OpenDatabase
           \/ UNCHANGED accountVars
    PROVE  KeepsOrder(0)
<1> USE DEF ids
<1> SUFFICES ASSUME NEW c \in ids, c \in ids'
             PROVE  accounts'[c].position = accounts[c].position
  BY SamePositions
<1>1. accounts[c] \in Account
  BY RowTypes, TablesTyped
<1>2. ASSUME NEW k \in Keys, NewAccount(k) PROVE accounts'[c].position = accounts[c].position
  <2>1. PICK id \in NextId(accounts), position \in NextPosition :
          accounts' = With(accounts, id, NewRow(k, position))
    BY <1>2 DEF NewAccount
  <2>2. id \notin ids
    BY NextAfterNew, TablesTyped DEF NextId, AccountTypeOK
  <2> QED BY <2>1, <2>2 DEF With
<1>3. ASSUME NEW a \in ids, DeleteAccount(a) PROVE accounts'[c].position = accounts[c].position
  BY <1>3 DEF DeleteAccount, Without
<1>4. ASSUME NEW a \in ids, GenerateNextDindex(a) PROVE accounts'[c].position = accounts[c].position
  <2>1. PICK di \in NextIndex(a) :
          accounts' = [accounts EXCEPT ![a].dindex = di,
                                       ![a].saddr = IF accounts[a].key.sapling THEN di ELSE @]
    BY <1>4 DEF GenerateNextDindex
  <2> DEFINE addr == IF accounts[a].key.sapling THEN di ELSE accounts[a].saddr
  <2>2. accounts'[c] = IF c = a THEN [accounts[c] EXCEPT !.dindex = di, !.saddr = addr] ELSE accounts[c]
    BY <2>1, TablesTyped
  <2> HIDE DEF addr
  <2> QED BY <1>1, <2>2 DEF Account
<1>5. ASSUME NEW a \in ids, GenerateNextChangeAddress(a) \/ UNCHANGED accountVars
      PROVE  accounts'[c].position = accounts[c].position
  BY <1>5 DEF GenerateNextChangeAddress, accountVars
<1>6. ASSUME NEW name, CreateNewFolder(name) PROVE accounts'[c].position = accounts[c].position
  BY <1>6 DEF CreateNewFolder
<1>7. ASSUME NEW a \in ids, NEW f, UpdateAccount(a, f) PROVE accounts'[c].position = accounts[c].position
  <2>1. accounts'[c] = IF c = a THEN [accounts[c] EXCEPT !.folder = f] ELSE accounts[c]
    BY <1>7, TablesTyped DEF UpdateAccount
  <2> QED BY <1>1, <2>1 DEF Account
<1>8. ASSUME NEW f, DeleteFolder(f) PROVE accounts'[c].position = accounts[c].position
  <2>1. accounts'[c] = OutOfFolder(accounts[c], f)
    BY <1>8 DEF DeleteFolder
  <2> DEFINE to == IF accounts[c].folder = f THEN 0 ELSE accounts[c].folder
  <2>2. accounts'[c] = [accounts[c] EXCEPT !.folder = to]
    BY <2>1 DEF OutOfFolder
  <2> HIDE DEF to
  <2> QED BY <1>1, <2>2 DEF Account
<1>9. ASSUME OpenDatabase PROVE accounts'[c].position = accounts[c].position
  <2> DEFINE addr == IF accounts[c].key.sapling /\ accounts[c].saddr = -1
                     THEN accounts[c].dindex ELSE accounts[c].saddr
  <2>1. accounts'[c] = [accounts[c] EXCEPT !.saddr = addr]
    BY <1>9 DEF OpenDatabase
  <2> HIDE DEF addr
  <2> QED BY <1>1, <2>1 DEF Account
<1>10. CASE UNCHANGED accountVars
  BY <1>10 DEF accountVars
<1> QED BY <1>2, <1>3, <1>4, <1>5, <1>6, <1>7, <1>8, <1>9, <1>10

LEMMA StepKeepsOrder ==
    ASSUME Arranged, [AccountNext]_accountVars
    PROVE  \E m \in ids \union {0} : KeepsOrder(m)
<1>1. ASSUME NEW a \in ids, NEW new \in Nat \ {0}, ReorderAccount(a, new)
      PROVE  \E m \in ids \union {0} : KeepsOrder(m)
  BY <1>1, ReorderKeepsOrder
<1>2. ASSUME NEW id \in NextId(accounts), NEW row, NEW name, NEW addresses,
             ImportAccountRow(id, row, name, addresses)
      PROVE  \E m \in ids \union {0} : KeepsOrder(m)
  BY <1>2, ImportKeepsOrder
<1> QED BY <1>1, <1>2, OthersKeepOrder DEF AccountNext

(* No operation changes the order of any accounts but the one it is about. *)
THEOREM OrderAlwaysKept == AccountSpec => OrderKept
<1>1. Arranged /\ [AccountNext]_accountVars
        => [\E m \in ids \union {0} :
               \A a, b \in (ids \intersect ids') \ {m} :
                   accounts[a].position < accounts[b].position
                     <=> accounts'[a].position < accounts'[b].position]_accountVars
  BY StepKeepsOrder DEF KeepsOrder
<1> QED BY <1>1, AccountsArranged, PTL DEF AccountSpec, OrderKept

-------------------------------------------------------------------------------
(* The wallet file *)

(* What an export read of an account is a row that an import may insert.   *)
Importable(x) ==
    /\ DOMAIN x = DOMAIN NoFile
    /\ x.account # 0 =>
        /\ x.row \in Account
        /\ x.folder \in FolderNames \union {NoName}
        /\ x.addresses \in SUBSET ({0, 1} \X Nat)
        /\ Derives(x.row) => <<0, x.row.dindex>> \in x.addresses

FilesImportable == Importable(export) /\ Importable(file)

WalletInv == Arranged /\ FilesImportable

----------------------------------------------------------------------------
LEMMA NoFileImportable == Importable(NoFile)
BY DEF Importable, NoFile

LEMMA InitWallet == Init => WalletInv
BY InitArranged, NoFileImportable DEF Init, WalletInv, FilesImportable

(* What export_account reads first can be imported.                        *)
LEMMA ExportImportable ==
    ASSUME Arranged, NEW a \in ids, ExportBegin(a)
    PROVE  Importable(export')
<1>1. accounts[a] \in Account /\ taddrs[a] \in SUBSET ({0, 1} \X Nat)
  BY RowTypes, TablesTyped
<1>2. FolderOf(a) \in FolderNames \union {NoName}
  BY RowArranged, TablesTyped DEF FolderOf
<1>3. Derives(accounts[a]) => <<0, accounts[a].dindex>> \in taddrs[a]
  BY RowArranged
<1> DEFINE folder == FolderOf(a)
           tables == [NoTables EXCEPT !.witnesses = {w \in db.witnesses : w.account = a}]
<1>4. export' = [account |-> a, row |-> accounts[a], folder |-> folder,
                 addresses |-> taddrs[a], height |-> db.heights[a], tables |-> tables]
  BY DEF ExportBegin
<1> HIDE DEF folder, tables
<1>5. DOMAIN export' = DOMAIN NoFile
  BY <1>4 DEF NoFile
<1>6. export'.row = accounts[a] /\ export'.folder = folder /\ export'.addresses = taddrs[a]
  BY <1>4
<1>7. folder \in FolderNames \union {NoName}
  BY <1>2 DEF folder
<1> QED BY <1>1, <1>3, <1>5, <1>6, <1>7 DEF Importable

(* The rest of the export changes what it has of the rows and the height.  *)
LEMMA ExportEndImportable ==
    ASSUME FilesImportable, ExportEnd
    PROVE  FilesImportable'
<1> DEFINE tables == ExportedTables(export.account)
           height == HeightRead(export.account)
           written == [export EXCEPT !.tables = tables, !.height = height]
<1>1. export' = NoFile /\ file' \in {written, file}
  BY DEF ExportEnd
<1>2. Importable(export) /\ Importable(file)
  BY DEF FilesImportable
<1> HIDE DEF tables, height
<1>3. Importable(written)
  <2>1. DOMAIN written = DOMAIN export
    OBVIOUS
  <2>2. {"account", "row", "folder", "addresses"} \subseteq DOMAIN export
    BY <1>2 DEF Importable, NoFile
  <2>3. /\ written.account = export.account /\ written.row = export.row
        /\ written.folder = export.folder /\ written.addresses = export.addresses
    BY <2>2
  <2> HIDE DEF written
  <2> QED BY <1>2, <2>1, <2>3 DEF Importable
<1> HIDE DEF written
<1> QED BY <1>1, <1>2, <1>3, NoFileImportable DEF FilesImportable

----------------------------------------------------------------------------
(* An import that succeeds is one of Accounts, for the file came from an   *)
(* export.                                                                 *)
LEMMA ImportImplements ==
    ASSUME WalletInv, Import
    PROVE  AccountNext \/ UNCHANGED accountVars
<1>1. PICK a \in NextId(accounts) :
        /\ file.account # 0
        /\ \/ ImportAccountRow(a, file.row, file.folder, file.addresses)
           \/ UNCHANGED accountVars
  BY DEF Import
<1>2. /\ file.row \in Account /\ file.folder \in FolderNames \union {NoName}
      /\ file.addresses \in SUBSET ({0, 1} \X Nat)
      /\ Derives(file.row) => <<0, file.row.dindex>> \in file.addresses
  BY <1>1 DEF WalletInv, FilesImportable, Importable
<1>3. CASE ImportAccountRow(a, file.row, file.folder, file.addresses)
  BY <1>1, <1>2, <1>3 DEF AccountNext
<1> QED BY <1>1, <1>3

LEMMA ArrangeImplements ==
    ASSUME Arrange
    PROVE  AccountNext
<1>1. ASSUME NEW a \in ids, NEW new \in 1 .. Cardinality(ids) + 1, ReorderAccount(a, new)
      PROVE  AccountNext
  <2>1. new \in Nat \ {0}
    OBVIOUS
  <2> QED BY <1>1, <2>1 DEF AccountNext
<1>2. ASSUME NEW a \in ids, GenerateNextDindex(a) \/ GenerateNextChangeAddress(a)
      PROVE  AccountNext
  BY <1>2 DEF AccountNext
<1>3. ASSUME NEW name \in FolderNames, CreateNewFolder(name)
      PROVE  AccountNext
  BY <1>3 DEF AccountNext
<1>4. ASSUME NEW a \in ids, NEW f \in DOMAIN folders \union {0}, UpdateAccount(a, f)
      PROVE  AccountNext
  BY <1>4 DEF AccountNext
<1>5. ASSUME NEW f \in DOMAIN folders, DeleteFolder(f)
      PROVE  AccountNext
  BY <1>5 DEF AccountNext
<1>6. ASSUME OpenDatabase PROVE AccountNext
  BY <1>6 DEF AccountNext
<1> QED BY <1>1, <1>2, <1>3, <1>4, <1>5, <1>6 DEF Arrange

(* Every step of the wallet file is one of its accounts, or leaves them.   *)
LEMMA StepImplements ==
    ASSUME WalletInv, [Next]_vars
    PROVE  [AccountNext]_accountVars
<1>1. ASSUME NEW k \in Keys, NewAccount(k) PROVE AccountNext
  BY <1>1 DEF AccountNext
<1>2. ASSUME NEW a \in ids, DeleteAccount(a) PROVE AccountNext
  BY <1>2 DEF AccountNext
<1>3. CASE Import
  BY <1>3, ImportImplements
<1>4. CASE Arrange
  BY <1>4, ArrangeImplements
<1>5. CASE UNCHANGED accountVars
  BY <1>5
<1>6. CASE UNCHANGED vars
  BY <1>6 DEF vars
<1> QED BY <1>1, <1>2, <1>3, <1>4, <1>5, <1>6 DEF Next

(* Nothing but the two ends of an export touches what was read.            *)
LEMMA FilesKept ==
    ASSUME WalletInv, [Next]_vars
    PROVE  FilesImportable'
<1> USE DEF WalletInv
<1>1. ASSUME UNCHANGED <<export, file>> PROVE FilesImportable'
  BY <1>1 DEF FilesImportable, Importable
<1>2. ASSUME NEW a \in ids, ExportBegin(a) PROVE FilesImportable'
  <2>1. file' = file
    BY <1>2 DEF ExportBegin
  <2>2. Importable(file')
    BY <2>1 DEF FilesImportable
  <2>3. Importable(export')
    BY <1>2, ExportImportable
  <2> QED BY <2>2, <2>3 DEF FilesImportable
<1>3. CASE ExportEnd
  BY <1>3, ExportEndImportable
<1>4. ASSUME Work PROVE FilesImportable'
  <2>1. ASSUME NEW a \in ids, StartRun(a) PROVE UNCHANGED <<export, file>>
    BY <2>1 DEF StartRun
  <2>2. ASSUME ScanBlock PROVE UNCHANGED <<export, file>>
    BY <2>2 DEF ScanBlock
  <2>3. ASSUME LoseRun \/ EndRun PROVE UNCHANGED <<export, file>>
    BY <2>3 DEF LoseRun, EndRun
  <2>4. ASSUME NEW a, NEW h, Rewind(a, h) PROVE UNCHANGED <<export, file>>
    BY <2>4 DEF Rewind
  <2>5. ASSUME NEW a, ListDetails(a) PROVE UNCHANGED <<export, file>>
    BY <2>5 DEF ListDetails
  <2>6. ASSUME NEW x, LookUp(x) PROVE UNCHANGED <<export, file>>
    BY <2>6 DEF LookUp
  <2>7. ASSUME StoreDetails \/ MarkDetails PROVE UNCHANGED <<export, file>>
    BY <2>7 DEF StoreDetails, MarkDetails
  <2>8. ASSUME NEW i, SetUserMemo(i) PROVE UNCHANGED <<export, file>>
    BY <2>8 DEF SetUserMemo, UserRows
  <2>9. ASSUME NEW i, NEW c, SetCategory(i, c) PROVE UNCHANGED <<export, file>>
    BY <2>9 DEF SetCategory, UserRows
  <2>10. ASSUME NEW n, NEW l, LockNote(n, l) PROVE UNCHANGED <<export, file>>
    BY <2>10 DEF LockNote, UserRows
  <2>11. ASSUME NEW a, NEW h, NEW c, StorePending(a, h, c) PROVE UNCHANGED <<export, file>>
    BY <2>11 DEF StorePending
  <2> QED BY <1>1, <1>2, <1>3, <1>4, <2>1, <2>2, <2>3, <2>4, <2>5, <2>6, <2>7, <2>8, <2>9,
             <2>10, <2>11 DEF Work
<1>5. ASSUME NEW new, CreateRows(new) PROVE FilesImportable'
  BY <1>1, <1>5 DEF CreateRows
<1>6. ASSUME NEW a, DeleteRows(a) PROVE FilesImportable'
  BY <1>1, <1>6 DEF DeleteRows
<1>7. ASSUME Import PROVE FilesImportable'
  BY <1>1, <1>7 DEF Import
<1>8. ASSUME UNCHANGED rowVars PROVE FilesImportable'
  BY <1>1, <1>8 DEF rowVars
<1>9. CASE UNCHANGED vars
  BY <1>8, <1>9 DEF vars
<1> QED BY <1>4, <1>5, <1>6, <1>7, <1>8, <1>9 DEF Next

LEMMA NextWallet == WalletInv /\ [Next]_vars => WalletInv'
<1> SUFFICES ASSUME WalletInv, [Next]_vars PROVE WalletInv'
  OBVIOUS
<1>1. Arranged'
  BY StepImplements, NextArranged DEF WalletInv
<1> QED BY <1>1, FilesKept DEF WalletInv

----------------------------------------------------------------------------
(* The wallet file implements Accounts, for any keys, chain and budget.    *)
THEOREM ImplementsAccounts == Spec => AccountSpec
<1>1. Init => WalletInv
  BY InitWallet
<1>2. WalletInv /\ [Next]_vars => WalletInv'
  BY NextWallet
<1>3. WalletInv /\ [Next]_vars => [AccountNext]_accountVars
  BY StepImplements
<1>4. Init => AccountInit
  BY DEF Init
<1> QED BY <1>1, <1>2, <1>3, <1>4, PTL DEF Spec, AccountSpec

(* No two accounts of a wallet file have the same position, so dragging    *)
(* one never moves another, also after imports and with old lists.         *)
THEOREM NoSharedPosition == Spec => []PositionsDistinct
<1>1. Arranged => PositionsDistinct
  BY DEF Arranged
<1> QED BY <1>1, ImplementsAccounts, AccountsArranged, PTL

(* The folder of every account of a wallet file exists.                    *)
THEOREM NoLostFolder == Spec => []FolderExists
<1>1. Arranged => FolderExists
  BY DEF Arranged
<1> QED BY <1>1, ImplementsAccounts, AccountsArranged, PTL

(* The current address of every account is in the table that               *)
(* synchronization and payments look in, also after an export and import.  *)
THEOREM CurrentAddressNeverLost == Spec => []CurrentAddressKnown
<1>1. Arranged => CurrentAddressKnown
  BY DEF Arranged
<1> QED BY <1>1, ImplementsAccounts, AccountsArranged, PTL

(* Whatever is dragged, deleted or imported, the other accounts of a       *)
(* wallet file stay in order.                                              *)
THEOREM OrderNeverLost == Spec => OrderKept
BY ImplementsAccounts, OrderAlwaysKept, PTL

-----------------------------------------------------------------------------
(* Identifiers of rows *)

(* Among the subsets of a finite set there is always a smallest one.       *)
LEMMA SmallestSubset ==
    ASSUME NEW S, IsFiniteSet(S), NEW B \in SUBSET SUBSET S, B # {}
    PROVE  \E T \in B : \A U \in B : U \subseteq T => U = T
<1>1. B \subseteq FiniteSubsetsOf(S)
  BY FS_FiniteSubsetsOfFinite
<1>2. PICK T \in B : \A U \in B : ~ (<<U, T>> \in StrictSubsetOrdering(S))
  BY <1>1, FS_StrictSubsetOrderingWellFounded, WFMin, Zenon
<1>3. ASSUME NEW U \in B, U \subseteq T, U # T PROVE FALSE
  <2>1. <<U, T>> \in (SUBSET S) \X (SUBSET S)
    OBVIOUS
  <2>2. <<U, T>> \in StrictSubsetOrdering(S)
    BY <1>3, <2>1 DEF StrictSubsetOrdering
  <2> QED BY <1>2, <2>2
<1> QED BY <1>2, <1>3

(* A table always has an identifier for a new row: its rows are finitely   *)
(* many, so one of them has the greatest.                                  *)
LEMMA NextAfterExists ==
    ASSUME NEW used, IsFiniteSet(used)
    PROVE  used \subseteq Nat => \E n : n \in NextAfter(used, 1)
<1>0. ASSUME NEW C \in SUBSET SUBSET used, C # {}
      PROVE  \E T \in C : \A U \in C : U \subseteq T => U = T
  BY <1>0, SmallestSubset
<1> HAVE used \subseteq Nat
<1>1. CASE used = {}
  BY <1>1 DEF NextAfter
<1>2. CASE used # {}
  <2> DEFINE Over(m) == {u \in used : m < u}
             B == {Over(m) : m \in used}
  <2>1. PICK T \in B : \A U \in B : U \subseteq T => U = T
    <3>1. B \in SUBSET SUBSET used /\ B # {}
      BY <1>2
    <3> HIDE DEF B
    <3> QED BY <1>0, <3>1
  <2>2. PICK m \in used : T = Over(m)
    BY <2>1
  <2>3. \A u \in used : u <= m
    <3> SUFFICES ASSUME NEW u \in used, m < u PROVE FALSE
      OBVIOUS
    <3>1. \A v \in Over(u) : v \in Over(m)
      OBVIOUS
    <3>0. Over(u) \in B /\ Over(u) \subseteq T
      BY <2>2, <3>1
    <3>2. Over(u) = T
      BY <2>1, <3>0
    <3>3. u \in T /\ u \notin Over(u)
      BY <2>2
    <3> QED BY <3>2, <3>3
  <2>4. m + 1 \in NextAfter(used, 1)
    BY <2>3 DEF NextAfter
  <2> QED BY <2>4
<1> QED BY <1>1, <1>2

(* A row takes an identifier that no row of its table has.                 *)
LEMMA NextIdNew ==
    ASSUME NEW table, DOMAIN table \in SUBSET Nat, NEW n \in NextId(table)
    PROVE  n \in Nat /\ n # 0 /\ n \notin DOMAIN table
BY NextAfterNew, NextAfterFirst DEF NextId

(* The rows of an import get new identifiers, each its own.                *)
LEMMA RenumberedApart ==
    ASSUME NEW old \in SUBSET Nat, IsFiniteSet(old),
           NEW table, DOMAIN table \in SUBSET Nat, IsFiniteSet(DOMAIN table),
           NEW to, to = Renumbered(old, table)
    PROVE  /\ DOMAIN to = old
           /\ \A i \in old : to[i] \in Nat /\ to[i] # 0 /\ to[i] \notin DOMAIN table
           /\ \A i, j \in old : to[i] = to[j] => i = j
<1> DEFINE Less(i) == {j \in old : j < i}
           n == CHOOSE m \in NextId(table) : TRUE
<1>1. n \in NextId(table)
  BY NextAfterExists DEF NextId
<1>2. n \in Nat /\ n # 0 /\ \A x \in DOMAIN table : x < n
  BY <1>1, NextAfterNew, NextAfterFirst DEF NextId
<1>3. \A i \in old : Cardinality(Less(i)) \in Nat
  BY FS_Subset, FS_CardinalityType
<1>4. DOMAIN to = old /\ \A i \in old : to[i] = Cardinality(Less(i)) + n
  BY DEF Renumbered
<1>5. ASSUME NEW i \in old, NEW j \in old, i < j
      PROVE  Cardinality(Less(i)) < Cardinality(Less(j))
  <2>1. IsFiniteSet(Less(i)) /\ IsFiniteSet(Less(j)) /\ i \notin Less(i)
    BY FS_Subset
  <2>2. Cardinality(Less(i) \union {i}) = Cardinality(Less(i)) + 1
    BY <2>1, FS_AddElement
  <2>5. \A k \in Less(i) : k \in Less(j)
    BY <1>5
  <2>6. i \in Less(j)
    BY <1>5
  <2>3. Less(i) \union {i} \in SUBSET Less(j)
    BY <2>5, <2>6
  <2>4. Cardinality(Less(i) \union {i}) <= Cardinality(Less(j))
    BY <2>1, <2>3, FS_Subset
  <2> HIDE DEF Less
  <2> QED BY <1>3, <2>2, <2>4
<1> HIDE DEF n, Less
<1>6. \A i \in old : to[i] \in Nat /\ to[i] # 0 /\ to[i] \notin DOMAIN table
  BY <1>2, <1>3, <1>4
<1>7. ASSUME NEW i \in old, NEW j \in old, to[i] = to[j] PROVE i = j
  <2>1. Cardinality(Less(i)) = Cardinality(Less(j))
    BY <1>2, <1>3, <1>4, <1>7
  <2>2. ~(i < j) /\ ~(j < i)
    BY <1>3, <1>5, <2>1
  <2> QED BY <2>2
<1> QED BY <1>4, <1>6, <1>7

LEMMA FiniteWithMore ==
    ASSUME NEW S, IsFiniteSet(S), NEW T, IsFiniteSet(T), NEW to,
           DOMAIN to = T
    PROVE  IsFiniteSet(S \union {to[i] : i \in T})
<1> DEFINE R == {to[i] : i \in T}
           f == [i \in T |-> to[i]]
<1>1. f \in Surjection(T, R)
  BY DEF Surjection
<1>2. IsFiniteSet(R)
  BY <1>1, FS_Surjection
<1> QED BY <1>2, FS_Union

-----------------------------------------------------------------------------
(* Tables *)

IsTables(t) == DOMAIN t = DOMAIN NoTables

LEMMA Columns ==
    DOMAIN NoTables = {"txs", "notes", "spends", "witnesses", "outputs", "memos", "userMemos",
                       "heights"}
BY DEF NoTables

(* What a trim leaves of a table.                                          *)
Rest(table, rest, a, h) ==
    /\ DOMAIN rest = {x \in DOMAIN table : ~Above(table[x], a, h)}
    /\ rest = [x \in DOMAIN rest |-> table[x]]

(* The tables after a trim.                                                *)
RestOf(t, u, a, h) ==
    /\ IsTables(u)
    /\ Rest(t.txs, u.txs, a, h) /\ Rest(t.notes, u.notes, a, h)
    /\ Rest(t.spends, u.spends, a, h) /\ Rest(t.outputs, u.outputs, a, h)
    /\ u.witnesses = {w \in t.witnesses : ~Above(w, a, h)}
    /\ u.memos = {m \in t.memos : ~Above(m, a, h)}
    /\ u.userMemos = t.userMemos

LEMMA TrimRows ==
    ASSUME NEW t, IsTables(t), NEW a, NEW h
    PROVE  RestOf(t, TrimmedRows(t, a, h), a, h) /\ TrimmedRows(t, a, h).heights = t.heights
<1> DEFINE notes == Those(t.notes, LAMBDA n : ~Above(t.notes[n], a, h))
           spends == Those(t.spends, LAMBDA n : ~Above(t.spends[n], a, h))
           witnesses == {w \in t.witnesses : ~Above(w, a, h)}
           outputs == Those(t.outputs, LAMBDA o : ~Above(t.outputs[o], a, h))
           memos == {m \in t.memos : ~Above(m, a, h)}
           txs == Those(t.txs, LAMBDA i : ~Above(t.txs[i], a, h))
           u == [t EXCEPT !.notes = notes, !.spends = spends, !.witnesses = witnesses,
                          !.outputs = outputs, !.memos = memos, !.txs = txs]
<1>1. TrimmedRows(t, a, h) = u
  BY DEF TrimmedRows
<1>2. /\ Rest(t.txs, txs, a, h) /\ Rest(t.notes, notes, a, h)
      /\ Rest(t.spends, spends, a, h) /\ Rest(t.outputs, outputs, a, h)
  BY DEF Rest, Those
<1>3. witnesses = {w \in t.witnesses : ~Above(w, a, h)} /\ memos = {m \in t.memos : ~Above(m, a, h)}
  OBVIOUS
<1> HIDE DEF notes, spends, witnesses, outputs, memos, txs
<1>4. /\ IsTables(u) /\ u.txs = txs /\ u.notes = notes /\ u.spends = spends
      /\ u.outputs = outputs /\ u.witnesses = witnesses /\ u.memos = memos
      /\ u.userMemos = t.userMemos /\ u.heights = t.heights
  BY Columns DEF IsTables
<1> HIDE DEF u
<1> QED BY <1>1, <1>2, <1>3, <1>4 DEF RestOf

LEMMA TrimTables ==
    ASSUME NEW t, IsTables(t), NEW a, NEW h
    PROVE  /\ RestOf(t, Trimmed(t, a, h), a, h)
           /\ Trimmed(t, a, h).heights = [t.heights EXCEPT ![a] = h]
<1> DEFINE v == TrimmedRows(t, a, h)
           heights == [t.heights EXCEPT ![a] = h]
           u == [v EXCEPT !.heights = heights]
<1>1. RestOf(t, v, a, h) /\ v.heights = t.heights
  BY TrimRows
<1> HIDE DEF v
<1>2. Trimmed(t, a, h) = u
  BY <1>1 DEF Trimmed, v
<1> HIDE DEF heights
<1>3. IsTables(v)
  BY <1>1 DEF RestOf
<1>4. /\ IsTables(u) /\ u.heights = heights /\ u.txs = v.txs /\ u.notes = v.notes
      /\ u.spends = v.spends /\ u.outputs = v.outputs /\ u.witnesses = v.witnesses
      /\ u.memos = v.memos /\ u.userMemos = v.userMemos
  BY <1>3, Columns DEF IsTables
<1> HIDE DEF u
<1> QED BY <1>1, <1>2, <1>4 DEF RestOf, heights

(* The notes after a block, those of an account at some heights, and those *)
(* that the block spends.                                                  *)
NotesAfter(a, h, in, i, n) ==
    IF h \in in.notes
    THEN With(db.notes, n, [account |-> a, tx |-> i, h |-> h, locked |-> FALSE])
    ELSE db.notes
NotesAt(notes, a, hs) == {m \in DOMAIN notes : notes[m].account = a /\ notes[m].h \in hs}
SpentIn(a, h, in, notes) ==
    IF h \in DOMAIN in.spends THEN NotesAt(notes, a, {in.spends[h]}) ELSE {}

(* The rows of a block, table by table.                                    *)
HasBlock(t, a, h, in, kept, i, notes, spent) ==
    /\ IsTables(t)
    /\ t.txs = IF ~(h \in in.notes \union DOMAIN in.spends) \/ i \in DOMAIN db.txs THEN db.txs
               ELSE With(db.txs, i, [account |-> a, h |-> h, details |-> FALSE, category |-> 0])
    /\ t.notes = notes
    /\ t.spends = [m \in DOMAIN db.spends \union spent |->
                     IF m \in spent THEN [account |-> a, tx |-> i, h |-> h] ELSE db.spends[m]]
    /\ t.witnesses = db.witnesses \union
         {[account |-> a, note |-> m, h |-> h] : m \in NotesAt(notes, a, kept)}
    /\ t.heights = [b \in DOMAIN db.heights |-> IF b = a THEN h ELSE db.heights[b]]
    /\ t.outputs = db.outputs /\ t.memos = db.memos /\ t.userMemos = db.userMemos

LEMMA ScanTables ==
    ASSUME IsTables(db), NEW a, NEW h, NEW in, NEW kept, NEW i, NEW n,
           NEW t, t = Scanned(a, h, in, kept, i, n),
           NEW notes, notes = NotesAfter(a, h, in, i, n),
           NEW spent, spent = SpentIn(a, h, in, notes)
    PROVE  HasBlock(t, a, h, in, kept, i, notes, spent)
<1> DEFINE newNotes == NotesAfter(a, h, in, i, n)
           newSpent == SpentIn(a, h, in, newNotes)
           txs == IF ~(h \in in.notes \union DOMAIN in.spends) \/ i \in DOMAIN db.txs THEN db.txs
                  ELSE With(db.txs, i, [account |-> a, h |-> h, details |-> FALSE, category |-> 0])
           spends == [m \in DOMAIN db.spends \union newSpent |->
                        IF m \in newSpent THEN [account |-> a, tx |-> i, h |-> h] ELSE db.spends[m]]
           witnesses == db.witnesses \union
                          {[account |-> a, note |-> m, h |-> h] : m \in NotesAt(newNotes, a, kept)}
           heights == [b \in DOMAIN db.heights |-> IF b = a THEN h ELSE db.heights[b]]
           u == [db EXCEPT !.txs = txs, !.notes = newNotes, !.spends = spends,
                           !.witnesses = witnesses, !.heights = heights]
<1>1. t = u
  BY DEF Scanned, NotesAfter, NotesAt, SpentIn
<1>2. notes = newNotes /\ spent = newSpent
  OBVIOUS
<1> HIDE DEF txs, newNotes, spends, witnesses, heights
<1>3. /\ IsTables(u) /\ u.txs = txs /\ u.notes = newNotes /\ u.spends = spends
      /\ u.witnesses = witnesses /\ u.heights = heights
      /\ u.outputs = db.outputs /\ u.memos = db.memos /\ u.userMemos = db.userMemos
  BY Columns DEF IsTables
<1> HIDE DEF u
<1> QED BY <1>1, <1>2, <1>3 DEF txs, spends, witnesses, heights, HasBlock

-----------------------------------------------------------------------------
(* Types of the tables *)

TxRow   == [account : Nat, h : 1 .. Top, details : BOOLEAN, category : Categories]
NoteRow == [account : Nat, tx : Nat, h : 1 .. Top, locked : BOOLEAN]
Row     == [account : Nat, tx : Nat, h : 1 .. Top]
MemoRow == [account : Nat, tx : Nat, h : 1 .. Top, of : {"note", "output"}, row : Nat]

Table(f, R) == f \in [DOMAIN f -> R] /\ DOMAIN f \subseteq Nat /\ IsFiniteSet(DOMAIN f)

TypedRows(t) ==
    /\ IsTables(t)
    /\ Table(t.txs, TxRow) /\ Table(t.notes, NoteRow)
    /\ Table(t.spends, Row) /\ Table(t.outputs, Row)
    /\ t.memos \subseteq MemoRow

LEMMA TableIs ==
    ASSUME NEW f, NEW R, f = [x \in DOMAIN f |-> f[x]], \A x \in DOMAIN f : f[x] \in R,
           DOMAIN f \subseteq Nat, IsFiniteSet(DOMAIN f)
    PROVE  Table(f, R)
BY DEF Table

LEMMA RestTable ==
    ASSUME NEW table, NEW R, Table(table, R), NEW rest, NEW a, NEW h, Rest(table, rest, a, h)
    PROVE  Table(rest, R)
<1>1. IsFiniteSet(DOMAIN rest)
  BY FS_Subset DEF Rest, Table
<1>2. rest = [x \in DOMAIN rest |-> rest[x]] /\ \A x \in DOMAIN rest : rest[x] \in R
  BY DEF Rest, Table
<1>3. DOMAIN rest \subseteq Nat
  BY DEF Rest, Table
<1> QED BY <1>1, <1>2, <1>3, TableIs

LEMMA WithTable ==
    ASSUME NEW table, NEW R, Table(table, R), NEW x \in Nat, NEW row \in R
    PROVE  Table(With(table, x, row), R)
<1> DEFINE u == With(table, x, row)
<1>1. DOMAIN u = DOMAIN table \union {x} /\ \A y \in DOMAIN u : u[y] = IF y = x THEN row ELSE table[y]
  BY DEF With
<1>2. u = [y \in DOMAIN u |-> u[y]]
  BY DEF With
<1>3. IsFiniteSet(DOMAIN u)
  BY <1>1, FS_AddElement DEF Table
<1> HIDE DEF u
<1>4. \A y \in DOMAIN u : u[y] \in R
  BY <1>1 DEF Table
<1>5. DOMAIN u \subseteq Nat
  BY <1>1 DEF Table
<1> QED BY <1>2, <1>3, <1>4, <1>5, TableIs DEF u

LEMMA RestTyped ==
    ASSUME NEW t, TypedRows(t), NEW u, NEW a, NEW h, RestOf(t, u, a, h)
    PROVE  TypedRows(u)
<1>1. /\ Table(u.txs, TxRow) /\ Table(u.notes, NoteRow)
      /\ Table(u.spends, Row) /\ Table(u.outputs, Row)
  BY RestTable DEF TypedRows, RestOf
<1>2. u.memos \subseteq MemoRow
  BY DEF TypedRows, RestOf
<1> QED BY <1>1, <1>2 DEF TypedRows, RestOf

LEMMA ScanTyped ==
    ASSUME TypedRows(db), NEW a \in Nat, NEW h \in 1 .. Top, NEW in, NEW kept,
           NEW i \in Nat, NEW n \in Nat, NEW t, t = Scanned(a, h, in, kept, i, n)
    PROVE  TypedRows(t)
<1>1. PICK notes, spent :
        /\ notes = NotesAfter(a, h, in, i, n) /\ spent = SpentIn(a, h, in, notes)
        /\ HasBlock(t, a, h, in, kept, i, notes, spent)
  BY ScanTables DEF TypedRows
<1>2. /\ t.txs = IF ~(h \in in.notes \union DOMAIN in.spends) \/ i \in DOMAIN db.txs
                 THEN db.txs
                 ELSE With(db.txs, i, [account |-> a, h |-> h, details |-> FALSE, category |-> 0])
      /\ t.notes = notes
      /\ t.spends = [m \in DOMAIN db.spends \union spent |->
                       IF m \in spent THEN [account |-> a, tx |-> i, h |-> h] ELSE db.spends[m]]
      /\ IsTables(t) /\ t.outputs = db.outputs /\ t.memos = db.memos
  BY <1>1 DEF HasBlock
<1>3. Table(t.txs, TxRow)
  <2> DEFINE row == [account |-> a, h |-> h, details |-> FALSE, category |-> 0]
  <2>1. row \in TxRow
    BY WalletAssumption DEF TxRow
  <2>2. Table(db.txs, TxRow)
    BY DEF TypedRows
  <2> HIDE DEF row
  <2>3. Table(With(db.txs, i, row), TxRow)
    BY <2>1, <2>2, WithTable
  <2> QED BY <1>2, <2>2, <2>3 DEF row
<1>4. Table(notes, NoteRow)
  <2> DEFINE row == [account |-> a, tx |-> i, h |-> h, locked |-> FALSE]
  <2>1. row \in NoteRow
    BY DEF NoteRow
  <2>2. Table(db.notes, NoteRow)
    BY DEF TypedRows
  <2> HIDE DEF row
  <2>3. Table(With(db.notes, n, row), NoteRow)
    BY <2>1, <2>2, WithTable
  <2> QED BY <1>1, <2>2, <2>3 DEF NotesAfter, row
<1>5. Table(t.spends, Row)
  <2>1. spent \subseteq DOMAIN notes
    BY <1>1 DEF SpentIn, NotesAt
  <2>2. IsFiniteSet(spent) /\ spent \subseteq Nat
    BY <1>4, <2>1, FS_Subset DEF Table
  <2>3. Table(db.spends, Row)
    BY DEF TypedRows
  <2>4. DOMAIN t.spends = DOMAIN db.spends \union spent
    BY <1>2
  <2>5. IsFiniteSet(DOMAIN t.spends) /\ DOMAIN t.spends \subseteq Nat
    BY <2>2, <2>3, <2>4, FS_Union DEF Table
  <2>6. [account |-> a, tx |-> i, h |-> h] \in Row
    BY DEF Row
  <2>7. t.spends = [m \in DOMAIN t.spends |-> t.spends[m]]
    BY <1>2
  <2>8. \A m \in DOMAIN t.spends : t.spends[m] \in Row
    BY <1>2, <2>3, <2>4, <2>6 DEF Table
  <2> QED BY <2>5, <2>7, <2>8, TableIs
<1> QED BY <1>2, <1>3, <1>4, <1>5 DEF TypedRows

(* There is one identifier for a new row.                                  *)
LEMMA NextIdIs ==
    ASSUME NEW table, DOMAIN table \subseteq Nat, IsFiniteSet(DOMAIN table)
    PROVE  \E n \in Nat : n \notin DOMAIN table /\ NextId(table) = {n}
<1>1. PICK n \in NextId(table) : TRUE
  BY NextAfterExists DEF NextId
<1>2. n \in Nat /\ n \notin DOMAIN table
  BY <1>1, NextIdNew
<1>3. ASSUME NEW m \in NextId(table) PROVE m = n
  <2>1. m \in Nat /\ n \in Nat
    BY NextIdNew
  <2>2. ASSUME NEW k \in NextId(table), NEW l \in NextId(table), k < l PROVE FALSE
    BY <2>2 DEF NextId, NextAfter
  <2>3. ~(m < n) /\ ~(n < m)
    BY <2>2
  <2> QED BY <2>1, <2>3
<1> QED BY <1>1, <1>2, <1>3

-----------------------------------------------------------------------------
(* The details of a transaction, table by table.                           *)
MemosAfter(t, a, h, i, of, rows) ==
    IF \E m \in t.memos : m.tx = i /\ m.of = of THEN t.memos
    ELSE t.memos \union {[account |-> a, tx |-> i, h |-> h, of |-> of, row |-> r] : r \in rows}

HasOutput(t, u, a, h, i) ==
    /\ IsTables(u)
    /\ u.outputs = StoredOutput(t, a, h, i)
    /\ u.memos = MemosAfter(t, a, h, i, "output", OutputOf(u, i))
    /\ u.txs = t.txs /\ u.notes = t.notes /\ u.spends = t.spends
    /\ u.witnesses = t.witnesses /\ u.userMemos = t.userMemos /\ u.heights = t.heights

HasMemo(t, u, a, h, i, rows) ==
    /\ IsTables(u)
    /\ u.memos = MemosAfter(t, a, h, i, "note", rows)
    /\ u.txs = t.txs /\ u.notes = t.notes /\ u.spends = t.spends /\ u.outputs = t.outputs
    /\ u.witnesses = t.witnesses /\ u.userMemos = t.userMemos /\ u.heights = t.heights

LEMMA StoredMemoIs ==
    ASSUME NEW t, NEW a, NEW h, NEW i, NEW of, NEW rows
    PROVE  StoredMemo(t, a, h, i, of, rows) = MemosAfter(t, a, h, i, of, rows)
<1>1. MemoOf(t, i, of) # {} <=> \E m \in t.memos : m.tx = i /\ m.of = of
  BY DEF MemoOf
<1> QED BY <1>1 DEF StoredMemo, MemosAfter

LEMMA OutputTables ==
    ASSUME NEW t, IsTables(t), NEW a, NEW h, NEW i
    PROVE  HasOutput(t, WithOutput(t, a, h, i), a, h, i)
<1> DEFINE outputs == StoredOutput(t, a, h, i)
           s == [t EXCEPT !.outputs = outputs]
           memos == StoredMemo(s, a, h, i, "output", OutputOf(s, i))
           u == [s EXCEPT !.memos = memos]
<1>1. WithOutput(t, a, h, i) = u
  BY DEF WithOutput
<1> HIDE DEF outputs
<1>2. /\ IsTables(s) /\ s.outputs = outputs /\ s.txs = t.txs /\ s.notes = t.notes
      /\ s.spends = t.spends /\ s.witnesses = t.witnesses /\ s.memos = t.memos
      /\ s.userMemos = t.userMemos /\ s.heights = t.heights
  BY Columns DEF IsTables
<1> HIDE DEF s
<1>3. memos = MemosAfter(s, a, h, i, "output", OutputOf(s, i))
  BY StoredMemoIs
<1> HIDE DEF memos
<1>4. /\ IsTables(u) /\ u.memos = memos /\ u.txs = s.txs /\ u.notes = s.notes
      /\ u.spends = s.spends /\ u.witnesses = s.witnesses /\ u.outputs = s.outputs
      /\ u.userMemos = s.userMemos /\ u.heights = s.heights
  BY <1>2, Columns DEF IsTables
<1> HIDE DEF u
<1>5. OutputOf(u, i) = OutputOf(s, i)
  BY <1>4 DEF OutputOf
<1>6. MemosAfter(s, a, h, i, "output", OutputOf(s, i)) = MemosAfter(t, a, h, i, "output", OutputOf(s, i))
  BY <1>2 DEF MemosAfter
<1> QED BY <1>1, <1>2, <1>3, <1>4, <1>5, <1>6 DEF HasOutput, outputs

LEMMA MemoTables ==
    ASSUME NEW t, IsTables(t), NEW a, NEW h, NEW i,
           NEW rows, rows = IF NoteId(a, h) = {} THEN {0} ELSE NoteId(a, h)
    PROVE  HasMemo(t, WithMemo(t, a, h, i), a, h, i, rows)
<1> DEFINE memos == StoredMemo(t, a, h, i, "note", rows)
           u == [t EXCEPT !.memos = memos]
<1>1. WithMemo(t, a, h, i) = u
  BY DEF WithMemo
<1>2. memos = MemosAfter(t, a, h, i, "note", rows)
  BY StoredMemoIs
<1> HIDE DEF memos
<1>4. /\ IsTables(u) /\ u.memos = memos /\ u.txs = t.txs /\ u.notes = t.notes
      /\ u.spends = t.spends /\ u.witnesses = t.witnesses /\ u.outputs = t.outputs
      /\ u.userMemos = t.userMemos /\ u.heights = t.heights
  BY Columns DEF IsTables
<1> HIDE DEF u
<1> QED BY <1>1, <1>2, <1>4 DEF HasMemo

LEMMA MemosTyped ==
    ASSUME NEW t, t.memos \subseteq MemoRow, NEW a \in Nat, NEW h \in 1 .. Top, NEW i \in Nat,
           NEW of \in {"note", "output"}, NEW rows, rows \subseteq Nat
    PROVE  MemosAfter(t, a, h, i, of, rows) \subseteq MemoRow
<1>1. \A r \in rows : [account |-> a, tx |-> i, h |-> h, of |-> of, row |-> r] \in MemoRow
  BY DEF MemoRow
<1> QED BY <1>1 DEF MemosAfter

LEMMA OutputTyped ==
    ASSUME NEW t, TypedRows(t), NEW a \in Nat, NEW h \in 1 .. Top, NEW i \in Nat,
           NEW u, HasOutput(t, u, a, h, i)
    PROVE  TypedRows(u)
<1>1. Table(u.outputs, Row)
  <2>1. Table(t.outputs, Row)
    BY DEF TypedRows
  <2>2. PICK n \in Nat : n \notin DOMAIN t.outputs /\ NextId(t.outputs) = {n}
    BY <2>1, NextIdIs DEF Table
  <2>3. [account |-> a, tx |-> i, h |-> h] \in Row
    BY DEF Row
  <2> DEFINE more == [o \in DOMAIN t.outputs \union {n} |->
                        IF o \in DOMAIN t.outputs THEN t.outputs[o]
                        ELSE [account |-> a, tx |-> i, h |-> h]]
  <2>4. u.outputs \in {t.outputs, more}
    BY <2>2 DEF HasOutput, StoredOutput
  <2>5. IsFiniteSet(DOMAIN t.outputs \union {n})
    BY <2>1, FS_AddElement DEF Table
  <2>6. \A o \in DOMAIN more : more[o] \in Row
    BY <2>1, <2>3 DEF Table
  <2>7. DOMAIN more \subseteq Nat /\ IsFiniteSet(DOMAIN more) /\ more = [o \in DOMAIN more |-> more[o]]
    BY <2>1, <2>2, <2>5 DEF Table
  <2> HIDE DEF more
  <2>8. Table(more, Row)
    BY <2>6, <2>7, TableIs
  <2> QED BY <2>1, <2>4, <2>8
<1>2. OutputOf(u, i) \subseteq Nat
  BY <1>1 DEF OutputOf, Table
<1>3. MemosAfter(t, a, h, i, "output", OutputOf(u, i)) \subseteq MemoRow
  BY <1>2, MemosTyped DEF TypedRows
<1> QED BY <1>1, <1>3 DEF TypedRows, HasOutput

LEMMA MemoTyped ==
    ASSUME NEW t, TypedRows(t), NEW a \in Nat, NEW h \in 1 .. Top, NEW i \in Nat,
           NEW rows, rows \subseteq Nat, NEW u, HasMemo(t, u, a, h, i, rows)
    PROVE  TypedRows(u)
<1>1. MemosAfter(t, a, h, i, "note", rows) \subseteq MemoRow
  BY MemosTyped DEF TypedRows
<1> QED BY <1>1 DEF TypedRows, HasMemo

-----------------------------------------------------------------------------
(* An export, table by table; what is in it refers to what is in it.       *)
Closed(t) ==
    /\ \A n \in DOMAIN t.notes : t.notes[n].tx \in DOMAIN t.txs
    /\ \A n \in DOMAIN t.spends : t.spends[n].tx \in DOMAIN t.txs
    /\ \A o \in DOMAIN t.outputs : t.outputs[o].tx \in DOMAIN t.txs
    /\ \A m \in t.memos : m.row \in IF m.of = "note" THEN DOMAIN t.notes ELSE DOMAIN t.outputs

(* Some rows of a table.                                                   *)
Part(table, part) == DOMAIN part \subseteq DOMAIN table /\ part = [x \in DOMAIN part |-> table[x]]

HasExport(t, a) ==
    /\ IsTables(t)
    /\ Part(db.txs, t.txs) /\ Part(db.notes, t.notes) /\ Part(db.spends, t.spends)
    /\ Part(db.outputs, t.outputs)
    /\ \A i \in DOMAIN db.txs : i \in DOMAIN t.txs <=> db.txs[i].account = a
    /\ \A n \in DOMAIN db.notes : n \in DOMAIN t.notes <=> db.notes[n].tx \in DOMAIN t.txs
    /\ \A n \in DOMAIN db.spends : n \in DOMAIN t.spends <=> db.spends[n].tx \in DOMAIN t.txs
    /\ \A o \in DOMAIN db.outputs : o \in DOMAIN t.outputs <=> db.outputs[o].tx \in DOMAIN t.txs
    /\ t.memos = {m \in db.memos : (m.of = "note" /\ m.row \in DOMAIN t.notes)
                                   \/ (m.of = "output" /\ m.row \in DOMAIN t.outputs)}
    /\ t.witnesses = export.tables.witnesses
    /\ Part(db.userMemos, t.userMemos) /\ \A u \in DOMAIN t.userMemos : u[1] = a

LEMMA ExportTables ==
    ASSUME NEW a
    PROVE  HasExport(ExportedTables(a), a)
<1> DEFINE txs == Those(db.txs, LAMBDA i : db.txs[i].account = a)
           notes == ExportedNotes(txs)
           outputs == Those(db.outputs, LAMBDA o : db.outputs[o].tx \in DOMAIN txs)
           spends == Those(db.spends, LAMBDA n : db.spends[n].tx \in DOMAIN txs)
           memos == {m \in db.memos : (m.of = "note" /\ m.row \in DOMAIN notes)
                                      \/ (m.of = "output" /\ m.row \in DOMAIN outputs)}
           userMemos == Those(db.userMemos, LAMBDA u : u[1] = a)
           t == [txs |-> txs, notes |-> notes, outputs |-> outputs, spends |-> spends,
                 memos |-> memos, userMemos |-> userMemos,
                 witnesses |-> export.tables.witnesses, heights |-> Nothing]
<1>1. ExportedTables(a) = t
  BY DEF ExportedTables
<1>2. Part(db.txs, txs) /\ \A i \in DOMAIN db.txs : i \in DOMAIN txs <=> db.txs[i].account = a
  BY DEF Part, Those
<1> HIDE DEF txs
<1>3. /\ Part(db.notes, notes) /\ Part(db.spends, spends) /\ Part(db.outputs, outputs)
      /\ \A n \in DOMAIN db.notes : n \in DOMAIN notes <=> db.notes[n].tx \in DOMAIN txs
      /\ \A n \in DOMAIN db.spends : n \in DOMAIN spends <=> db.spends[n].tx \in DOMAIN txs
      /\ \A o \in DOMAIN db.outputs : o \in DOMAIN outputs <=> db.outputs[o].tx \in DOMAIN txs
  BY DEF Part, Those, ExportedNotes
<1>4. Part(db.userMemos, userMemos) /\ \A u \in DOMAIN userMemos : u[1] = a
  BY DEF Part, Those
<1>5. memos = {m \in db.memos : (m.of = "note" /\ m.row \in DOMAIN notes)
                                \/ (m.of = "output" /\ m.row \in DOMAIN outputs)}
  OBVIOUS
<1> HIDE DEF notes, outputs, spends, memos, userMemos
<1>6. /\ IsTables(t) /\ t.txs = txs /\ t.notes = notes /\ t.outputs = outputs /\ t.spends = spends
      /\ t.memos = memos /\ t.userMemos = userMemos /\ t.witnesses = export.tables.witnesses
  BY Columns DEF IsTables
<1> HIDE DEF t
<1> QED BY <1>1, <1>2, <1>3, <1>4, <1>5, <1>6 DEF HasExport

LEMMA PartTable ==
    ASSUME NEW table, NEW R, Table(table, R), NEW part, Part(table, part)
    PROVE  Table(part, R)
<1>1. IsFiniteSet(DOMAIN part)
  BY FS_Subset DEF Part, Table
<1>2. part = [x \in DOMAIN part |-> part[x]] /\ \A x \in DOMAIN part : part[x] \in R
  BY DEF Part, Table
<1>3. DOMAIN part \subseteq Nat
  BY DEF Part, Table
<1> QED BY <1>1, <1>2, <1>3, TableIs

LEMMA ExportTyped ==
    ASSUME TypedRows(db), NEW a, NEW t, HasExport(t, a)
    PROVE  TypedRows(t) /\ Closed(t)
<1>1. /\ Table(t.txs, TxRow) /\ Table(t.notes, NoteRow) /\ Table(t.spends, Row)
      /\ Table(t.outputs, Row)
  BY PartTable DEF TypedRows, HasExport
<1>2. t.memos \subseteq MemoRow
  BY DEF TypedRows, HasExport
<1>3. Closed(t)
  <2>1. \A n \in DOMAIN t.notes : t.notes[n].tx \in DOMAIN t.txs
    BY DEF HasExport, Part
  <2>2. \A n \in DOMAIN t.spends : t.spends[n].tx \in DOMAIN t.txs
    BY DEF HasExport, Part
  <2>3. \A o \in DOMAIN t.outputs : t.outputs[o].tx \in DOMAIN t.txs
    BY DEF HasExport, Part
  <2>4. \A m \in t.memos : m.row \in IF m.of = "note" THEN DOMAIN t.notes ELSE DOMAIN t.outputs
    BY DEF HasExport
  <2> QED BY <2>1, <2>2, <2>3, <2>4 DEF Closed
<1> QED BY <1>1, <1>2, <1>3 DEF TypedRows, HasExport

-----------------------------------------------------------------------------
(* An import, table by table: the rows of the file join those that are     *)
(* there.                                                                  *)
Joined(table, result, rows, to) ==
    /\ DOMAIN result = DOMAIN table \union {to[r] : r \in DOMAIN rows}
    /\ result = [x \in DOMAIN result |-> result[x]]
    /\ \A x \in DOMAIN table : result[x] = table[x]
    /\ \A r \in DOMAIN rows : result[to[r]] = rows[r]

LEMMA RenamedIs ==
    ASSUME NEW table, NEW rows, NEW to,
           \A r \in DOMAIN rows : to[r] \notin DOMAIN table,
           \A r, s \in DOMAIN rows : to[r] = to[s] => r = s
    PROVE  Joined(table, Renamed(table, rows, to), rows, to)
<1> DEFINE u == Renamed(table, rows, to)
<1>1. /\ DOMAIN u = DOMAIN table \union {to[r] : r \in DOMAIN rows}
      /\ u = [x \in DOMAIN u |-> u[x]]
      /\ \A x \in DOMAIN table : u[x] = table[x]
  BY DEF Renamed
<1>2. ASSUME NEW r \in DOMAIN rows PROVE u[to[r]] = rows[r]
  <2> DEFINE q == CHOOSE s \in DOMAIN rows : to[s] = to[r]
  <2>1. q \in DOMAIN rows /\ to[q] = to[r]
    OBVIOUS
  <2>2. u[to[r]] = rows[q]
    BY DEF Renamed
  <2> HIDE DEF q
  <2> QED BY <2>1, <2>2
<1> HIDE DEF u
<1> QED BY <1>1, <1>2 DEF Joined, u

LEMMA JoinedTable ==
    ASSUME NEW table, NEW R, Table(table, R), NEW rows, NEW to, NEW result,
           Joined(table, result, rows, to), IsFiniteSet(DOMAIN rows),
           \A r \in DOMAIN rows : to[r] \in Nat /\ rows[r] \in R,
           DOMAIN rows \subseteq DOMAIN to
    PROVE  Table(result, R)
<1> DEFINE f == [r \in DOMAIN rows |-> to[r]]
<1>1. IsFiniteSet(DOMAIN table \union {f[r] : r \in DOMAIN f})
  <2>1. DOMAIN f = DOMAIN rows /\ IsFiniteSet(DOMAIN table) /\ IsFiniteSet(DOMAIN rows)
    BY DEF Table
  <2> HIDE DEF f
  <2> QED BY <2>1, FiniteWithMore
<1>2. DOMAIN result = DOMAIN table \union {f[r] : r \in DOMAIN f}
  BY DEF Joined
<1>3. DOMAIN result \subseteq Nat
  BY DEF Joined, Table
<1>4. \A x \in DOMAIN result : result[x] \in R
  BY DEF Joined, Table
<1> QED BY <1>1, <1>2, <1>3, <1>4, TableIs DEF Joined

MovedTxs(t, a)     == [i \in DOMAIN t.txs |-> [t.txs[i] EXCEPT !.account = a]]
MovedRows(rows, a, t) ==
    [r \in DOMAIN rows |-> [rows[r] EXCEPT !.account = a, !.tx = NewTx(t)[rows[r].tx]]]
MovedMemo(m, a, t) ==
    [account |-> a, tx |-> NewTx(t)[RowOf(t, m).tx], h |-> RowOf(t, m).h, of |-> m.of,
     row |-> IF m.of = "note" THEN NewNote(t)[m.row] ELSE NewOutput(t)[m.row]]

HasImport(u, t, a) ==
    /\ IsTables(u)
    /\ Joined(db.txs, u.txs, MovedTxs(t, a), NewTx(t))
    /\ Joined(db.notes, u.notes, MovedRows(t.notes, a, t), NewNote(t))
    /\ Joined(db.outputs, u.outputs, MovedRows(t.outputs, a, t), NewOutput(t))
    /\ Joined(db.spends, u.spends, MovedRows(t.spends, a, t), NewNote(t))
    /\ u.memos = db.memos \union {MovedMemo(m, a, t) : m \in t.memos}
    /\ u.witnesses = db.witnesses \union
         {[account |-> a, note |-> NewNote(t)[w.note], h |-> w.h] : w \in t.witnesses}

(* The identifiers that the rows of a file get.                            *)
LEMMA NewIds ==
    ASSUME TypedRows(db), NEW t, TypedRows(t)
    PROVE  /\ DOMAIN NewTx(t) = DOMAIN t.txs
           /\ \A i \in DOMAIN t.txs : NewTx(t)[i] \in Nat /\ NewTx(t)[i] # 0 /\ NewTx(t)[i] \notin DOMAIN db.txs
           /\ \A i, j \in DOMAIN t.txs : NewTx(t)[i] = NewTx(t)[j] => i = j
           /\ DOMAIN NewNote(t) = DOMAIN t.notes
           /\ \A i \in DOMAIN t.notes : NewNote(t)[i] \in Nat /\ NewNote(t)[i] \notin DOMAIN db.notes
           /\ \A i, j \in DOMAIN t.notes : NewNote(t)[i] = NewNote(t)[j] => i = j
           /\ DOMAIN NewOutput(t) = DOMAIN t.outputs
           /\ \A i \in DOMAIN t.outputs : NewOutput(t)[i] \in Nat /\ NewOutput(t)[i] \notin DOMAIN db.outputs
           /\ \A i, j \in DOMAIN t.outputs : NewOutput(t)[i] = NewOutput(t)[j] => i = j
<1>1. /\ DOMAIN db.txs \in SUBSET Nat /\ IsFiniteSet(DOMAIN db.txs)
      /\ DOMAIN db.notes \in SUBSET Nat /\ IsFiniteSet(DOMAIN db.notes)
      /\ DOMAIN db.outputs \in SUBSET Nat /\ IsFiniteSet(DOMAIN db.outputs)
      /\ DOMAIN t.txs \in SUBSET Nat /\ IsFiniteSet(DOMAIN t.txs)
      /\ DOMAIN t.notes \in SUBSET Nat /\ IsFiniteSet(DOMAIN t.notes)
      /\ DOMAIN t.outputs \in SUBSET Nat /\ IsFiniteSet(DOMAIN t.outputs)
  BY DEF TypedRows, Table
<1>2. /\ DOMAIN NewTx(t) = DOMAIN t.txs
      /\ \A i \in DOMAIN t.txs : NewTx(t)[i] \in Nat /\ NewTx(t)[i] # 0 /\ NewTx(t)[i] \notin DOMAIN db.txs
      /\ \A i, j \in DOMAIN t.txs : NewTx(t)[i] = NewTx(t)[j] => i = j
  BY <1>1, RenumberedApart DEF NewTx
<1>3. /\ DOMAIN NewNote(t) = DOMAIN t.notes
      /\ \A i \in DOMAIN t.notes : NewNote(t)[i] \in Nat /\ NewNote(t)[i] \notin DOMAIN db.notes
      /\ \A i, j \in DOMAIN t.notes : NewNote(t)[i] = NewNote(t)[j] => i = j
  BY <1>1, RenumberedApart DEF NewNote
<1>4. /\ DOMAIN NewOutput(t) = DOMAIN t.outputs
      /\ \A i \in DOMAIN t.outputs : NewOutput(t)[i] \in Nat /\ NewOutput(t)[i] \notin DOMAIN db.outputs
      /\ \A i, j \in DOMAIN t.outputs : NewOutput(t)[i] = NewOutput(t)[j] => i = j
  BY <1>1, RenumberedApart DEF NewOutput
<1> QED BY <1>2, <1>3, <1>4

LEMMA ImportTables ==
    ASSUME TypedRows(db), NEW t, TypedRows(t), Closed(t), NEW a, NEW height,
           ~RefersToNoNote(t), ~Collides(t, a),
           NEW u, u = Imported(t, a, height)
    PROVE  HasImport(u, t, a) /\ u.heights = With(db.heights, a, height)
<1> DEFINE Rows(rows) == [r \in DOMAIN rows |-> Moved(rows[r], a, t)]
           kept == Those(t.userMemos, LAMBDA v : v[2] \in DOMAIN t.txs)
           txs == Renamed(db.txs, [i \in DOMAIN t.txs |-> ImportedTx(t.txs[i], a)], NewTx(t))
           notes == Renamed(db.notes, Rows(t.notes), NewNote(t))
           outputs == Renamed(db.outputs, Rows(t.outputs), NewOutput(t))
           spends == Renamed(db.spends, Rows(t.spends), NewNote(t))
           Memo(m) == [Moved([m EXCEPT !.tx = RowOf(t, m).tx], a, t) EXCEPT
                          !.h = RowOf(t, m).h,
                          !.row = IF m.of = "note" THEN NewNote(t)[@] ELSE NewOutput(t)[@]]
           memos == db.memos \union {Memo(m) : m \in t.memos}
           userMemos == [x \in DOMAIN db.userMemos \union {<<a, NewTx(t)[v[2]]>> : v \in DOMAIN kept} |->
                            IF x \in DOMAIN db.userMemos THEN db.userMemos[x]
                            ELSE kept[CHOOSE v \in DOMAIN kept : NewTx(t)[v[2]] = x[2]]]
           witnesses == db.witnesses \union
                {[account |-> a, note |-> NewNote(t)[w.note], h |-> w.h] : w \in t.witnesses}
           heights == With(db.heights, a, height)
           r == [db EXCEPT !.txs = txs, !.notes = notes, !.outputs = outputs, !.spends = spends,
                           !.memos = memos, !.userMemos = userMemos, !.witnesses = witnesses,
                           !.heights = heights]
<1>1. u = r
  BY DEF Imported
<1>2. Joined(db.txs, txs, MovedTxs(t, a), NewTx(t))
  <2>1. MovedTxs(t, a) = [i \in DOMAIN t.txs |-> ImportedTx(t.txs[i], a)]
    BY DEF MovedTxs, ImportedTx
  <2>2. DOMAIN MovedTxs(t, a) = DOMAIN t.txs
    BY DEF MovedTxs
  <2> QED BY <2>1, <2>2, NewIds, RenamedIs
<1>3. ASSUME NEW rows PROVE Rows(rows) = MovedRows(rows, a, t) /\ DOMAIN MovedRows(rows, a, t) = DOMAIN rows
  BY DEF Moved, MovedRows
<1> HIDE DEF Rows
<1>4. Joined(db.notes, notes, MovedRows(t.notes, a, t), NewNote(t))
  BY <1>3, NewIds, RenamedIs
<1>5. Joined(db.outputs, outputs, MovedRows(t.outputs, a, t), NewOutput(t))
  BY <1>3, NewIds, RenamedIs
<1>6. Joined(db.spends, spends, MovedRows(t.spends, a, t), NewNote(t))
  <2>1. DOMAIN t.spends \subseteq DOMAIN t.notes
    BY DEF RefersToNoNote
  <2>2. \A n \in DOMAIN t.notes : NewNote(t)[n] \notin DOMAIN db.spends
    BY DEF Collides
  <2> QED BY <1>3, <2>1, <2>2, NewIds, RenamedIs
<1>7. memos = db.memos \union {MovedMemo(m, a, t) : m \in t.memos}
  <2>1. ASSUME NEW m \in t.memos PROVE Memo(m) = MovedMemo(m, a, t)
    <3> DEFINE x == RowOf(t, m).tx
               h == RowOf(t, m).h
               y == NewTx(t)[x]
               k == IF m.of = "note" THEN NewNote(t)[m.row] ELSE NewOutput(t)[m.row]
    <3>1. m \in MemoRow
      BY DEF TypedRows
    <3> HIDE DEF x, h
    <3>2. [m EXCEPT !.tx = x].tx = x
      BY <3>1 DEF MemoRow
    <3>3. Moved([m EXCEPT !.tx = x], a, t) = [account |-> a, tx |-> y, h |-> m.h, of |-> m.of, row |-> m.row]
      <4> HIDE DEF y
      <4>1. Moved([m EXCEPT !.tx = x], a, t) = [[m EXCEPT !.tx = x] EXCEPT !.account = a, !.tx = y]
        BY <3>2 DEF Moved, y
      <4> QED BY <3>1, <4>1 DEF MemoRow
    <3> HIDE DEF y
    <3> DEFINE v == Moved([m EXCEPT !.tx = x], a, t)
               l == IF m.of = "note" THEN NewNote(t)[v.row] ELSE NewOutput(t)[v.row]
    <3>5. Memo(m) = [v EXCEPT !.h = h, !.row = l]
      BY DEF x, h
    <3>6. l = k
      BY <3>3
    <3>7. v = [account |-> a, tx |-> y, h |-> m.h, of |-> m.of, row |-> m.row]
      BY <3>3
    <3> HIDE DEF v, l, k, Memo
    <3>4. Memo(m) = [account |-> a, tx |-> y, h |-> h, of |-> m.of, row |-> k]
      BY <3>5, <3>6, <3>7
    <3> QED BY <3>4 DEF MovedMemo, x, h, y, k
  <2> HIDE DEF Memo
  <2> QED BY <2>1
<1> HIDE DEF txs, notes, outputs, spends, memos, userMemos, witnesses, heights
<1>8. /\ IsTables(r) /\ r.txs = txs /\ r.notes = notes /\ r.outputs = outputs /\ r.spends = spends
      /\ r.memos = memos /\ r.witnesses = witnesses /\ r.heights = heights
  BY Columns DEF IsTables, TypedRows
<1> HIDE DEF r
<1> QED BY <1>1, <1>2, <1>4, <1>5, <1>6, <1>7, <1>8 DEF HasImport, witnesses, heights

LEMMA ImportTyped ==
    ASSUME TypedRows(db), NEW t, TypedRows(t), Closed(t), NEW a \in Nat, NEW u, HasImport(u, t, a),
           ~RefersToNoNote(t)
    PROVE  TypedRows(u)
<1>1. Table(u.txs, TxRow)
  <2>1. \A i \in DOMAIN t.txs : [t.txs[i] EXCEPT !.account = a] \in TxRow
    BY DEF TypedRows, Table, TxRow
  <2>2. DOMAIN MovedTxs(t, a) = DOMAIN t.txs /\ \A i \in DOMAIN t.txs : MovedTxs(t, a)[i] \in TxRow
    BY <2>1 DEF MovedTxs
  <2>3. Table(t.txs, TxRow) /\ Table(db.txs, TxRow) /\ IsFiniteSet(DOMAIN t.txs)
    BY DEF TypedRows, Table
  <2> QED BY <2>2, <2>3, NewIds, JoinedTable DEF HasImport
<1>2. ASSUME NEW R \in {NoteRow, Row}, NEW rows, Table(rows, R),
             \A x \in DOMAIN rows : rows[x].tx \in DOMAIN t.txs
      PROVE  /\ DOMAIN MovedRows(rows, a, t) = DOMAIN rows
             /\ \A x \in DOMAIN rows : MovedRows(rows, a, t)[x] \in R
  <2>1. ASSUME NEW x \in DOMAIN rows PROVE MovedRows(rows, a, t)[x] \in R
    <3> DEFINE y == NewTx(t)[rows[x].tx]
    <3>1. y \in Nat
      BY <1>2, NewIds
    <3>2. MovedRows(rows, a, t)[x] = [rows[x] EXCEPT !.account = a, !.tx = y]
      BY DEF MovedRows
    <3> HIDE DEF y
    <3>3. rows[x] \in R
      BY <1>2 DEF Table
    <3>4. CASE R = NoteRow
      BY <3>1, <3>2, <3>3, <3>4 DEF NoteRow
    <3>5. CASE R = Row
      BY <3>1, <3>2, <3>3, <3>5 DEF Row
    <3> QED BY <3>4, <3>5
  <2> QED BY <2>1 DEF MovedRows
<1>3. Table(u.notes, NoteRow)
  <2>1. Table(t.notes, NoteRow) /\ Table(db.notes, NoteRow) /\ IsFiniteSet(DOMAIN t.notes)
    BY DEF TypedRows, Table
  <2>2. /\ DOMAIN MovedRows(t.notes, a, t) = DOMAIN t.notes
        /\ \A x \in DOMAIN t.notes : MovedRows(t.notes, a, t)[x] \in NoteRow
    BY <1>2, <2>1 DEF Closed
  <2> QED BY <2>1, <2>2, NewIds, JoinedTable DEF HasImport
<1>4. Table(u.outputs, Row)
  <2>1. Table(t.outputs, Row) /\ Table(db.outputs, Row) /\ IsFiniteSet(DOMAIN t.outputs)
    BY DEF TypedRows, Table
  <2>2. /\ DOMAIN MovedRows(t.outputs, a, t) = DOMAIN t.outputs
        /\ \A x \in DOMAIN t.outputs : MovedRows(t.outputs, a, t)[x] \in Row
    BY <1>2, <2>1 DEF Closed
  <2> QED BY <2>1, <2>2, NewIds, JoinedTable DEF HasImport
<1>5. Table(u.spends, Row)
  <2>1. Table(t.spends, Row) /\ Table(db.spends, Row) /\ IsFiniteSet(DOMAIN t.spends)
    BY DEF TypedRows, Table
  <2>2. /\ DOMAIN MovedRows(t.spends, a, t) = DOMAIN t.spends
        /\ \A x \in DOMAIN t.spends : MovedRows(t.spends, a, t)[x] \in Row
    BY <1>2, <2>1 DEF Closed
  <2>3. DOMAIN t.spends \subseteq DOMAIN t.notes
    BY DEF RefersToNoNote
  <2> QED BY <2>1, <2>2, <2>3, NewIds, JoinedTable DEF HasImport
<1>6. u.memos \subseteq MemoRow
  <2>1. ASSUME NEW m \in t.memos PROVE MovedMemo(m, a, t) \in MemoRow
    <3>1. m.of \in {"note", "output"}
      BY DEF TypedRows, MemoRow
    <3>2. CASE m.of = "note"
      <4>1. m.row \in DOMAIN t.notes /\ t.notes[m.row].tx \in DOMAIN t.txs /\ t.notes[m.row] \in NoteRow
        BY <3>2 DEF Closed, TypedRows, Table
      <4> QED BY <3>2, <4>1, NewIds DEF MovedMemo, RowOf, MemoRow, NoteRow
    <3>3. CASE m.of = "output"
      <4>1. m.row \in DOMAIN t.outputs /\ t.outputs[m.row].tx \in DOMAIN t.txs /\ t.outputs[m.row] \in Row
        BY <3>3 DEF Closed, TypedRows, Table
      <4> QED BY <3>3, <4>1, NewIds DEF MovedMemo, RowOf, MemoRow, Row
    <3> QED BY <3>1, <3>2, <3>3
  <2> QED BY <2>1 DEF HasImport, TypedRows
<1> QED BY <1>1, <1>3, <1>4, <1>5, <1>6 DEF TypedRows, HasImport

-----------------------------------------------------------------------------
(* The types of everything else.                                           *)
DbOK ==
    /\ TypedRows(db)
    /\ DOMAIN db.heights = ids /\ \A a \in ids : db.heights[a] \in 0 .. Top
RunOK == DOMAIN run = DOMAIN NoRun /\ run.account \in Nat /\ run.at \in 0 .. Top
JobOK ==
    /\ DOMAIN job = DOMAIN NoJob /\ job.account \in Nat
    /\ job.todo \subseteq Nat \X (1 .. Top)
    /\ job.found # 0 => job.found \in Nat /\ job.h \in 1 .. Top
FileOK ==
    /\ export.height \in 0 .. Top /\ file.height \in 0 .. Top
    /\ TypedRows(file.tables) /\ Closed(file.tables)
PendingOK ==
    /\ \A p \in DOMAIN pending : p \in Nat \X (1 .. Top) /\ pending[p].category \in Categories
    /\ \A p, q \in DOMAIN pending : p[2] = q[2] => p = q
OutcomeOK == outcome.result \in {"none", "ok", "unique", "panic"}

RowsTyped == DbOK /\ RunOK /\ JobOK /\ FileOK /\ PendingOK /\ OutcomeOK

LEMMA RowsTypeOK == WalletInv /\ RowsTyped /\ overtaken \subseteq Nat => TypeOK
<1> SUFFICES ASSUME WalletInv, RowsTyped, overtaken \subseteq Nat PROVE TypeOK
  OBVIOUS
<1>1. AccountTypeOK /\ DOMAIN db.heights = ids /\ run.at \in 0 .. Top
      /\ outcome.result \in {"none", "ok", "unique", "panic"}
      /\ DOMAIN pending \subseteq Nat \X (1 .. Top)
  BY DEF WalletInv, Arranged, RowsTyped, DbOK, RunOK, PendingOK, OutcomeOK
<1>2. \A i \in DOMAIN db.txs :
        db.txs[i] \in [account : Nat, h : 1 .. Top, details : BOOLEAN, category : Categories]
  BY DEF RowsTyped, DbOK, TypedRows, Table, TxRow
<1>3. \A n \in DOMAIN db.notes :
        db.notes[n] \in [account : Nat, tx : Nat, h : 1 .. Top, locked : BOOLEAN]
  BY DEF RowsTyped, DbOK, TypedRows, Table, NoteRow
<1>4. \A x \in {db.spends[n] : n \in DOMAIN db.spends} \union {db.outputs[o] : o \in DOMAIN db.outputs} :
        x \in [account : Nat, tx : Nat, h : 1 .. Top]
  BY DEF RowsTyped, DbOK, TypedRows, Table, Row
<1> QED BY <1>1, <1>2, <1>3, <1>4 DEF TypeOK

LEMMA NoTablesTyped == TypedRows(NoTables) /\ Closed(NoTables)
<1>1. /\ IsTables(NoTables) /\ NoTables.memos = {}
      /\ NoTables.txs = Nothing /\ NoTables.notes = Nothing
      /\ NoTables.spends = Nothing /\ NoTables.outputs = Nothing
  BY DEF IsTables, NoTables
<1>2. DOMAIN Nothing = {} /\ Nothing = [x \in DOMAIN Nothing |-> Nothing[x]]
  BY DEF Nothing
<1>3. IsFiniteSet({})
  BY FS_EmptySet
<1>4. ASSUME NEW R PROVE Table(Nothing, R)
  BY <1>2, <1>3, TableIs
<1> QED BY <1>1, <1>2, <1>4 DEF TypedRows, Closed

LEMMA InitTyped == Init => RowsTyped
<1> SUFFICES ASSUME Init PROVE RowsTyped
  OBVIOUS
<1>1. db.heights = Nothing /\ ids = {}
  BY DEF Init, AccountInit, NoTables, ids
<1>2. DbOK
  BY <1>1, NoTablesTyped DEF Init, DbOK, Nothing
<1>3. RunOK /\ JobOK
  BY WalletAssumption DEF Init, RunOK, JobOK, NoRun, NoJob
<1>4. FileOK
  BY WalletAssumption, NoTablesTyped DEF Init, FileOK, NoFile
<1>5. PendingOK
  BY DEF Init, PendingOK, Nothing
<1> QED BY <1>2, <1>3, <1>4, <1>5 DEF RowsTyped, OutcomeOK, Init, NoImport

-----------------------------------------------------------------------------
LEMMA StartRunTyped ==
    ASSUME WalletInv, RowsTyped, NEW a \in ids, StartRun(a), UNCHANGED accountVars
    PROVE  DbOK' /\ RunOK'
<1>1. a \in Nat /\ ids' = ids
  BY DEF WalletInv, Arranged, AccountTypeOK, accountVars, ids
<1>2. db.heights[a] \in 0 .. Top /\ IsTables(db) /\ TypedRows(db) /\ DOMAIN db.heights = ids
  BY DEF RowsTyped, DbOK, TypedRows
<1>3. db' = Trimmed(db, a, db.heights[a])
  BY DEF StartRun
<1>4. RestOf(db, db', a, db.heights[a]) /\ db'.heights = [db.heights EXCEPT ![a] = db.heights[a]]
  BY <1>2, <1>3, TrimTables
<1>5. TypedRows(db')
  BY <1>2, <1>4, RestTyped
<1>6. DbOK'
  BY <1>1, <1>2, <1>4, <1>5 DEF DbOK, RowsTyped
<1>7. DOMAIN run' = DOMAIN NoRun /\ run'.account = a /\ run'.at = db.heights[a]
  BY DEF StartRun, NoRun
<1>8. RunOK'
  BY <1>1, <1>2, <1>7 DEF RunOK
<1> QED BY <1>6, <1>8

LEMMA ScanBlockTyped ==
    ASSUME WalletInv, RowsTyped, ScanBlock, UNCHANGED accountVars
    PROVE  DbOK' /\ RunOK'
<1> DEFINE a == run.account
           h == run.at + 1
           in == Involved[run.key]
           gone == IF h \in DOMAIN in.spends THEN {in.spends[h]} ELSE {}
           new  == IF h \in in.notes THEN {h} ELSE {}
           kept == (run.tracked \ gone) \union new
<1>1. PICK i \in IF TxId(a, h) # {} THEN TxId(a, h) ELSE NextId(db.txs), n \in NextId(db.notes) :
        db' = Scanned(a, h, in, kept, i, n)
  BY DEF ScanBlock
<1>2. h <= Top /\ run' = [run EXCEPT !.at = h, !.tracked = kept]
  BY DEF ScanBlock
<1>3. TypedRows(db) /\ IsTables(db) /\ DOMAIN db.txs \subseteq Nat /\ DOMAIN db.notes \subseteq Nat
      /\ DOMAIN db.heights = ids /\ \A b \in ids : db.heights[b] \in 0 .. Top
  BY DEF RowsTyped, DbOK, TypedRows, Table
<1>4. a \in Nat /\ h \in 1 .. Top /\ DOMAIN run = DOMAIN NoRun /\ Top \in Nat
  BY <1>2, WalletAssumption DEF RowsTyped, RunOK
<1>5. i \in Nat /\ n \in Nat
  BY <1>1, <1>3, NextIdNew DEF TxId
<1> HIDE DEF kept, in, h, a
<1>6. TypedRows(db')
  BY <1>1, <1>3, <1>4, <1>5, ScanTyped
<1>7. db'.heights = [b \in DOMAIN db.heights |-> IF b = a THEN h ELSE db.heights[b]]
  <2>1. PICK notes, spent :
        /\ notes = NotesAfter(a, h, in, i, n) /\ spent = SpentIn(a, h, in, notes)
        /\ HasBlock(db', a, h, in, kept, i, notes, spent)
    BY <1>1, <1>3, ScanTables
  <2> QED BY <2>1 DEF HasBlock
<1>8. DbOK'
  BY <1>3, <1>4, <1>6, <1>7 DEF DbOK, accountVars, ids
<1>9. DOMAIN run' = DOMAIN run /\ run'.at = h /\ run'.account = run.account
  BY <1>2, <1>4 DEF NoRun
<1> QED BY <1>4, <1>8, <1>9 DEF RunOK, a

LEMMA EndRunTyped ==
    ASSUME WalletInv, RowsTyped, EndRun, UNCHANGED accountVars
    PROVE  DbOK' /\ RunOK' /\ PendingOK'
<1> DEFINE a == run.account
           cat(i) == pending[CHOOSE p \in Merged(a, i) : TRUE].category
           txs == [i \in DOMAIN db.txs |-> IF Merged(a, i) = {} THEN db.txs[i]
                                           ELSE [db.txs[i] EXCEPT !.category = cat(i)]]
<1>1. db' = [db EXCEPT !.txs = txs] /\ run' = NoRun
  BY DEF EndRun
<1>2. TypedRows(db) /\ IsTables(db) /\ Table(db.txs, TxRow)
  BY DEF RowsTyped, DbOK, TypedRows
<1>3. Table(txs, TxRow)
  <2>1. ASSUME NEW i \in DOMAIN db.txs PROVE txs[i] \in TxRow
    <3>1. db.txs[i] \in TxRow
      BY <1>2 DEF Table
    <3>2. CASE Merged(a, i) # {}
      <4>1. (CHOOSE p \in Merged(a, i) : TRUE) \in DOMAIN pending
        BY <3>2 DEF Merged
      <4>2. cat(i) \in Categories
        BY <4>1 DEF RowsTyped, PendingOK
      <4>3. txs[i] = [db.txs[i] EXCEPT !.category = cat(i)]
        BY <3>2
      <4> HIDE DEF cat
      <4> QED BY <3>1, <4>2, <4>3 DEF TxRow
    <3> QED BY <3>1, <3>2
  <2>2. DOMAIN txs = DOMAIN db.txs /\ txs = [i \in DOMAIN txs |-> txs[i]]
    OBVIOUS
  <2> HIDE DEF txs
  <2> QED BY <1>2, <2>1, <2>2, TableIs DEF Table
<1> HIDE DEF txs
<1>4. /\ IsTables(db') /\ db'.txs = txs /\ db'.notes = db.notes /\ db'.spends = db.spends
      /\ db'.outputs = db.outputs /\ db'.memos = db.memos /\ db'.heights = db.heights
  BY <1>1, <1>2, Columns DEF IsTables
<1>5. TypedRows(db')
  BY <1>2, <1>3, <1>4 DEF TypedRows
<1>6. DbOK'
  BY <1>4, <1>5 DEF DbOK, RowsTyped, accountVars, ids
<1>7. RunOK'
  BY <1>1, WalletAssumption DEF RunOK, NoRun
<1>8. pending' = [p \in DOMAIN pending \ Stale(a) |-> pending[p]]
  BY DEF EndRun
<1>9. PendingOK'
  BY <1>8 DEF PendingOK, RowsTyped
<1> QED BY <1>6, <1>7, <1>9

LEMMA RewindTyped ==
    ASSUME WalletInv, RowsTyped, NEW a \in ids, NEW h \in 0 .. db.heights[a], Rewind(a, h),
           UNCHANGED accountVars
    PROVE  DbOK'
<1>1. ids' = ids
  BY DEF accountVars, ids
<1>2. db.heights[a] \in 0 .. Top /\ IsTables(db) /\ TypedRows(db) /\ DOMAIN db.heights = ids
  BY DEF RowsTyped, DbOK, TypedRows
<1>3. db' = Trimmed(db, a, h) /\ h \in 0 .. Top
  BY <1>2, WalletAssumption DEF Rewind
<1>4. RestOf(db, db', a, h) /\ db'.heights = [db.heights EXCEPT ![a] = h]
  BY <1>2, <1>3, TrimTables
<1>5. TypedRows(db')
  BY <1>2, <1>4, RestTyped
<1> QED
  BY <1>1, <1>2, <1>3, <1>4, <1>5 DEF DbOK, RowsTyped

LEMMA DetailsTyped ==
    ASSUME WalletInv, RowsTyped,
           \/ \E a \in ids : ListDetails(a)
           \/ \E x \in job.todo : LookUp(x)
           \/ StoreDetails
           \/ MarkDetails,
           UNCHANGED accountVars
    PROVE  DbOK' /\ JobOK'
<1> USE DEF RowsTyped
<1>1. /\ IsTables(db) /\ TypedRows(db) /\ DOMAIN db.heights = ids /\ ids' = ids
      /\ \A b \in ids : db.heights[b] \in 0 .. Top
      /\ ids \subseteq Nat
  BY DEF DbOK, TypedRows, accountVars, ids, WalletInv, Arranged, AccountTypeOK
<1>2. ASSUME db' = db PROVE DbOK'
  BY <1>1, <1>2 DEF DbOK
<1>3. ASSUME NEW t, TypedRows(t), t.heights = db.heights, db' = t PROVE DbOK'
  BY <1>1, <1>3 DEF DbOK
<1>4. JobOK' \/ job' # NoJob
  BY DEF JobOK, NoJob
<1>5. ASSUME NEW a \in ids, ListDetails(a) PROVE DbOK' /\ JobOK'
  <2> DEFINE todo == {<<i, db.txs[i].h>> : i \in {j \in DOMAIN db.txs :
                              db.txs[j].account = a /\ ~db.txs[j].details}}
  <2>1. todo \subseteq Nat \X (1 .. Top)
    BY <1>1 DEF TypedRows, Table, TxRow
  <2>2. job' = [NoJob EXCEPT !.account = a, !.todo = todo] /\ db' = db
    BY <1>5 DEF ListDetails
  <2> HIDE DEF todo
  <2>3. DOMAIN job' = DOMAIN NoJob /\ job'.account = a /\ job'.todo = todo /\ job'.found = 0
    BY <2>2 DEF NoJob
  <2> QED BY <1>1, <1>2, <2>1, <2>2, <2>3 DEF JobOK
<1>6. ASSUME NEW x \in job.todo, LookUp(x) PROVE DbOK' /\ JobOK'
  <2>1. db' = db
    BY <1>6 DEF LookUp
  <2>2. x[2] \in 1 .. Top
    BY DEF JobOK
  <2>3. ASSUME NEW i \in TxId(job.account, x[2]),
               job' = [job EXCEPT !.h = x[2], !.listed = x[1], !.found = i, !.todo = @ \ {x}]
        PROVE  JobOK'
    <3> DEFINE todo == job.todo \ {x}
    <3>1. job' = [job EXCEPT !.h = x[2], !.listed = x[1], !.found = i, !.todo = todo]
      BY <2>3
    <3>2. i \in Nat /\ todo \subseteq job.todo
      BY <1>1 DEF TxId, TypedRows, Table
    <3> HIDE DEF todo
    <3>3. DOMAIN job' = DOMAIN NoJob /\ job'.account = job.account /\ job'.todo = todo
          /\ job'.found = i /\ job'.h = x[2]
      BY <3>1 DEF JobOK, NoJob
    <3> QED BY <2>2, <3>2, <3>3 DEF JobOK
  <2> QED BY <1>2, <1>4, <1>6, <2>1, <2>3 DEF LookUp
<1>7. ASSUME StoreDetails PROVE DbOK' /\ JobOK'
  <2> DEFINE a == job.account
             h == job.h
             i == job.found
             out == WithOutput(db, a, h, i)
             rows == IF NoteId(a, h) = {} THEN {0} ELSE NoteId(a, h)
  <2>1. a \in Nat /\ h \in 1 .. Top /\ i \in Nat
    BY <1>7 DEF StoreDetails, JobOK
  <2>2. rows \subseteq Nat
    BY <1>1 DEF NoteId, TypedRows, Table
  <2>3. db' \in {db, out, WithMemo(db, a, h, i), WithMemo(out, a, h, i)}
    BY <1>7 DEF StoreDetails
  <2>4. ASSUME NEW t, TypedRows(t), NEW u, u = WithMemo(t, a, h, i)
        PROVE  TypedRows(u) /\ u.heights = t.heights
    <3>1. HasMemo(t, u, a, h, i, rows)
      BY <2>4, MemoTables DEF TypedRows
    <3> HIDE DEF rows, a, h, i
    <3> QED BY <2>1, <2>2, <2>4, <3>1, MemoTyped DEF HasMemo
  <2>5. TypedRows(out) /\ out.heights = db.heights
    <3>1. HasOutput(db, out, a, h, i)
      BY <1>1, OutputTables
    <3> HIDE DEF out, a, h, i
    <3> QED BY <1>1, <2>1, <3>1, OutputTyped DEF HasOutput
  <2> HIDE DEF out
  <2>6. DbOK'
    BY <1>1, <1>3, <2>3, <2>4, <2>5
  <2>7. job' \in {NoJob, [job EXCEPT !.found = 0, !.h = 0]}
    BY <1>7 DEF StoreDetails
  <2>8. ASSUME job' = [job EXCEPT !.found = 0, !.h = 0] PROVE JobOK'
    BY <2>8 DEF JobOK, NoJob
  <2> QED BY <1>4, <2>6, <2>7, <2>8
<1>8. ASSUME MarkDetails PROVE DbOK' /\ JobOK'
  <2> DEFINE txs == [i \in DOMAIN db.txs |->
                       IF i = job.listed THEN [db.txs[i] EXCEPT !.details = TRUE] ELSE db.txs[i]]
  <2>1. db' = [db EXCEPT !.txs = txs]
    BY <1>8 DEF MarkDetails
  <2>2. Table(txs, TxRow)
    <3>1. Table(db.txs, TxRow)
      BY <1>1 DEF TypedRows
    <3>2. \A i \in DOMAIN db.txs : txs[i] \in TxRow
      BY <3>1 DEF Table, TxRow
    <3>3. DOMAIN txs = DOMAIN db.txs /\ txs = [i \in DOMAIN txs |-> txs[i]]
      OBVIOUS
    <3> HIDE DEF txs
    <3> QED BY <3>1, <3>2, <3>3, TableIs DEF Table
  <2> HIDE DEF txs
  <2>3. /\ IsTables(db') /\ db'.txs = txs /\ db'.notes = db.notes /\ db'.spends = db.spends
        /\ db'.outputs = db.outputs /\ db'.memos = db.memos /\ db'.heights = db.heights
    BY <1>1, <2>1, Columns DEF IsTables
  <2>4. TypedRows(db')
    BY <1>1, <2>2, <2>3 DEF TypedRows
  <2>5. job' \in {NoJob, [job EXCEPT !.listed = 0]}
    BY <1>8 DEF MarkDetails
  <2>6. ASSUME job' = [job EXCEPT !.listed = 0] PROVE JobOK'
    BY <2>6 DEF JobOK, NoJob
  <2> QED BY <1>3, <1>4, <2>3, <2>4, <2>5, <2>6
<1> QED BY <1>5, <1>6, <1>7, <1>8

LEMMA UserTyped ==
    ASSUME WalletInv, RowsTyped, UNCHANGED accountVars,
           \/ \E i \in DOMAIN db.txs : SetUserMemo(i)
           \/ \E i \in DOMAIN db.txs, c \in Categories : SetCategory(i, c)
           \/ \E n \in DOMAIN db.notes : LockNote(n, ~db.notes[n].locked)
    PROVE  DbOK'
<1> USE DEF RowsTyped
<1>1. /\ IsTables(db) /\ TypedRows(db) /\ DOMAIN db.heights = ids /\ ids' = ids
      /\ \A b \in ids : db.heights[b] \in 0 .. Top
  BY DEF DbOK, TypedRows, accountVars, ids
<1>2. ASSUME TypedRows(db'), db'.heights = db.heights PROVE DbOK'
  BY <1>1, <1>2 DEF DbOK
<1>3. ASSUME NEW i \in DOMAIN db.txs, SetUserMemo(i) PROVE DbOK'
  <2> DEFINE memos == With(db.userMemos, <<db.txs[i].account, i>>, db.txs[i].h)
  <2>1. db' = [db EXCEPT !.userMemos = memos]
    BY <1>3 DEF SetUserMemo
  <2> HIDE DEF memos
  <2>2. /\ IsTables(db') /\ db'.txs = db.txs /\ db'.notes = db.notes /\ db'.spends = db.spends
        /\ db'.outputs = db.outputs /\ db'.memos = db.memos /\ db'.heights = db.heights
    BY <1>1, <2>1, Columns DEF IsTables
  <2> QED BY <1>1, <1>2, <2>2 DEF TypedRows
<1>4. ASSUME NEW i \in DOMAIN db.txs, NEW c \in Categories, SetCategory(i, c) PROVE DbOK'
  <2> DEFINE txs == [db.txs EXCEPT ![i].category = c]
  <2>1. db' = [db EXCEPT !.txs = txs]
    BY <1>4 DEF SetCategory
  <2>2. Table(txs, TxRow)
    <3>1. Table(db.txs, TxRow)
      BY <1>1 DEF TypedRows
    <3>2. \A j \in DOMAIN db.txs : txs[j] \in TxRow
      BY <3>1 DEF Table, TxRow
    <3>3. DOMAIN txs = DOMAIN db.txs /\ txs = [j \in DOMAIN txs |-> txs[j]]
      OBVIOUS
    <3> HIDE DEF txs
    <3> QED BY <3>1, <3>2, <3>3, TableIs DEF Table
  <2> HIDE DEF txs
  <2>3. /\ IsTables(db') /\ db'.txs = txs /\ db'.notes = db.notes /\ db'.spends = db.spends
        /\ db'.outputs = db.outputs /\ db'.memos = db.memos /\ db'.heights = db.heights
    BY <1>1, <2>1, Columns DEF IsTables
  <2> QED BY <1>1, <1>2, <2>2, <2>3 DEF TypedRows
<1>5. ASSUME NEW n \in DOMAIN db.notes, LockNote(n, ~db.notes[n].locked) PROVE DbOK'
  <2> DEFINE locked == ~db.notes[n].locked
             notes == [db.notes EXCEPT ![n].locked = locked]
  <2>1. db' = [db EXCEPT !.notes = notes] /\ locked \in BOOLEAN
    BY <1>5 DEF LockNote
  <2> HIDE DEF locked
  <2>2. Table(notes, NoteRow)
    <3>1. Table(db.notes, NoteRow)
      BY <1>1 DEF TypedRows
    <3>2. \A j \in DOMAIN db.notes : notes[j] \in NoteRow
      BY <2>1, <3>1 DEF Table, NoteRow
    <3>3. DOMAIN notes = DOMAIN db.notes /\ notes = [j \in DOMAIN notes |-> notes[j]]
      OBVIOUS
    <3> HIDE DEF notes
    <3> QED BY <3>1, <3>2, <3>3, TableIs DEF Table
  <2> HIDE DEF notes
  <2>3. /\ IsTables(db') /\ db'.txs = db.txs /\ db'.notes = notes /\ db'.spends = db.spends
        /\ db'.outputs = db.outputs /\ db'.memos = db.memos /\ db'.heights = db.heights
    BY <1>1, <2>1, Columns DEF IsTables
  <2> QED BY <1>1, <1>2, <2>2, <2>3 DEF TypedRows
<1> QED BY <1>3, <1>4, <1>5

LEMMA PaymentTyped ==
    ASSUME WalletInv, RowsTyped, NEW a \in ids, NEW h \in 1 .. Top, NEW c \in Categories,
           StorePending(a, h, c)
    PROVE  PendingOK'
<1>1. a \in Nat
  BY DEF WalletInv, Arranged, AccountTypeOK
<1> DEFINE row == [category |-> c, height |-> h - 1]
<1>2. pending' = With(pending, <<a, h>>, row) /\ \A p \in DOMAIN pending : p[2] # h
  BY DEF StorePending
<1>3. row.category = c
  OBVIOUS
<1> HIDE DEF row
<1>4. /\ DOMAIN pending' = DOMAIN pending \union {<<a, h>>}
      /\ \A p \in DOMAIN pending' : pending'[p] = IF p = <<a, h>> THEN row ELSE pending[p]
  BY <1>2 DEF With
<1>5. \A p \in DOMAIN pending : p \in Nat \X (1 .. Top) /\ pending[p].category \in Categories
  BY DEF RowsTyped, PendingOK
<1>6. \A p \in DOMAIN pending' : p \in Nat \X (1 .. Top) /\ pending'[p].category \in Categories
  BY <1>1, <1>3, <1>4, <1>5
<1>7. \A p, q \in DOMAIN pending' : p[2] = q[2] => p = q
  BY <1>2, <1>4 DEF RowsTyped, PendingOK
<1> QED BY <1>6, <1>7 DEF PendingOK

LEMMA ExportStepTyped ==
    ASSUME WalletInv, RowsTyped, (\E a \in ids : ExportBegin(a)) \/ ExportEnd
    PROVE  FileOK'
<1>1. ASSUME NEW a \in ids, ExportBegin(a) PROVE FileOK'
  <2>1. db.heights[a] \in 0 .. Top
    BY DEF RowsTyped, DbOK
  <2>2. export'.height = db.heights[a] /\ file' = file
    BY <1>1 DEF ExportBegin
  <2> QED BY <2>1, <2>2 DEF FileOK, RowsTyped
<1>2. ASSUME ExportEnd PROVE FileOK'
  <2> DEFINE t == ExportedTables(export.account)
             height == HeightRead(export.account)
             written == [export EXCEPT !.tables = t, !.height = height]
  <2>1. export' = NoFile /\ file' \in {written, file}
    BY <1>2 DEF ExportEnd
  <2>2. height \in 0 .. Top
    BY DEF HeightRead, RowsTyped, FileOK
  <2>3. HasExport(t, export.account)
    BY ExportTables
  <2> HIDE DEF t, height
  <2>4. TypedRows(t) /\ Closed(t)
    BY <2>3, ExportTyped DEF RowsTyped, DbOK
  <2>5. written.tables = t /\ written.height = height
    BY DEF WalletInv, FilesImportable, Importable, NoFile
  <2>6. 0 \in 0 .. Top
    BY WalletAssumption
  <2>7. export'.height \in 0 .. Top
    BY <2>1, <2>6 DEF NoFile
  <2> HIDE DEF written
  <2> QED BY <2>1, <2>2, <2>4, <2>5, <2>7 DEF FileOK, RowsTyped
<1> QED BY <1>1, <1>2

(* An account that is imported is a new one, and the others keep their     *)
(* keys.                                                                   *)
LEMMA ImportedAccount ==
    ASSUME WalletInv, NEW a \in NextId(accounts),
           ImportAccountRow(a, file.row, file.folder, file.addresses)
    PROVE  /\ a \in Nat /\ a # 0 /\ a \notin ids /\ ids' = ids \union {a}
           /\ \A c \in ids : accounts'[c].key = accounts[c].key
           /\ file.row \in Account => accounts'[a].key = file.row.key
<1> USE DEF ids
<1>1. DOMAIN accounts \in SUBSET Nat
  BY DEF WalletInv, Arranged, AccountTypeOK
<1>2. a \in Nat /\ a # 0 /\ a \notin ids
  BY <1>1, NextIdNew
<1>3. PICK folder : accounts' = With(MovedDown, a, ImportedRow(file.row, folder))
  BY DEF ImportAccountRow
<1>4. DOMAIN MovedDown = ids /\ \A c \in ids : MovedDown[c] = [accounts[c] EXCEPT !.position = @ + 1]
  BY DEF MovedDown
<1>5. /\ ids' = ids \union {a} /\ accounts'[a] = ImportedRow(file.row, folder)
      /\ \A c \in ids : accounts'[c] = MovedDown[c]
  BY <1>2, <1>3, <1>4 DEF With
<1>6. ASSUME NEW c \in ids PROVE accounts'[c].key = accounts[c].key
  <2>1. accounts[c] \in Account
    BY RowTypes DEF WalletInv, Arranged
  <2> DEFINE down == accounts[c].position + 1
  <2>2. accounts'[c] = [accounts[c] EXCEPT !.position = down]
    BY <1>4, <1>5
  <2> HIDE DEF down
  <2> QED BY <2>1, <2>2 DEF Account
<1>7. ASSUME file.row \in Account PROVE accounts'[a].key = file.row.key
  <2> DEFINE xvk == IF file.row.xvk = "null" THEN "empty" ELSE file.row.xvk
  <2>1. accounts'[a] = [file.row EXCEPT !.position = 1, !.folder = folder, !.saddr = -1, !.xvk = xvk]
    BY <1>5 DEF ImportedRow
  <2> HIDE DEF xvk
  <2> QED BY <1>7, <2>1 DEF Account
<1> QED BY <1>2, <1>5, <1>6, <1>7

LEMMA ImportStepTyped ==
    ASSUME WalletInv, RowsTyped, Import
    PROVE  DbOK' /\ OutcomeOK'
<1> DEFINE t == file.tables
<1>1. PICK a \in NextId(accounts) :
        /\ outcome'.result \in {"ok", "unique", "panic"}
        /\ \/ /\ ~RefersToNoNote(t) /\ ~Collides(t, a)
              /\ ImportAccountRow(a, file.row, file.folder, file.addresses)
              /\ db' = Imported(t, a, file.height)
           \/ UNCHANGED <<accountVars, db>>
  BY DEF Import
<1>2. CASE UNCHANGED <<accountVars, db>>
  BY <1>1, <1>2 DEF DbOK, OutcomeOK, RowsTyped, accountVars, ids
<1>3. CASE /\ ~RefersToNoNote(t) /\ ~Collides(t, a)
           /\ ImportAccountRow(a, file.row, file.folder, file.addresses)
           /\ db' = Imported(t, a, file.height)
  <2>1. a \in Nat /\ ids' = ids \union {a}
    BY <1>3, ImportedAccount
  <2>2. TypedRows(db) /\ TypedRows(t) /\ Closed(t) /\ file.height \in 0 .. Top
    BY DEF RowsTyped, DbOK, FileOK
  <2>3. HasImport(db', t, a) /\ db'.heights = With(db.heights, a, file.height)
    BY <1>3, <2>2, ImportTables
  <2>4. TypedRows(db')
    BY <1>3, <2>1, <2>2, <2>3, ImportTyped
  <2>5. DbOK'
    BY <2>1, <2>2, <2>3, <2>4 DEF DbOK, RowsTyped, With
  <2> QED BY <1>1, <2>5 DEF OutcomeOK
<1> QED BY <1>1, <1>2, <1>3

LEMMA AccountStepTyped ==
    ASSUME WalletInv, RowsTyped,
           \/ \E k \in Keys : NewAccount(k) /\ CreateRows(ids')
           \/ \E a \in ids : DeleteAccount(a) /\ DeleteRows(a)
    PROVE  DbOK'
<1> USE DEF RowsTyped
<1>1. /\ IsTables(db) /\ TypedRows(db) /\ DOMAIN db.heights = ids
      /\ \A b \in ids : db.heights[b] \in 0 .. Top
  BY DEF DbOK, TypedRows
<1>2. ASSUME CreateRows(ids') PROVE DbOK'
  <2> DEFINE heights == HeightsOf(ids')
  <2>1. db' = [db EXCEPT !.heights = heights]
    BY <1>2 DEF CreateRows
  <2>2. DOMAIN heights = ids' /\ \A b \in ids' : heights[b] \in 0 .. Top
    BY <1>1, WalletAssumption DEF HeightsOf
  <2> HIDE DEF heights
  <2>3. /\ IsTables(db') /\ db'.txs = db.txs /\ db'.notes = db.notes /\ db'.spends = db.spends
        /\ db'.outputs = db.outputs /\ db'.memos = db.memos /\ db'.heights = heights
    BY <1>1, <2>1, Columns DEF IsTables
  <2>4. TypedRows(db')
    BY <1>1, <2>3 DEF TypedRows
  <2> QED BY <2>2, <2>3, <2>4 DEF DbOK
<1>3. ASSUME NEW a \in ids, DeleteAccount(a), DeleteRows(a) PROVE DbOK'
  <2> DEFINE s == TrimmedRows(db, a, 0)
             heights == Without(s.heights, {a})
  <2>1. db' = [s EXCEPT !.heights = heights]
    BY <1>3 DEF DeleteRows, Deleted
  <2>2. RestOf(db, s, a, 0) /\ s.heights = db.heights
    BY <1>1, TrimRows
  <2> HIDE DEF s
  <2>3. TypedRows(s) /\ IsTables(s)
    BY <1>1, <2>2, RestTyped DEF RestOf
  <2>4. DOMAIN heights = ids \ {a} /\ \A b \in ids \ {a} : heights[b] = db.heights[b]
    BY <1>1, <2>2 DEF Without
  <2> HIDE DEF heights
  <2>5. /\ IsTables(db') /\ db'.txs = s.txs /\ db'.notes = s.notes /\ db'.spends = s.spends
        /\ db'.outputs = s.outputs /\ db'.memos = s.memos /\ db'.heights = heights
    BY <2>1, <2>3, Columns DEF IsTables
  <2>6. TypedRows(db')
    BY <2>3, <2>5 DEF TypedRows
  <2>7. ids' = ids \ {a}
    BY <1>3 DEF DeleteAccount, Without, ids
  <2> QED BY <1>1, <2>4, <2>5, <2>6, <2>7 DEF DbOK
<1> QED BY <1>2, <1>3

(* The operations on accounts alone leave the accounts and their keys.     *)
LEMMA ArrangeKeepsKeys ==
    ASSUME WalletInv, Arrange
    PROVE  ids' = ids /\ \A c \in ids : accounts'[c].key = accounts[c].key
<1> USE DEF ids
<1>1. Arranged /\ AccountTypeOK
  BY DEF WalletInv, Arranged
<1>2. \A c \in ids : accounts[c] \in Account
  BY <1>1, RowTypes
<1>3. ASSUME NEW a \in ids, NEW new \in 1 .. Cardinality(ids) + 1, ReorderAccount(a, new)
      PROVE  ids' = ids /\ \A c \in ids : accounts'[c].key = accounts[c].key
  <2>1. new \in Nat \ {0}
    OBVIOUS
  <2> QED BY <1>1, <1>3, <2>1, ReorderRows
<1>4. ASSUME NEW a \in ids, GenerateNextDindex(a)
      PROVE  ids' = ids /\ \A c \in ids : accounts'[c].key = accounts[c].key
  <2>1. PICK di \in NextIndex(a) :
          accounts' = [accounts EXCEPT ![a].dindex = di,
                                       ![a].saddr = IF accounts[a].key.sapling THEN di ELSE @]
    BY <1>4 DEF GenerateNextDindex
  <2> DEFINE addr == IF accounts[a].key.sapling THEN di ELSE accounts[a].saddr
  <2>2. ids' = ids /\ \A c \in ids :
          accounts'[c] = IF c = a THEN [accounts[c] EXCEPT !.dindex = di, !.saddr = addr] ELSE accounts[c]
    BY <1>1, <2>1, TablesTyped
  <2> HIDE DEF addr
  <2> QED BY <1>2, <2>2 DEF Account
<1>5. ASSUME NEW a \in ids, GenerateNextChangeAddress(a)
      PROVE  ids' = ids /\ \A c \in ids : accounts'[c].key = accounts[c].key
  BY <1>5 DEF GenerateNextChangeAddress
<1>6. ASSUME NEW name, CreateNewFolder(name)
      PROVE  ids' = ids /\ \A c \in ids : accounts'[c].key = accounts[c].key
  BY <1>6 DEF CreateNewFolder
<1>7. ASSUME NEW a \in ids, NEW f, UpdateAccount(a, f)
      PROVE  ids' = ids /\ \A c \in ids : accounts'[c].key = accounts[c].key
  <2>1. ids' = ids /\ \A c \in ids :
          accounts'[c] = IF c = a THEN [accounts[c] EXCEPT !.folder = f] ELSE accounts[c]
    BY <1>1, <1>7, TablesTyped DEF UpdateAccount
  <2> QED BY <1>2, <2>1 DEF Account
<1>8. ASSUME NEW f, DeleteFolder(f)
      PROVE  ids' = ids /\ \A c \in ids : accounts'[c].key = accounts[c].key
  <2> DEFINE to(c) == IF accounts[c].folder = f THEN 0 ELSE accounts[c].folder
  <2>1. ids' = ids /\ \A c \in ids : accounts'[c] = [accounts[c] EXCEPT !.folder = to(c)]
    BY <1>8 DEF DeleteFolder, OutOfFolder
  <2> HIDE DEF to
  <2> QED BY <1>2, <2>1 DEF Account
<1>9. ASSUME OpenDatabase
      PROVE  ids' = ids /\ \A c \in ids : accounts'[c].key = accounts[c].key
  <2> DEFINE addr(c) == IF accounts[c].key.sapling /\ accounts[c].saddr = -1
                        THEN accounts[c].dindex ELSE accounts[c].saddr
  <2>1. ids' = ids /\ \A c \in ids : accounts'[c] = [accounts[c] EXCEPT !.saddr = addr(c)]
    BY <1>9 DEF OpenDatabase
  <2> HIDE DEF addr
  <2> QED BY <1>2, <2>1 DEF Account
<1> QED BY <1>3, <1>4, <1>5, <1>6, <1>7, <1>8, <1>9 DEF Arrange

LEMMA WorkTyped ==
    ASSUME WalletInv, RowsTyped, Work, UNCHANGED accountVars, outcome' = NoImport
    PROVE  RowsTyped'
<1>1. OutcomeOK'
  BY DEF OutcomeOK, NoImport
<1>2. ids' = ids
  BY DEF accountVars, ids
<1> USE DEF RowsTyped
<1>3. /\ db' = db => DbOK'
      /\ run' = run => RunOK'
      /\ job' = job => JobOK'
      /\ export' = export /\ file' = file => FileOK'
      /\ pending' = pending => PendingOK'
  BY <1>2 DEF DbOK, RunOK, JobOK, FileOK, PendingOK
<1>4. ASSUME NEW a \in ids, StartRun(a) PROVE RowsTyped'
  BY <1>1, <1>3, <1>4, StartRunTyped DEF StartRun
<1>5. CASE ScanBlock
  BY <1>1, <1>3, <1>5, ScanBlockTyped DEF ScanBlock
<1>6. CASE LoseRun
  <2>1. RunOK'
    BY <1>6, WalletAssumption DEF LoseRun, RunOK, NoRun
  <2> QED BY <1>1, <1>3, <1>6, <2>1 DEF LoseRun
<1>7. CASE EndRun
  BY <1>1, <1>3, <1>7, EndRunTyped DEF EndRun
<1>8. ASSUME NEW a \in ids, NEW h \in 0 .. db.heights[a], Rewind(a, h) PROVE RowsTyped'
  BY <1>1, <1>3, <1>8, RewindTyped DEF Rewind
<1>9. ASSUME \/ \E a \in ids : ListDetails(a)
             \/ \E x \in job.todo : LookUp(x)
             \/ StoreDetails
             \/ MarkDetails
      PROVE RowsTyped'
  <2>1. DbOK' /\ JobOK'
    BY <1>9, DetailsTyped
  <2>2. UNCHANGED <<pending, run, export, file>>
    BY <1>9 DEF ListDetails, LookUp, StoreDetails, MarkDetails
  <2> QED BY <1>1, <1>3, <2>1, <2>2
<1>10. ASSUME \/ \E i \in DOMAIN db.txs : SetUserMemo(i)
              \/ \E i \in DOMAIN db.txs, c \in Categories : SetCategory(i, c)
              \/ \E n \in DOMAIN db.notes : LockNote(n, ~db.notes[n].locked)
       PROVE RowsTyped'
  <2>1. DbOK'
    BY <1>10, UserTyped
  <2>2. UNCHANGED <<pending, run, job, export, file>>
    BY <1>10 DEF SetUserMemo, SetCategory, LockNote, UserRows
  <2> QED BY <1>1, <1>3, <2>1, <2>2
<1>11. ASSUME NEW a \in ids, NEW h \in 1 .. Top, NEW c \in Categories, StorePending(a, h, c)
       PROVE RowsTyped'
  BY <1>1, <1>3, <1>11, PaymentTyped DEF StorePending
<1>12. ASSUME (\E a \in ids : ExportBegin(a)) \/ ExportEnd PROVE RowsTyped'
  <2>1. FileOK'
    BY <1>12, ExportStepTyped
  <2>2. UNCHANGED <<db, pending, run, job>>
    BY <1>12 DEF ExportBegin, ExportEnd
  <2> QED BY <1>1, <1>3, <2>1, <2>2
<1> HIDE DEF RowsTyped
<1> QED BY <1>4, <1>5, <1>6, <1>7, <1>8, <1>9, <1>10, <1>11, <1>12 DEF Work

LEMMA NextTyped == WalletInv /\ RowsTyped /\ [Next]_vars => RowsTyped'
<1> SUFFICES ASSUME WalletInv, RowsTyped, [Next]_vars PROVE RowsTyped'
  OBVIOUS
<1>1. ASSUME outcome' = NoImport PROVE OutcomeOK'
  BY <1>1 DEF OutcomeOK, NoImport
<1>2. ASSUME UNCHANGED <<pending, run, job, export, file>>, DbOK', OutcomeOK' PROVE RowsTyped'
  BY <1>2 DEF RowsTyped, RunOK, JobOK, FileOK, PendingOK
<1>3. ASSUME NEW k \in Keys, NewAccount(k), CreateRows(ids'), outcome' = NoImport PROVE RowsTyped'
  BY <1>1, <1>2, <1>3, AccountStepTyped DEF CreateRows
<1>4. ASSUME NEW a \in ids, DeleteAccount(a), DeleteRows(a), outcome' = NoImport PROVE RowsTyped'
  BY <1>1, <1>2, <1>4, AccountStepTyped DEF DeleteRows
<1>5. CASE Import
  <2>1. UNCHANGED <<pending, run, job, export, file>>
    BY <1>5 DEF Import
  <2> QED BY <1>2, <1>5, <2>1, ImportStepTyped
<1>6. ASSUME ids' = ids, UNCHANGED rowVars, OutcomeOK' PROVE RowsTyped'
  BY <1>2, <1>6 DEF rowVars, DbOK, RowsTyped
<1>7. CASE Arrange /\ UNCHANGED rowVars /\ outcome' = NoImport
  BY <1>1, <1>6, <1>7, ArrangeKeepsKeys
<1>8. CASE Work /\ UNCHANGED accountVars /\ outcome' = NoImport
  BY <1>8, WorkTyped
<1>9. CASE UNCHANGED vars
  BY <1>6, <1>9 DEF vars, accountVars, OutcomeOK, RowsTyped, ids
<1> QED BY <1>3, <1>4, <1>5, <1>7, <1>8, <1>9 DEF Next

LEMMA WalletAlways == Spec => [](WalletInv /\ RowsTyped)
<1>1. Init => WalletInv /\ RowsTyped
  BY InitWallet, InitTyped
<1>2. WalletInv /\ RowsTyped /\ [Next]_vars => (WalletInv /\ RowsTyped)'
  BY NextWallet, NextTyped
<1> QED BY <1>1, <1>2, PTL DEF Spec

(* What was overtaken stays so, and accounts that were are accounts of the *)
(* wallet, before the step or after it.                                    *)
LEMMA OvertakenSteps ==
    ASSUME [Next]_vars
    PROVE  /\ overtaken \subseteq overtaken'
           /\ \A b \in overtaken' : b \in overtaken \union ids \union NextId(accounts)
<1> DEFINE Grows == /\ overtaken \subseteq overtaken'
                    /\ \A b \in overtaken' : b \in overtaken \union ids \union NextId(accounts)
<1>1. ASSUME NEW a \in ids, overtaken' = Overtaking(a) PROVE Grows
  BY <1>1 DEF Overtaking
<1>2. ASSUME UNCHANGED overtaken PROVE Grows
  BY <1>2
<1>3. ASSUME NEW a \in ids, NEW h, StartRun(a) \/ Rewind(a, h) \/ DeleteRows(a) PROVE Grows
  BY <1>1, <1>2, <1>3 DEF StartRun, Rewind, DeleteRows
<1>4. ASSUME NEW a, NEW h, NEW c,
             \/ ScanBlock \/ LoseRun \/ EndRun \/ ListDetails(a) \/ StoreDetails \/ MarkDetails
             \/ StorePending(a, h, c) \/ ExportBegin(a) \/ ExportEnd
      PROVE  UNCHANGED overtaken
  BY <1>4 DEF ScanBlock, LoseRun, EndRun, ListDetails, StoreDetails, MarkDetails, StorePending,
              ExportBegin, ExportEnd
<1>5. ASSUME NEW x, NEW c, LookUp(x) \/ SetUserMemo(x) \/ SetCategory(x, c) \/ LockNote(x, c)
      PROVE  UNCHANGED overtaken
  BY <1>5 DEF LookUp, SetUserMemo, SetCategory, LockNote, UserRows
<1>6. ASSUME (\E new : CreateRows(new)) \/ UNCHANGED rowVars \/ UNCHANGED vars
      PROVE  UNCHANGED overtaken
  BY <1>6 DEF CreateRows, rowVars, vars
<1>7. ASSUME Import PROVE Grows
  BY <1>7 DEF Import
<1> HIDE DEF Grows
<1>8. ASSUME Work PROVE Grows
  BY <1>2, <1>3, <1>4, <1>5, <1>8 DEF Work
<1>9. Grows
  BY <1>2, <1>3, <1>6, <1>7, <1>8 DEF Next
<1> QED BY <1>9 DEF Grows

LEMMA OvertakenStays == [Next]_vars => overtaken \subseteq overtaken'
BY OvertakenSteps

LEMMA OvertakenAccounts == WalletInv /\ overtaken \subseteq Nat /\ [Next]_vars => overtaken' \subseteq Nat
<1> SUFFICES ASSUME WalletInv, overtaken \subseteq Nat, [Next]_vars, NEW b \in overtaken'
             PROVE  b \in Nat
  OBVIOUS
<1>1. DOMAIN accounts \in SUBSET Nat /\ ids \in SUBSET Nat
  BY DEF WalletInv, Arranged, AccountTypeOK, ids
<1>2. \A n \in NextId(accounts) : n \in Nat
  BY <1>1, NextIdNew
<1> QED BY <1>1, <1>2, OvertakenSteps

(* The tables of a wallet file and everything that is read from them are   *)
(* well typed, for any keys, chain and sequence of operations.             *)
THEOREM TypeCorrect == Spec => []TypeOK
<1>1. WalletInv /\ RowsTyped /\ overtaken \subseteq Nat => TypeOK
  BY RowsTypeOK
<1>2. Init => overtaken \subseteq Nat
  BY DEF Init
<1>3. (WalletInv /\ RowsTyped) /\ overtaken \subseteq Nat /\ [Next]_vars => (overtaken \subseteq Nat)'
  BY OvertakenAccounts
<1> QED BY <1>1, <1>2, <1>3, WalletAlways, PTL DEF Spec

-----------------------------------------------------------------------------
(* Only the end of a run makes payments stop waiting, and it merges them    *)
(* with the transactions that are there.                                   *)
LEMMA PendingKept ==
    ASSUME [Next]_vars, ~EndRun
    PROVE  DOMAIN pending \subseteq DOMAIN pending'
<1> USE DEF UserRows
<1>1. ASSUME NEW a \in ids, NEW h \in 1 .. Top, NEW c \in Categories, StorePending(a, h, c)
      PROVE  DOMAIN pending \subseteq DOMAIN pending'
  BY <1>1 DEF StorePending, With
<1>2. ASSUME Work, ~\E a \in ids, h \in 1 .. Top, c \in Categories : StorePending(a, h, c)
      PROVE  pending' = pending
  <2>1. ASSUME NEW a, NEW h, StartRun(a) \/ Rewind(a, h) \/ ListDetails(a) \/ ExportBegin(a)
        PROVE pending' = pending
    BY <2>1 DEF StartRun, Rewind, ListDetails, ExportBegin
  <2>2. ASSUME ScanBlock \/ LoseRun \/ StoreDetails \/ MarkDetails \/ ExportEnd
        PROVE pending' = pending
    BY <2>2 DEF ScanBlock, LoseRun, StoreDetails, MarkDetails, ExportEnd
  <2>3. ASSUME NEW x, NEW c, LookUp(x) \/ SetUserMemo(x) \/ SetCategory(x, c) \/ LockNote(x, c)
        PROVE pending' = pending
    BY <2>3 DEF LookUp, SetUserMemo, SetCategory, LockNote
  <2> QED BY <1>2, <2>1, <2>2, <2>3 DEF Work
<1>3. ASSUME NEW a, (\E new : CreateRows(new)) \/ DeleteRows(a) \/ Import \/ UNCHANGED rowVars
      PROVE pending' = pending
  BY <1>3 DEF CreateRows, DeleteRows, Import, rowVars
<1>4. CASE Work
  BY <1>1, <1>2, <1>4
<1>5. CASE UNCHANGED vars
  BY <1>5 DEF vars, rowVars
<1> QED BY <1>3, <1>4, <1>5 DEF Next

LEMMA PurgeAfterMerge ==
    ASSUME RowsTyped, [Next]_vars, NEW p \in DOMAIN pending, p \notin DOMAIN pending',
           NEW i \in DOMAIN db'.txs, db'.txs[i].account = p[1], db'.txs[i].h = p[2]
    PROVE  db'.txs[i].category = pending[p].category
<1>1. EndRun
  BY PendingKept
<1> DEFINE a == run.account
           q == CHOOSE r \in Merged(a, i) : TRUE
           cat(j) == pending[CHOOSE r \in Merged(a, j) : TRUE].category
           txs == [j \in DOMAIN db.txs |-> IF Merged(a, j) = {} THEN db.txs[j]
                                           ELSE [db.txs[j] EXCEPT !.category = cat(j)]]
<1>2. db' = [db EXCEPT !.txs = txs] /\ pending' = [r \in DOMAIN pending \ Stale(a) |-> pending[r]]
  BY <1>1 DEF EndRun
<1>3. p[1] = a
  BY <1>2 DEF Stale
<1>4. Table(db.txs, TxRow) /\ IsTables(db)
  BY DEF RowsTyped, DbOK, TypedRows
<1> HIDE DEF txs
<1>5. db'.txs = txs
  BY <1>2, <1>4, Columns DEF IsTables
<1>6. i \in DOMAIN db.txs /\ db.txs[i] \in TxRow
  BY <1>4, <1>5 DEF txs, Table
<1>7. db.txs[i].account = p[1] /\ db.txs[i].h = p[2]
  <2>1. CASE Merged(a, i) = {}
    BY <1>5, <1>6, <2>1 DEF txs
  <2>2. CASE Merged(a, i) # {}
    <3> DEFINE k == cat(i)
    <3>1. db'.txs[i] = [db.txs[i] EXCEPT !.category = k]
      BY <1>5, <1>6, <2>2 DEF txs
    <3> HIDE DEF k
    <3> QED BY <1>6, <3>1 DEF TxRow
  <2> QED BY <2>1, <2>2
<1>8. p \in Merged(a, i)
  BY <1>3, <1>7 DEF Merged
<1>9. q \in Merged(a, i)
  BY <1>8
<1>10. q = p
  BY <1>7, <1>9 DEF Merged, RowsTyped, PendingOK
<1>11. db'.txs[i] = [db.txs[i] EXCEPT !.category = pending[p].category]
  BY <1>5, <1>6, <1>8, <1>10 DEF txs
<1> QED BY <1>6, <1>11 DEF TxRow

-----------------------------------------------------------------------------
(* Rows that belong together *)

(* The tables of a file, or of the wallet, for accounts with keys K.       *)
InvolvedIn(t, K, i) == Involved[K[t.txs[i].account]]
Refers(t, x) ==
    x.tx \in DOMAIN t.txs /\ t.txs[x.tx].account = x.account /\ t.txs[x.tx].h = x.h

OwnTxs(t, K) ==
    \A i \in DOMAIN t.txs :
        /\ t.txs[i].account \in DOMAIN K
        /\ t.txs[i].h \in InvolvedIn(t, K, i).notes \union DOMAIN InvolvedIn(t, K, i).spends
OneTx(t) ==
    \A i, j \in DOMAIN t.txs :
        t.txs[i].account = t.txs[j].account /\ t.txs[i].h = t.txs[j].h => i = j
Referring(t) ==
    /\ \A n \in DOMAIN t.notes : Refers(t, t.notes[n])
    /\ \A n \in DOMAIN t.spends : Refers(t, t.spends[n])
    /\ \A o \in DOMAIN t.outputs : Refers(t, t.outputs[o])
    /\ \A m \in t.memos : Refers(t, m)
SpendsOfNotes(t) ==
    \A n \in DOMAIN t.spends :
        /\ n \in DOMAIN t.notes /\ t.notes[n].account = t.spends[n].account
        /\ t.notes[n].h < t.spends[n].h
WitnessesOfNotes(t) ==
    \A w \in t.witnesses :
        /\ w.note \in DOMAIN t.notes /\ t.notes[w.note].account = w.account
        /\ w.h \in Nat /\ t.notes[w.note].h <= w.h
MemosOfRows(t) ==
    \A m \in t.memos :
        /\ m.of = "note" => m.row \in DOMAIN t.notes /\ t.notes[m.row].tx = m.tx
        /\ m.of = "output" => m.row \in DOMAIN t.outputs /\ t.outputs[m.row].tx = m.tx
NotesPresent(t, K) ==
    \A i \in DOMAIN t.txs : t.txs[i].h \in InvolvedIn(t, K, i).notes =>
        \E n \in DOMAIN t.notes : t.notes[n].account = t.txs[i].account /\ t.notes[n].h = t.txs[i].h

(* A transaction has its output and its note in the table, with memos.     *)
OutputShown(t, i) ==
    \E m \in t.memos :
        /\ m.tx = i /\ m.of = "output"
        /\ m.row \in DOMAIN t.outputs /\ t.outputs[m.row].tx = i
NoteShown(t, i) ==
    \E m \in t.memos :
        /\ m.tx = i /\ m.of = "note" /\ m.row \in DOMAIN t.notes
        /\ t.notes[m.row].account = t.txs[i].account /\ t.notes[m.row].h = t.txs[i].h
HasDetails(t, K, i) ==
    /\ t.txs[i].h \in InvolvedIn(t, K, i).outs => OutputShown(t, i)
    /\ t.txs[i].h \in InvolvedIn(t, K, i).notes => NoteShown(t, i)
Complete(t, K) == \A i \in DOMAIN t.txs : t.txs[i].details => HasDetails(t, K, i)

Sound(t, K) ==
    /\ OwnTxs(t, K) /\ OneTx(t) /\ Referring(t) /\ SpendsOfNotes(t) /\ WitnessesOfNotes(t)
    /\ MemosOfRows(t) /\ NotesPresent(t, K) /\ Complete(t, K)

(* Each note that is not spent at a height has a witness there.            *)
Witnessed(t, H) ==
    /\ \A n \in DOMAIN t.notes : \A g \in t.notes[n].h .. H[t.notes[n].account] :
        \/ n \in DOMAIN t.spends /\ t.spends[n].h <= g
        \/ [account |-> t.notes[n].account, note |-> n, h |-> g] \in t.witnesses
    /\ \A w \in t.witnesses : w.h <= H[w.account]

(* What a typed table says of one row.                                     *)
LEMMA RowsAre ==
    ASSUME NEW t, TypedRows(t)
    PROVE  /\ \A i \in DOMAIN t.txs : i \in Nat /\ t.txs[i] \in TxRow
                 /\ t.txs[i].account \in Nat /\ t.txs[i].h \in 1 .. Top
           /\ \A n \in DOMAIN t.notes : n \in Nat /\ t.notes[n] \in NoteRow
                 /\ t.notes[n].account \in Nat /\ t.notes[n].tx \in Nat /\ t.notes[n].h \in 1 .. Top
           /\ \A n \in DOMAIN t.spends : n \in Nat /\ t.spends[n] \in Row
                 /\ t.spends[n].account \in Nat /\ t.spends[n].tx \in Nat /\ t.spends[n].h \in 1 .. Top
           /\ \A n \in DOMAIN t.outputs : n \in Nat /\ t.outputs[n] \in Row
                 /\ t.outputs[n].account \in Nat /\ t.outputs[n].tx \in Nat /\ t.outputs[n].h \in 1 .. Top
           /\ \A m \in t.memos : m \in MemoRow
                 /\ m.account \in Nat /\ m.tx \in Nat /\ m.h \in 1 .. Top /\ m.of \in {"note", "output"}
           /\ Top \in Nat
<1>1. \A i \in DOMAIN t.txs : i \in Nat /\ t.txs[i] \in TxRow
         /\ t.txs[i].account \in Nat /\ t.txs[i].h \in 1 .. Top
  BY DEF TypedRows, Table, TxRow
<1>2. \A n \in DOMAIN t.notes : n \in Nat /\ t.notes[n] \in NoteRow
         /\ t.notes[n].account \in Nat /\ t.notes[n].tx \in Nat /\ t.notes[n].h \in 1 .. Top
  BY DEF TypedRows, Table, NoteRow
<1>3. \A n \in DOMAIN t.spends : n \in Nat /\ t.spends[n] \in Row
         /\ t.spends[n].account \in Nat /\ t.spends[n].tx \in Nat /\ t.spends[n].h \in 1 .. Top
  BY DEF TypedRows, Table, Row
<1>4. \A n \in DOMAIN t.outputs : n \in Nat /\ t.outputs[n] \in Row
         /\ t.outputs[n].account \in Nat /\ t.outputs[n].tx \in Nat /\ t.outputs[n].h \in 1 .. Top
  BY DEF TypedRows, Table, Row
<1>5. \A m \in t.memos : m \in MemoRow
         /\ m.account \in Nat /\ m.tx \in Nat /\ m.h \in 1 .. Top /\ m.of \in {"note", "output"}
  BY DEF TypedRows, MemoRow
<1> QED BY <1>1, <1>2, <1>3, <1>4, <1>5, WalletAssumption

(* Tables that grow keep the details of a transaction.                     *)
LEMMA DetailsGrow ==
    ASSUME NEW t, NEW u, NEW K, NEW L, NEW i, HasDetails(t, K, i),
           u.txs[i].account = t.txs[i].account, u.txs[i].h = t.txs[i].h,
           L[t.txs[i].account] = K[t.txs[i].account],
           \A m \in t.memos : m.tx = i => m \in u.memos,
           \A o \in DOMAIN t.outputs : t.outputs[o].tx = i =>
                o \in DOMAIN u.outputs /\ u.outputs[o].tx = i,
           \A n \in DOMAIN t.notes :
                t.notes[n].account = t.txs[i].account /\ t.notes[n].h = t.txs[i].h =>
                    n \in DOMAIN u.notes /\ u.notes[n].account = t.notes[n].account
                    /\ u.notes[n].h = t.notes[n].h
    PROVE  HasDetails(u, L, i)
<1>1. InvolvedIn(u, L, i) = InvolvedIn(t, K, i)
  BY DEF InvolvedIn
<1>2. OutputShown(t, i) => OutputShown(u, i)
  BY DEF OutputShown
<1>3. NoteShown(t, i) => NoteShown(u, i)
  BY DEF NoteShown
<1> QED BY <1>1, <1>2, <1>3 DEF HasDetails

-----------------------------------------------------------------------------
(* A trim keeps a row and what it refers to, or neither.                   *)
LEMMA TrimTogether ==
    ASSUME NEW t, NEW u, NEW a, NEW h, RestOf(t, u, a, h)
    PROVE  /\ \A i \in DOMAIN t.txs : i \in DOMAIN u.txs <=> ~Above(t.txs[i], a, h)
           /\ \A i \in DOMAIN u.txs : i \in DOMAIN t.txs /\ u.txs[i] = t.txs[i]
           /\ \A n \in DOMAIN t.notes : n \in DOMAIN u.notes <=> ~Above(t.notes[n], a, h)
           /\ \A n \in DOMAIN u.notes : n \in DOMAIN t.notes /\ u.notes[n] = t.notes[n]
           /\ \A n \in DOMAIN t.spends : n \in DOMAIN u.spends <=> ~Above(t.spends[n], a, h)
           /\ \A n \in DOMAIN u.spends : n \in DOMAIN t.spends /\ u.spends[n] = t.spends[n]
           /\ \A o \in DOMAIN t.outputs : o \in DOMAIN u.outputs <=> ~Above(t.outputs[o], a, h)
           /\ \A o \in DOMAIN u.outputs : o \in DOMAIN t.outputs /\ u.outputs[o] = t.outputs[o]
           /\ \A w : w \in u.witnesses <=> w \in t.witnesses /\ ~Above(w, a, h)
           /\ \A m : m \in u.memos <=> m \in t.memos /\ ~Above(m, a, h)
BY DEF RestOf, Rest

LEMMA TrimSound ==
    ASSUME NEW t, NEW K, TypedRows(t), Sound(t, K), NEW u, NEW a, NEW h \in Nat, RestOf(t, u, a, h)
    PROVE  Sound(u, K)
<1>1. OwnTxs(u, K) /\ OneTx(u)
  <2>1. ASSUME NEW i \in DOMAIN u.txs
        PROVE  /\ u.txs[i].account \in DOMAIN K
               /\ u.txs[i].h \in InvolvedIn(u, K, i).notes \union DOMAIN InvolvedIn(u, K, i).spends
    <3>1. i \in DOMAIN t.txs /\ u.txs[i] = t.txs[i]
      BY TrimTogether
    <3>2. InvolvedIn(u, K, i) = InvolvedIn(t, K, i)
      BY <3>1 DEF InvolvedIn
    <3> QED BY <3>1, <3>2 DEF Sound, OwnTxs
  <2>2. OneTx(u)
    BY TrimTogether DEF Sound, OneTx
  <2> QED BY <2>1, <2>2 DEF OwnTxs
<1>2. ASSUME NEW x, Refers(t, x), ~Above(x, a, h) PROVE Refers(u, x)
  BY <1>2, TrimTogether DEF Refers, Above
<1>3. Referring(u)
  <2>1. \A n \in DOMAIN u.notes : Refers(u, u.notes[n])
    BY <1>2, TrimTogether DEF Sound, Referring
  <2>2. \A n \in DOMAIN u.spends : Refers(u, u.spends[n])
    BY <1>2, TrimTogether DEF Sound, Referring
  <2>3. \A o \in DOMAIN u.outputs : Refers(u, u.outputs[o])
    BY <1>2, TrimTogether DEF Sound, Referring
  <2>4. \A m \in u.memos : Refers(u, m)
    BY <1>2, TrimTogether DEF Sound, Referring
  <2> QED BY <2>1, <2>2, <2>3, <2>4 DEF Referring
<1>4. SpendsOfNotes(u)
  <2> SUFFICES ASSUME NEW n \in DOMAIN u.spends
               PROVE  n \in DOMAIN u.notes /\ u.notes[n].account = u.spends[n].account
                      /\ u.notes[n].h < u.spends[n].h
    BY DEF SpendsOfNotes
  <2>1. n \in DOMAIN t.spends /\ u.spends[n] = t.spends[n] /\ ~Above(t.spends[n], a, h)
    BY TrimTogether
  <2>2. n \in DOMAIN t.notes /\ t.notes[n].account = t.spends[n].account /\ t.notes[n].h < t.spends[n].h
    BY <2>1 DEF Sound, SpendsOfNotes
  <2>3. t.notes[n].h \in Nat /\ t.spends[n].h \in Nat
    BY <2>1, <2>2, RowsAre
  <2>4. ~Above(t.notes[n], a, h)
    BY <2>1, <2>2, <2>3 DEF Above
  <2> QED BY <2>1, <2>2, <2>4, TrimTogether
<1>5. WitnessesOfNotes(u)
  <2> SUFFICES ASSUME NEW w \in u.witnesses
               PROVE  w.note \in DOMAIN u.notes /\ u.notes[w.note].account = w.account
                      /\ w.h \in Nat /\ u.notes[w.note].h <= w.h
    BY DEF WitnessesOfNotes
  <2>1. w \in t.witnesses /\ ~Above(w, a, h)
    BY TrimTogether
  <2>2. w.note \in DOMAIN t.notes /\ t.notes[w.note].account = w.account
        /\ w.h \in Nat /\ t.notes[w.note].h <= w.h
    BY <2>1 DEF Sound, WitnessesOfNotes
  <2>3. t.notes[w.note].h \in Nat
    BY <2>2, RowsAre
  <2>4. ~Above(t.notes[w.note], a, h)
    BY <2>1, <2>2, <2>3 DEF Above
  <2> QED BY <2>2, <2>4, TrimTogether
<1>6. MemosOfRows(u)
  <2> SUFFICES ASSUME NEW m \in u.memos
               PROVE  /\ m.of = "note" => m.row \in DOMAIN u.notes /\ u.notes[m.row].tx = m.tx
                      /\ m.of = "output" => m.row \in DOMAIN u.outputs /\ u.outputs[m.row].tx = m.tx
    BY DEF MemosOfRows
  <2>1. m \in t.memos /\ ~Above(m, a, h) /\ Refers(t, m)
    BY TrimTogether DEF Sound, Referring
  <2>2. ASSUME m.of = "note" PROVE m.row \in DOMAIN u.notes /\ u.notes[m.row].tx = m.tx
    <3>1. m.row \in DOMAIN t.notes /\ t.notes[m.row].tx = m.tx
      BY <2>1, <2>2 DEF Sound, MemosOfRows
    <3>2. Refers(t, t.notes[m.row])
      BY <3>1 DEF Sound, Referring
    <3>3. ~Above(t.notes[m.row], a, h)
      BY <2>1, <3>1, <3>2 DEF Refers, Above
    <3> QED BY <3>1, <3>3, TrimTogether
  <2>3. ASSUME m.of = "output" PROVE m.row \in DOMAIN u.outputs /\ u.outputs[m.row].tx = m.tx
    <3>1. m.row \in DOMAIN t.outputs /\ t.outputs[m.row].tx = m.tx
      BY <2>1, <2>3 DEF Sound, MemosOfRows
    <3>2. Refers(t, t.outputs[m.row])
      BY <3>1 DEF Sound, Referring
    <3>3. ~Above(t.outputs[m.row], a, h)
      BY <2>1, <3>1, <3>2 DEF Refers, Above
    <3> QED BY <3>1, <3>3, TrimTogether
  <2> QED BY <2>2, <2>3
<1>7. NotesPresent(u, K)
  <2> SUFFICES ASSUME NEW i \in DOMAIN u.txs, u.txs[i].h \in InvolvedIn(u, K, i).notes
               PROVE  \E n \in DOMAIN u.notes : u.notes[n].account = u.txs[i].account
                                                /\ u.notes[n].h = u.txs[i].h
    BY DEF NotesPresent
  <2>1. i \in DOMAIN t.txs /\ u.txs[i] = t.txs[i] /\ ~Above(t.txs[i], a, h)
    BY TrimTogether
  <2>2. PICK n \in DOMAIN t.notes : t.notes[n].account = t.txs[i].account /\ t.notes[n].h = t.txs[i].h
    BY <2>1 DEF Sound, NotesPresent, InvolvedIn
  <2>3. ~Above(t.notes[n], a, h)
    BY <2>1, <2>2 DEF Above
  <2> QED BY <2>1, <2>2, <2>3, TrimTogether
<1>8. Complete(u, K)
  <2> SUFFICES ASSUME NEW i \in DOMAIN u.txs, u.txs[i].details
               PROVE  HasDetails(u, K, i)
    BY DEF Complete
  <2>1. i \in DOMAIN t.txs /\ u.txs[i] = t.txs[i] /\ ~Above(t.txs[i], a, h)
    BY TrimTogether
  <2>2. HasDetails(t, K, i)
    BY <2>1 DEF Sound, Complete
  <2>3. \A m \in t.memos : m.tx = i => m \in u.memos
    BY <2>1, TrimTogether DEF Sound, Referring, Refers, Above
  <2>4. \A o \in DOMAIN t.outputs : t.outputs[o].tx = i => o \in DOMAIN u.outputs /\ u.outputs[o].tx = i
    BY <2>1, TrimTogether DEF Sound, Referring, Refers, Above
  <2>5. \A n \in DOMAIN t.notes :
          t.notes[n].account = t.txs[i].account /\ t.notes[n].h = t.txs[i].h =>
              n \in DOMAIN u.notes /\ u.notes[n].account = t.notes[n].account
              /\ u.notes[n].h = t.notes[n].h
    BY <2>1, TrimTogether DEF Above
  <2> QED BY <2>1, <2>2, <2>3, <2>4, <2>5, DetailsGrow
<1> QED BY <1>1, <1>3, <1>4, <1>5, <1>6, <1>7, <1>8 DEF Sound

LEMMA TrimWitnessed ==
    ASSUME NEW t, TypedRows(t), SpendsOfNotes(t), WitnessesOfNotes(t),
           NEW H, Witnessed(t, H), NEW u, NEW a, NEW h \in Nat, RestOf(t, u, a, h),
           H[a] \in Nat, h <= H[a],
           NEW G, G[a] = h, \A n \in DOMAIN u.notes : u.notes[n].account # a =>
                                G[u.notes[n].account] = H[u.notes[n].account]
    PROVE  Witnessed(u, G)
<1>1. ASSUME NEW n \in DOMAIN u.notes, NEW g \in u.notes[n].h .. G[u.notes[n].account]
      PROVE  \/ n \in DOMAIN u.spends /\ u.spends[n].h <= g
             \/ [account |-> u.notes[n].account, note |-> n, h |-> g] \in u.witnesses
  <2>1. n \in DOMAIN t.notes /\ u.notes[n] = t.notes[n]
    BY TrimTogether
  <2>2. u.notes[n].h \in Nat
    BY <2>1, RowsAre
  <2>3. g \in u.notes[n].h .. H[u.notes[n].account]
    BY <2>2
  <2>4. u.notes[n].account = a => g <= h
    OBVIOUS
  <2>5. CASE n \in DOMAIN t.spends /\ t.spends[n].h <= g
    <3>1. t.spends[n].account = u.notes[n].account /\ t.spends[n].h \in Nat
      BY <2>1, <2>5, RowsAre DEF SpendsOfNotes
    <3>2. ~Above(t.spends[n], a, h)
      BY <2>2, <2>3, <2>4, <2>5, <3>1 DEF Above
    <3> QED BY <2>5, <3>2, TrimTogether
  <2>6. CASE [account |-> u.notes[n].account, note |-> n, h |-> g] \in t.witnesses
    <3>1. ~Above([account |-> u.notes[n].account, note |-> n, h |-> g], a, h)
      BY <2>2, <2>3, <2>4 DEF Above
    <3> QED BY <2>6, <3>1, TrimTogether
  <2> QED BY <2>1, <2>3, <2>5, <2>6 DEF Witnessed
<1>2. ASSUME NEW w \in u.witnesses PROVE w.h <= G[w.account]
  <2>1. w \in t.witnesses /\ ~Above(w, a, h)
    BY TrimTogether
  <2>2. w.note \in DOMAIN t.notes /\ t.notes[w.note].account = w.account /\ w.h \in Nat
        /\ t.notes[w.note].h <= w.h
    BY <2>1 DEF WitnessesOfNotes
  <2>3. CASE w.account = a
    BY <2>1, <2>2, <2>3 DEF Above
  <2>4. CASE w.account # a
    <3>1. ~Above(t.notes[w.note], a, h)
      BY <2>2, <2>4 DEF Above
    <3>2. w.note \in DOMAIN u.notes /\ u.notes[w.note].account = w.account
      BY <2>2, <3>1, TrimTogether
    <3> QED BY <2>1, <2>4, <3>2 DEF Witnessed
  <2> QED BY <2>3, <2>4
<1> QED BY <1>1, <1>2 DEF Witnessed

-----------------------------------------------------------------------------
(* What holds of the rows while no account was trimmed or deleted with     *)
(* rows of it in use.                                                      *)
Owners == [a \in ids |-> accounts[a].key]

(* A run knows the key and the height of its account, which has no         *)
(* transaction above, and follows each note that is not spent.             *)
RunSound ==
    run.account # 0 =>
        /\ run.account \in ids /\ run.key = accounts[run.account].key
        /\ run.at = db.heights[run.account]
        /\ \A i \in DOMAIN db.txs : db.txs[i].account = run.account => db.txs[i].h <= run.at
        /\ \A n \in DOMAIN db.notes :
            db.notes[n].account = run.account /\ n \notin DOMAIN db.spends
                => db.notes[n].h \in run.tracked

(* What was listed to be fetched is still there, and the row that was      *)
(* found by its txid is the one that was listed; when it is to be marked,  *)
(* its details are stored.                                                 *)
Listed(t, i, h) == i \in DOMAIN t.txs /\ t.txs[i].account = job.account /\ t.txs[i].h = h
JobSound ==
    /\ \A x \in job.todo : Listed(db, x[1], x[2])
    /\ job.found # 0 => job.listed = job.found /\ Listed(db, job.found, job.h)
    /\ job.listed # 0 /\ job.found = 0 =>
        /\ job.listed \in DOMAIN db.txs /\ db.txs[job.listed].account = job.account
        /\ HasDetails(db, Owners, job.listed)

(* An export has read the witnesses up to the height it has read.          *)
ExportSound ==
    export.account # 0 =>
        /\ export.account \in ids /\ export.row.key = accounts[export.account].key
        /\ export.height <= db.heights[export.account]
        /\ \A w \in export.tables.witnesses :
            w \in db.witnesses /\ w.account = export.account /\ w.h <= export.height
        /\ \A w \in db.witnesses :
            w.account = export.account /\ w.h <= export.height => w \in export.tables.witnesses

FileSound ==
    file.account # 0 =>
        /\ Sound(file.tables, [b \in {file.account} |-> file.row.key])
        /\ Witnessed(file.tables, [b \in {file.account} |-> file.height])

RowsSound == Sound(db, Owners) /\ Witnessed(db, db.heights)
SoundInv == overtaken # {} \/ (RowsSound /\ RunSound /\ JobSound /\ ExportSound /\ FileSound)

-----------------------------------------------------------------------------
(* Tables that differ in categories, locks, marks or memos of the user.    *)
Alike(t, u) ==
    /\ DOMAIN u.txs = DOMAIN t.txs
    /\ \A i \in DOMAIN t.txs : u.txs[i].account = t.txs[i].account /\ u.txs[i].h = t.txs[i].h
    /\ DOMAIN u.notes = DOMAIN t.notes
    /\ \A n \in DOMAIN t.notes : /\ u.notes[n].account = t.notes[n].account
                                 /\ u.notes[n].tx = t.notes[n].tx /\ u.notes[n].h = t.notes[n].h
    /\ u.spends = t.spends /\ u.outputs = t.outputs /\ u.memos = t.memos
    /\ u.witnesses = t.witnesses

LEMMA AlikeSound ==
    ASSUME NEW t, NEW K, Sound(t, K), NEW u, Alike(t, u), NEW L,
           \A i \in DOMAIN t.txs : t.txs[i].account \in DOMAIN K =>
                t.txs[i].account \in DOMAIN L /\ L[t.txs[i].account] = K[t.txs[i].account],
           \A i \in DOMAIN t.txs : u.txs[i].details => t.txs[i].details \/ HasDetails(t, K, i)
    PROVE  Sound(u, L)
<1>1. \A i \in DOMAIN t.txs : t.txs[i].account \in DOMAIN L /\ InvolvedIn(u, L, i) = InvolvedIn(t, K, i)
  BY DEF Sound, OwnTxs, InvolvedIn, Alike
<1>2. OwnTxs(u, L) /\ OneTx(u)
  BY <1>1 DEF Sound, OwnTxs, OneTx, Alike
<1>3. \A x : Refers(t, x) => Refers(u, x)
  BY DEF Refers, Alike
<1>4. Referring(u)
  <2>1. \A n \in DOMAIN u.notes : Refers(u, u.notes[n])
    BY <1>3 DEF Sound, Referring, Refers, Alike
  <2> QED BY <1>3, <2>1 DEF Sound, Referring, Alike
<1>5. SpendsOfNotes(u) /\ WitnessesOfNotes(u) /\ MemosOfRows(u)
  <2>1. SpendsOfNotes(u)
    BY DEF Sound, SpendsOfNotes, Alike
  <2>2. WitnessesOfNotes(u)
    BY DEF Sound, WitnessesOfNotes, Alike
  <2>3. MemosOfRows(u)
    BY DEF Sound, MemosOfRows, Alike
  <2> QED BY <2>1, <2>2, <2>3
<1>6. NotesPresent(u, L)
  BY <1>1 DEF Sound, NotesPresent, Alike
<1>7. Complete(u, L)
  <2> SUFFICES ASSUME NEW i \in DOMAIN u.txs, u.txs[i].details PROVE HasDetails(u, L, i)
    BY DEF Complete
  <2>1. HasDetails(t, K, i)
    BY DEF Sound, Complete, Alike
  <2>2. L[t.txs[i].account] = K[t.txs[i].account]
    BY DEF Sound, OwnTxs, Alike
  <2> QED BY <2>1, <2>2, DetailsGrow DEF Alike
<1> QED BY <1>2, <1>4, <1>5, <1>6, <1>7 DEF Sound

LEMMA AlikeWitnessed ==
    ASSUME NEW t, WitnessesOfNotes(t), NEW H, Witnessed(t, H), NEW u, Alike(t, u), NEW G,
           \A n \in DOMAIN t.notes : G[t.notes[n].account] = H[t.notes[n].account]
    PROVE  Witnessed(u, G)
<1>1. \A w \in u.witnesses : w.h <= G[w.account]
  BY DEF Witnessed, WitnessesOfNotes, Alike
<1>2. ASSUME NEW n \in DOMAIN u.notes, NEW g \in u.notes[n].h .. G[u.notes[n].account]
      PROVE  \/ n \in DOMAIN u.spends /\ u.spends[n].h <= g
             \/ [account |-> u.notes[n].account, note |-> n, h |-> g] \in u.witnesses
  BY DEF Witnessed, Alike
<1> QED BY <1>1, <1>2 DEF Witnessed

-----------------------------------------------------------------------------
(* The rows of an account are kept, and there is no new one.               *)
KeptFor(t, u, b) ==
    /\ \A i \in DOMAIN t.txs : t.txs[i].account = b =>
        i \in DOMAIN u.txs /\ u.txs[i].account = b /\ u.txs[i].h = t.txs[i].h
    /\ \A n \in DOMAIN t.notes : t.notes[n].account = b =>
        n \in DOMAIN u.notes /\ u.notes[n].account = b /\ u.notes[n].h = t.notes[n].h
    /\ \A n \in DOMAIN t.spends : t.spends[n].account = b => n \in DOMAIN u.spends
    /\ \A o \in DOMAIN t.outputs : t.outputs[o].account = b =>
        o \in DOMAIN u.outputs /\ u.outputs[o].tx = t.outputs[o].tx
    /\ \A m \in t.memos : m.account = b => m \in u.memos
    /\ \A w \in t.witnesses : w.account = b => w \in u.witnesses

NoneNewFor(t, u, b) ==
    /\ \A i \in DOMAIN u.txs : u.txs[i].account = b => i \in DOMAIN t.txs /\ t.txs[i].account = b
    /\ \A n \in DOMAIN u.notes : u.notes[n].account = b => n \in DOMAIN t.notes /\ t.notes[n].account = b
    /\ \A w \in u.witnesses : w.account = b => w \in t.witnesses

KeepsKey(b) == b \in ids => b \in ids' /\ accounts'[b].key = accounts[b].key

LEMMA AlikeKept ==
    ASSUME NEW t, NEW u, Alike(t, u), NEW b
    PROVE  KeptFor(t, u, b) /\ NoneNewFor(t, u, b)
<1>1. KeptFor(t, u, b)
  BY DEF Alike, KeptFor
<1>2. NoneNewFor(t, u, b)
  BY DEF Alike, NoneNewFor
<1> QED BY <1>1, <1>2

LEMMA KeptDetails ==
    ASSUME NEW t, NEW K, OwnTxs(t, K), Referring(t), NEW b, NEW u, KeptFor(t, u, b), NEW L,
           L[b] = K[b], NEW i \in DOMAIN t.txs, t.txs[i].account = b, HasDetails(t, K, i)
    PROVE  HasDetails(u, L, i)
<1>1. \A m \in t.memos : m.tx = i => m \in u.memos
  BY DEF KeptFor, Referring, Refers
<1>2. \A o \in DOMAIN t.outputs : t.outputs[o].tx = i => o \in DOMAIN u.outputs /\ u.outputs[o].tx = i
  BY DEF KeptFor, Referring, Refers
<1>3. \A n \in DOMAIN t.notes :
        t.notes[n].account = t.txs[i].account /\ t.notes[n].h = t.txs[i].h =>
            n \in DOMAIN u.notes /\ u.notes[n].account = t.notes[n].account
            /\ u.notes[n].h = t.notes[n].h
  BY DEF KeptFor
<1>4. u.txs[i].account = t.txs[i].account /\ u.txs[i].h = t.txs[i].h
  BY DEF KeptFor
<1> QED BY <1>1, <1>2, <1>3, <1>4, DetailsGrow

LEMMA JobKept ==
    ASSUME RowsSound, JobSound, job' = job, KeptFor(db, db', job.account), KeepsKey(job.account)
    PROVE  JobSound'
<1>1. \A i, h : Listed(db, i, h) => Listed(db', i, h)
  BY DEF Listed, KeptFor
<1>2. \A i, h : Listed(db, i, h)' <=> Listed(db', i, h)
  BY DEF Listed
<1>3. ASSUME job.listed # 0, job.found = 0
      PROVE  /\ job.listed \in DOMAIN db'.txs /\ db'.txs[job.listed].account = job.account
             /\ HasDetails(db', Owners', job.listed)
  <2>1. job.listed \in DOMAIN db.txs /\ db.txs[job.listed].account = job.account
        /\ HasDetails(db, Owners, job.listed)
    BY <1>3 DEF JobSound
  <2>2. OwnTxs(db, Owners) /\ Referring(db)
    BY DEF RowsSound, Sound
  <2>3. job.account \in ids
    BY <2>1, <2>2 DEF OwnTxs, Owners
  <2>4. Owners'[job.account] = Owners[job.account]
    BY <2>3 DEF Owners, KeepsKey
  <2>5. HasDetails(db', Owners', job.listed)
    BY <2>1, <2>2, <2>4, KeptDetails
  <2> QED BY <2>1, <2>5 DEF KeptFor
<1> QED BY <1>1, <1>2, <1>3 DEF JobSound

LEMMA RunKept ==
    ASSUME RowsSound, RunSound, run' = run, KeepsKey(run.account),
           run.account # 0 => /\ KeptFor(db, db', run.account) /\ NoneNewFor(db, db', run.account)
                              /\ db'.heights[run.account] = db.heights[run.account]
    PROVE  RunSound'
<1> SUFFICES ASSUME run.account # 0
             PROVE  /\ run.account \in ids' /\ run.key = accounts'[run.account].key
                    /\ run.at = db'.heights[run.account]
                    /\ \A i \in DOMAIN db'.txs :
                        db'.txs[i].account = run.account => db'.txs[i].h <= run.at
                    /\ \A n \in DOMAIN db'.notes :
                        db'.notes[n].account = run.account /\ n \notin DOMAIN db'.spends
                            => db'.notes[n].h \in run.tracked
  BY DEF RunSound
<1>1. run.account \in ids' /\ run.key = accounts'[run.account].key /\ run.at = db'.heights[run.account]
  BY DEF RunSound, KeepsKey
<1>2. \A i \in DOMAIN db'.txs : db'.txs[i].account = run.account => db'.txs[i].h <= run.at
  BY DEF RunSound, KeptFor, NoneNewFor
<1>3. ASSUME NEW n \in DOMAIN db'.notes, db'.notes[n].account = run.account, n \notin DOMAIN db'.spends
      PROVE  db'.notes[n].h \in run.tracked
  <2>1. n \in DOMAIN db.notes /\ db.notes[n].account = run.account /\ db'.notes[n].h = db.notes[n].h
    BY <1>3 DEF KeptFor, NoneNewFor
  <2>2. n \notin DOMAIN db.spends
    BY <1>3, <2>1 DEF RowsSound, Sound, SpendsOfNotes, KeptFor
  <2> QED BY <2>1, <2>2 DEF RunSound
<1> QED BY <1>1, <1>2, <1>3

LEMMA ExportKept ==
    ASSUME DbOK, ExportSound, FileOK, export' = export, KeepsKey(export.account),
           export.account # 0 =>
              /\ KeptFor(db, db', export.account)
              /\ db'.heights[export.account] \in Int
              /\ db.heights[export.account] <= db'.heights[export.account]
              /\ \A w \in db'.witnesses :
                  w.account = export.account /\ w.h <= db.heights[export.account] => w \in db.witnesses,
           \A w \in db'.witnesses : w.h \in Nat
    PROVE  ExportSound'
<1> SUFFICES ASSUME export.account # 0
             PROVE  /\ export.account \in ids' /\ export.row.key = accounts'[export.account].key
                    /\ export.height <= db'.heights[export.account]
                    /\ \A w \in export.tables.witnesses :
                        w \in db'.witnesses /\ w.account = export.account /\ w.h <= export.height
                    /\ \A w \in db'.witnesses :
                        w.account = export.account /\ w.h <= export.height
                            => w \in export.tables.witnesses
  BY DEF ExportSound
<1>1. export.account \in ids' /\ export.row.key = accounts'[export.account].key
  BY DEF ExportSound, KeepsKey
<1>2. export.height \in Nat /\ db.heights[export.account] \in Nat
      /\ export.height <= db.heights[export.account]
  BY WalletAssumption DEF ExportSound, FileOK, DbOK
<1>3. \A w \in export.tables.witnesses :
        w \in db'.witnesses /\ w.account = export.account /\ w.h <= export.height
  BY DEF ExportSound, KeptFor
<1>4. ASSUME NEW w \in db'.witnesses, w.account = export.account, w.h <= export.height
      PROVE  w \in export.tables.witnesses
  <2>1. w.h <= db.heights[export.account]
    BY <1>2, <1>4
  <2> QED BY <1>4, <2>1 DEF ExportSound
<1> QED BY <1>1, <1>2, <1>3, <1>4

-----------------------------------------------------------------------------
(* Steps that leave the rows, but for categories, locks and marks.         *)
StillOpen ==
    /\ run' = run => RunSound'
    /\ job' = job => JobSound'
    /\ export' = export => ExportSound'
    /\ file' = file => FileSound'

KeepsAccounts ==
    \A a \in ids :
        a \in ids' /\ accounts'[a].key = accounts[a].key /\ db'.heights[a] = db.heights[a]

LEMMA FileKept == FileSound /\ file' = file => FileSound'
BY DEF FileSound

(* The accounts of rows exist.                                             *)
LEMMA RowOwners ==
    ASSUME Sound(db, Owners)
    PROVE  /\ \A i \in DOMAIN db.txs : db.txs[i].account \in ids
           /\ \A n \in DOMAIN db.notes : db.notes[n].account \in ids
           /\ \A w \in db.witnesses : w.account \in ids
<1>1. \A i \in DOMAIN db.txs : db.txs[i].account \in ids
  BY DEF Sound, OwnTxs, Owners
<1>2. \A n \in DOMAIN db.notes : db.notes[n].account \in ids
  BY <1>1 DEF Sound, Referring, Refers
<1>3. \A w \in db.witnesses : w.account \in ids
  BY <1>2 DEF Sound, WitnessesOfNotes
<1> QED BY <1>1, <1>2, <1>3

LEMMA AlikeStep ==
    ASSUME RowsTyped, RowsTyped', RowsSound, RunSound, JobSound, ExportSound, FileSound,
           Alike(db, db'), KeepsAccounts,
           \A i \in DOMAIN db.txs :
              db'.txs[i].details => db.txs[i].details \/ HasDetails(db, Owners, i)
    PROVE  RowsSound' /\ StillOpen
<1>1. \A i \in DOMAIN db.txs : db.txs[i].account \in ids
  BY RowOwners DEF RowsSound
<1>2. Sound(db', Owners')
  <2>1. \A i \in DOMAIN db.txs : db.txs[i].account \in DOMAIN Owners'
           /\ Owners'[db.txs[i].account] = Owners[db.txs[i].account]
    BY <1>1 DEF Owners, KeepsAccounts
  <2> QED BY <2>1, AlikeSound DEF RowsSound
<1>3. Witnessed(db', db'.heights)
  <2>1. \A n \in DOMAIN db.notes : db.notes[n].account \in ids
    BY RowOwners DEF RowsSound
  <2> QED BY <2>1, AlikeWitnessed DEF RowsSound, Sound, KeepsAccounts
<1>4. \A b : KeptFor(db, db', b) /\ NoneNewFor(db, db', b) /\ KeepsKey(b)
  BY AlikeKept DEF KeepsKey, KeepsAccounts
<1>5. run' = run => RunSound'
  <2>1. run.account # 0 => db'.heights[run.account] = db.heights[run.account]
    BY DEF RunSound, KeepsAccounts
  <2> QED BY <1>4, <2>1, RunKept
<1>6. job' = job => JobSound'
  BY <1>4, JobKept
<1>7. export' = export => ExportSound'
  <2>1. export.account # 0 => db'.heights[export.account] = db.heights[export.account]
           /\ db.heights[export.account] \in Nat
    BY WalletAssumption DEF ExportSound, KeepsAccounts, RowsTyped, DbOK
  <2>2. db'.witnesses = db.witnesses /\ \A w \in db'.witnesses : w.h \in Nat
    BY DEF Alike, RowsSound, Sound, WitnessesOfNotes
  <2> HIDE DEF KeepsKey
  <2> QED BY <1>4, <2>1, <2>2, ExportKept DEF RowsTyped
<1> QED BY <1>2, <1>3, <1>5, <1>6, <1>7, FileKept DEF RowsSound, StillOpen

LEMMA Same == ASSUME NEW t PROVE Alike(t, t)
BY DEF Alike

(* Nothing of the rows changes.                                            *)
LEMMA SameStep ==
    ASSUME RowsTyped, RowsTyped', RowsSound, RunSound, JobSound, ExportSound, FileSound,
           db' = db, \A a \in ids : a \in ids' /\ accounts'[a].key = accounts[a].key
    PROVE  RowsSound' /\ StillOpen
<1>1. Alike(db, db') /\ KeepsAccounts
  BY Same DEF KeepsAccounts
<1> QED BY <1>1, AlikeStep

-----------------------------------------------------------------------------
(* A trim of an account that nothing works on.                             *)
InUse(a) == a \in {run.account, job.account, export.account}

LEMMA NotInUse == ASSUME NEW a, Overtaking(a) = {} PROVE ~InUse(a)
BY DEF Overtaking, InUse

LEMMA TrimKept ==
    ASSUME NEW t, NEW u, NEW a, NEW h, RestOf(t, u, a, h), NEW b, b # a
    PROVE  KeptFor(t, u, b) /\ NoneNewFor(t, u, b)
<1>1. KeptFor(t, u, b)
  BY TrimTogether DEF Above, KeptFor
<1>2. NoneNewFor(t, u, b)
  BY TrimTogether DEF NoneNewFor
<1> QED BY <1>1, <1>2

LEMMA TrimOpen ==
    ASSUME RowsTyped, RowsTyped', RowsSound, RunSound, JobSound, ExportSound, FileSound,
           NEW a, ~InUse(a), NEW h, RestOf(db, db', a, h),
           \A b \in ids \ {a} :
              b \in ids' /\ accounts'[b].key = accounts[b].key /\ db'.heights[b] = db.heights[b]
    PROVE  StillOpen
<1>1. run.account # a /\ job.account # a /\ export.account # a
  BY DEF InUse
<1>2. \A b : b # a => KeptFor(db, db', b) /\ NoneNewFor(db, db', b) /\ KeepsKey(b)
  BY TrimKept DEF KeepsKey
<1>5. run' = run => RunSound'
  <2>1. run.account # 0 => db'.heights[run.account] = db.heights[run.account]
    BY <1>1 DEF RunSound
  <2> QED BY <1>1, <1>2, <2>1, RunKept
<1>6. job' = job => JobSound'
  BY <1>1, <1>2, JobKept
<1>7. export' = export => ExportSound'
  <2>1. export.account # 0 => db'.heights[export.account] = db.heights[export.account]
           /\ db.heights[export.account] \in Nat
    BY <1>1, WalletAssumption DEF ExportSound, RowsTyped, DbOK
  <2>2. \A w \in db'.witnesses : w \in db.witnesses /\ w.h \in Nat
    BY TrimTogether DEF RowsSound, Sound, WitnessesOfNotes
  <2> HIDE DEF KeepsKey
  <2> QED BY <1>1, <1>2, <2>1, <2>2, ExportKept DEF RowsTyped
<1> QED BY <1>5, <1>6, <1>7, FileKept DEF StillOpen

LEMMA TrimmedSound ==
    ASSUME RowsTyped, RowsSound, NEW a \in ids, NEW h \in 0 .. db.heights[a], UNCHANGED accountVars,
           db' = Trimmed(db, a, h)
    PROVE  RowsSound' /\ RestOf(db, db', a, h) /\ db'.heights = [db.heights EXCEPT ![a] = h]
<1>1. TypedRows(db) /\ IsTables(db) /\ DOMAIN db.heights = ids /\ db.heights[a] \in Nat /\ h \in Nat
      /\ h <= db.heights[a]
  BY WalletAssumption DEF RowsTyped, DbOK, TypedRows
<1>2. RestOf(db, db', a, h) /\ db'.heights = [db.heights EXCEPT ![a] = h]
  BY <1>1, TrimTables
<1>3. Sound(db', Owners)
  BY <1>1, <1>2, TrimSound DEF RowsSound
<1>4. Owners' = Owners
  BY DEF Owners, accountVars, ids
<1>5. \A n \in DOMAIN db'.notes : db'.notes[n].account # a
            => db'.heights[db'.notes[n].account] = db.heights[db'.notes[n].account]
  <2>1. \A n \in DOMAIN db'.notes : db'.notes[n].account \in ids
    BY <1>2, TrimTogether, RowOwners DEF RowsSound
  <2> QED BY <1>1, <1>2, <2>1
<1>6. Witnessed(db', db'.heights)
  <2>1. db'.heights[a] = h
    BY <1>1, <1>2
  <2>2. SpendsOfNotes(db) /\ WitnessesOfNotes(db) /\ Witnessed(db, db.heights)
    BY DEF RowsSound, Sound
  <2> DEFINE H == db.heights
             G == db'.heights
             u == db'
  <2>3. /\ TypedRows(db) /\ SpendsOfNotes(db) /\ WitnessesOfNotes(db) /\ Witnessed(db, H)
        /\ RestOf(db, u, a, h) /\ H[a] \in Nat /\ h \in Nat /\ h <= H[a] /\ G[a] = h
        /\ \A n \in DOMAIN u.notes : u.notes[n].account # a => G[u.notes[n].account] = H[u.notes[n].account]
    BY <1>1, <1>2, <1>5, <2>1, <2>2
  <2> HIDE DEF H, G, u
  <2>4. Witnessed(u, G)
    BY <2>3, TrimWitnessed
  <2> QED BY <2>4 DEF u, G
<1> QED BY <1>2, <1>3, <1>4, <1>6 DEF RowsSound

LEMMA RewindSound ==
    ASSUME RowsTyped, RowsTyped', RowsSound, RunSound, JobSound, ExportSound, FileSound,
           NEW a \in ids, NEW h \in 0 .. db.heights[a], Rewind(a, h), overtaken' = {},
           UNCHANGED accountVars
    PROVE  RowsSound' /\ RunSound' /\ JobSound' /\ ExportSound' /\ FileSound'
<1>1. db' = Trimmed(db, a, h) /\ ~InUse(a) /\ UNCHANGED <<run, job, export, file>>
  BY NotInUse DEF Rewind
<1>2. RowsSound' /\ RestOf(db, db', a, h) /\ db'.heights = [db.heights EXCEPT ![a] = h]
  BY <1>1, TrimmedSound
<1>3. \A b \in ids \ {a} :
        b \in ids' /\ accounts'[b].key = accounts[b].key /\ db'.heights[b] = db.heights[b]
  BY <1>2 DEF accountVars, ids, RowsTyped, DbOK
<1>4. StillOpen
  BY <1>1, <1>2, <1>3, TrimOpen
<1> QED BY <1>1, <1>2, <1>4 DEF StillOpen

LEMMA StartRunSound ==
    ASSUME RowsTyped, RowsTyped', RowsSound, RunSound, JobSound, ExportSound, FileSound,
           NEW a \in ids, StartRun(a), overtaken' = {}, UNCHANGED accountVars
    PROVE  RowsSound' /\ RunSound' /\ JobSound' /\ ExportSound' /\ FileSound'
<1> DEFINE h == db.heights[a]
<1>1. /\ db' = Trimmed(db, a, h) /\ UNCHANGED <<job, export, file>>
      /\ db' = db \/ ~InUse(a)
  BY NotInUse DEF StartRun
<1>2. h \in 0 .. db.heights[a] /\ DOMAIN db.heights = ids
  BY WalletAssumption DEF RowsTyped, DbOK
<1>3. RowsSound' /\ RestOf(db, db', a, h) /\ db'.heights = [db.heights EXCEPT ![a] = h]
  <2> HIDE DEF h
  <2> QED BY <1>1, <1>2, TrimmedSound
<1>4. \A b \in ids : b \in ids' /\ accounts'[b].key = accounts[b].key /\ db'.heights[b] = db.heights[b]
  BY <1>2, <1>3 DEF accountVars, ids
<1>5. StillOpen
  <2>1. CASE db' = db
    BY <1>4, <2>1, SameStep
  <2>2. CASE ~InUse(a)
    BY <1>3, <1>4, <2>2, TrimOpen
  <2> QED BY <1>1, <2>1, <2>2
<1>6. RunSound'
  <2> DEFINE kept == Trimmed(db, a, db.heights[a])
             tracked == {kept.notes[n].h : n \in {m \in DOMAIN kept.notes :
                           kept.notes[m].account = a /\ m \notin DOMAIN kept.spends}}
  <2>1. run' = [account |-> a, key |-> accounts[a].key, at |-> h, tracked |-> tracked]
    BY DEF StartRun
  <2>2. \A n \in DOMAIN db'.notes : db'.notes[n].account = a /\ n \notin DOMAIN db'.spends
            => db'.notes[n].h \in tracked
    BY <1>1
  <2> HIDE DEF tracked
  <2>3. ASSUME NEW i \in DOMAIN db'.txs, db'.txs[i].account = a PROVE db'.txs[i].h <= h
    <3>1. i \in DOMAIN db.txs /\ db'.txs[i] = db.txs[i] /\ ~Above(db.txs[i], a, h)
      BY <1>3, TrimTogether
    <3>2. db.txs[i].h \in Nat /\ h \in Nat
      BY <1>2, <3>1, RowsAre, WalletAssumption DEF RowsTyped, DbOK
    <3> QED BY <2>3, <3>1, <3>2 DEF Above
  <2> QED BY <1>4, <2>1, <2>2, <2>3 DEF RunSound
<1> QED BY <1>1, <1>3, <1>5, <1>6 DEF StillOpen

LEMMA DeleteSound ==
    ASSUME RowsTyped, RowsTyped', RowsSound, RunSound, JobSound, ExportSound, FileSound,
           NEW a \in ids, DeleteAccount(a), DeleteRows(a), overtaken' = {}
    PROVE  RowsSound' /\ RunSound' /\ JobSound' /\ ExportSound' /\ FileSound'
<1> DEFINE s == TrimmedRows(db, a, 0)
           heights == Without(s.heights, {a})
<1>1. db' = [s EXCEPT !.heights = heights] /\ ~InUse(a) /\ UNCHANGED <<run, job, export, file>>
  BY NotInUse DEF DeleteRows, Deleted
<1>2. TypedRows(db) /\ IsTables(db) /\ DOMAIN db.heights = ids
  BY DEF RowsTyped, DbOK, TypedRows
<1>3. RestOf(db, s, a, 0) /\ s.heights = db.heights
  BY <1>2, TrimRows
<1> HIDE DEF s
<1>4. DOMAIN heights = ids \ {a} /\ \A b \in ids \ {a} : heights[b] = db.heights[b]
  BY <1>2, <1>3 DEF Without
<1> HIDE DEF heights
<1>5. /\ IsTables(db') /\ db'.txs = s.txs /\ db'.notes = s.notes /\ db'.spends = s.spends
      /\ db'.outputs = s.outputs /\ db'.memos = s.memos /\ db'.witnesses = s.witnesses
      /\ db'.userMemos = s.userMemos /\ db'.heights = heights
  BY <1>1, <1>3, Columns DEF IsTables, RestOf
<1>6. RestOf(db, db', a, 0)
  BY <1>3, <1>5 DEF RestOf
<1>7. ids' = ids \ {a} /\ \A b \in ids' : accounts'[b] = accounts[b]
  BY DEF DeleteAccount, Without, ids
<1>8. StillOpen
  BY <1>1, <1>4, <1>5, <1>6, <1>7, TrimOpen
<1>9. Sound(db', Owners)
  <2> DEFINE u == db'
             K == Owners
  <2>1. RestOf(db, u, a, 0) /\ Sound(db, K) /\ 0 \in Nat
    BY <1>6 DEF RowsSound
  <2> HIDE DEF u, K
  <2>2. Sound(u, K)
    BY <1>2, <2>1, TrimSound
  <2> QED BY <2>2 DEF u, K
<1>10. /\ \A i \in DOMAIN db'.txs : db'.txs[i].account # a
       /\ \A n \in DOMAIN db'.notes : db'.notes[n].account # a
  <2>1. ASSUME NEW i \in DOMAIN db'.txs PROVE db'.txs[i].account # a
    <3>1. i \in DOMAIN db.txs /\ db'.txs[i] = db.txs[i] /\ ~Above(db.txs[i], a, 0)
      BY <1>6, TrimTogether
    <3>2. db.txs[i].h \in 1 .. Top
      BY <1>2, <3>1, RowsAre
    <3> QED BY <3>1, <3>2 DEF Above
  <2>2. ASSUME NEW n \in DOMAIN db'.notes PROVE db'.notes[n].account # a
    <3>1. n \in DOMAIN db.notes /\ db'.notes[n] = db.notes[n] /\ ~Above(db.notes[n], a, 0)
      BY <1>6, TrimTogether
    <3>2. db.notes[n].h \in 1 .. Top
      BY <1>2, <3>1, RowsAre
    <3> QED BY <3>1, <3>2 DEF Above
  <2> QED BY <2>1, <2>2
<1>11. Sound(db', Owners')
  <2>1. \A i \in DOMAIN db'.txs : db'.txs[i].account \in DOMAIN Owners =>
            db'.txs[i].account \in DOMAIN Owners'
            /\ Owners'[db'.txs[i].account] = Owners[db'.txs[i].account]
    BY <1>7, <1>10 DEF Owners
  <2> DEFINE u == db'
             K == Owners
             L == Owners'
  <2>2. Sound(u, K) /\ \A i \in DOMAIN u.txs : u.txs[i].account \in DOMAIN K =>
            u.txs[i].account \in DOMAIN L /\ L[u.txs[i].account] = K[u.txs[i].account]
    BY <1>9, <2>1
  <2> HIDE DEF u, K, L
  <2>3. Sound(u, L)
    BY <2>2, Same, AlikeSound
  <2> QED BY <2>3 DEF u, L
<1>12. Witnessed(db', db'.heights)
  <2> DEFINE H == db.heights
             M == [db.heights EXCEPT ![a] = 0]
             G == db'.heights
             u == db'
  <2>1. /\ TypedRows(db) /\ SpendsOfNotes(db) /\ WitnessesOfNotes(db) /\ Witnessed(db, H)
        /\ RestOf(db, u, a, 0) /\ H[a] \in Nat /\ 0 \in Nat /\ 0 <= H[a] /\ M[a] = 0
        /\ \A n \in DOMAIN u.notes : u.notes[n].account # a => M[u.notes[n].account] = H[u.notes[n].account]
    <3>1. \A n \in DOMAIN db'.notes : db'.notes[n].account \in ids
      BY <1>6, TrimTogether, RowOwners DEF RowsSound
    <3>2. db.heights[a] \in Nat /\ 0 <= db.heights[a]
      BY WalletAssumption DEF RowsTyped, DbOK
    <3> QED BY <1>2, <1>6, <3>1, <3>2 DEF RowsSound, Sound
  <2>2. \A n \in DOMAIN u.notes : G[u.notes[n].account] = M[u.notes[n].account]
    <3>1. \A n \in DOMAIN db'.notes : db'.notes[n].account \in ids
      BY <1>6, TrimTogether, RowOwners DEF RowsSound
    <3> QED BY <1>2, <1>4, <1>5, <1>10, <3>1
  <2>3. WitnessesOfNotes(u)
    BY <1>9 DEF Sound
  <2> HIDE DEF H, M, G, u
  <2>4. Witnessed(u, M)
    BY <2>1, TrimWitnessed
  <2>5. Witnessed(u, G)
    BY <2>2, <2>3, <2>4, Same, AlikeWitnessed
  <2> QED BY <2>5 DEF u, G
<1> QED BY <1>1, <1>8, <1>11, <1>12 DEF StillOpen, RowsSound

-----------------------------------------------------------------------------
(* Transactions that are given another category or are marked.             *)
LEMMA OtherTxs ==
    ASSUME IsTables(db), NEW txs, db' = [db EXCEPT !.txs = txs], DOMAIN txs = DOMAIN db.txs,
           \A i \in DOMAIN db.txs : txs[i].account = db.txs[i].account /\ txs[i].h = db.txs[i].h
    PROVE  Alike(db, db') /\ db'.txs = txs /\ db'.heights = db.heights
<1>1. /\ IsTables(db') /\ db'.txs = txs /\ db'.notes = db.notes /\ db'.spends = db.spends
      /\ db'.outputs = db.outputs /\ db'.memos = db.memos /\ db'.heights = db.heights
      /\ db'.witnesses = db.witnesses
  BY Columns DEF IsTables
<1> QED BY <1>1 DEF Alike

(* The steps that change no row another one refers to.                     *)
LEMMA EndAlike ==
    ASSUME RowsTyped, EndRun
    PROVE  /\ Alike(db, db') /\ db'.heights = db.heights
           /\ \A i \in DOMAIN db.txs : db'.txs[i].details = db.txs[i].details
<1> DEFINE a == run.account
           cat(i) == pending[CHOOSE p \in Merged(a, i) : TRUE].category
           txs == [i \in DOMAIN db.txs |-> IF Merged(a, i) = {} THEN db.txs[i]
                                           ELSE [db.txs[i] EXCEPT !.category = cat(i)]]
<1>1. db' = [db EXCEPT !.txs = txs]
  BY DEF EndRun
<1>2. IsTables(db) /\ Table(db.txs, TxRow)
  BY DEF RowsTyped, DbOK, TypedRows
<1>3. ASSUME NEW i \in DOMAIN db.txs
      PROVE  txs[i].account = db.txs[i].account /\ txs[i].h = db.txs[i].h
             /\ txs[i].details = db.txs[i].details
  <2>1. db.txs[i] \in TxRow
    BY <1>2 DEF Table
  <2> DEFINE c == cat(i)
  <2>2. txs[i] = db.txs[i] \/ txs[i] = [db.txs[i] EXCEPT !.category = c]
    OBVIOUS
  <2> HIDE DEF txs, c
  <2> QED BY <2>1, <2>2 DEF TxRow
<1>4. DOMAIN txs = DOMAIN db.txs
  OBVIOUS
<1> HIDE DEF txs
<1>5. Alike(db, db') /\ db'.txs = txs /\ db'.heights = db.heights
  BY <1>1, <1>2, <1>3, <1>4, OtherTxs
<1> QED BY <1>3, <1>5

LEMMA MarkAlike ==
    ASSUME RowsTyped, MarkDetails
    PROVE  /\ Alike(db, db') /\ db'.heights = db.heights
           /\ \A i \in DOMAIN db.txs : i # job.listed => db'.txs[i].details = db.txs[i].details
<1> DEFINE txs == [i \in DOMAIN db.txs |->
                     IF i = job.listed THEN [db.txs[i] EXCEPT !.details = TRUE] ELSE db.txs[i]]
<1>1. db' = [db EXCEPT !.txs = txs]
  BY DEF MarkDetails
<1>2. IsTables(db) /\ Table(db.txs, TxRow)
  BY DEF RowsTyped, DbOK, TypedRows
<1>3. ASSUME NEW i \in DOMAIN db.txs
      PROVE  txs[i].account = db.txs[i].account /\ txs[i].h = db.txs[i].h
             /\ (i # job.listed => txs[i].details = db.txs[i].details)
  <2>1. db.txs[i] \in TxRow
    BY <1>2 DEF Table
  <2> QED BY <2>1 DEF TxRow
<1>4. DOMAIN txs = DOMAIN db.txs
  OBVIOUS
<1> HIDE DEF txs
<1>5. Alike(db, db') /\ db'.txs = txs /\ db'.heights = db.heights
  BY <1>1, <1>2, <1>3, <1>4, OtherTxs
<1> QED BY <1>3, <1>5

LEMMA UserAlike ==
    ASSUME RowsTyped,
           \/ \E i \in DOMAIN db.txs : SetUserMemo(i)
           \/ \E i \in DOMAIN db.txs, c \in Categories : SetCategory(i, c)
           \/ \E n \in DOMAIN db.notes : LockNote(n, ~db.notes[n].locked)
    PROVE  /\ Alike(db, db') /\ db'.heights = db.heights
           /\ \A i \in DOMAIN db.txs : db'.txs[i].details = db.txs[i].details
<1> DEFINE Result == /\ Alike(db, db') /\ db'.heights = db.heights
                     /\ \A i \in DOMAIN db.txs : db'.txs[i].details = db.txs[i].details
<1>1. TypedRows(db) /\ IsTables(db) /\ Table(db.txs, TxRow) /\ Table(db.notes, NoteRow)
  BY DEF RowsTyped, DbOK, TypedRows
<1>2. ASSUME NEW i \in DOMAIN db.txs, SetUserMemo(i)
      PROVE  Result
  <2> DEFINE memos == With(db.userMemos, <<db.txs[i].account, i>>, db.txs[i].h)
  <2>1. db' = [db EXCEPT !.userMemos = memos]
    BY <1>2 DEF SetUserMemo
  <2> HIDE DEF memos
  <2>2. /\ db'.txs = db.txs /\ db'.notes = db.notes /\ db'.spends = db.spends
        /\ db'.outputs = db.outputs /\ db'.memos = db.memos /\ db'.heights = db.heights
        /\ db'.witnesses = db.witnesses
    BY <1>1, <2>1, Columns DEF IsTables
  <2> QED BY <2>2 DEF Alike
<1>3. ASSUME NEW i \in DOMAIN db.txs, NEW c \in Categories, SetCategory(i, c)
      PROVE  Result
  <2> DEFINE txs == [db.txs EXCEPT ![i].category = c]
  <2>1. db' = [db EXCEPT !.txs = txs]
    BY <1>3 DEF SetCategory
  <2>2. DOMAIN txs = DOMAIN db.txs
    OBVIOUS
  <2>3. ASSUME NEW j \in DOMAIN db.txs
        PROVE  txs[j].account = db.txs[j].account /\ txs[j].h = db.txs[j].h
               /\ txs[j].details = db.txs[j].details
    <3>1. db.txs[j] \in TxRow
      BY <1>1 DEF Table
    <3> QED BY <3>1 DEF TxRow
  <2> HIDE DEF txs
  <2>4. Alike(db, db') /\ db'.txs = txs /\ db'.heights = db.heights
    BY <1>1, <2>1, <2>2, <2>3, OtherTxs
  <2> QED BY <2>3, <2>4
<1>4. ASSUME NEW n \in DOMAIN db.notes, LockNote(n, ~db.notes[n].locked)
      PROVE  Result
  <2> DEFINE locked == ~db.notes[n].locked
             notes == [db.notes EXCEPT ![n].locked = locked]
  <2>1. db' = [db EXCEPT !.notes = notes]
    BY <1>4 DEF LockNote
  <2> HIDE DEF locked
  <2>2. DOMAIN notes = DOMAIN db.notes
    OBVIOUS
  <2>3. ASSUME NEW j \in DOMAIN db.notes
        PROVE  notes[j].account = db.notes[j].account /\ notes[j].h = db.notes[j].h
               /\ notes[j].tx = db.notes[j].tx
    <3>1. db.notes[j] \in NoteRow
      BY <1>1 DEF Table
    <3> QED BY <3>1 DEF NoteRow
  <2> HIDE DEF notes
  <2>4. /\ db'.txs = db.txs /\ db'.notes = notes /\ db'.spends = db.spends
        /\ db'.outputs = db.outputs /\ db'.memos = db.memos /\ db'.heights = db.heights
        /\ db'.witnesses = db.witnesses
    BY <1>1, <2>1, Columns DEF IsTables
  <2> QED BY <2>2, <2>3, <2>4 DEF Alike
<1> QED BY <1>2, <1>3, <1>4

LEMMA EndRunSound ==
    ASSUME RowsTyped, RowsTyped', RowsSound, RunSound, JobSound, ExportSound, FileSound,
           EndRun, UNCHANGED accountVars
    PROVE  RowsSound' /\ RunSound' /\ JobSound' /\ ExportSound' /\ FileSound'
<1>1. run' = NoRun /\ UNCHANGED <<job, export, file>>
  BY DEF EndRun
<1>2. KeepsAccounts
  BY EndAlike DEF KeepsAccounts, accountVars, ids
<1>3. RowsSound' /\ StillOpen
  BY <1>2, EndAlike, AlikeStep
<1>4. RunSound'
  BY <1>1 DEF RunSound, NoRun
<1> QED BY <1>1, <1>3, <1>4 DEF StillOpen

LEMMA LoseRunSound ==
    ASSUME RowsTyped, RowsTyped', RowsSound, RunSound, JobSound, ExportSound, FileSound,
           LoseRun, UNCHANGED accountVars
    PROVE  RowsSound' /\ RunSound' /\ JobSound' /\ ExportSound' /\ FileSound'
<1>1. RowsSound' /\ StillOpen
  BY SameStep DEF LoseRun, accountVars, ids
<1>2. RunSound'
  BY DEF LoseRun, RunSound, NoRun
<1> QED BY <1>1, <1>2 DEF StillOpen, LoseRun

LEMMA MarkSound ==
    ASSUME RowsTyped, RowsTyped', RowsSound, RunSound, JobSound, ExportSound, FileSound,
           MarkDetails, UNCHANGED accountVars
    PROVE  RowsSound' /\ RunSound' /\ JobSound' /\ ExportSound' /\ FileSound'
<1>1. /\ UNCHANGED <<run, export, file>>
      /\ job.listed # 0 /\ job.found = 0
      /\ job' = NoJob \/ job' = [job EXCEPT !.listed = 0]
  BY DEF MarkDetails
<1>2. KeepsAccounts
  BY MarkAlike DEF KeepsAccounts, accountVars, ids
<1>3. HasDetails(db, Owners, job.listed)
  BY <1>1 DEF JobSound
<1>4. RowsSound' /\ StillOpen
  BY <1>2, <1>3, MarkAlike, AlikeStep
<1>5. JobSound'
  <2>1. CASE job' = NoJob
    BY <2>1 DEF JobSound, NoJob
  <2>2. CASE job' = [job EXCEPT !.listed = 0]
    <3>1. job'.listed = 0 /\ job'.found = 0 /\ job'.todo = job.todo /\ job'.account = job.account
      BY <1>1, <2>2 DEF RowsTyped, JobOK, NoJob
    <3>2. \A x \in job.todo : Listed(db, x[1], x[2])'
      BY <3>1, MarkAlike DEF JobSound, Listed, Alike
    <3> QED BY <3>1, <3>2 DEF JobSound
  <2> QED BY <1>1, <2>1, <2>2
<1> QED BY <1>1, <1>4, <1>5 DEF StillOpen

LEMMA UserSound ==
    ASSUME RowsTyped, RowsTyped', RowsSound, RunSound, JobSound, ExportSound, FileSound,
           UNCHANGED accountVars,
           \/ \E i \in DOMAIN db.txs : SetUserMemo(i)
           \/ \E i \in DOMAIN db.txs, c \in Categories : SetCategory(i, c)
           \/ \E n \in DOMAIN db.notes : LockNote(n, ~db.notes[n].locked)
    PROVE  RowsSound' /\ RunSound' /\ JobSound' /\ ExportSound' /\ FileSound'
<1>1. UNCHANGED <<run, job, export, file>>
  BY DEF SetUserMemo, SetCategory, LockNote, UserRows
<1>2. KeepsAccounts
  BY UserAlike DEF KeepsAccounts, accountVars, ids
<1>3. RowsSound' /\ StillOpen
  BY <1>2, UserAlike, AlikeStep
<1> QED BY <1>1, <1>3 DEF StillOpen

LEMMA NewSound ==
    ASSUME WalletInv, RowsTyped, RowsTyped', RowsSound, RunSound, JobSound, ExportSound, FileSound,
           NEW k \in Keys, NewAccount(k), CreateRows(ids')
    PROVE  RowsSound' /\ RunSound' /\ JobSound' /\ ExportSound' /\ FileSound'
<1>1. PICK id \in NextId(accounts), position \in NextPosition :
        accounts' = With(accounts, id, NewRow(k, position))
  BY DEF NewAccount
<1>2. ids \in SUBSET Nat
  BY DEF WalletInv, Arranged, AccountTypeOK
<1>3. id \notin ids
  BY <1>1, <1>2, NextIdNew DEF ids
<1>4. ids' = ids \union {id} /\ \A a \in ids : accounts'[a] = accounts[a]
  BY <1>1, <1>3 DEF With, ids
<1> DEFINE heights == HeightsOf(ids')
<1>5. db' = [db EXCEPT !.heights = heights] /\ UNCHANGED <<run, job, export, file>>
  BY DEF CreateRows
<1>6. \A a \in ids : heights[a] = db.heights[a]
  BY <1>4 DEF HeightsOf, RowsTyped, DbOK
<1> HIDE DEF heights
<1>7. /\ db'.txs = db.txs /\ db'.notes = db.notes /\ db'.spends = db.spends
      /\ db'.outputs = db.outputs /\ db'.memos = db.memos /\ db'.heights = heights
      /\ db'.witnesses = db.witnesses
  BY <1>5, Columns DEF IsTables, RowsTyped, DbOK, TypedRows
<1>8. Alike(db, db') /\ KeepsAccounts
  BY <1>4, <1>6, <1>7 DEF Alike, KeepsAccounts
<1>9. RowsSound' /\ StillOpen
  BY <1>7, <1>8, AlikeStep
<1> QED BY <1>5, <1>9 DEF StillOpen

LEMMA ListSound ==
    ASSUME RowsTyped, RowsTyped', RowsSound, RunSound, JobSound, ExportSound, FileSound,
           (\E a \in ids : ListDetails(a)) \/ (\E x \in job.todo : LookUp(x)),
           UNCHANGED accountVars
    PROVE  RowsSound' /\ RunSound' /\ JobSound' /\ ExportSound' /\ FileSound'
<1>1. UNCHANGED <<db, run, export, file>>
  BY DEF ListDetails, LookUp
<1>2. RowsSound' /\ StillOpen
  BY <1>1, SameStep DEF accountVars, ids
<1>3. JobSound' \/ job' # NoJob
  BY DEF JobSound, NoJob
<1>4. ASSUME NEW a \in ids, ListDetails(a) PROVE JobSound'
  <2> DEFINE todo == {<<i, db.txs[i].h>> : i \in {j \in DOMAIN db.txs :
                              db.txs[j].account = a /\ ~db.txs[j].details}}
  <2>1. \A x \in todo : x[1] \in DOMAIN db.txs /\ db.txs[x[1]].account = a /\ db.txs[x[1]].h = x[2]
    OBVIOUS
  <2>2. job' = [NoJob EXCEPT !.account = a, !.todo = todo]
    BY <1>4 DEF ListDetails
  <2> HIDE DEF todo
  <2>3. job'.account = a /\ job'.todo = todo /\ job'.found = 0 /\ job'.listed = 0
    BY <2>2 DEF NoJob
  <2> QED BY <1>1, <2>1, <2>3 DEF JobSound, Listed
<1>5. ASSUME NEW x \in job.todo, LookUp(x) PROVE JobSound'
  <2>1. ASSUME NEW i \in TxId(job.account, x[2]),
               job' = [job EXCEPT !.h = x[2], !.listed = x[1], !.found = i, !.todo = @ \ {x}]
        PROVE  JobSound'
    <3> DEFINE todo == job.todo \ {x}
    <3>1. job' = [job EXCEPT !.h = x[2], !.listed = x[1], !.found = i, !.todo = todo]
      BY <2>1
    <3>2. todo \subseteq job.todo
      OBVIOUS
    <3> HIDE DEF todo
    <3>3. job'.account = job.account /\ job'.todo = todo /\ job'.found = i /\ job'.h = x[2]
          /\ job'.listed = x[1]
      BY <3>1 DEF RowsTyped, JobOK, NoJob
    <3>4. Listed(db, x[1], x[2]) /\ Listed(db, i, x[2])
      BY DEF JobSound, TxId, Listed
    <3>5. x[1] = i
      BY <3>4 DEF Listed, RowsSound, Sound, OneTx
    <3> QED BY <1>1, <3>2, <3>3, <3>4, <3>5 DEF JobSound, Listed
  <2> QED BY <1>3, <1>5, <2>1 DEF LookUp
<1> QED BY <1>1, <1>2, <1>4, <1>5 DEF StillOpen

-----------------------------------------------------------------------------
(* The rows of one account.                                                *)
PartOf(t, u, a) ==
    /\ \A i \in DOMAIN t.txs : i \in DOMAIN u.txs <=> t.txs[i].account = a
    /\ \A i \in DOMAIN u.txs : i \in DOMAIN t.txs /\ u.txs[i] = t.txs[i]
    /\ \A n \in DOMAIN t.notes : n \in DOMAIN u.notes <=> t.notes[n].account = a
    /\ \A n \in DOMAIN u.notes : n \in DOMAIN t.notes /\ u.notes[n] = t.notes[n]
    /\ \A n \in DOMAIN t.spends : n \in DOMAIN u.spends <=> t.spends[n].account = a
    /\ \A n \in DOMAIN u.spends : n \in DOMAIN t.spends /\ u.spends[n] = t.spends[n]
    /\ \A o \in DOMAIN t.outputs : o \in DOMAIN u.outputs <=> t.outputs[o].account = a
    /\ \A o \in DOMAIN u.outputs : o \in DOMAIN t.outputs /\ u.outputs[o] = t.outputs[o]
    /\ \A m : m \in u.memos <=> m \in t.memos /\ m.account = a
    /\ \A w \in u.witnesses : w \in t.witnesses /\ w.account = a

LEMMA PartSound ==
    ASSUME NEW t, NEW K, Sound(t, K), NEW u, NEW a, PartOf(t, u, a),
           NEW L, DOMAIN L = {a}, L[a] = K[a]
    PROVE  Sound(u, L)
<1>1. OwnTxs(u, L) /\ OneTx(u)
  <2>1. OwnTxs(u, L)
    <3>1. ASSUME NEW i \in DOMAIN u.txs
          PROVE  /\ u.txs[i].account \in DOMAIN L
                 /\ u.txs[i].h \in InvolvedIn(u, L, i).notes \union DOMAIN InvolvedIn(u, L, i).spends
      <4>1. i \in DOMAIN t.txs /\ u.txs[i] = t.txs[i] /\ t.txs[i].account = a
        BY DEF PartOf
      <4>2. InvolvedIn(u, L, i) = InvolvedIn(t, K, i)
        BY <4>1 DEF InvolvedIn
      <4> QED BY <4>1, <4>2 DEF Sound, OwnTxs
    <3> QED BY <3>1 DEF OwnTxs
  <2>2. OneTx(u)
    BY DEF Sound, OneTx, PartOf
  <2> QED BY <2>1, <2>2
<1>2. ASSUME NEW x, Refers(t, x), x.account = a PROVE Refers(u, x)
  BY <1>2 DEF Refers, PartOf
<1>3. Referring(u)
  <2>1. \A n \in DOMAIN u.notes : Refers(u, u.notes[n])
    BY <1>2 DEF Sound, Referring, PartOf
  <2>2. \A n \in DOMAIN u.spends : Refers(u, u.spends[n])
    BY <1>2 DEF Sound, Referring, PartOf
  <2>3. \A o \in DOMAIN u.outputs : Refers(u, u.outputs[o])
    BY <1>2 DEF Sound, Referring, PartOf
  <2>4. \A m \in u.memos : Refers(u, m)
    BY <1>2 DEF Sound, Referring, PartOf
  <2> QED BY <2>1, <2>2, <2>3, <2>4 DEF Referring
<1>4. SpendsOfNotes(u)
  BY DEF Sound, SpendsOfNotes, PartOf
<1>5. WitnessesOfNotes(u)
  BY DEF Sound, WitnessesOfNotes, PartOf
<1>6. MemosOfRows(u)
  <2> SUFFICES ASSUME NEW m \in u.memos
               PROVE  /\ m.of = "note" => m.row \in DOMAIN u.notes /\ u.notes[m.row].tx = m.tx
                      /\ m.of = "output" => m.row \in DOMAIN u.outputs /\ u.outputs[m.row].tx = m.tx
    BY DEF MemosOfRows
  <2>1. m \in t.memos /\ m.account = a /\ Refers(t, m)
    BY DEF Sound, Referring, PartOf
  <2>2. ASSUME m.of = "note" PROVE m.row \in DOMAIN u.notes /\ u.notes[m.row].tx = m.tx
    <3>1. m.row \in DOMAIN t.notes /\ t.notes[m.row].tx = m.tx
      BY <2>1, <2>2 DEF Sound, MemosOfRows
    <3>2. Refers(t, t.notes[m.row])
      BY <3>1 DEF Sound, Referring
    <3>3. t.notes[m.row].account = a
      BY <2>1, <3>1, <3>2 DEF Refers
    <3> QED BY <3>1, <3>3 DEF PartOf
  <2>3. ASSUME m.of = "output" PROVE m.row \in DOMAIN u.outputs /\ u.outputs[m.row].tx = m.tx
    <3>1. m.row \in DOMAIN t.outputs /\ t.outputs[m.row].tx = m.tx
      BY <2>1, <2>3 DEF Sound, MemosOfRows
    <3>2. Refers(t, t.outputs[m.row])
      BY <3>1 DEF Sound, Referring
    <3>3. t.outputs[m.row].account = a
      BY <2>1, <3>1, <3>2 DEF Refers
    <3> QED BY <3>1, <3>3 DEF PartOf
  <2> QED BY <2>2, <2>3
<1>7. NotesPresent(u, L)
  <2> SUFFICES ASSUME NEW i \in DOMAIN u.txs, u.txs[i].h \in InvolvedIn(u, L, i).notes
               PROVE  \E n \in DOMAIN u.notes : u.notes[n].account = u.txs[i].account
                                                /\ u.notes[n].h = u.txs[i].h
    BY DEF NotesPresent
  <2>1. i \in DOMAIN t.txs /\ u.txs[i] = t.txs[i] /\ t.txs[i].account = a
    BY DEF PartOf
  <2>2. PICK n \in DOMAIN t.notes : t.notes[n].account = t.txs[i].account /\ t.notes[n].h = t.txs[i].h
    BY <2>1 DEF Sound, NotesPresent, InvolvedIn
  <2> QED BY <2>1, <2>2 DEF PartOf
<1>8. Complete(u, L)
  <2> SUFFICES ASSUME NEW i \in DOMAIN u.txs, u.txs[i].details
               PROVE  HasDetails(u, L, i)
    BY DEF Complete
  <2>1. i \in DOMAIN t.txs /\ u.txs[i] = t.txs[i] /\ t.txs[i].account = a
    BY DEF PartOf
  <2>2. HasDetails(t, K, i)
    BY <2>1 DEF Sound, Complete
  <2>3. \A m \in t.memos : m.tx = i => m \in u.memos
    BY <2>1 DEF Sound, Referring, Refers, PartOf
  <2>4. \A o \in DOMAIN t.outputs : t.outputs[o].tx = i => o \in DOMAIN u.outputs /\ u.outputs[o].tx = i
    BY <2>1 DEF Sound, Referring, Refers, PartOf
  <2>5. \A n \in DOMAIN t.notes :
          t.notes[n].account = t.txs[i].account /\ t.notes[n].h = t.txs[i].h =>
              n \in DOMAIN u.notes /\ u.notes[n].account = t.notes[n].account
              /\ u.notes[n].h = t.notes[n].h
    BY <2>1 DEF PartOf
  <2> QED BY <2>1, <2>2, <2>3, <2>4, <2>5, DetailsGrow
<1> QED BY <1>1, <1>3, <1>4, <1>5, <1>6, <1>7, <1>8 DEF Sound

LEMMA PartWitnessed ==
    ASSUME NEW t, TypedRows(t), SpendsOfNotes(t), NEW H, Witnessed(t, H),
           NEW u, NEW a, PartOf(t, u, a), H[a] \in Nat, NEW height \in Nat, height <= H[a],
           \A w \in u.witnesses : w.h <= height,
           \A w \in t.witnesses : w.account = a /\ w.h <= height => w \in u.witnesses,
           NEW G, G[a] = height
    PROVE  Witnessed(u, G)
<1>1. ASSUME NEW n \in DOMAIN u.notes, NEW g \in u.notes[n].h .. G[u.notes[n].account]
      PROVE  \/ n \in DOMAIN u.spends /\ u.spends[n].h <= g
             \/ [account |-> u.notes[n].account, note |-> n, h |-> g] \in u.witnesses
  <2>1. n \in DOMAIN t.notes /\ u.notes[n] = t.notes[n] /\ t.notes[n].account = a
    BY DEF PartOf
  <2>2. u.notes[n].h \in Nat
    BY <2>1, RowsAre
  <2>3. g \in u.notes[n].h .. H[a] /\ g <= height
    BY <2>1, <2>2
  <2>5. CASE n \in DOMAIN t.spends /\ t.spends[n].h <= g
    <3>1. t.spends[n].account = a
      BY <2>1, <2>5 DEF SpendsOfNotes
    <3> QED BY <2>5, <3>1 DEF PartOf
  <2>6. CASE [account |-> a, note |-> n, h |-> g] \in t.witnesses
    BY <2>1, <2>3, <2>6
  <2> QED BY <2>1, <2>3, <2>5, <2>6 DEF Witnessed
<1>2. \A w \in u.witnesses : w.h <= G[w.account]
  BY DEF PartOf
<1> QED BY <1>1, <1>2 DEF Witnessed

-----------------------------------------------------------------------------
LEMMA ExportBeginSound ==
    ASSUME RowsTyped, RowsTyped', RowsSound, RunSound, JobSound, ExportSound, FileSound,
           NEW a \in ids, ExportBegin(a), UNCHANGED accountVars
    PROVE  RowsSound' /\ RunSound' /\ JobSound' /\ ExportSound' /\ FileSound'
<1>1. UNCHANGED <<db, run, job, file>>
  BY DEF ExportBegin
<1>2. RowsSound' /\ StillOpen
  BY <1>1, SameStep DEF accountVars, ids
<1> DEFINE read == {w \in db.witnesses : w.account = a}
           tables == [NoTables EXCEPT !.witnesses = read]
<1>3. export'.account = a /\ export'.row = accounts[a] /\ export'.height = db.heights[a]
      /\ export'.tables = tables
  BY DEF ExportBegin
<1> HIDE DEF read
<1>4. tables.witnesses = read
  BY Columns
<1>5. \A w \in read : w \in db.witnesses /\ w.account = a /\ w.h <= db.heights[a]
  BY DEF read, RowsSound, Witnessed
<1>6. db.heights[a] <= db.heights[a]
  BY WalletAssumption DEF RowsTyped, DbOK
<1> HIDE DEF tables
<1>7. \A w \in db.witnesses : w.account = a => w \in read
  BY DEF read
<1>8. ExportSound'
  BY <1>1, <1>3, <1>4, <1>5, <1>6, <1>7 DEF ExportSound, accountVars, ids
<1> QED BY <1>1, <1>2, <1>8 DEF StillOpen

LEMMA ExportPart ==
    ASSUME RowsSound, RowsTyped, ExportSound, export.account # 0, NEW t, HasExport(t, export.account)
    PROVE  PartOf(db, t, export.account)
<1> DEFINE a == export.account
<1>1. /\ Part(db.txs, t.txs) /\ Part(db.notes, t.notes) /\ Part(db.spends, t.spends)
      /\ Part(db.outputs, t.outputs)
      /\ \A i \in DOMAIN db.txs : i \in DOMAIN t.txs <=> db.txs[i].account = a
      /\ \A n \in DOMAIN db.notes : n \in DOMAIN t.notes <=> db.notes[n].tx \in DOMAIN t.txs
      /\ \A n \in DOMAIN db.spends : n \in DOMAIN t.spends <=> db.spends[n].tx \in DOMAIN t.txs
      /\ \A o \in DOMAIN db.outputs : o \in DOMAIN t.outputs <=> db.outputs[o].tx \in DOMAIN t.txs
      /\ t.memos = {m \in db.memos : (m.of = "note" /\ m.row \in DOMAIN t.notes)
                                     \/ (m.of = "output" /\ m.row \in DOMAIN t.outputs)}
      /\ t.witnesses = export.tables.witnesses
  BY DEF HasExport
<1>2. \A x : Refers(db, x) => (x.tx \in DOMAIN t.txs <=> x.account = a)
  BY <1>1 DEF Refers, Part
<1>3. /\ \A n \in DOMAIN db.notes : Refers(db, db.notes[n])
      /\ \A n \in DOMAIN db.spends : Refers(db, db.spends[n])
      /\ \A o \in DOMAIN db.outputs : Refers(db, db.outputs[o])
      /\ \A m \in db.memos : Refers(db, m)
  BY DEF RowsSound, Sound, Referring
<1>4. /\ \A n \in DOMAIN db.notes : n \in DOMAIN t.notes <=> db.notes[n].account = a
      /\ \A n \in DOMAIN db.spends : n \in DOMAIN t.spends <=> db.spends[n].account = a
      /\ \A o \in DOMAIN db.outputs : o \in DOMAIN t.outputs <=> db.outputs[o].account = a
  BY <1>1, <1>2, <1>3
<1>5. ASSUME NEW m \in db.memos PROVE m \in t.memos <=> m.account = a
  <2>1. m.of \in {"note", "output"}
    BY RowsAre DEF RowsTyped, DbOK
  <2>2. CASE m.of = "note"
    <3>1. m.row \in DOMAIN db.notes /\ db.notes[m.row].tx = m.tx
      BY <2>2 DEF RowsSound, Sound, MemosOfRows
    <3>2. db.notes[m.row].account = m.account
      BY <1>3, <3>1 DEF Refers
    <3> QED BY <1>1, <1>4, <2>2, <3>1, <3>2
  <2>3. CASE m.of = "output"
    <3>1. m.row \in DOMAIN db.outputs /\ db.outputs[m.row].tx = m.tx
      BY <2>3 DEF RowsSound, Sound, MemosOfRows
    <3>2. db.outputs[m.row].account = m.account
      BY <1>3, <3>1 DEF Refers
    <3> QED BY <1>1, <1>4, <2>3, <3>1, <3>2
  <2> QED BY <2>1, <2>2, <2>3
<1>6. \A m : m \in t.memos => m \in db.memos
  BY <1>1
<1>7. \A w \in t.witnesses : w \in db.witnesses /\ w.account = a
  BY <1>1 DEF ExportSound
<1>8. /\ \A i \in DOMAIN t.txs : i \in DOMAIN db.txs /\ t.txs[i] = db.txs[i]
      /\ \A n \in DOMAIN t.notes : n \in DOMAIN db.notes /\ t.notes[n] = db.notes[n]
      /\ \A n \in DOMAIN t.spends : n \in DOMAIN db.spends /\ t.spends[n] = db.spends[n]
      /\ \A o \in DOMAIN t.outputs : o \in DOMAIN db.outputs /\ t.outputs[o] = db.outputs[o]
  BY <1>1 DEF Part
<1> QED BY <1>1, <1>4, <1>5, <1>6, <1>7, <1>8 DEF PartOf

LEMMA ExportEndSound ==
    ASSUME WalletInv, RowsTyped, RowsTyped', RowsSound, RunSound, JobSound, ExportSound, FileSound,
           ExportEnd, UNCHANGED accountVars
    PROVE  RowsSound' /\ RunSound' /\ JobSound' /\ ExportSound' /\ FileSound'
<1>1. UNCHANGED <<db, run, job>> /\ export' = NoFile /\ export.account # 0
  BY DEF ExportEnd
<1>2. RowsSound' /\ StillOpen
  BY <1>1, SameStep DEF accountVars, ids
<1>3. ExportSound'
  BY <1>1 DEF ExportSound, NoFile
<1> DEFINE a == export.account
           t == ExportedTables(a)
           height == HeightRead(a)
           k == export.row.key
<1>4. file' = [export EXCEPT !.tables = t, !.height = height]
  BY <1>1 DEF ExportEnd, ExportSound
<1>5. height = export.height /\ HasExport(t, a)
  BY ExportTables DEF HeightRead
<1>6. t.witnesses = export.tables.witnesses /\ PartOf(db, t, a)
  BY <1>1, <1>5, ExportPart DEF HasExport
<1>7. /\ export.height \in Nat /\ db.heights[a] \in Nat /\ export.height <= db.heights[a]
      /\ TypedRows(db) /\ k = Owners[a]
  BY <1>1, WalletAssumption DEF ExportSound, RowsTyped, DbOK, FileOK, Owners
<1> HIDE DEF t, height
<1>8. file'.account = a /\ file'.row = export.row /\ file'.height = export.height /\ file'.tables = t
  BY <1>4, <1>5 DEF WalletInv, FilesImportable, Importable, NoFile
<1>9. Sound(t, [b \in {a} |-> k])
  <2> DEFINE L == [b \in {a} |-> k]
             K == Owners
  <2>1. Sound(db, K) /\ PartOf(db, t, a) /\ L[a] = K[a] /\ DOMAIN L = {a}
    BY <1>6, <1>7 DEF RowsSound
  <2> HIDE DEF L, K, a, k
  <2>2. Sound(t, L)
    BY <2>1, PartSound
  <2> QED BY <2>2 DEF L
<1>10. Witnessed(t, [b \in {a} |-> export.height])
  <2>1. /\ \A w \in t.witnesses : w.h <= export.height
        /\ \A w \in db.witnesses : w.account = a /\ w.h <= export.height => w \in t.witnesses
    BY <1>1, <1>6 DEF ExportSound
  <2> DEFINE height0 == export.height
             H == db.heights
             G == [b \in {a} |-> height0]
  <2>2. /\ TypedRows(db) /\ SpendsOfNotes(db) /\ Witnessed(db, H) /\ PartOf(db, t, a) /\ H[a] \in Nat
        /\ height0 \in Nat /\ height0 <= H[a]
        /\ \A w \in t.witnesses : w.h <= height0
        /\ \A w \in db.witnesses : w.account = a /\ w.h <= height0 => w \in t.witnesses
        /\ G[a] = height0
    BY <1>6, <1>7, <2>1 DEF RowsSound, Sound
  <2> HIDE DEF height0, H, G, a
  <2>3. Witnessed(t, G)
    BY <2>2, PartWitnessed
  <2> QED BY <2>3 DEF height0, G
<1>11. FileSound'
  BY <1>8, <1>9, <1>10 DEF FileSound
<1> QED BY <1>1, <1>2, <1>3, <1>11 DEF StillOpen

-----------------------------------------------------------------------------
(* Tables to which outputs and memos were added.                           *)
Grown(t, u) ==
    /\ u.txs = t.txs /\ u.notes = t.notes /\ u.spends = t.spends /\ u.witnesses = t.witnesses
    /\ u.heights = t.heights
    /\ \A o \in DOMAIN t.outputs : o \in DOMAIN u.outputs /\ u.outputs[o] = t.outputs[o]
    /\ \A o \in DOMAIN u.outputs : o \in DOMAIN t.outputs \/ Refers(t, u.outputs[o])
    /\ \A m \in t.memos : m \in u.memos
    /\ \A m \in u.memos :
        \/ m \in t.memos
        \/ /\ Refers(t, m)
           /\ m.of = "note" => m.row \in DOMAIN t.notes /\ t.notes[m.row].tx = m.tx
           /\ m.of = "output" => m.row \in DOMAIN u.outputs /\ u.outputs[m.row].tx = m.tx

LEMMA GrownSelf == ASSUME NEW t PROVE Grown(t, t)
BY DEF Grown

LEMMA GrownTwice ==
    ASSUME NEW t, NEW u, NEW v, Grown(t, u), Grown(u, v)
    PROVE  Grown(t, v)
<1>1. \A x : Refers(u, x) <=> Refers(t, x)
  BY DEF Refers, Grown
<1>2. \A o \in DOMAIN v.outputs : o \in DOMAIN t.outputs \/ Refers(t, v.outputs[o])
  BY <1>1 DEF Grown
<1>3. ASSUME NEW m \in v.memos, m \notin t.memos
      PROVE  /\ Refers(t, m)
             /\ m.of = "note" => m.row \in DOMAIN t.notes /\ t.notes[m.row].tx = m.tx
             /\ m.of = "output" => m.row \in DOMAIN v.outputs /\ v.outputs[m.row].tx = m.tx
  BY <1>1, <1>3 DEF Grown
<1> QED BY <1>2, <1>3 DEF Grown

LEMMA GrownSound ==
    ASSUME NEW t, NEW K, Sound(t, K), NEW u, Grown(t, u)
    PROVE  Sound(u, K)
<1>1. OwnTxs(u, K) /\ OneTx(u) /\ NotesPresent(u, K)
  <2>1. u.txs = t.txs /\ u.notes = t.notes /\ OwnTxs(t, K) /\ OneTx(t) /\ NotesPresent(t, K)
    BY DEF Grown, Sound
  <2>2. \A i : InvolvedIn(u, K, i) = InvolvedIn(t, K, i)
    BY <2>1 DEF InvolvedIn
  <2>3. OwnTxs(u, K)
    BY <2>1, <2>2 DEF OwnTxs
  <2>4. OneTx(u)
    BY <2>1 DEF OneTx
  <2>5. NotesPresent(u, K)
    BY <2>1, <2>2 DEF NotesPresent
  <2> QED BY <2>3, <2>4, <2>5
<1>2. \A x : Refers(t, x) => Refers(u, x)
  BY DEF Refers, Grown
<1>3. Referring(u)
  <2>1. \A n \in DOMAIN u.notes : Refers(u, u.notes[n])
    BY <1>2 DEF Sound, Referring, Grown
  <2>2. \A n \in DOMAIN u.spends : Refers(u, u.spends[n])
    BY <1>2 DEF Sound, Referring, Grown
  <2>3. \A o \in DOMAIN u.outputs : Refers(u, u.outputs[o])
    BY <1>2 DEF Sound, Referring, Grown
  <2>4. \A m \in u.memos : Refers(u, m)
    BY <1>2 DEF Sound, Referring, Grown
  <2> QED BY <2>1, <2>2, <2>3, <2>4 DEF Referring
<1>4. SpendsOfNotes(u) /\ WitnessesOfNotes(u)
  BY DEF Sound, SpendsOfNotes, WitnessesOfNotes, Grown
<1>5. MemosOfRows(u)
  BY DEF Sound, MemosOfRows, Grown
<1>6. Complete(u, K)
  <2> SUFFICES ASSUME NEW i \in DOMAIN u.txs, u.txs[i].details PROVE HasDetails(u, K, i)
    BY DEF Complete
  <2>1. i \in DOMAIN t.txs /\ HasDetails(t, K, i)
    BY DEF Sound, Complete, Grown
  <2> QED BY <2>1, DetailsGrow DEF Grown
<1> QED BY <1>1, <1>3, <1>4, <1>5, <1>6 DEF Sound

LEMMA GrownWitnessed ==
    ASSUME NEW t, NEW H, Witnessed(t, H), NEW u, Grown(t, u)
    PROVE  Witnessed(u, H)
BY DEF Witnessed, Grown

LEMMA GrownKept ==
    ASSUME NEW t, NEW u, Grown(t, u), NEW b
    PROVE  KeptFor(t, u, b) /\ NoneNewFor(t, u, b)
<1>1. KeptFor(t, u, b)
  BY DEF Grown, KeptFor
<1>2. NoneNewFor(t, u, b)
  BY DEF Grown, NoneNewFor
<1> QED BY <1>1, <1>2

(* The output of a transaction is there afterwards, with its memo, and so  *)
(* is that of its note.                                                    *)
LEMMA OutputGrown ==
    ASSUME NEW t, TypedRows(t), NEW K, Sound(t, K), NEW a, NEW h, NEW i \in DOMAIN t.txs,
           t.txs[i].account = a, t.txs[i].h = h, NEW u, HasOutput(t, u, a, h, i)
    PROVE  Grown(t, u) /\ OutputShown(u, i)
<1> DEFINE row == [account |-> a, tx |-> i, h |-> h]
<1>1. Refers(t, row) /\ row.tx = i
  BY DEF Refers
<1>2. PICK n \in Nat : n \notin DOMAIN t.outputs /\ NextId(t.outputs) = {n}
  BY NextIdIs DEF TypedRows, Table
<1>3. u.outputs = IF OutputOf(t, i) # {} THEN t.outputs
                  ELSE [o \in DOMAIN t.outputs \union {n} |->
                          IF o \in DOMAIN t.outputs THEN t.outputs[o] ELSE row]
  BY <1>2 DEF HasOutput, StoredOutput
<1> HIDE DEF row
<1>4. /\ \A o \in DOMAIN t.outputs : o \in DOMAIN u.outputs /\ u.outputs[o] = t.outputs[o]
      /\ \A o \in DOMAIN u.outputs : o \in DOMAIN t.outputs \/ Refers(t, u.outputs[o])
  BY <1>1, <1>3
<1>5. OutputOf(u, i) # {}
  <2>1. CASE OutputOf(t, i) # {}
    BY <1>3, <2>1 DEF OutputOf
  <2>2. CASE OutputOf(t, i) = {}
    <3>1. n \in OutputOf(u, i)
      BY <1>1, <1>2, <1>3, <2>2 DEF OutputOf
    <3> QED BY <3>1
  <2> QED BY <2>1, <2>2
<1>6. u.memos = MemosAfter(t, a, h, i, "output", OutputOf(u, i))
  BY DEF HasOutput
<1>7. \A m \in u.memos : \/ m \in t.memos
                         \/ /\ Refers(t, m) /\ m.of = "output"
                            /\ m.row \in DOMAIN u.outputs /\ u.outputs[m.row].tx = m.tx
  BY <1>6 DEF MemosAfter, OutputOf, Refers
<1>8. \A m \in t.memos : m \in u.memos
  BY <1>6 DEF MemosAfter
<1>9. Grown(t, u)
  BY <1>4, <1>7, <1>8 DEF Grown, HasOutput
<1>10. OutputShown(u, i)
  <2>1. CASE \E m \in t.memos : m.tx = i /\ m.of = "output"
    <3>1. PICK m \in t.memos : m.tx = i /\ m.of = "output"
      BY <2>1
    <3>2. m.row \in DOMAIN t.outputs /\ t.outputs[m.row].tx = i
      BY <3>1 DEF Sound, MemosOfRows
    <3> QED BY <1>4, <1>8, <3>1, <3>2 DEF OutputShown
  <2>2. CASE ~\E m \in t.memos : m.tx = i /\ m.of = "output"
    <3>1. PICK o \in OutputOf(u, i) : TRUE
      BY <1>5
    <3> DEFINE m == [account |-> a, tx |-> i, h |-> h, of |-> "output", row |-> o]
    <3>2. m \in u.memos
      BY <1>6, <2>2 DEF MemosAfter
    <3>3. m.tx = i /\ m.of = "output" /\ m.row = o
      OBVIOUS
    <3> HIDE DEF m
    <3> QED BY <3>2, <3>3 DEF OutputShown, OutputOf
  <2> QED BY <2>1, <2>2
<1> QED BY <1>9, <1>10

LEMMA MemoGrown ==
    ASSUME NEW t, NEW K, Sound(t, K), NEW a, NEW h, NEW i \in DOMAIN t.txs,
           t.txs[i].account = a, t.txs[i].h = h, NEW rows,
           rows = {n \in DOMAIN t.notes : t.notes[n].account = a /\ t.notes[n].h = h}, rows # {},
           NEW u, HasMemo(t, u, a, h, i, rows)
    PROVE  Grown(t, u) /\ NoteShown(u, i)
<1>1. \A n \in rows : n \in DOMAIN t.notes /\ t.notes[n].tx = i
  BY DEF Sound, OneTx, Referring, Refers
<1>2. u.memos = MemosAfter(t, a, h, i, "note", rows)
  BY DEF HasMemo
<1>3. \A m \in u.memos : \/ m \in t.memos
                         \/ /\ Refers(t, m) /\ m.of = "note"
                            /\ m.row \in DOMAIN t.notes /\ t.notes[m.row].tx = m.tx
  BY <1>1, <1>2 DEF MemosAfter, Refers
<1>4. \A m \in t.memos : m \in u.memos
  BY <1>2 DEF MemosAfter
<1>5. Grown(t, u)
  BY <1>3, <1>4 DEF Grown, HasMemo
<1>6. NoteShown(u, i)
  <2>0. u.notes = t.notes /\ u.txs = t.txs
    BY DEF HasMemo
  <2>1. CASE \E m \in t.memos : m.tx = i /\ m.of = "note"
    <3>1. PICK m \in t.memos : m.tx = i /\ m.of = "note"
      BY <2>1
    <3>2. m.row \in DOMAIN t.notes /\ t.notes[m.row].tx = i
      BY <3>1 DEF Sound, MemosOfRows
    <3>3. t.notes[m.row].account = t.txs[i].account /\ t.notes[m.row].h = t.txs[i].h
      BY <3>2 DEF Sound, Referring, Refers
    <3> QED BY <1>4, <2>0, <3>1, <3>2, <3>3 DEF NoteShown
  <2>2. CASE ~\E m \in t.memos : m.tx = i /\ m.of = "note"
    <3>1. PICK n \in rows : TRUE
      OBVIOUS
    <3> DEFINE m == [account |-> a, tx |-> i, h |-> h, of |-> "note", row |-> n]
    <3>2. m \in u.memos
      BY <1>2, <2>2 DEF MemosAfter
    <3>3. m.tx = i /\ m.of = "note" /\ m.row = n
      OBVIOUS
    <3> HIDE DEF m
    <3> QED BY <2>0, <3>2, <3>3 DEF NoteShown
  <2> QED BY <2>1, <2>2
<1> QED BY <1>5, <1>6

LEMMA StoreSound ==
    ASSUME RowsTyped, RowsTyped', RowsSound, RunSound, JobSound, ExportSound, FileSound,
           StoreDetails, UNCHANGED accountVars
    PROVE  RowsSound' /\ RunSound' /\ JobSound' /\ ExportSound' /\ FileSound'
<1> DEFINE a == job.account
           h == job.h
           i == job.found
           in == Involved[accounts[a].key]
           out == IF h \in in.outs THEN WithOutput(db, a, h, i) ELSE db
           rows == NoteId(a, h)
<1>1. i # 0 /\ job.listed = i /\ i \in DOMAIN db.txs /\ db.txs[i].account = a /\ db.txs[i].h = h
  BY DEF StoreDetails, JobSound, Listed
<1>2. a \in ids /\ Owners[a] = accounts[a].key
  BY <1>1, RowOwners DEF RowsSound, Owners
<1>3. InvolvedIn(db, Owners, i) = in
  BY <1>1, <1>2 DEF InvolvedIn
<1>4. h \in in.notes => rows # {}
  <2> SUFFICES ASSUME h \in in.notes PROVE rows # {}
    OBVIOUS
  <2>1. \E n \in DOMAIN db.notes : db.notes[n].account = a /\ db.notes[n].h = h
    BY <1>1, <1>3 DEF RowsSound, Sound, NotesPresent
  <2> QED BY <2>1 DEF NoteId
<1>5. /\ db' = IF h \in in.notes THEN WithMemo(out, a, h, i) ELSE out
      /\ job' = [job EXCEPT !.found = 0, !.h = 0]
      /\ UNCHANGED <<run, export, file>>
  BY <1>2, <1>4 DEF StoreDetails
<1>6. TypedRows(db) /\ IsTables(db) /\ Sound(db, Owners)
  BY DEF RowsTyped, DbOK, TypedRows, RowsSound
<1> HIDE DEF rows, in, a, h, i
<1>7. Grown(db, out) /\ IsTables(out) /\ (h \in in.outs => OutputShown(out, i))
  <2> DEFINE u == WithOutput(db, a, h, i)
  <2>1. HasOutput(db, u, a, h, i)
    BY <1>6, OutputTables
  <2> HIDE DEF u
  <2>2. Grown(db, u) /\ OutputShown(u, i) /\ IsTables(u)
    BY <1>1, <1>6, <2>1, OutputGrown DEF HasOutput
  <2> QED BY <1>6, <2>2, GrownSelf DEF u
<1> HIDE DEF out
<1>8. Sound(out, Owners) /\ out.txs = db.txs /\ out.notes = db.notes
  BY <1>6, <1>7, GrownSound DEF Grown
<1>9. Grown(out, db') /\ (h \in in.notes => NoteShown(db', i))
  <2> DEFINE u == WithMemo(out, a, h, i)
  <2>1. CASE h \in in.notes
    <3>1. HasMemo(out, u, a, h, i, rows)
      BY <1>4, <1>7, <2>1, MemoTables DEF rows
    <3>2. rows = {n \in DOMAIN out.notes : out.notes[n].account = a /\ out.notes[n].h = h}
      BY <1>8 DEF rows, NoteId
    <3> HIDE DEF u
    <3>3. Grown(out, u) /\ NoteShown(u, i)
      BY <1>1, <1>4, <1>8, <2>1, <3>1, <3>2, MemoGrown
    <3> QED BY <1>5, <2>1, <3>3 DEF u
  <2>2. CASE h \notin in.notes
    BY <1>5, <2>2, GrownSelf
  <2> QED BY <2>1, <2>2
<1>10. Grown(db, db') /\ Sound(db', Owners)
  BY <1>6, <1>7, <1>8, <1>9, GrownTwice, GrownSound
<1>11. RowsSound'
  <2>1. Owners' = Owners
    BY DEF Owners, accountVars, ids
  <2>2. Witnessed(db', db.heights) /\ db'.heights = db.heights
    BY <1>10, GrownWitnessed DEF RowsSound, Grown
  <2> QED BY <1>10, <2>1, <2>2 DEF RowsSound
<1>12. \A b : KeptFor(db, db', b) /\ NoneNewFor(db, db', b)
  BY <1>10, GrownKept
<1>13. \A b : KeepsKey(b)
  BY DEF KeepsKey, accountVars, ids
<1>14. db'.heights = db.heights /\ db'.witnesses = db.witnesses
  BY <1>10 DEF Grown
<1>15. RunSound'
  BY <1>5, <1>12, <1>13, <1>14, RunKept
<1>16. ExportSound'
  <2>1. export.account # 0 => db.heights[export.account] \in Nat
    BY WalletAssumption DEF ExportSound, RowsTyped, DbOK
  <2>2. \A w \in db'.witnesses : w.h \in Nat
    BY <1>14 DEF RowsSound, Sound, WitnessesOfNotes
  <2>3. export' = export
    BY <1>5
  <2>4. DbOK /\ FileOK
    BY DEF RowsTyped
  <2> QED BY <1>12, <1>13, <1>14, <2>1, <2>2, <2>3, <2>4, ExportKept
<1>17. JobSound'
  <2>1. job'.todo = job.todo /\ job'.account = job.account /\ job'.found = 0 /\ job'.listed = i
    BY <1>1, <1>5 DEF RowsTyped, JobOK, NoJob, i
  <2>2. \A x \in job.todo : Listed(db, x[1], x[2])'
    BY <1>10, <2>1 DEF JobSound, Listed, Grown
  <2>3. i \in DOMAIN db'.txs /\ db'.txs[i].account = a
    BY <1>1, <1>10 DEF Grown
  <2>4. InvolvedIn(db', Owners', i) = in /\ db'.txs[i].h = h
    BY <1>1, <1>3, <1>10 DEF InvolvedIn, Grown, Owners, accountVars, ids
  <2>5. h \in in.outs => OutputShown(db', i)
    BY <1>7, <1>9 DEF OutputShown, Grown
  <2>6. HasDetails(db', Owners', i)
    BY <1>9, <2>4, <2>5 DEF HasDetails
  <2> QED BY <2>1, <2>2, <2>3, <2>6 DEF JobSound, a
<1> QED BY <1>5, <1>11, <1>15, <1>16, <1>17, FileKept

-----------------------------------------------------------------------------
(* The tables after a block, row by row: the transaction i of account a at *)
(* height h, the note n it receives and those that it spends.              *)
Mine(in, h) == h \in in.notes \union DOMAIN in.spends

NewBlock(t, u, a, h, in, kept, i, n, spent) ==
    /\ \A j \in DOMAIN t.txs : j # i /\ j \in DOMAIN u.txs /\ u.txs[j] = t.txs[j]
    /\ \A j \in DOMAIN u.txs :
        \/ j \in DOMAIN t.txs
        \/ j = i /\ Mine(in, h) /\ u.txs[j].account = a /\ u.txs[j].h = h /\ ~u.txs[j].details
    /\ Mine(in, h) => i \in DOMAIN u.txs
    /\ \A m \in DOMAIN t.notes : m # n /\ m \in DOMAIN u.notes /\ u.notes[m] = t.notes[m]
    /\ \A m \in DOMAIN u.notes :
        \/ m \in DOMAIN t.notes
        \/ /\ m = n /\ h \in in.notes
           /\ u.notes[m].account = a /\ u.notes[m].tx = i /\ u.notes[m].h = h
    /\ h \in in.notes => n \in DOMAIN u.notes
    /\ \A m \in spent :
        /\ m \in DOMAIN t.notes /\ m \notin DOMAIN t.spends /\ h \in DOMAIN in.spends
        /\ t.notes[m].account = a /\ t.notes[m].h = in.spends[h]
    /\ \A m \in DOMAIN t.notes :
        h \in DOMAIN in.spends /\ t.notes[m].account = a /\ t.notes[m].h = in.spends[h] => m \in spent
    /\ \A m \in DOMAIN t.spends : m \in DOMAIN u.spends /\ u.spends[m] = t.spends[m]
    /\ \A m \in DOMAIN u.spends :
        \/ m \in DOMAIN t.spends
        \/ m \in spent /\ u.spends[m].account = a /\ u.spends[m].tx = i /\ u.spends[m].h = h
    /\ \A m \in spent : m \in DOMAIN u.spends
    /\ \A w \in t.witnesses : w \in u.witnesses
    /\ \A w \in u.witnesses :
        \/ w \in t.witnesses
        \/ w.account = a /\ w.h = h /\ w.note \in DOMAIN u.notes /\ u.notes[w.note].account = a
    /\ \A m \in DOMAIN u.notes : u.notes[m].account = a /\ u.notes[m].h \in kept
        => [account |-> a, note |-> m, h |-> h] \in u.witnesses
    /\ u.outputs = t.outputs /\ u.memos = t.memos

(* Tables whose rows of an account are all below the block.                *)
Below(t, a, h) == \A i \in DOMAIN t.txs : t.txs[i].account = a => t.txs[i].h < h

LEMMA BlockSound ==
    ASSUME NEW t, TypedRows(t), NEW K, Sound(t, K), NEW u, NEW a \in DOMAIN K, NEW h \in Nat, NEW in,
           in = Involved[K[a]], NEW kept, NEW i, NEW n, NEW spent,
           NewBlock(t, u, a, h, in, kept, i, n, spent), Below(t, a, h),
           \A m \in spent : t.notes[m].h < h
    PROVE  Sound(u, K)
<1>1. OwnTxs(u, K)
  BY DEF Sound, OwnTxs, NewBlock, InvolvedIn, Mine
<1>2. OneTx(u)
  <2> SUFFICES ASSUME NEW j \in DOMAIN u.txs, NEW k \in DOMAIN u.txs,
                      u.txs[j].account = u.txs[k].account, u.txs[j].h = u.txs[k].h
               PROVE  j = k
    BY DEF OneTx
  <2>1. CASE j \in DOMAIN t.txs /\ k \in DOMAIN t.txs
    BY <2>1 DEF Sound, OneTx, NewBlock
  <2>2. CASE j \in DOMAIN t.txs /\ k \notin DOMAIN t.txs
    BY <2>2, RowsAre DEF NewBlock, Below
  <2>3. CASE j \notin DOMAIN t.txs /\ k \in DOMAIN t.txs
    BY <2>3, RowsAre DEF NewBlock, Below
  <2>4. CASE j \notin DOMAIN t.txs /\ k \notin DOMAIN t.txs
    BY <2>4 DEF NewBlock
  <2> QED BY <2>1, <2>2, <2>3, <2>4
<1>3. \A x : Refers(t, x) => Refers(u, x)
  BY DEF Refers, NewBlock
<1>4. ASSUME NEW x, x.account = a, x.tx = i, x.h = h, Mine(in, h) PROVE Refers(u, x)
  BY <1>4 DEF Refers, NewBlock
<1>5. Referring(u)
  <2>1. ASSUME NEW m \in DOMAIN u.notes PROVE Refers(u, u.notes[m])
    <3>1. CASE m \in DOMAIN t.notes
      BY <1>3, <3>1 DEF Sound, Referring, NewBlock
    <3>2. CASE m \notin DOMAIN t.notes
      BY <1>4, <3>2 DEF NewBlock, Mine
    <3> QED BY <3>1, <3>2
  <2>2. ASSUME NEW m \in DOMAIN u.spends PROVE Refers(u, u.spends[m])
    <3>1. CASE m \in DOMAIN t.spends
      BY <1>3, <3>1 DEF Sound, Referring, NewBlock
    <3>2. CASE m \notin DOMAIN t.spends
      BY <1>4, <3>2 DEF NewBlock, Mine
    <3> QED BY <3>1, <3>2
  <2>3. \A o \in DOMAIN u.outputs : Refers(u, u.outputs[o])
    BY <1>3 DEF Sound, Referring, NewBlock
  <2>4. \A m \in u.memos : Refers(u, m)
    BY <1>3 DEF Sound, Referring, NewBlock
  <2> QED BY <2>1, <2>2, <2>3, <2>4 DEF Referring
<1>6. SpendsOfNotes(u)
  BY DEF Sound, SpendsOfNotes, NewBlock
<1>7. WitnessesOfNotes(u)
  <2> SUFFICES ASSUME NEW w \in u.witnesses
               PROVE  w.note \in DOMAIN u.notes /\ u.notes[w.note].account = w.account
                      /\ w.h \in Nat /\ u.notes[w.note].h <= w.h
    BY DEF WitnessesOfNotes
  <2>1. CASE w \in t.witnesses
    BY <2>1 DEF Sound, WitnessesOfNotes, NewBlock
  <2>2. CASE w \notin t.witnesses
    <3>1. w.account = a /\ w.h = h /\ w.note \in DOMAIN u.notes /\ u.notes[w.note].account = a
      BY <2>2 DEF NewBlock
    <3>2. ASSUME w.note \in DOMAIN t.notes PROVE u.notes[w.note].h <= h
      <4>1. u.notes[w.note] = t.notes[w.note] /\ Refers(t, t.notes[w.note])
        BY <3>2 DEF NewBlock, Sound, Referring
      <4>2. t.notes[w.note].h < h /\ t.notes[w.note].h \in Nat
        BY <3>1, <3>2, <4>1, RowsAre DEF Refers, Below
      <4> QED BY <4>1, <4>2
    <3>3. ASSUME w.note \notin DOMAIN t.notes PROVE u.notes[w.note].h = h
      BY <3>1, <3>3 DEF NewBlock
    <3>4. u.notes[w.note].h <= h
      BY <3>2, <3>3
    <3> QED BY <3>1, <3>4
  <2> QED BY <2>1, <2>2
<1>8. MemosOfRows(u)
  BY DEF Sound, MemosOfRows, NewBlock
<1>9. NotesPresent(u, K)
  <2> SUFFICES ASSUME NEW j \in DOMAIN u.txs, u.txs[j].h \in InvolvedIn(u, K, j).notes
               PROVE  \E m \in DOMAIN u.notes : u.notes[m].account = u.txs[j].account
                                                /\ u.notes[m].h = u.txs[j].h
    BY DEF NotesPresent
  <2>1. CASE j \in DOMAIN t.txs
    BY <2>1 DEF Sound, NotesPresent, InvolvedIn, NewBlock
  <2>2. CASE j \notin DOMAIN t.txs
    <3>1. u.txs[j].account = a /\ u.txs[j].h = h
      BY <2>2 DEF NewBlock
    <3>2. h \in in.notes
      BY <3>1 DEF InvolvedIn
    <3>3. n \in DOMAIN u.notes /\ n \notin DOMAIN t.notes
      BY <3>2 DEF NewBlock
    <3> QED BY <3>1, <3>3 DEF NewBlock
  <2> QED BY <2>1, <2>2
<1>10. Complete(u, K)
  <2> SUFFICES ASSUME NEW j \in DOMAIN u.txs, u.txs[j].details PROVE HasDetails(u, K, j)
    BY DEF Complete
  <2>1. j \in DOMAIN t.txs /\ u.txs[j] = t.txs[j]
    BY DEF NewBlock
  <2>2. HasDetails(t, K, j)
    BY <2>1 DEF Sound, Complete
  <2> QED BY <2>1, <2>2, DetailsGrow DEF NewBlock
<1> QED BY <1>1, <1>2, <1>5, <1>6, <1>7, <1>8, <1>9, <1>10 DEF Sound

LEMMA BlockWitnessed ==
    ASSUME NEW t, TypedRows(t), NEW K, Sound(t, K), NEW H, Witnessed(t, H), NEW u, NEW a, NEW h \in Nat,
           NEW in, NEW kept, NEW i, NEW n, NEW spent,
           NewBlock(t, u, a, h, in, kept, i, n, spent), Below(t, a, h),
           h \in in.notes => h \in kept,
           H[a] \in Nat, H[a] < h, h <= H[a] + 1,
           \A m \in DOMAIN t.notes :
              t.notes[m].account = a /\ m \notin DOMAIN t.spends =>
                  \/ t.notes[m].h \in kept
                  \/ h \in DOMAIN in.spends /\ t.notes[m].h = in.spends[h],
           NEW G, G[a] = h, \A m \in DOMAIN t.notes : t.notes[m].account # a =>
                                G[t.notes[m].account] = H[t.notes[m].account]
    PROVE  Witnessed(u, G)
<1>1. ASSUME NEW m \in DOMAIN u.notes, NEW g \in u.notes[m].h .. G[u.notes[m].account]
      PROVE  \/ m \in DOMAIN u.spends /\ u.spends[m].h <= g
             \/ [account |-> u.notes[m].account, note |-> m, h |-> g] \in u.witnesses
  <2>1. CASE m \notin DOMAIN t.notes
    <3>1. u.notes[m].account = a /\ u.notes[m].h = h /\ h \in in.notes
      BY <2>1 DEF NewBlock
    <3>2. g = h /\ h \in kept
      BY <3>1
    <3> QED BY <3>1, <3>2 DEF NewBlock
  <2>2. CASE m \in DOMAIN t.notes
    <3>1. u.notes[m] = t.notes[m] /\ t.notes[m].h \in Nat
      BY <2>2, RowsAre DEF NewBlock
    <3>2. CASE t.notes[m].account # a \/ g # h
      <4>1. g \in t.notes[m].h .. H[t.notes[m].account]
        BY <2>2, <3>1, <3>2
      <4>2. \/ m \in DOMAIN t.spends /\ t.spends[m].h <= g
            \/ [account |-> t.notes[m].account, note |-> m, h |-> g] \in t.witnesses
        BY <2>2, <4>1 DEF Witnessed
      <4> QED BY <3>1, <4>2 DEF NewBlock
    <3>3. CASE t.notes[m].account = a /\ g = h
      <4>1. CASE m \in DOMAIN t.spends
        <5>1. t.spends[m].account = a /\ Refers(t, t.spends[m])
          BY <3>3, <4>1 DEF Sound, SpendsOfNotes, Referring
        <5>2. t.spends[m].h < h /\ t.spends[m].h \in Nat
          BY <4>1, <5>1, RowsAre DEF Refers, Below
        <5> QED BY <3>3, <4>1, <5>2 DEF NewBlock
      <4>2. CASE m \notin DOMAIN t.spends /\ t.notes[m].h \notin kept
        <5>1. m \in spent
          BY <2>2, <3>3, <4>2 DEF NewBlock
        <5>2. m \in DOMAIN u.spends /\ u.spends[m].h = h
          BY <4>2, <5>1 DEF NewBlock
        <5> QED BY <3>3, <5>2
      <4>3. CASE m \notin DOMAIN t.spends /\ t.notes[m].h \in kept
        BY <3>1, <3>3, <4>3 DEF NewBlock
      <4> QED BY <4>1, <4>2, <4>3
    <3> QED BY <3>2, <3>3
  <2> QED BY <2>1, <2>2
<1>2. ASSUME NEW w \in u.witnesses PROVE w.h <= G[w.account]
  <2>1. CASE w \in t.witnesses
    <3>1. w.note \in DOMAIN t.notes /\ t.notes[w.note].account = w.account /\ w.h \in Nat
          /\ w.h <= H[w.account]
      BY <2>1 DEF Sound, WitnessesOfNotes, Witnessed
    <3> QED BY <3>1
  <2>2. CASE w \notin t.witnesses
    BY <2>2 DEF NewBlock
  <2> QED BY <2>1, <2>2
<1> QED BY <1>1, <1>2 DEF Witnessed

LEMMA BlockKept ==
    ASSUME NEW t, NEW u, NEW a, NEW h, NEW in, NEW kept, NEW i, NEW n, NEW spent,
           NewBlock(t, u, a, h, in, kept, i, n, spent), NEW b
    PROVE  KeptFor(t, u, b)
BY DEF NewBlock, KeptFor

(* A block that is stored is a new one for its account.                    *)
LEMMA BlockRows ==
    ASSUME IsTables(db), NEW t, NEW a, NEW h, NEW in, NEW kept, NEW i, NEW n, NEW notes, NEW spent,
           notes = NotesAfter(a, h, in, i, n), spent = SpentIn(a, h, in, notes),
           HasBlock(t, a, h, in, kept, i, notes, spent),
           i \notin DOMAIN db.txs, n \notin DOMAIN db.notes,
           h \in DOMAIN in.spends => in.spends[h] # h,
           \A m \in DOMAIN db.notes :
              h \in DOMAIN in.spends /\ db.notes[m].account = a /\ db.notes[m].h = in.spends[h]
                  => m \notin DOMAIN db.spends
    PROVE  NewBlock(db, t, a, h, in, kept, i, n, spent)
<1> DEFINE tx == [account |-> a, h |-> h, details |-> FALSE, category |-> 0]
           note == [account |-> a, tx |-> i, h |-> h, locked |-> FALSE]
           spend == [account |-> a, tx |-> i, h |-> h]
<1>1. /\ t.txs = IF Mine(in, h) THEN With(db.txs, i, tx) ELSE db.txs
      /\ t.notes = notes
      /\ t.spends = [m \in DOMAIN db.spends \union spent |-> IF m \in spent THEN spend ELSE db.spends[m]]
      /\ t.witnesses = db.witnesses \union
           {[account |-> a, note |-> m, h |-> h] : m \in NotesAt(notes, a, kept)}
      /\ t.outputs = db.outputs /\ t.memos = db.memos
  BY DEF HasBlock, Mine
<1>2. notes = IF h \in in.notes THEN With(db.notes, n, note) ELSE db.notes
  BY DEF NotesAfter
<1>3. tx.account = a /\ tx.h = h /\ ~tx.details /\ note.account = a /\ note.tx = i /\ note.h = h
      /\ spend.account = a /\ spend.tx = i /\ spend.h = h
  OBVIOUS
<1> HIDE DEF tx, note, spend
<1>4. /\ \A j \in DOMAIN db.txs : j # i /\ j \in DOMAIN t.txs /\ t.txs[j] = db.txs[j]
      /\ \A j \in DOMAIN t.txs : j \in DOMAIN db.txs \/ (j = i /\ Mine(in, h) /\ t.txs[j] = tx)
      /\ Mine(in, h) => i \in DOMAIN t.txs
  BY <1>1 DEF With
<1>5. /\ \A m \in DOMAIN db.notes : m # n /\ m \in DOMAIN notes /\ notes[m] = db.notes[m]
      /\ \A m \in DOMAIN notes : m \in DOMAIN db.notes \/ (m = n /\ h \in in.notes /\ notes[m] = note)
      /\ h \in in.notes => n \in DOMAIN notes
  BY <1>2 DEF With
<1>6. \A m : m \in spent <=> /\ h \in DOMAIN in.spends /\ m \in DOMAIN notes
                             /\ notes[m].account = a /\ notes[m].h = in.spends[h]
  BY DEF SpentIn, NotesAt
<1>7. \A m \in spent : m \in DOMAIN db.notes /\ m \notin DOMAIN db.spends /\ h \in DOMAIN in.spends
                       /\ db.notes[m].account = a /\ db.notes[m].h = in.spends[h]
  BY <1>3, <1>5, <1>6
<1>8. \A m \in DOMAIN db.notes :
        h \in DOMAIN in.spends /\ db.notes[m].account = a /\ db.notes[m].h = in.spends[h] => m \in spent
  BY <1>5, <1>6
<1>9. /\ \A m \in DOMAIN db.spends : m \in DOMAIN t.spends /\ t.spends[m] = db.spends[m]
      /\ \A m \in DOMAIN t.spends : m \in DOMAIN db.spends \/ (m \in spent /\ t.spends[m] = spend)
      /\ \A m \in spent : m \in DOMAIN t.spends
  BY <1>1, <1>7
<1>10. /\ \A w \in db.witnesses : w \in t.witnesses
       /\ \A w \in t.witnesses :
            \/ w \in db.witnesses
            \/ w.account = a /\ w.h = h /\ w.note \in DOMAIN notes /\ notes[w.note].account = a
       /\ \A m \in DOMAIN notes : notes[m].account = a /\ notes[m].h \in kept
            => [account |-> a, note |-> m, h |-> h] \in t.witnesses
  BY <1>1 DEF NotesAt
<1> QED BY <1>1, <1>3, <1>4, <1>5, <1>7, <1>8, <1>9, <1>10 DEF NewBlock

LEMMA ScanSound ==
    ASSUME WalletInv, RowsTyped, RowsTyped', RowsSound, RunSound, JobSound, ExportSound, FileSound,
           ScanBlock, UNCHANGED accountVars
    PROVE  RowsSound' /\ RunSound' /\ JobSound' /\ ExportSound' /\ FileSound'
<1> DEFINE a == run.account
           h == run.at + 1
           in == Involved[run.key]
           gone == IF h \in DOMAIN in.spends THEN {in.spends[h]} ELSE {}
           new == IF h \in in.notes THEN {h} ELSE {}
           kept == (run.tracked \ gone) \union new
<1>1. PICK i \in IF TxId(a, h) # {} THEN TxId(a, h) ELSE NextId(db.txs), n \in NextId(db.notes) :
        db' = Scanned(a, h, in, kept, i, n)
  BY DEF ScanBlock
<1>2. /\ run' = [run EXCEPT !.at = h, !.tracked = kept] /\ UNCHANGED <<job, export, file>>
      /\ run.account # 0
      /\ \A g \in (run.tracked \union gone) \ new :
            NoteId(a, g) # {} /\ NoteId(a, g) \intersect DOMAIN db.spends = {}
  BY DEF ScanBlock
<1>3. /\ a \in ids /\ run.key = accounts[a].key /\ run.at = db.heights[a]
      /\ \A j \in DOMAIN db.txs : db.txs[j].account = a => db.txs[j].h <= run.at
      /\ \A m \in DOMAIN db.notes : db.notes[m].account = a /\ m \notin DOMAIN db.spends
            => db.notes[m].h \in run.tracked
  BY <1>2 DEF RunSound
<1>4. TypedRows(db) /\ IsTables(db) /\ DOMAIN db.txs \in SUBSET Nat /\ DOMAIN db.notes \in SUBSET Nat
      /\ run.at \in Nat /\ h \in Nat /\ DOMAIN db.heights = ids
      /\ \A b \in ids : db.heights[b] \in Nat
  BY WalletAssumption DEF RowsTyped, DbOK, TypedRows, Table, RunOK
<1>5. Below(db, a, h)
  BY <1>3, <1>4, RowsAre DEF Below
<1>6. TxId(a, h) = {}
  BY <1>4, <1>5, RowsAre DEF TxId, Below
<1>7. i \notin DOMAIN db.txs /\ n \notin DOMAIN db.notes
  BY <1>1, <1>4, <1>6, NextIdNew
<1>8. h \in DOMAIN in.spends => in.spends[h] \in Nat /\ in.spends[h] < h
  <2>1. run.key \in Keys
    BY <1>3, RowTypes DEF WalletInv, Arranged
  <2>2. h \in DOMAIN in.spends => in.spends[h] \in in.notes /\ in.spends[h] < h /\ in.notes \subseteq 1 .. Top
    BY <2>1, WalletAssumption
  <2>3. 1 .. Top \subseteq Nat
    BY WalletAssumption
  <2> HIDE DEF in
  <2> QED BY <2>2, <2>3
<1> HIDE DEF h, in, kept
<1>9. PICK notes, spent :
        /\ notes = NotesAfter(a, h, in, i, n) /\ spent = SpentIn(a, h, in, notes)
        /\ HasBlock(db', a, h, in, kept, i, notes, spent)
  BY <1>1, <1>4, ScanTables
<1>10. \A m \in DOMAIN db.notes :
         h \in DOMAIN in.spends /\ db.notes[m].account = a /\ db.notes[m].h = in.spends[h]
             => m \notin DOMAIN db.spends
  <2>1. h \in DOMAIN in.spends => in.spends[h] \in (run.tracked \union gone) \ new
    BY <1>4, <1>8
  <2> HIDE DEF gone, new
  <2> QED BY <1>2, <2>1 DEF NoteId
<1>11. NewBlock(db, db', a, h, in, kept, i, n, spent)
  BY <1>4, <1>7, <1>8, <1>9, <1>10, BlockRows
<1>12. db'.heights = [b \in DOMAIN db.heights |-> IF b = a THEN h ELSE db.heights[b]]
  BY <1>9 DEF HasBlock
<1>13. Owners' = Owners /\ DOMAIN Owners = ids /\ Owners[a] = run.key
  BY <1>3 DEF Owners, accountVars, ids
<1>14. Sound(db', Owners)
  <2> DEFINE u == db'
             K == Owners
  <2>1. NewBlock(db, u, a, h, in, kept, i, n, spent) /\ Sound(db, K) /\ a \in DOMAIN K /\ in = Involved[K[a]]
    BY <1>3, <1>11, <1>13 DEF RowsSound, in
  <2>2. \A m \in spent : db.notes[m].h < h
    BY <1>8, <1>11 DEF NewBlock
  <2> HIDE DEF u, K, a
  <2>3. Sound(u, K)
    BY <1>4, <1>5, <2>1, <2>2, BlockSound
  <2> QED BY <2>3 DEF u, K
<1>15. Witnessed(db', db'.heights)
  <2> DEFINE u == db'
             K == Owners
             H == db.heights
             G == db'.heights
  <2>0. /\ h \in in.notes => h \in kept
        /\ \A x \in run.tracked : x \in kept \/ (h \in DOMAIN in.spends /\ x = in.spends[h])
    <3>1. /\ h \in in.notes => h \in new
          /\ \A x \in gone : h \in DOMAIN in.spends /\ x = in.spends[h]
      OBVIOUS
    <3> HIDE DEF gone, new
    <3> QED BY <3>1 DEF kept
  <2>1. /\ TypedRows(db) /\ Sound(db, K) /\ Witnessed(db, H) /\ h \in Nat
        /\ NewBlock(db, u, a, h, in, kept, i, n, spent) /\ Below(db, a, h)
        /\ h \in in.notes => h \in kept
        /\ H[a] \in Nat /\ H[a] < h /\ h <= H[a] + 1
        /\ \A m \in DOMAIN db.notes :
              db.notes[m].account = a /\ m \notin DOMAIN db.spends =>
                  \/ db.notes[m].h \in kept
                  \/ h \in DOMAIN in.spends /\ db.notes[m].h = in.spends[h]
    <3>1. H[a] \in Nat /\ H[a] < h /\ h <= H[a] + 1
      BY <1>3, <1>4 DEF h
    <3> QED BY <1>3, <1>4, <1>5, <1>11, <2>0, <3>1 DEF RowsSound
  <2>2. /\ G[a] = h
        /\ \A m \in DOMAIN db.notes : db.notes[m].account # a =>
                                G[db.notes[m].account] = H[db.notes[m].account]
    BY <1>3, <1>4, <1>12, RowOwners DEF RowsSound
  <2> HIDE DEF u, K, H, G, a
  <2>3. Witnessed(u, G)
    BY <2>1, <2>2, BlockWitnessed
  <2> QED BY <2>3 DEF u, G
<1>16. \A b : KeptFor(db, db', b)
  BY <1>11, BlockKept
<1>17. \A b : KeepsKey(b)
  BY DEF KeepsKey, accountVars, ids
<1>18. JobSound'
  BY <1>2, <1>16, <1>17, JobKept
<1>19. ExportSound'
  <2>1. export.account # 0 =>
           /\ db'.heights[export.account] \in Int
           /\ db.heights[export.account] <= db'.heights[export.account]
    BY <1>3, <1>4, <1>12 DEF ExportSound, h
  <2>2. export.account # 0 => \A w \in db'.witnesses :
           w.account = export.account /\ w.h <= db.heights[export.account] => w \in db.witnesses
    <3> SUFFICES ASSUME export.account # 0, NEW w \in db'.witnesses, w.account = export.account,
                        w.h <= db.heights[export.account], w \notin db.witnesses
                 PROVE  FALSE
      OBVIOUS
    <3>1. w.account = a /\ w.h = h
      BY <1>11 DEF NewBlock
    <3>2. h = db.heights[a] + 1 /\ db.heights[a] \in Nat
      BY <1>3, <1>4 DEF h
    <3> QED BY <3>1, <3>2
  <2>3. \A w \in db'.witnesses : w.h \in Nat
    BY <1>14 DEF Sound, WitnessesOfNotes
  <2>4. DbOK /\ FileOK /\ export' = export
    BY <1>2 DEF RowsTyped
  <2> QED BY <1>16, <1>17, <2>1, <2>2, <2>3, <2>4, ExportKept
<1>20. RunSound'
  <2>1. run'.account = a /\ run'.key = run.key /\ run'.at = h /\ run'.tracked = kept
    BY <1>2 DEF RowsTyped, RunOK, NoRun
  <2>2. a \in ids' /\ run.key = accounts'[a].key /\ h = db'.heights[a]
    BY <1>3, <1>4, <1>12 DEF accountVars, ids
  <2>3. \A j \in DOMAIN db'.txs : db'.txs[j].account = a => db'.txs[j].h <= h
    <3> SUFFICES ASSUME NEW j \in DOMAIN db'.txs, db'.txs[j].account = a PROVE db'.txs[j].h <= h
      OBVIOUS
    <3>1. CASE j \in DOMAIN db.txs
      BY <1>4, <1>5, <1>11, <3>1, RowsAre DEF NewBlock, Below
    <3>2. CASE j \notin DOMAIN db.txs
      BY <1>4, <1>11, <3>2 DEF NewBlock
    <3> QED BY <3>1, <3>2
  <2>4. \A m \in DOMAIN db'.notes : db'.notes[m].account = a /\ m \notin DOMAIN db'.spends
            => db'.notes[m].h \in kept
    <3> SUFFICES ASSUME NEW m \in DOMAIN db'.notes, db'.notes[m].account = a, m \notin DOMAIN db'.spends
                 PROVE  db'.notes[m].h \in kept
      OBVIOUS
    <3>1. CASE m \in DOMAIN db.notes
      <4>1. db'.notes[m] = db.notes[m] /\ m \notin DOMAIN db.spends /\ m \notin spent
        BY <1>11, <3>1 DEF NewBlock
      <4>2. db.notes[m].h \in run.tracked
        BY <1>3, <3>1, <4>1
      <4>3. db.notes[m].h \notin gone
        BY <1>11, <3>1, <4>1 DEF NewBlock
      <4> HIDE DEF gone, new
      <4> QED BY <4>1, <4>2, <4>3 DEF kept
    <3>2. CASE m \notin DOMAIN db.notes
      <4>1. db'.notes[m].h \in new
        BY <1>11, <3>2 DEF NewBlock
      <4> HIDE DEF gone, new
      <4> QED BY <4>1 DEF kept
    <3> QED BY <3>1, <3>2
  <2> QED BY <2>1, <2>2, <2>3, <2>4 DEF RunSound
<1> QED BY <1>2, <1>13, <1>14, <1>15, <1>18, <1>19, <1>20, FileKept DEF RowsSound

-----------------------------------------------------------------------------
(* The tables s after an import of the tables t of a file to account a,    *)
(* row by row: what was there stays, and each row of the file is there     *)
(* under its new identifier.                                               *)
Became(k, m, a, tx, note, out) ==
    /\ k.account = a /\ k.tx = tx[m.tx] /\ k.h = m.h /\ k.of = m.of
    /\ m.of = "note" => k.row = note[m.row]
    /\ m.of = "output" => k.row = out[m.row]

Moves(old, rows, new, to, a, tx) ==
    /\ \A x \in DOMAIN old : x \in DOMAIN new /\ new[x] = old[x]
    /\ \A x \in DOMAIN rows :
        /\ to[x] \in DOMAIN new /\ to[x] \notin DOMAIN old
        /\ new[to[x]].account = a /\ new[to[x]].tx = tx[rows[x].tx] /\ new[to[x]].h = rows[x].h
    /\ \A x \in DOMAIN new : x \in DOMAIN old \/ \E y \in DOMAIN rows : x = to[y]

Renewed(s, t, u, a, tx, note, out) ==
    /\ \A i \in DOMAIN s.txs : i \in DOMAIN u.txs /\ u.txs[i] = s.txs[i]
    /\ \A i \in DOMAIN t.txs :
        /\ tx[i] \in DOMAIN u.txs /\ tx[i] \notin DOMAIN s.txs
        /\ u.txs[tx[i]].account = a /\ u.txs[tx[i]].h = t.txs[i].h
        /\ u.txs[tx[i]].details = t.txs[i].details /\ u.txs[tx[i]].category = t.txs[i].category
    /\ \A i \in DOMAIN u.txs : i \in DOMAIN s.txs \/ \E j \in DOMAIN t.txs : i = tx[j]
    /\ Moves(s.notes, t.notes, u.notes, note, a, tx)
    /\ Moves(s.outputs, t.outputs, u.outputs, out, a, tx)
    /\ Moves(s.spends, t.spends, u.spends, note, a, tx)
    /\ \A n \in DOMAIN t.notes : u.notes[note[n]].locked = t.notes[n].locked
    /\ \A m \in s.memos : m \in u.memos
    /\ \A m \in t.memos : \E k \in u.memos : Became(k, m, a, tx, note, out)
    /\ \A k \in u.memos : k \in s.memos \/ \E m \in t.memos : Became(k, m, a, tx, note, out)
    /\ \A w \in s.witnesses : w \in u.witnesses
    /\ \A w \in t.witnesses : [account |-> a, note |-> note[w.note], h |-> w.h] \in u.witnesses
    /\ \A v \in u.witnesses :
        \/ v \in s.witnesses
        \/ \E w \in t.witnesses : v.account = a /\ v.note = note[w.note] /\ v.h = w.h

LEMMA RenewedReferring ==
    ASSUME NEW s, Referring(s), NEW t, Referring(t), NEW u, NEW a, NEW tx, NEW note, NEW out,
           Renewed(s, t, u, a, tx, note, out)
    PROVE  Referring(u)
<1>1. \A x : Refers(s, x) => Refers(u, x)
  BY DEF Refers, Renewed
<1>2. ASSUME NEW x, Refers(t, x), NEW y, y.account = a, y.tx = tx[x.tx], y.h = x.h PROVE Refers(u, y)
  BY <1>2 DEF Refers, Renewed
<1>3. ASSUME NEW old, NEW rows, NEW new, NEW to, Moves(old, rows, new, to, a, tx),
             \A x \in DOMAIN old : Refers(s, old[x]), \A x \in DOMAIN rows : Refers(t, rows[x])
      PROVE  \A x \in DOMAIN new : Refers(u, new[x])
  BY <1>1, <1>2, <1>3 DEF Moves
<1>4. \A n \in DOMAIN u.notes : Refers(u, u.notes[n])
  BY <1>3 DEF Referring, Renewed
<1>5. \A n \in DOMAIN u.spends : Refers(u, u.spends[n])
  BY <1>3 DEF Referring, Renewed
<1>6. \A o \in DOMAIN u.outputs : Refers(u, u.outputs[o])
  BY <1>3 DEF Referring, Renewed
<1>7. \A m \in u.memos : Refers(u, m)
  BY <1>1, <1>2 DEF Referring, Renewed, Became
<1> QED BY <1>4, <1>5, <1>6, <1>7 DEF Referring

LEMMA RenewedDetails ==
    ASSUME NEW s, NEW t, NEW u, NEW a, NEW tx, NEW note, NEW out,
           Renewed(s, t, u, a, tx, note, out), NEW L, NEW M, NEW i \in DOMAIN t.txs,
           M[a] = L[t.txs[i].account], HasDetails(t, L, i)
    PROVE  HasDetails(u, M, tx[i])
<1>1. InvolvedIn(u, M, tx[i]) = InvolvedIn(t, L, i) /\ u.txs[tx[i]].h = t.txs[i].h
      /\ u.txs[tx[i]].account = a
  BY DEF InvolvedIn, Renewed
<1>2. ASSUME OutputShown(t, i) PROVE OutputShown(u, tx[i])
  <2>1. PICK m \in t.memos : m.tx = i /\ m.of = "output" /\ m.row \in DOMAIN t.outputs
                             /\ t.outputs[m.row].tx = i
    BY <1>2 DEF OutputShown
  <2>2. PICK k \in u.memos : Became(k, m, a, tx, note, out)
    BY DEF Renewed
  <2>3. k.tx = tx[i] /\ k.of = "output" /\ k.row = out[m.row]
    BY <2>1, <2>2 DEF Became
  <2>4. k.row \in DOMAIN u.outputs /\ u.outputs[k.row].tx = tx[i]
    BY <2>1, <2>3 DEF Renewed, Moves
  <2> QED BY <2>3, <2>4 DEF OutputShown
<1>3. ASSUME NoteShown(t, i) PROVE NoteShown(u, tx[i])
  <2>1. PICK m \in t.memos : m.tx = i /\ m.of = "note" /\ m.row \in DOMAIN t.notes
                             /\ t.notes[m.row].h = t.txs[i].h
    BY <1>3 DEF NoteShown
  <2>2. PICK k \in u.memos : Became(k, m, a, tx, note, out)
    BY DEF Renewed
  <2>3. k.tx = tx[i] /\ k.of = "note" /\ k.row = note[m.row]
    BY <2>1, <2>2 DEF Became
  <2>4. k.row \in DOMAIN u.notes /\ u.notes[k.row].account = a /\ u.notes[k.row].h = t.txs[i].h
    BY <2>1, <2>3 DEF Renewed, Moves
  <2> QED BY <1>1, <2>3, <2>4 DEF NoteShown
<1> QED BY <1>1, <1>2, <1>3 DEF HasDetails

LEMMA RenewedSound ==
    ASSUME NEW s, NEW K, Sound(s, K), NEW t, NEW c, NEW L, DOMAIN L = {c}, Sound(t, L),
           TypedRows(s), TypedRows(t), NEW u, NEW a, NEW tx, NEW note, NEW out,
           Renewed(s, t, u, a, tx, note, out), a \notin DOMAIN K,
           NEW M, a \in DOMAIN M, M[a] = L[c], \A b \in DOMAIN K : b \in DOMAIN M /\ M[b] = K[b]
    PROVE  Sound(u, M)
<1>1. /\ \A i \in DOMAIN s.txs : s.txs[i].account \in DOMAIN K
      /\ \A i \in DOMAIN t.txs : t.txs[i].account = c
  BY DEF Sound, OwnTxs
<1>2. OwnTxs(u, M)
  <2> SUFFICES ASSUME NEW i \in DOMAIN u.txs
               PROVE  /\ u.txs[i].account \in DOMAIN M
                      /\ u.txs[i].h \in InvolvedIn(u, M, i).notes \union DOMAIN InvolvedIn(u, M, i).spends
    BY DEF OwnTxs
  <2>1. CASE i \in DOMAIN s.txs
    <3>1. u.txs[i] = s.txs[i]
      BY <2>1 DEF Renewed
    <3>2. /\ s.txs[i].account \in DOMAIN K
          /\ s.txs[i].h \in InvolvedIn(s, K, i).notes \union DOMAIN InvolvedIn(s, K, i).spends
      BY <2>1 DEF Sound, OwnTxs
    <3>3. InvolvedIn(u, M, i) = InvolvedIn(s, K, i) /\ s.txs[i].account \in DOMAIN M
      BY <3>1, <3>2 DEF InvolvedIn
    <3> QED BY <3>1, <3>2, <3>3
  <2>2. ASSUME NEW j \in DOMAIN t.txs, i = tx[j]
        PROVE  /\ u.txs[i].account \in DOMAIN M
               /\ u.txs[i].h \in InvolvedIn(u, M, i).notes \union DOMAIN InvolvedIn(u, M, i).spends
    <3>1. u.txs[i].account = a /\ u.txs[i].h = t.txs[j].h
      BY <2>2 DEF Renewed
    <3>2. t.txs[j].h \in InvolvedIn(t, L, j).notes \union DOMAIN InvolvedIn(t, L, j).spends
      BY DEF Sound, OwnTxs
    <3>3. InvolvedIn(u, M, i) = InvolvedIn(t, L, j)
      BY <1>1, <3>1 DEF InvolvedIn
    <3> QED BY <3>1, <3>2, <3>3
  <2> QED BY <2>1, <2>2 DEF Renewed
<1>3. OneTx(u)
  <2> SUFFICES ASSUME NEW i \in DOMAIN u.txs, NEW j \in DOMAIN u.txs,
                      u.txs[i].account = u.txs[j].account, u.txs[i].h = u.txs[j].h
               PROVE  i = j
    BY DEF OneTx
  <2>1. CASE i \in DOMAIN s.txs /\ j \in DOMAIN s.txs
    BY <2>1 DEF Sound, OneTx, Renewed
  <2>2. CASE i \in DOMAIN s.txs /\ j \notin DOMAIN s.txs
    BY <1>1, <2>2 DEF Renewed
  <2>3. CASE i \notin DOMAIN s.txs /\ j \in DOMAIN s.txs
    BY <1>1, <2>3 DEF Renewed
  <2>4. CASE i \notin DOMAIN s.txs /\ j \notin DOMAIN s.txs
    <3>1. PICK p \in DOMAIN t.txs, q \in DOMAIN t.txs : i = tx[p] /\ j = tx[q]
      BY <2>4 DEF Renewed
    <3>2. t.txs[p].h = t.txs[q].h
      BY <3>1 DEF Renewed
    <3> QED BY <1>1, <3>1, <3>2 DEF Sound, OneTx
  <2> QED BY <2>1, <2>2, <2>3, <2>4
<1>4. Referring(u)
  BY RenewedReferring DEF Sound
<1>5. SpendsOfNotes(u)
  <2> SUFFICES ASSUME NEW n \in DOMAIN u.spends
               PROVE  n \in DOMAIN u.notes /\ u.notes[n].account = u.spends[n].account
                      /\ u.notes[n].h < u.spends[n].h
    BY DEF SpendsOfNotes
  <2>1. CASE n \in DOMAIN s.spends
    BY <2>1 DEF Sound, SpendsOfNotes, Renewed, Moves
  <2>2. CASE n \notin DOMAIN s.spends
    <3>1. PICK m \in DOMAIN t.spends : n = note[m]
      BY <2>2 DEF Renewed, Moves
    <3>2. m \in DOMAIN t.notes /\ t.notes[m].h < t.spends[m].h
      BY DEF Sound, SpendsOfNotes
    <3> QED BY <3>1, <3>2 DEF Renewed, Moves
  <2> QED BY <2>1, <2>2
<1>6. WitnessesOfNotes(u)
  <2> SUFFICES ASSUME NEW v \in u.witnesses
               PROVE  v.note \in DOMAIN u.notes /\ u.notes[v.note].account = v.account
                      /\ v.h \in Nat /\ u.notes[v.note].h <= v.h
    BY DEF WitnessesOfNotes
  <2>1. CASE v \in s.witnesses
    BY <2>1 DEF Sound, WitnessesOfNotes, Renewed, Moves
  <2>2. CASE v \notin s.witnesses
    <3>1. PICK w \in t.witnesses : v.account = a /\ v.note = note[w.note] /\ v.h = w.h
      BY <2>2 DEF Renewed
    <3>2. w.note \in DOMAIN t.notes /\ w.h \in Nat /\ t.notes[w.note].h <= w.h
      BY DEF Sound, WitnessesOfNotes
    <3> QED BY <3>1, <3>2 DEF Renewed, Moves
  <2> QED BY <2>1, <2>2
<1>7. MemosOfRows(u)
  <2> SUFFICES ASSUME NEW k \in u.memos
               PROVE  /\ k.of = "note" => k.row \in DOMAIN u.notes /\ u.notes[k.row].tx = k.tx
                      /\ k.of = "output" => k.row \in DOMAIN u.outputs /\ u.outputs[k.row].tx = k.tx
    BY DEF MemosOfRows
  <2>1. CASE k \in s.memos
    BY <2>1 DEF Sound, MemosOfRows, Renewed, Moves
  <2>2. CASE k \notin s.memos
    <3>1. PICK m \in t.memos : Became(k, m, a, tx, note, out)
      BY <2>2 DEF Renewed
    <3>2. /\ m.of = "note" => m.row \in DOMAIN t.notes /\ t.notes[m.row].tx = m.tx
          /\ m.of = "output" => m.row \in DOMAIN t.outputs /\ t.outputs[m.row].tx = m.tx
      BY DEF Sound, MemosOfRows
    <3>3. /\ k.of = "note" => k.row \in DOMAIN u.notes /\ u.notes[k.row].tx = k.tx
      BY <3>1, <3>2 DEF Became, Renewed, Moves
    <3>4. /\ k.of = "output" => k.row \in DOMAIN u.outputs /\ u.outputs[k.row].tx = k.tx
      BY <3>1, <3>2 DEF Became, Renewed, Moves
    <3> QED BY <3>3, <3>4
  <2> QED BY <2>1, <2>2
<1>8. NotesPresent(u, M)
  <2> SUFFICES ASSUME NEW i \in DOMAIN u.txs, u.txs[i].h \in InvolvedIn(u, M, i).notes
               PROVE  \E n \in DOMAIN u.notes : u.notes[n].account = u.txs[i].account
                                                /\ u.notes[n].h = u.txs[i].h
    BY DEF NotesPresent
  <2>1. CASE i \in DOMAIN s.txs
    <3>1. u.txs[i] = s.txs[i] /\ s.txs[i].h \in InvolvedIn(s, K, i).notes
      BY <1>1, <2>1 DEF Renewed, InvolvedIn
    <3>2. PICK n \in DOMAIN s.notes : s.notes[n].account = s.txs[i].account /\ s.notes[n].h = s.txs[i].h
      BY <2>1, <3>1 DEF Sound, NotesPresent
    <3> QED BY <3>1, <3>2 DEF Renewed, Moves
  <2>2. CASE i \notin DOMAIN s.txs
    <3>1. PICK j \in DOMAIN t.txs : i = tx[j]
      BY <2>2 DEF Renewed
    <3>2. u.txs[i].account = a /\ u.txs[i].h = t.txs[j].h /\ t.txs[j].h \in InvolvedIn(t, L, j).notes
      BY <1>1, <3>1 DEF Renewed, InvolvedIn
    <3>3. PICK n \in DOMAIN t.notes : t.notes[n].h = t.txs[j].h
      BY <3>2 DEF Sound, NotesPresent
    <3> QED BY <3>2, <3>3 DEF Renewed, Moves
  <2> QED BY <2>1, <2>2
<1>9. Complete(u, M)
  <2> SUFFICES ASSUME NEW i \in DOMAIN u.txs, u.txs[i].details PROVE HasDetails(u, M, i)
    BY DEF Complete
  <2>1. CASE i \in DOMAIN s.txs
    <3>1. u.txs[i] = s.txs[i] /\ HasDetails(s, K, i)
      BY <2>1 DEF Renewed, Sound, Complete
    <3> QED BY <1>1, <2>1, <3>1, DetailsGrow DEF Renewed, Moves
  <2>2. CASE i \notin DOMAIN s.txs
    <3>1. PICK j \in DOMAIN t.txs : i = tx[j]
      BY <2>2 DEF Renewed
    <3>2. HasDetails(t, L, j)
      BY <3>1 DEF Renewed, Sound, Complete
    <3> QED BY <1>1, <3>1, <3>2, RenewedDetails
  <2> QED BY <2>1, <2>2
<1> QED BY <1>2, <1>3, <1>4, <1>5, <1>6, <1>7, <1>8, <1>9 DEF Sound

LEMMA RenewedWitnessed ==
    ASSUME NEW s, NEW K, Sound(s, K), NEW H, Witnessed(s, H),
           NEW t, NEW c, NEW L, DOMAIN L = {c}, Sound(t, L), NEW F, Witnessed(t, F),
           NEW u, NEW a, NEW tx, NEW note, NEW out, Renewed(s, t, u, a, tx, note, out),
           NEW G, G[a] = F[c], \A b \in DOMAIN K : G[b] = H[b]
    PROVE  Witnessed(u, G)
<1>0. /\ \A n \in DOMAIN s.notes : s.notes[n].account \in DOMAIN K
      /\ \A n \in DOMAIN t.notes : t.notes[n].account = c
      /\ \A w \in s.witnesses : w.account \in DOMAIN K
      /\ \A w \in t.witnesses : w.account = c /\ w.note \in DOMAIN t.notes
  <2>1. /\ \A n \in DOMAIN s.notes : s.notes[n].account \in DOMAIN K
        /\ \A n \in DOMAIN t.notes : t.notes[n].account = c
    BY DEF Sound, OwnTxs, Referring, Refers
  <2> QED BY <2>1 DEF Sound, WitnessesOfNotes
<1>1. ASSUME NEW n \in DOMAIN u.notes, NEW g \in u.notes[n].h .. G[u.notes[n].account]
      PROVE  \/ n \in DOMAIN u.spends /\ u.spends[n].h <= g
             \/ [account |-> u.notes[n].account, note |-> n, h |-> g] \in u.witnesses
  <2>1. CASE n \in DOMAIN s.notes
    <3>1. u.notes[n] = s.notes[n] /\ g \in s.notes[n].h .. H[s.notes[n].account]
      BY <1>0, <2>1 DEF Renewed, Moves
    <3>2. \/ n \in DOMAIN s.spends /\ s.spends[n].h <= g
          \/ [account |-> s.notes[n].account, note |-> n, h |-> g] \in s.witnesses
      BY <2>1, <3>1 DEF Witnessed
    <3> QED BY <3>1, <3>2 DEF Renewed, Moves
  <2>2. CASE n \notin DOMAIN s.notes
    <3>1. PICK m \in DOMAIN t.notes : n = note[m]
      BY <2>2 DEF Renewed, Moves
    <3>2. u.notes[n].account = a /\ u.notes[n].h = t.notes[m].h
      BY <3>1 DEF Renewed, Moves
    <3>3. g \in t.notes[m].h .. F[t.notes[m].account]
      BY <1>0, <3>2
    <3>4. \/ m \in DOMAIN t.spends /\ t.spends[m].h <= g
          \/ [account |-> t.notes[m].account, note |-> m, h |-> g] \in t.witnesses
      BY <3>3 DEF Witnessed
    <3>5. CASE m \in DOMAIN t.spends /\ t.spends[m].h <= g
      BY <3>1, <3>5 DEF Renewed, Moves
    <3>6. ASSUME NEW w \in t.witnesses, w = [account |-> t.notes[m].account, note |-> m, h |-> g]
          PROVE  [account |-> a, note |-> n, h |-> g] \in u.witnesses
      <4>1. w.note = m /\ w.h = g
        BY <3>6
      <4> QED BY <3>1, <4>1 DEF Renewed
    <3> QED BY <3>2, <3>4, <3>5, <3>6
  <2> QED BY <2>1, <2>2
<1>2. ASSUME NEW v \in u.witnesses PROVE v.h <= G[v.account]
  <2>1. CASE v \in s.witnesses
    BY <1>0, <2>1 DEF Witnessed
  <2>2. CASE v \notin s.witnesses
    BY <1>0, <2>2 DEF Witnessed, Renewed
  <2> QED BY <2>1, <2>2
<1> QED BY <1>1, <1>2 DEF Witnessed

-----------------------------------------------------------------------------
(* An import renews the rows of the file.                                  *)
LEMMA JoinedMoves ==
    ASSUME NEW old, NEW new, NEW rows, NEW to, NEW a, NEW t,
           Joined(old, new, MovedRows(rows, a, t), to),
           \A x \in DOMAIN rows : to[x] \notin DOMAIN old,
           \A x \in DOMAIN rows : {"account", "tx", "h"} \subseteq DOMAIN rows[x]
    PROVE  /\ Moves(old, rows, new, to, a, NewTx(t))
           /\ \A x \in DOMAIN rows : DOMAIN rows[x] = {"account", "tx", "h", "locked"}
                => new[to[x]].locked = rows[x].locked
<1>1. DOMAIN MovedRows(rows, a, t) = DOMAIN rows
  BY DEF MovedRows
<1>2. /\ DOMAIN new = DOMAIN old \union {to[r] : r \in DOMAIN rows}
      /\ \A x \in DOMAIN old : new[x] = old[x]
      /\ \A r \in DOMAIN rows : new[to[r]] = MovedRows(rows, a, t)[r]
  BY <1>1 DEF Joined
<1>3. ASSUME NEW x \in DOMAIN rows
      PROVE  /\ new[to[x]].account = a /\ new[to[x]].tx = NewTx(t)[rows[x].tx]
             /\ new[to[x]].h = rows[x].h
             /\ DOMAIN rows[x] = {"account", "tx", "h", "locked"} => new[to[x]].locked = rows[x].locked
  <2> DEFINE y == NewTx(t)[rows[x].tx]
             r == rows[x]
  <2>1. new[to[x]] = [r EXCEPT !.account = a, !.tx = y]
    BY <1>2 DEF MovedRows
  <2>2. {"account", "tx", "h"} \subseteq DOMAIN r
    OBVIOUS
  <2> HIDE DEF y, r
  <2>3. new[to[x]].account = a /\ new[to[x]].tx = y /\ new[to[x]].h = r.h
        /\ (DOMAIN r = {"account", "tx", "h", "locked"} => new[to[x]].locked = r.locked)
    BY <2>1, <2>2
  <2> QED BY <2>3 DEF y, r
<1> QED BY <1>2, <1>3 DEF Moves

LEMMA ImportRenews ==
    ASSUME TypedRows(db), NEW t, TypedRows(t), Referring(t), SpendsOfNotes(t), MemosOfRows(t),
           NEW a, NEW u, HasImport(u, t, a), \A n \in DOMAIN t.notes : NewNote(t)[n] \notin DOMAIN db.spends
    PROVE  Renewed(db, t, u, a, NewTx(t), NewNote(t), NewOutput(t))
<1> DEFINE tx == NewTx(t)
           note == NewNote(t)
           out == NewOutput(t)
<1>1. /\ \A i \in DOMAIN t.txs : tx[i] \notin DOMAIN db.txs
      /\ \A n \in DOMAIN t.notes : note[n] \notin DOMAIN db.notes
      /\ \A o \in DOMAIN t.outputs : out[o] \notin DOMAIN db.outputs
      /\ \A n \in DOMAIN t.spends : note[n] \notin DOMAIN db.spends
  BY NewIds DEF SpendsOfNotes
<1>2. /\ \A i \in DOMAIN db.txs : i \in DOMAIN u.txs /\ u.txs[i] = db.txs[i]
      /\ \A i \in DOMAIN t.txs :
          /\ tx[i] \in DOMAIN u.txs
          /\ u.txs[tx[i]].account = a /\ u.txs[tx[i]].h = t.txs[i].h
          /\ u.txs[tx[i]].details = t.txs[i].details /\ u.txs[tx[i]].category = t.txs[i].category
      /\ \A i \in DOMAIN u.txs : i \in DOMAIN db.txs \/ \E j \in DOMAIN t.txs : i = tx[j]
  <2>1. DOMAIN MovedTxs(t, a) = DOMAIN t.txs
    BY DEF MovedTxs
  <2>2. /\ DOMAIN u.txs = DOMAIN db.txs \union {tx[r] : r \in DOMAIN t.txs}
        /\ \A x \in DOMAIN db.txs : u.txs[x] = db.txs[x]
        /\ \A r \in DOMAIN t.txs : u.txs[tx[r]] = MovedTxs(t, a)[r]
    BY <2>1 DEF HasImport, Joined
  <2>3. \A r \in DOMAIN t.txs : u.txs[tx[r]] = [t.txs[r] EXCEPT !.account = a] /\ t.txs[r] \in TxRow
    BY <2>2, RowsAre DEF MovedTxs
  <2> HIDE DEF tx
  <2> QED BY <2>2, <2>3 DEF TxRow
<1>3. /\ Moves(db.notes, t.notes, u.notes, note, a, tx)
      /\ \A n \in DOMAIN t.notes : u.notes[note[n]].locked = t.notes[n].locked
  <2>1. \A x \in DOMAIN t.notes : DOMAIN t.notes[x] = {"account", "tx", "h", "locked"}
    BY RowsAre DEF NoteRow
  <2>2. Joined(db.notes, u.notes, MovedRows(t.notes, a, t), note)
    BY DEF HasImport
  <2>3. \A x \in DOMAIN t.notes : {"account", "tx", "h"} \subseteq DOMAIN t.notes[x]
    BY <2>1
  <2> DEFINE old == db.notes
             rows == t.notes
             new == u.notes
  <2>4. /\ Joined(old, new, MovedRows(rows, a, t), note)
        /\ \A x \in DOMAIN rows : note[x] \notin DOMAIN old
        /\ \A x \in DOMAIN rows : {"account", "tx", "h"} \subseteq DOMAIN rows[x]
    BY <1>1, <2>2, <2>3
  <2> HIDE DEF note, old, rows, new
  <2>5. Moves(old, rows, new, note, a, NewTx(t))
    BY <2>4, JoinedMoves
  <2>6. \A x \in DOMAIN rows : DOMAIN rows[x] = {"account", "tx", "h", "locked"}
            => new[note[x]].locked = rows[x].locked
    BY <2>4, JoinedMoves
  <2> QED BY <2>1, <2>5, <2>6 DEF old, rows, new
<1>4. Moves(db.outputs, t.outputs, u.outputs, out, a, tx)
  <2>1. \A x \in DOMAIN t.outputs : DOMAIN t.outputs[x] = {"account", "tx", "h"}
    BY RowsAre DEF Row
  <2>2. Joined(db.outputs, u.outputs, MovedRows(t.outputs, a, t), out)
    BY DEF HasImport
  <2> HIDE DEF out
  <2> QED BY <1>1, <2>1, <2>2, JoinedMoves
<1>5. Moves(db.spends, t.spends, u.spends, note, a, tx)
  <2>1. \A x \in DOMAIN t.spends : DOMAIN t.spends[x] = {"account", "tx", "h"}
    BY RowsAre DEF Row
  <2>2. Joined(db.spends, u.spends, MovedRows(t.spends, a, t), note)
    BY DEF HasImport
  <2> HIDE DEF note
  <2> QED BY <1>1, <2>1, <2>2, JoinedMoves
<1>6. ASSUME NEW m \in t.memos PROVE Became(MovedMemo(m, a, t), m, a, tx, note, out)
  <2>1. m.of \in {"note", "output"} /\ Refers(t, m)
    BY RowsAre DEF Referring
  <2>2. RowOf(t, m).tx = m.tx /\ RowOf(t, m).h = m.h
    <3>1. CASE m.of = "note"
      <4>1. m.row \in DOMAIN t.notes /\ t.notes[m.row].tx = m.tx
        BY <3>1 DEF MemosOfRows
      <4>2. Refers(t, t.notes[m.row])
        BY <4>1 DEF Referring
      <4> QED BY <2>1, <3>1, <4>1, <4>2 DEF RowOf, Refers
    <3>2. CASE m.of = "output"
      <4>1. m.row \in DOMAIN t.outputs /\ t.outputs[m.row].tx = m.tx
        BY <3>2 DEF MemosOfRows
      <4>2. Refers(t, t.outputs[m.row])
        BY <4>1 DEF Referring
      <4> QED BY <2>1, <3>2, <4>1, <4>2 DEF RowOf, Refers
    <3> QED BY <2>1, <3>1, <3>2
  <2> QED BY <2>2 DEF Became, MovedMemo
<1>7. /\ \A m \in db.memos : m \in u.memos
      /\ \A m \in t.memos : MovedMemo(m, a, t) \in u.memos
      /\ \A k \in u.memos : k \in db.memos \/ \E m \in t.memos : k = MovedMemo(m, a, t)
  BY DEF HasImport
<1>8. /\ \A w \in db.witnesses : w \in u.witnesses
      /\ \A w \in t.witnesses : [account |-> a, note |-> note[w.note], h |-> w.h] \in u.witnesses
      /\ \A v \in u.witnesses :
          \/ v \in db.witnesses
          \/ \E w \in t.witnesses : v.account = a /\ v.note = note[w.note] /\ v.h = w.h
  BY DEF HasImport
<1>9. /\ \A m \in t.memos : \E k \in u.memos : Became(k, m, a, tx, note, out)
      /\ \A k \in u.memos : k \in db.memos \/ \E m \in t.memos : Became(k, m, a, tx, note, out)
  BY <1>6, <1>7
<1> HIDE DEF tx, note, out
<1>10. Renewed(db, t, u, a, tx, note, out)
  BY <1>1, <1>2, <1>3, <1>4, <1>5, <1>7, <1>8, <1>9 DEF Renewed
<1> QED BY <1>10 DEF tx, note, out

-----------------------------------------------------------------------------
(* The rows of another account stay as they are when a file is imported.   *)
LEMMA RenewedKept ==
    ASSUME NEW s, NEW t, NEW u, NEW a, NEW tx, NEW note, NEW out,
           Renewed(s, t, u, a, tx, note, out), Referring(t), NEW b, b # a
    PROVE  KeptFor(s, u, b) /\ NoneNewFor(s, u, b)
<1>1. KeptFor(s, u, b)
  BY DEF Renewed, Moves, KeptFor
<1>2. NoneNewFor(s, u, b)
  BY DEF Renewed, Moves, NoneNewFor
<1> QED BY <1>1, <1>2

LEMMA ImportSound ==
    ASSUME WalletInv, RowsTyped, RowsTyped', RowsSound, RunSound, JobSound, ExportSound, FileSound,
           Import
    PROVE  RowsSound' /\ RunSound' /\ JobSound' /\ ExportSound' /\ FileSound'
<1> DEFINE t == file.tables
           c == file.account
<1>1. PICK a \in NextId(accounts) :
        /\ c # 0
        /\ UNCHANGED <<pending, run, job, export, file>>
        /\ \/ /\ ~RefersToNoNote(t) /\ ~Collides(t, a)
              /\ ImportAccountRow(a, file.row, file.folder, file.addresses)
              /\ db' = Imported(t, a, file.height)
           \/ UNCHANGED <<accountVars, db>>
  BY DEF Import
<1>2. CASE UNCHANGED <<accountVars, db>>
  <2>1. db' = db /\ \A b \in ids : b \in ids' /\ accounts'[b].key = accounts[b].key
    BY <1>2 DEF accountVars, ids
  <2> QED BY <1>1, <2>1, SameStep DEF StillOpen
<1>3. ASSUME ~RefersToNoNote(t), ~Collides(t, a),
             ImportAccountRow(a, file.row, file.folder, file.addresses),
             db' = Imported(t, a, file.height)
      PROVE  RowsSound' /\ RunSound' /\ JobSound' /\ ExportSound' /\ FileSound'
  <2>1. TypedRows(db) /\ TypedRows(t) /\ Closed(t) /\ file.height \in 0 .. Top
        /\ DOMAIN db.heights = ids /\ \A b \in ids : db.heights[b] \in Nat
    BY WalletAssumption DEF RowsTyped, DbOK, FileOK
  <2>2. /\ HasImport(db', t, a) /\ db'.heights = With(db.heights, a, file.height)
    BY <1>3, <2>1, ImportTables
  <2>3. file.row \in Account
    BY <1>1 DEF WalletInv, FilesImportable, Importable
  <2>4. /\ a \notin ids /\ ids' = ids \union {a} /\ accounts'[a].key = file.row.key
        /\ \A b \in ids : accounts'[b].key = accounts[b].key
    BY <1>3, <2>3, ImportedAccount
  <2> DEFINE u == db'
             K == Owners
             M == Owners'
             H == db.heights
             G == db'.heights
             L == [b \in {c} |-> file.row.key]
             F == [b \in {c} |-> file.height]
             tx == NewTx(t)
             note == NewNote(t)
             out == NewOutput(t)
  <2>5. DOMAIN L = {c} /\ L[c] = file.row.key /\ F[c] = file.height /\ Sound(t, L) /\ Witnessed(t, F)
    BY <1>1 DEF FileSound
  <2>6. Renewed(db, t, u, a, tx, note, out)
    <3>1. \A n \in DOMAIN t.notes : note[n] \notin DOMAIN db.spends
      BY <1>3 DEF Collides
    <3>2. Referring(t) /\ SpendsOfNotes(t) /\ MemosOfRows(t)
      BY <2>5 DEF Sound
    <3> HIDE DEF t
    <3> QED BY <2>1, <2>2, <3>1, <3>2, ImportRenews
  <2>7. /\ a \notin DOMAIN K /\ a \in DOMAIN M /\ M[a] = L[c]
        /\ \A b \in DOMAIN K : b \in DOMAIN M /\ M[b] = K[b]
    BY <2>4, <2>5 DEF Owners
  <2>8. /\ G[a] = F[c] /\ \A b \in DOMAIN K : G[b] = H[b]
    BY <2>1, <2>2, <2>4, <2>5 DEF Owners, With
  <2>9. Sound(db, K) /\ Witnessed(db, H)
    BY DEF RowsSound
  <2>10. Sound(u, M) /\ Witnessed(u, G)
    <3> HIDE DEF u, K, M, H, G, L, F, tx, note, out, c, t
    <3>1. Sound(u, M)
      BY <2>1, <2>5, <2>6, <2>7, <2>9, RenewedSound
    <3>2. Witnessed(u, G)
      <4> DEFINE s == db
      <4>1. /\ Sound(s, K) /\ Witnessed(s, H) /\ DOMAIN L = {c} /\ Sound(t, L) /\ Witnessed(t, F)
            /\ Renewed(s, t, u, a, tx, note, out) /\ G[a] = F[c] /\ \A b \in DOMAIN K : G[b] = H[b]
        BY <2>5, <2>6, <2>8, <2>9
      <4> HIDE DEF s
      <4> QED BY <4>1, RenewedWitnessed
    <3> QED BY <3>1, <3>2
  <2>11. RowsSound'
    BY <2>10 DEF RowsSound
  <2>12. \A b : b # a => KeptFor(db, db', b) /\ NoneNewFor(db, db', b)
    BY <2>5, <2>6, RenewedKept DEF Sound
  <2>13. \A b : KeepsKey(b)
    BY <2>4 DEF KeepsKey
  <2>14. \A b \in ids : b # a /\ db'.heights[b] = db.heights[b]
    BY <2>4, <2>8 DEF Owners
  <2>15. run.account # 0 => run.account \in ids
    BY DEF RunSound
  <2> HIDE DEF KeepsKey, t
  <2>16. RunSound'
    BY <1>1, <2>12, <2>13, <2>14, <2>15, RunKept
  <2>17. JobSound'
    <3>1. CASE job.account # a
      BY <1>1, <2>12, <2>13, <3>1, JobKept
    <3>2. CASE job.account = a
      <4>1. \A i \in DOMAIN db.txs : db.txs[i].account # a
        BY <2>4, RowOwners DEF RowsSound
      <4>2. /\ \A x \in job.todo : FALSE
            /\ job.found = 0 /\ job.listed = 0
        BY <3>2, <4>1 DEF JobSound, Listed
      <4> QED BY <1>1, <4>2 DEF JobSound
    <3> QED BY <3>1, <3>2
  <2>18. ExportSound'
    <3>1. export.account # 0 => export.account \in ids
      BY DEF ExportSound
    <3>2. export.account # 0 =>
              /\ KeptFor(db, db', export.account)
              /\ db'.heights[export.account] \in Int
              /\ db.heights[export.account] <= db'.heights[export.account]
              /\ \A w \in db'.witnesses :
                  w.account = export.account /\ w.h <= db.heights[export.account] => w \in db.witnesses
      BY <2>1, <2>12, <2>14, <3>1 DEF NoneNewFor
    <3>3. \A w \in db'.witnesses : w.h \in Nat
      BY <2>10 DEF Sound, WitnessesOfNotes
    <3> QED BY <1>1, <2>13, <3>2, <3>3, ExportKept DEF RowsTyped
  <2>19. FileSound'
    BY <1>1, FileKept
  <2> QED BY <2>11, <2>16, <2>17, <2>18, <2>19
<1> QED BY <1>1, <1>2, <1>3

-----------------------------------------------------------------------------
(* Every step keeps the rows sound, until one overtakes another.           *)
LEMMA InitSound == Init => SoundInv
<1> SUFFICES ASSUME Init PROVE SoundInv
  OBVIOUS
<1>1. /\ DOMAIN db.txs = {} /\ DOMAIN db.notes = {} /\ DOMAIN db.spends = {} /\ DOMAIN db.outputs = {}
      /\ db.memos = {} /\ db.witnesses = {}
  BY DEF Init, NoTables, Nothing
<1>2. Sound(db, Owners)
  BY <1>1 DEF Sound, OwnTxs, OneTx, Referring, SpendsOfNotes, WitnessesOfNotes, MemosOfRows,
              NotesPresent, Complete
<1>3. Witnessed(db, db.heights)
  BY <1>1 DEF Witnessed
<1>4. RunSound /\ JobSound /\ ExportSound /\ FileSound
  BY DEF Init, RunSound, JobSound, ExportSound, FileSound, NoRun, NoJob, NoFile
<1> QED BY <1>2, <1>3, <1>4 DEF SoundInv, RowsSound

EachSound == RowsSound /\ RunSound /\ JobSound /\ ExportSound /\ FileSound

LEMMA WorkSound ==
    ASSUME WalletInv, RowsTyped, RowsTyped', RowsSound, RunSound, JobSound, ExportSound, FileSound,
           Work, overtaken' = {}, UNCHANGED accountVars
    PROVE  RowsSound' /\ RunSound' /\ JobSound' /\ ExportSound' /\ FileSound'
<1> DEFINE Starts  == \E a \in ids : StartRun(a)
           Rewinds == \E a \in ids : \E h \in 0 .. db.heights[a] : Rewind(a, h)
           Lists   == \E a \in ids : ListDetails(a)
           Looks   == \E x \in job.todo : LookUp(x)
           Notes   == \E i \in DOMAIN db.txs : SetUserMemo(i)
           Sorts   == \E i \in DOMAIN db.txs, c \in Categories : SetCategory(i, c)
           Locks   == \E n \in DOMAIN db.notes : LockNote(n, ~db.notes[n].locked)
           Pays    == \E a \in ids, h \in 1 .. Top, c \in Categories : StorePending(a, h, c)
           Exports == \E a \in ids : ExportBegin(a)
<1>1. Starts => EachSound'
  BY StartRunSound DEF EachSound
<1>2. ScanBlock => EachSound'
  BY ScanSound DEF EachSound
<1>3. LoseRun \/ EndRun => EachSound'
  BY LoseRunSound, EndRunSound DEF EachSound
<1>4. Rewinds => EachSound'
  BY RewindSound DEF EachSound
<1>5. Lists \/ Looks => EachSound'
  BY ListSound DEF EachSound
<1>6. StoreDetails \/ MarkDetails => EachSound'
  BY StoreSound, MarkSound DEF EachSound
<1>7. Notes => EachSound'
  BY UserSound DEF EachSound
<1>8. Sorts => EachSound'
  BY UserSound DEF EachSound
<1>9. Locks => EachSound'
  BY UserSound DEF EachSound
<1>10. Pays => EachSound'
  <2> SUFFICES ASSUME NEW a \in ids, NEW h \in 1 .. Top, NEW c \in Categories, StorePending(a, h, c)
               PROVE  EachSound'
    OBVIOUS
  <2>1. UNCHANGED <<db, run, job, export, file>> /\ \A b \in ids :
            b \in ids' /\ accounts'[b].key = accounts[b].key
    BY DEF StorePending, accountVars, ids
  <2> QED BY <2>1, SameStep DEF StillOpen, EachSound
<1>11. Exports => EachSound'
  BY ExportBeginSound DEF EachSound
<1>12. ExportEnd => EachSound'
  BY ExportEndSound DEF EachSound
<1>13. \/ Starts \/ ScanBlock \/ LoseRun \/ EndRun \/ Rewinds \/ Lists \/ Looks
       \/ StoreDetails \/ MarkDetails \/ Notes \/ Sorts \/ Locks \/ Pays \/ Exports \/ ExportEnd
  BY DEF Work
<1> HIDE DEF Starts, Rewinds, Lists, Looks, Notes, Sorts, Locks, Pays, Exports
<1> QED BY <1>1, <1>2, <1>3, <1>4, <1>5, <1>6, <1>7, <1>8, <1>9, <1>10, <1>11, <1>12, <1>13
           DEF EachSound

LEMMA NextSound ==
    WalletInv /\ RowsTyped /\ RowsTyped' /\ SoundInv /\ [Next]_vars => SoundInv'
<1> SUFFICES ASSUME WalletInv, RowsTyped, RowsTyped', SoundInv, [Next]_vars, overtaken' = {}
             PROVE  RowsSound' /\ RunSound' /\ JobSound' /\ ExportSound' /\ FileSound'
  BY DEF SoundInv
<1>0. RowsSound /\ RunSound /\ JobSound /\ ExportSound /\ FileSound
  BY OvertakenStays DEF SoundInv
<1>1. ASSUME NEW k \in Keys, NewAccount(k), CreateRows(ids') PROVE EachSound'
  BY <1>0, <1>1, NewSound DEF EachSound
<1>2. ASSUME NEW a \in ids, DeleteAccount(a), DeleteRows(a) PROVE EachSound'
  BY <1>0, <1>2, DeleteSound DEF EachSound
<1>3. ASSUME Import
      PROVE EachSound'
  BY <1>0, <1>3, ImportSound DEF EachSound
<1>4. ASSUME UNCHANGED rowVars, \A b \in ids : b \in ids' /\ accounts'[b].key = accounts[b].key
      PROVE  EachSound'
  <2>1. UNCHANGED <<db, run, job, export, file>>
    BY <1>4 DEF rowVars
  <2> QED BY <1>0, <1>4, <2>1, SameStep DEF StillOpen, EachSound
<1>5. ASSUME Arrange /\ UNCHANGED rowVars
      PROVE EachSound'
  BY <1>4, <1>5, ArrangeKeepsKeys
<1>6. ASSUME Work /\ UNCHANGED accountVars
      PROVE EachSound'
  BY <1>0, <1>6, WorkSound DEF EachSound
<1>7. ASSUME UNCHANGED vars
      PROVE EachSound'
  BY <1>4, <1>7 DEF vars, accountVars, rowVars, ids
<1>8. EachSound'
  BY <1>1, <1>2, <1>3, <1>5, <1>6, <1>7 DEF Next
<1> QED BY <1>8 DEF EachSound

LEMMA SoundAlways == Spec => [](WalletInv /\ RowsTyped /\ SoundInv)
<1>1. Init => SoundInv
  BY InitSound
<1>2. (WalletInv /\ RowsTyped) /\ (WalletInv /\ RowsTyped)' /\ SoundInv /\ [Next]_vars => SoundInv'
  BY NextSound
<1> QED BY <1>1, <1>2, WalletAlways, PTL DEF Spec

-----------------------------------------------------------------------------
(* Rows of accounts that were not overtaken *)

(* Once an account was overtaken the rest of SoundInv is lost, for the run *)
(* or the fetch goes on with rows of other accounts in its way.  What is   *)
(* left says of each account that was not overtaken that its rows are of   *)
(* its key and refer to each other, and that all of its transactions up to *)
(* its height are there.  O are the accounts that were overtaken.          *)
Touched(k) == Involved[k].notes \union DOMAIN Involved[k].spends

OwnTx(t, K, i) == t.txs[i].account \in DOMAIN K /\ t.txs[i].h \in Touched(K[t.txs[i].account])
SpendOfNote(t, n) ==
    /\ n \in DOMAIN t.notes /\ t.notes[n].account = t.spends[n].account
    /\ t.notes[n].h < t.spends[n].h
WitnessOfNote(t, w) ==
    /\ w.note \in DOMAIN t.notes /\ t.notes[w.note].account = w.account
    /\ w.h \in Nat /\ t.notes[w.note].h <= w.h

OwnRows(t, K, O) ==
    /\ \A i \in DOMAIN t.txs : t.txs[i].account \in O \/ OwnTx(t, K, i)
    /\ \A n \in DOMAIN t.notes : t.notes[n].account \in O \/ Refers(t, t.notes[n])
    /\ \A n \in DOMAIN t.spends :
        t.spends[n].account \in O \/ (Refers(t, t.spends[n]) /\ SpendOfNote(t, n))
    /\ \A o \in DOMAIN t.outputs : t.outputs[o].account \in O \/ Refers(t, t.outputs[o])
    /\ \A m \in t.memos : m.account \in O \/ Refers(t, m)
    /\ \A w \in t.witnesses : w.account \in O \/ WitnessOfNote(t, w)

(* The transactions of the accounts, up to their heights H, are there.     *)
Present(t, K, H, O) ==
    \A b \in DOMAIN K \ O : \A h \in Touched(K[b]) :
        h <= H[b] => \E i \in DOMAIN t.txs : t.txs[i].account = b /\ t.txs[i].h = h

(* A run knows the key and the height of its account, and the row that was *)
(* looked up is of the account whose details are fetched.                  *)
RunOwn ==
    run.account # 0 =>
        /\ run.key \in Keys /\ \A g \in run.tracked : g \in Nat /\ g <= run.at
        /\ \/ run.account \in overtaken
           \/ /\ run.account \in ids /\ run.key = accounts[run.account].key
              /\ run.at = db.heights[run.account]
JobOwn == job.found # 0 /\ job.account \notin overtaken => Listed(db, job.found, job.h)

(* The import of a file brings all transactions up to its height.          *)
FilePresent ==
    overtaken = {} /\ file.account # 0 =>
        Present(file.tables, [b \in {file.account} |-> file.row.key],
                [b \in {file.account} |-> file.height], {})

OwnInv ==
    /\ OwnRows(db, Owners, overtaken) /\ Present(db, Owners, db.heights, overtaken)
    /\ RunOwn /\ JobOwn /\ FilePresent

(* Sound rows are own rows.                                                *)
LEMMA SoundOwn ==
    ASSUME NEW t, NEW K, Sound(t, K), NEW O
    PROVE  OwnRows(t, K, O)
<1>1. \A i \in DOMAIN t.txs : OwnTx(t, K, i)
  BY DEF Sound, OwnTxs, OwnTx, InvolvedIn, Touched
<1>2. \A n \in DOMAIN t.spends : SpendOfNote(t, n)
  BY DEF Sound, SpendsOfNotes, SpendOfNote
<1>3. \A w \in t.witnesses : WitnessOfNote(t, w)
  BY DEF Sound, WitnessesOfNotes, WitnessOfNote
<1>4. Referring(t)
  BY DEF Sound
<1> QED BY <1>1, <1>2, <1>3, <1>4 DEF OwnRows, Referring

(* Tables that keep their transactions and notes, and get rows of accounts *)
(* that were overtaken, or good ones.                                      *)
TxsStay(t, u) ==
    \A i \in DOMAIN t.txs :
        i \in DOMAIN u.txs /\ u.txs[i].account = t.txs[i].account /\ u.txs[i].h = t.txs[i].h
NotesStay(t, u) ==
    \A n \in DOMAIN t.notes :
        /\ n \in DOMAIN u.notes /\ u.notes[n].account = t.notes[n].account
        /\ u.notes[n].tx = t.notes[n].tx /\ u.notes[n].h = t.notes[n].h
NewRowsOwn(t, u, L, P) ==
    /\ \A i \in DOMAIN u.txs : i \in DOMAIN t.txs \/ u.txs[i].account \in P \/ OwnTx(u, L, i)
    /\ \A n \in DOMAIN u.notes :
        n \in DOMAIN t.notes \/ u.notes[n].account \in P \/ Refers(u, u.notes[n])
    /\ \A n \in DOMAIN u.spends :
        \/ n \in DOMAIN t.spends /\ u.spends[n] = t.spends[n]
        \/ u.spends[n].account \in P
        \/ Refers(u, u.spends[n]) /\ SpendOfNote(u, n)
    /\ \A o \in DOMAIN u.outputs :
        \/ o \in DOMAIN t.outputs /\ u.outputs[o] = t.outputs[o]
        \/ u.outputs[o].account \in P
        \/ Refers(u, u.outputs[o])
    /\ \A m \in u.memos : m \in t.memos \/ m.account \in P \/ Refers(u, m)
    /\ \A w \in u.witnesses : w \in t.witnesses \/ w.account \in P \/ WitnessOfNote(u, w)
SameKeys(t, K, L) ==
    \A i \in DOMAIN t.txs : t.txs[i].account \in DOMAIN K =>
        t.txs[i].account \in DOMAIN L /\ L[t.txs[i].account] = K[t.txs[i].account]

LEMMA OwnGrow ==
    ASSUME NEW t, NEW K, NEW O, OwnRows(t, K, O), NEW u, NEW L, NEW P, O \subseteq P,
           TxsStay(t, u), NotesStay(t, u), NewRowsOwn(t, u, L, P), SameKeys(t, K, L)
    PROVE  OwnRows(u, L, P)
<1>1. \A x : Refers(t, x) => Refers(u, x)
  BY DEF Refers, TxsStay
<1>2. \A i \in DOMAIN u.txs : u.txs[i].account \in P \/ OwnTx(u, L, i)
  <2> SUFFICES ASSUME NEW i \in DOMAIN u.txs, u.txs[i].account \notin P, i \in DOMAIN t.txs
               PROVE  OwnTx(u, L, i)
    BY DEF NewRowsOwn
  <2>1. t.txs[i].account \notin O /\ u.txs[i].account = t.txs[i].account /\ u.txs[i].h = t.txs[i].h
    BY DEF TxsStay
  <2>2. OwnTx(t, K, i)
    BY <2>1 DEF OwnRows
  <2> QED BY <2>1, <2>2 DEF OwnTx, SameKeys
<1>3. \A n \in DOMAIN u.notes : u.notes[n].account \in P \/ Refers(u, u.notes[n])
  <2> SUFFICES ASSUME NEW n \in DOMAIN u.notes, u.notes[n].account \notin P, n \in DOMAIN t.notes
               PROVE  Refers(u, u.notes[n])
    BY DEF NewRowsOwn
  <2>1. /\ u.notes[n].account = t.notes[n].account /\ u.notes[n].h = t.notes[n].h
        /\ u.notes[n].tx = t.notes[n].tx /\ t.notes[n].account \notin O
    BY DEF NotesStay
  <2>2. Refers(u, t.notes[n])
    BY <1>1, <2>1 DEF OwnRows
  <2> QED BY <2>1, <2>2 DEF Refers
<1>4. \A n \in DOMAIN u.spends :
         u.spends[n].account \in P \/ (Refers(u, u.spends[n]) /\ SpendOfNote(u, n))
  <2> SUFFICES ASSUME NEW n \in DOMAIN u.spends, u.spends[n].account \notin P,
                      n \in DOMAIN t.spends, u.spends[n] = t.spends[n]
               PROVE  Refers(u, u.spends[n]) /\ SpendOfNote(u, n)
    BY DEF NewRowsOwn
  <2>1. Refers(t, t.spends[n]) /\ SpendOfNote(t, n)
    BY DEF OwnRows
  <2>2. SpendOfNote(u, n)
    BY <2>1 DEF SpendOfNote, NotesStay
  <2> QED BY <1>1, <2>1, <2>2
<1>5. /\ \A o \in DOMAIN u.outputs : u.outputs[o].account \in P \/ Refers(u, u.outputs[o])
      /\ \A m \in u.memos : m.account \in P \/ Refers(u, m)
  BY <1>1 DEF NewRowsOwn, OwnRows
<1>6. \A w \in u.witnesses : w.account \in P \/ WitnessOfNote(u, w)
  <2> SUFFICES ASSUME NEW w \in t.witnesses, w.account \notin P PROVE WitnessOfNote(u, w)
    BY DEF NewRowsOwn
  <2>1. WitnessOfNote(t, w)
    BY DEF OwnRows
  <2> QED BY <2>1 DEF WitnessOfNote, NotesStay
<1> QED BY <1>2, <1>3, <1>4, <1>5, <1>6 DEF OwnRows

LEMMA OwnTrim ==
    ASSUME NEW t, NEW K, NEW O, TypedRows(t), OwnRows(t, K, O),
           NEW u, NEW a, NEW h \in Nat, RestOf(t, u, a, h)
    PROVE  OwnRows(u, K, O)
<1>1. ASSUME NEW x, Refers(t, x), ~Above(x, a, h) PROVE Refers(u, x)
  BY <1>1, TrimTogether DEF Refers, Above
<1>2. \A i \in DOMAIN u.txs : u.txs[i].account \in O \/ OwnTx(u, K, i)
  BY TrimTogether DEF OwnRows, OwnTx
<1>3. /\ \A n \in DOMAIN u.notes : u.notes[n].account \in O \/ Refers(u, u.notes[n])
      /\ \A o \in DOMAIN u.outputs : u.outputs[o].account \in O \/ Refers(u, u.outputs[o])
      /\ \A m \in u.memos : m.account \in O \/ Refers(u, m)
  BY <1>1, TrimTogether DEF OwnRows
<1>4. ASSUME NEW n \in DOMAIN u.spends, u.spends[n].account \notin O
      PROVE  Refers(u, u.spends[n]) /\ SpendOfNote(u, n)
  <2>1. n \in DOMAIN t.spends /\ u.spends[n] = t.spends[n] /\ ~Above(t.spends[n], a, h)
    BY TrimTogether
  <2>2. Refers(t, t.spends[n]) /\ SpendOfNote(t, n)
    BY <1>4, <2>1 DEF OwnRows
  <2>3. t.notes[n].h \in Nat /\ t.spends[n].h \in Nat
    BY <2>1, <2>2, RowsAre DEF SpendOfNote
  <2>4. ~Above(t.notes[n], a, h)
    BY <2>1, <2>2, <2>3 DEF Above, SpendOfNote
  <2>5. n \in DOMAIN u.notes /\ u.notes[n] = t.notes[n]
    BY <2>2, <2>4, TrimTogether DEF SpendOfNote
  <2> QED BY <1>1, <2>1, <2>2, <2>5 DEF SpendOfNote
<1>5. ASSUME NEW w \in u.witnesses, w.account \notin O PROVE WitnessOfNote(u, w)
  <2>1. w \in t.witnesses /\ ~Above(w, a, h)
    BY TrimTogether
  <2>2. WitnessOfNote(t, w)
    BY <1>5, <2>1 DEF OwnRows
  <2>3. t.notes[w.note].h \in Nat
    BY <2>2, RowsAre DEF WitnessOfNote
  <2>4. ~Above(t.notes[w.note], a, h)
    BY <2>1, <2>2, <2>3 DEF Above, WitnessOfNote
  <2>5. w.note \in DOMAIN u.notes /\ u.notes[w.note] = t.notes[w.note]
    BY <2>2, <2>4, TrimTogether DEF WitnessOfNote
  <2> QED BY <2>2, <2>5 DEF WitnessOfNote
<1> QED BY <1>2, <1>3, <1>4, <1>5 DEF OwnRows

(* Transactions that stay, for accounts whose height stays or that have    *)
(* none up to theirs.                                                      *)
LEMMA PresentStays ==
    ASSUME NEW t, NEW K, NEW H, NEW O, Present(t, K, H, O), NEW u, NEW L, NEW G, NEW P,
           O \subseteq P,
           \A b \in DOMAIN L \ P :
              \/ /\ b \in DOMAIN K /\ L[b] = K[b] /\ G[b] = H[b]
                 /\ \A i \in DOMAIN t.txs : t.txs[i].account = b /\ t.txs[i].h <= G[b] =>
                       i \in DOMAIN u.txs /\ u.txs[i].account = b /\ u.txs[i].h = t.txs[i].h
              \/ \A h \in Touched(L[b]) : ~(h <= G[b])
    PROVE  Present(u, L, G, P)
<1> SUFFICES ASSUME NEW b \in DOMAIN L \ P, NEW h \in Touched(L[b]), h <= G[b]
             PROVE  \E i \in DOMAIN u.txs : u.txs[i].account = b /\ u.txs[i].h = h
  BY DEF Present
<1>1. /\ b \in DOMAIN K \ O /\ h \in Touched(K[b]) /\ h <= H[b]
      /\ \A i \in DOMAIN t.txs : t.txs[i].account = b /\ t.txs[i].h <= G[b] =>
            i \in DOMAIN u.txs /\ u.txs[i].account = b /\ u.txs[i].h = t.txs[i].h
  OBVIOUS
<1>2. PICK i \in DOMAIN t.txs : t.txs[i].account = b /\ t.txs[i].h = h
  BY <1>1 DEF Present
<1> QED BY <1>1, <1>2

(* A run and a fetch that go on while accounts stay.                       *)
LEMMA RunOwnStays ==
    ASSUME RunOwn, run' = run \/ run' = NoRun, overtaken \subseteq overtaken',
           run.account \in ids \ overtaken' =>
              /\ run.account \in ids' /\ accounts'[run.account].key = accounts[run.account].key
              /\ db'.heights[run.account] = db.heights[run.account]
    PROVE  RunOwn'
BY DEF RunOwn, NoRun

LEMMA JobOwnStays ==
    ASSUME JobOwn, overtaken \subseteq overtaken',
           \/ job' = job
           \/ job'.found = 0,
           job.account \notin overtaken' => \A i \in DOMAIN db.txs : db.txs[i].account = job.account =>
              /\ i \in DOMAIN db'.txs /\ db'.txs[i].account = db.txs[i].account
              /\ db'.txs[i].h = db.txs[i].h
    PROVE  JobOwn'
BY DEF JobOwn, Listed

LEMMA FilePresentStays ==
    ASSUME FilePresent, file' = file, overtaken \subseteq overtaken'
    PROVE  FilePresent'
BY DEF FilePresent

(* The keys of accounts are keys, and theirs are heights of the chain.     *)
LEMMA KeysOfIds ==
    ASSUME WalletInv
    PROVE  /\ \A b \in DOMAIN Owners : Owners[b] \in Keys
           /\ \A k \in Keys : \A h \in Touched(k) : h \in 1 .. Top
<1>1. \A b \in DOMAIN Owners : Owners[b] \in Keys
  BY RowTypes DEF WalletInv, Arranged, Owners
<1> QED BY <1>1, WalletAssumption DEF Touched

(* Steps that leave rows as they are, or change what no other row refers   *)
(* to; accounts may be new, with nothing read.                             *)
LEMMA OwnAlike ==
    ASSUME WalletInv, WalletInv', RowsTyped, OwnInv, Alike(db, db'),
           run' = run \/ run' = NoRun, job' = job \/ job'.found = 0,
           file' = file \/ FilePresent', overtaken \subseteq overtaken',
           \A b \in ids : /\ b \in ids' /\ accounts'[b].key = accounts[b].key
                          /\ db'.heights[b] = db.heights[b],
           \A b \in ids' \ ids : db'.heights[b] = 0
    PROVE  OwnInv'
<1>1. TxsStay(db, db') /\ NotesStay(db, db')
  BY DEF Alike, TxsStay, NotesStay
<1>2. NewRowsOwn(db, db', Owners', overtaken')
  BY DEF Alike, NewRowsOwn
<1>3. SameKeys(db, Owners, Owners')
  BY DEF SameKeys, Owners
<1>4. OwnRows(db', Owners', overtaken')
  <2> DEFINE u == db'
             K == Owners
             L == Owners'
             P == overtaken'
  <2>1. /\ OwnRows(db, K, overtaken) /\ overtaken \subseteq P /\ TxsStay(db, u) /\ NotesStay(db, u)
        /\ NewRowsOwn(db, u, L, P) /\ SameKeys(db, K, L)
    BY <1>1, <1>2, <1>3 DEF OwnInv
  <2> HIDE DEF u, K, L, P
  <2>2. OwnRows(u, L, P)
    BY <2>1, OwnGrow
  <2> QED BY <2>2 DEF u, L, P
<1>5. Present(db', Owners', db'.heights, overtaken')
  <2> DEFINE u == db'
             K == Owners
             L == Owners'
             H == db.heights
             G == db'.heights
             P == overtaken'
  <2>1. ASSUME NEW b \in DOMAIN L, b \in ids
        PROVE  /\ b \in DOMAIN K /\ L[b] = K[b] /\ G[b] = H[b]
               /\ \A i \in DOMAIN db.txs : db.txs[i].account = b =>
                     i \in DOMAIN u.txs /\ u.txs[i].account = b /\ u.txs[i].h = db.txs[i].h
    BY <1>1, <2>1 DEF TxsStay, Owners
  <2>2. ASSUME NEW b \in DOMAIN L, b \notin ids
        PROVE  \A h \in Touched(L[b]) : ~(h <= G[b])
    <3>0. accounts'[b] \in Account /\ L[b] = accounts'[b].key
      BY DEF WalletInv, Arranged, AccountTypeOK, Owners
    <3>1. \A h \in Touched(L[b]) : h \in 1 .. Top
      BY <3>0, KeysOfIds DEF Account
    <3>2. G[b] = 0
      BY <2>2 DEF Owners
    <3> HIDE DEF L, G
    <3> QED BY <3>1, <3>2, WalletAssumption
  <2>3. Present(db, K, H, overtaken) /\ overtaken \subseteq P
    BY DEF OwnInv
  <2> HIDE DEF u, K, L, H, G, P
  <2>4. \A b \in DOMAIN L \ P :
              \/ /\ b \in DOMAIN K /\ L[b] = K[b] /\ G[b] = H[b]
                 /\ \A i \in DOMAIN db.txs : db.txs[i].account = b /\ db.txs[i].h <= G[b] =>
                       i \in DOMAIN u.txs /\ u.txs[i].account = b /\ u.txs[i].h = db.txs[i].h
              \/ \A h \in Touched(L[b]) : ~(h <= G[b])
    BY <2>1, <2>2
  <2>5. Present(u, L, G, P)
    BY <2>3, <2>4, PresentStays
  <2> QED BY <2>5 DEF u, L, G, P
<1>6. RunOwn'
  BY RunOwnStays DEF OwnInv
<1>7. JobOwn'
  BY <1>1, JobOwnStays DEF OwnInv, TxsStay
<1>8. FilePresent'
  BY FilePresentStays DEF OwnInv
<1> QED BY <1>4, <1>5, <1>6, <1>7, <1>8 DEF OwnInv

(* Trims of an account that no run is of.                                  *)
LEMMA OwnTrimStep ==
    ASSUME WalletInv, RowsTyped, OwnInv, NEW a \in ids, NEW h \in Nat, RestOf(db, db', a, h),
           db'.heights = [db.heights EXCEPT ![a] = h], h <= db.heights[a], UNCHANGED accountVars,
           overtaken \subseteq overtaken', db' = db \/ (a = job.account => a \in overtaken'),
           job' = job, file' = file
    PROVE  /\ OwnRows(db', Owners', overtaken') /\ Present(db', Owners', db'.heights, overtaken')
           /\ JobOwn' /\ FilePresent'
<1>1. TypedRows(db) /\ DOMAIN db.heights = ids /\ \A b \in ids : db.heights[b] \in Nat
  BY WalletAssumption DEF RowsTyped, DbOK
<1>2. Owners' = Owners /\ DOMAIN Owners = ids
  BY DEF Owners, accountVars, ids
<1> DEFINE u == db'
           K == Owners
           P == overtaken'
           H == db.heights
           G == db'.heights
<1>3. /\ OwnRows(db, K, overtaken) /\ Present(db, K, H, overtaken) /\ overtaken \subseteq P
      /\ RestOf(db, u, a, h) /\ DOMAIN K = ids
      /\ G[a] = h /\ h <= H[a] /\ H[a] \in Nat /\ \A b \in ids : b # a => G[b] = H[b]
  BY <1>1, <1>2 DEF OwnInv
<1> HIDE DEF u, K, H, G, P
<1>4. OwnRows(u, K, P)
  <2>1. OwnRows(u, K, overtaken)
    BY <1>1, <1>3, OwnTrim
  <2> QED BY <1>3, <2>1 DEF OwnRows
<1>5. Present(u, K, G, P)
  <2> SUFFICES ASSUME NEW b \in DOMAIN K \ P, NEW g \in Touched(K[b]), g <= G[b]
               PROVE  \E i \in DOMAIN u.txs : u.txs[i].account = b /\ u.txs[i].h = g
    BY DEF Present
  <2>1. g \in Nat => g <= H[b]
    BY <1>3
  <2>2. ASSUME NEW i \in DOMAIN db.txs, db.txs[i].account = b, db.txs[i].h = g
        PROVE  i \in DOMAIN u.txs /\ u.txs[i] = db.txs[i]
    <3>1. ~Above(db.txs[i], a, h)
      <4>1. db.txs[i].h \in Nat
        BY <1>1, RowsAre
      <4> QED BY <1>3, <2>2, <4>1 DEF Above
    <3> QED BY <1>3, <3>1, TrimTogether
  <2>3. CASE g \in Nat
    <3>1. \E i \in DOMAIN db.txs : db.txs[i].account = b /\ db.txs[i].h = g
      BY <1>3, <2>1, <2>3 DEF Present
    <3> QED BY <2>2, <3>1
  <2>4. g \in Nat
    BY KeysOfIds DEF K
  <2> QED BY <2>3, <2>4
<1>6. JobOwn'
  <2>1. ASSUME db' # db, job.account \notin overtaken', NEW i \in DOMAIN db.txs,
               db.txs[i].account = job.account
        PROVE  i \in DOMAIN db'.txs /\ db'.txs[i] = db.txs[i]
    <3>1. ~Above(db.txs[i], a, h)
      BY <2>1 DEF Above
    <3> QED BY <3>1, TrimTogether
  <2> QED BY <2>1, JobOwnStays DEF OwnInv
<1>7. FilePresent'
  BY FilePresentStays DEF OwnInv
<1> QED BY <1>2, <1>4, <1>5, <1>6, <1>7 DEF u, K, P, G

LEMMA StartRunOwn ==
    ASSUME WalletInv, RowsTyped, OwnInv, NEW a \in ids, StartRun(a), UNCHANGED accountVars,
           overtaken \subseteq overtaken'
    PROVE  OwnInv'
<1> DEFINE h == db.heights[a]
           kept == Trimmed(db, a, h)
           tracked == {kept.notes[n].h : n \in {m \in DOMAIN kept.notes :
                         kept.notes[m].account = a /\ m \notin DOMAIN kept.spends}}
<1>1. /\ db' = kept /\ job' = job /\ file' = file
      /\ run' = [account |-> a, key |-> accounts[a].key, at |-> h, tracked |-> tracked]
      /\ db' = db \/ (a = job.account => a \in overtaken')
  BY DEF StartRun, Overtaking
<1>2. h \in Nat /\ IsTables(db) /\ TypedRows(db) /\ DOMAIN db.heights = ids
  BY WalletAssumption DEF RowsTyped, DbOK, TypedRows
<1>3. RestOf(db, db', a, h) /\ db'.heights = [db.heights EXCEPT ![a] = h]
  BY <1>1, <1>2, TrimTables
<1>4. \A g \in tracked : g \in Nat /\ g <= h
  <2> SUFFICES ASSUME NEW n \in DOMAIN db'.notes, db'.notes[n].account = a
               PROVE  db'.notes[n].h \in Nat /\ db'.notes[n].h <= h
    BY <1>1
  <2>1. n \in DOMAIN db.notes /\ db'.notes[n] = db.notes[n] /\ ~Above(db.notes[n], a, h)
    BY <1>3, TrimTogether
  <2>2. db.notes[n].h \in Nat
    BY <1>2, <2>1, RowsAre
  <2> QED BY <1>2, <2>1, <2>2 DEF Above
<1> HIDE DEF kept, tracked, h
<1>5. h <= db.heights[a]
  BY <1>2 DEF h
<1>6. /\ OwnRows(db', Owners', overtaken') /\ Present(db', Owners', db'.heights, overtaken')
      /\ JobOwn' /\ FilePresent'
  BY <1>1, <1>2, <1>3, <1>5, OwnTrimStep
<1>7. RunOwn'
  <2>1. accounts[a].key \in Keys /\ a \in ids' /\ accounts'[a] = accounts[a] /\ db'.heights[a] = h
    BY <1>2, <1>3, RowTypes DEF WalletInv, Arranged, accountVars, ids
  <2>2. run'.account = a /\ run'.key = accounts[a].key /\ run'.at = h /\ run'.tracked = tracked
    BY <1>1
  <2> QED BY <1>4, <2>1, <2>2 DEF RunOwn
<1> QED BY <1>6, <1>7 DEF OwnInv

LEMMA RewindOwn ==
    ASSUME WalletInv, RowsTyped, OwnInv, NEW a \in ids, NEW h \in 0 .. db.heights[a], Rewind(a, h),
           UNCHANGED accountVars, overtaken \subseteq overtaken'
    PROVE  OwnInv'
<1>1. /\ db' = Trimmed(db, a, h) /\ UNCHANGED <<run, job, file>> /\ run.account # a
      /\ a = job.account => a \in overtaken'
  BY DEF Rewind, Overtaking
<1>2. /\ db.heights[a] \in Nat /\ h \in Nat /\ h <= db.heights[a]
      /\ IsTables(db) /\ TypedRows(db) /\ DOMAIN db.heights = ids
  BY WalletAssumption DEF RowsTyped, DbOK, TypedRows
<1>3. RestOf(db, db', a, h) /\ db'.heights = [db.heights EXCEPT ![a] = h]
  BY <1>1, <1>2, TrimTables
<1>4. /\ OwnRows(db', Owners', overtaken') /\ Present(db', Owners', db'.heights, overtaken')
      /\ JobOwn' /\ FilePresent'
  BY <1>1, <1>2, <1>3, OwnTrimStep
<1>5. RunOwn'
  <2>1. run.account \in ids => /\ run.account \in ids'
                               /\ accounts'[run.account].key = accounts[run.account].key
                               /\ db'.heights[run.account] = db.heights[run.account]
    BY <1>1, <1>2, <1>3 DEF accountVars, ids
  <2> QED BY <1>1, <2>1, RunOwnStays DEF OwnInv
<1> QED BY <1>4, <1>5 DEF OwnInv

LEMMA DeleteOwn ==
    ASSUME WalletInv, RowsTyped, OwnInv, NEW a \in ids, DeleteAccount(a), DeleteRows(a),
           overtaken \subseteq overtaken'
    PROVE  OwnInv'
<1> DEFINE s == TrimmedRows(db, a, 0)
           heights == Without(s.heights, {a})
<1>1. /\ db' = [s EXCEPT !.heights = heights] /\ UNCHANGED <<run, job, file>>
      /\ a \in {run.account, job.account} => a \in overtaken'
  BY DEF DeleteRows, Deleted, Overtaking
<1>2. TypedRows(db) /\ IsTables(db) /\ DOMAIN db.heights = ids
  BY DEF RowsTyped, DbOK, TypedRows
<1>3. RestOf(db, s, a, 0) /\ s.heights = db.heights
  BY <1>2, TrimRows
<1> HIDE DEF s
<1>4. DOMAIN heights = ids \ {a} /\ \A b \in ids \ {a} : heights[b] = db.heights[b]
  BY <1>2, <1>3 DEF Without
<1> HIDE DEF heights
<1>5. /\ IsTables(db') /\ db'.txs = s.txs /\ db'.notes = s.notes /\ db'.spends = s.spends
      /\ db'.outputs = s.outputs /\ db'.memos = s.memos /\ db'.witnesses = s.witnesses
      /\ db'.userMemos = s.userMemos /\ db'.heights = heights
  BY <1>1, <1>3, Columns DEF IsTables, RestOf
<1>6. RestOf(db, db', a, 0)
  BY <1>3, <1>5 DEF RestOf
<1>7. ids' = ids \ {a} /\ \A b \in ids' : accounts'[b] = accounts[b]
  BY DEF DeleteAccount, Without, ids
<1>8. ASSUME NEW i \in DOMAIN db.txs, db.txs[i].account # a
      PROVE  i \in DOMAIN db'.txs /\ db'.txs[i] = db.txs[i]
  <2>1. ~Above(db.txs[i], a, 0)
    BY <1>8 DEF Above
  <2> QED BY <1>6, <2>1, TrimTogether
<1>9. ASSUME NEW i \in DOMAIN db'.txs PROVE db'.txs[i].account # a
  <2>1. i \in DOMAIN db.txs /\ db'.txs[i] = db.txs[i] /\ ~Above(db.txs[i], a, 0)
    BY <1>6, TrimTogether
  <2>2. db.txs[i].h \in 1 .. Top
    BY <1>2, <2>1, RowsAre
  <2> QED BY <2>1, <2>2 DEF Above
<1> DEFINE u == db'
           K == Owners
           L == Owners'
           P == overtaken'
           H == db.heights
           G == db'.heights
<1>10. /\ OwnRows(db, K, overtaken) /\ Present(db, K, H, overtaken) /\ overtaken \subseteq P
       /\ RestOf(db, u, a, 0) /\ 0 \in Nat /\ SameKeys(u, K, L)
       /\ \A b \in DOMAIN L : b # a /\ b \in DOMAIN K /\ L[b] = K[b] /\ G[b] = H[b]
  BY <1>4, <1>5, <1>6, <1>7, <1>9 DEF OwnInv, SameKeys, Owners
<1>11. OwnRows(u, L, P)
  <2> HIDE DEF u, K, L, P, H, G
  <2>1. OwnRows(u, K, overtaken)
    BY <1>2, <1>10, OwnTrim
  <2>2. TxsStay(u, u) /\ NotesStay(u, u) /\ NewRowsOwn(u, u, L, P)
    BY DEF TxsStay, NotesStay, NewRowsOwn
  <2> QED BY <1>10, <2>1, <2>2, OwnGrow
<1>12. Present(u, L, G, P)
  <2>1. \A b \in DOMAIN L \ P :
             /\ b \in DOMAIN K /\ L[b] = K[b] /\ G[b] = H[b]
             /\ \A i \in DOMAIN db.txs : db.txs[i].account = b /\ db.txs[i].h <= G[b] =>
                   i \in DOMAIN u.txs /\ u.txs[i].account = b /\ u.txs[i].h = db.txs[i].h
    BY <1>8, <1>10
  <2> HIDE DEF u, K, L, P, H, G
  <2> QED BY <1>10, <2>1, PresentStays
<1>13. RunOwn'
  <2>1. run.account \in ids \ overtaken' => run.account # a
    BY <1>1
  <2> QED BY <1>1, <1>4, <1>5, <1>7, <2>1, RunOwnStays DEF OwnInv
<1>14. JobOwn'
  <2>1. job.account \notin overtaken' => job.account # a
    BY <1>1
  <2> QED BY <1>1, <1>8, <2>1, JobOwnStays DEF OwnInv
<1>15. FilePresent'
  BY <1>1, FilePresentStays DEF OwnInv
<1> QED BY <1>11, <1>12, <1>13, <1>14, <1>15 DEF OwnInv

(* The rows of a block, when there may be a transaction of its height.     *)
BlockOf(t, u, a, h, in, kept, i) ==
    /\ TxsStay(t, u) /\ NotesStay(t, u)
    /\ \A j \in DOMAIN u.txs :
        \/ j \in DOMAIN t.txs
        \/ Mine(in, h) /\ u.txs[j].account = a /\ u.txs[j].h = h
    /\ Mine(in, h) => i \in DOMAIN u.txs /\ u.txs[i].account = a /\ u.txs[i].h = h
    /\ \A m \in DOMAIN u.notes :
        \/ m \in DOMAIN t.notes
        \/ h \in in.notes /\ u.notes[m].account = a /\ u.notes[m].tx = i /\ u.notes[m].h = h
    /\ \A m \in DOMAIN u.spends :
        \/ m \in DOMAIN t.spends /\ u.spends[m] = t.spends[m]
        \/ /\ h \in DOMAIN in.spends /\ m \in DOMAIN u.notes
           /\ u.notes[m].account = a /\ u.notes[m].h = in.spends[h]
           /\ u.spends[m].account = a /\ u.spends[m].tx = i /\ u.spends[m].h = h
    /\ \A w \in u.witnesses :
        \/ w \in t.witnesses
        \/ /\ w.account = a /\ w.h = h /\ w.note \in DOMAIN u.notes
           /\ u.notes[w.note].account = a /\ u.notes[w.note].h \in kept
    /\ u.outputs = t.outputs /\ u.memos = t.memos

LEMMA BlockAdds ==
    ASSUME IsTables(db), NEW t, NEW a, NEW h, NEW in, NEW kept, NEW i, NEW n, NEW notes, NEW spent,
           notes = NotesAfter(a, h, in, i, n), spent = SpentIn(a, h, in, notes),
           HasBlock(t, a, h, in, kept, i, notes, spent), n \notin DOMAIN db.notes,
           \/ i \in DOMAIN db.txs /\ db.txs[i].account = a /\ db.txs[i].h = h
           \/ i \notin DOMAIN db.txs
    PROVE  BlockOf(db, t, a, h, in, kept, i)
<1> DEFINE tx == [account |-> a, h |-> h, details |-> FALSE, category |-> 0]
           note == [account |-> a, tx |-> i, h |-> h, locked |-> FALSE]
           spend == [account |-> a, tx |-> i, h |-> h]
<1>1. /\ t.txs = IF ~Mine(in, h) \/ i \in DOMAIN db.txs THEN db.txs ELSE With(db.txs, i, tx)
      /\ t.notes = notes
      /\ t.spends = [m \in DOMAIN db.spends \union spent |-> IF m \in spent THEN spend ELSE db.spends[m]]
      /\ t.witnesses = db.witnesses \union
           {[account |-> a, note |-> m, h |-> h] : m \in NotesAt(notes, a, kept)}
      /\ t.outputs = db.outputs /\ t.memos = db.memos
  BY DEF HasBlock, Mine
<1>2. notes = IF h \in in.notes THEN With(db.notes, n, note) ELSE db.notes
  BY DEF NotesAfter
<1>3. tx.account = a /\ tx.h = h /\ note.account = a /\ note.tx = i /\ note.h = h
      /\ spend.account = a /\ spend.tx = i /\ spend.h = h
  OBVIOUS
<1> HIDE DEF tx, note, spend
<1>4. /\ \A j \in DOMAIN db.txs : j \in DOMAIN t.txs /\ t.txs[j] = db.txs[j]
      /\ \A j \in DOMAIN t.txs : j \in DOMAIN db.txs \/ (Mine(in, h) /\ t.txs[j] = tx)
      /\ Mine(in, h) => i \in DOMAIN t.txs /\ t.txs[i].account = a /\ t.txs[i].h = h
  BY <1>1, <1>3 DEF With
<1>5. /\ \A m \in DOMAIN db.notes : m \in DOMAIN notes /\ notes[m] = db.notes[m]
      /\ \A m \in DOMAIN notes : m \in DOMAIN db.notes \/ (h \in in.notes /\ notes[m] = note)
  BY <1>2 DEF With
<1>6. \A m : m \in spent <=> /\ h \in DOMAIN in.spends /\ m \in DOMAIN notes
                             /\ notes[m].account = a /\ notes[m].h = in.spends[h]
  BY DEF SpentIn, NotesAt
<1>7. \A m \in DOMAIN t.spends : \/ m \in DOMAIN db.spends /\ t.spends[m] = db.spends[m]
                                 \/ m \in spent /\ t.spends[m] = spend
  BY <1>1
<1>8. \A w \in t.witnesses :
         \/ w \in db.witnesses
         \/ /\ w.account = a /\ w.h = h /\ w.note \in DOMAIN notes
            /\ notes[w.note].account = a /\ notes[w.note].h \in kept
  BY <1>1 DEF NotesAt
<1>9. TxsStay(db, t) /\ NotesStay(db, t)
  BY <1>1, <1>4, <1>5 DEF TxsStay, NotesStay
<1> QED BY <1>1, <1>3, <1>4, <1>5, <1>6, <1>7, <1>8, <1>9 DEF BlockOf

LEMMA BlockOwn ==
    ASSUME NEW t, NEW u, NEW K, NEW O, OwnRows(t, K, O), NEW a, NEW h \in Nat, NEW in, NEW kept, NEW i,
           BlockOf(t, u, a, h, in, kept, i),
           a \in O \/ (a \in DOMAIN K /\ in = Involved[K[a]]),
           h \in DOMAIN in.spends => in.spends[h] < h,
           \A g \in kept : g \in Nat /\ g <= h
    PROVE  OwnRows(u, K, O)
<1>1. TxsStay(t, u) /\ NotesStay(t, u) /\ SameKeys(t, K, K)
  BY DEF BlockOf, SameKeys
<1>2. \A i1 \in DOMAIN u.txs : i1 \in DOMAIN t.txs \/ u.txs[i1].account \in O \/ OwnTx(u, K, i1)
  BY DEF BlockOf, OwnTx, Touched, Mine
<1>3. \A m \in DOMAIN u.notes : m \in DOMAIN t.notes \/ Refers(u, u.notes[m])
  BY DEF BlockOf, Refers, Mine
<1>4. \A m \in DOMAIN u.spends :
         \/ m \in DOMAIN t.spends /\ u.spends[m] = t.spends[m]
         \/ Refers(u, u.spends[m]) /\ SpendOfNote(u, m)
  BY DEF BlockOf, Refers, SpendOfNote, Mine
<1>5. \A w \in u.witnesses : w \in t.witnesses \/ WitnessOfNote(u, w)
  BY DEF BlockOf, WitnessOfNote
<1>6. NewRowsOwn(t, u, K, O)
  BY <1>2, <1>3, <1>4, <1>5 DEF NewRowsOwn, BlockOf
<1> QED BY <1>1, <1>6, OwnGrow

LEMMA BlockPresent ==
    ASSUME NEW t, NEW u, NEW K, NEW H, NEW G, NEW O, Present(t, K, H, O), NEW a, NEW h \in Nat, NEW in,
           NEW kept, NEW i, BlockOf(t, u, a, h, in, kept, i),
           a \in O \/ (a \in DOMAIN K /\ in = Involved[K[a]] /\ h = H[a] + 1),
           G[a] = h \/ a \in O, \A b \in DOMAIN K : b # a => G[b] = H[b],
           \A b \in DOMAIN K : H[b] \in Nat, \A b \in DOMAIN K : K[b] \in Keys,
           \A k \in Keys : \A g \in Touched(k) : g \in Nat
    PROVE  Present(u, K, G, O)
<1> SUFFICES ASSUME NEW b \in DOMAIN K \ O, NEW g \in Touched(K[b]), g <= G[b]
             PROVE  \E j \in DOMAIN u.txs : u.txs[j].account = b /\ u.txs[j].h = g
  BY DEF Present
<1>1. g \in Nat /\ H[b] \in Nat
  OBVIOUS
<1>2. CASE g <= H[b]
  <2>1. PICK j \in DOMAIN t.txs : t.txs[j].account = b /\ t.txs[j].h = g
    BY <1>2 DEF Present
  <2> QED BY <2>1 DEF BlockOf, TxsStay
<1>3. CASE ~(g <= H[b])
  <2>1. b = a /\ h = H[a] + 1 /\ in = Involved[K[a]] /\ g <= h
    BY <1>3
  <2>2. g = h
    BY <1>1, <1>3, <2>1
  <2>3. Mine(in, h)
    BY <2>1, <2>2 DEF Touched, Mine
  <2> QED BY <2>1, <2>2, <2>3 DEF BlockOf
<1> QED BY <1>2, <1>3

(* A block of an account, which is read with its key, unless the account   *)
(* was overtaken.                                                          *)
LEMMA ScanOwn ==
    ASSUME WalletInv, RowsTyped, OwnInv, ScanBlock, UNCHANGED accountVars
    PROVE  OwnInv'
<1> DEFINE a == run.account
           h == run.at + 1
           in == Involved[run.key]
           gone == IF h \in DOMAIN in.spends THEN {in.spends[h]} ELSE {}
           new == IF h \in in.notes THEN {h} ELSE {}
           kept == (run.tracked \ gone) \union new
<1>1. PICK i \in IF TxId(a, h) # {} THEN TxId(a, h) ELSE NextId(db.txs), n \in NextId(db.notes) :
        db' = Scanned(a, h, in, kept, i, n)
  BY DEF ScanBlock
<1>2. /\ run' = [run EXCEPT !.at = h, !.tracked = kept] /\ UNCHANGED <<job, file, overtaken>>
      /\ run.account # 0
  BY DEF ScanBlock
<1>3. /\ run.key \in Keys /\ \A g \in run.tracked : g \in Nat /\ g <= run.at
      /\ \/ a \in overtaken
         \/ a \in ids /\ run.key = accounts[a].key /\ run.at = db.heights[a]
  BY <1>2 DEF OwnInv, RunOwn
<1>4. TypedRows(db) /\ IsTables(db) /\ DOMAIN db.txs \in SUBSET Nat /\ DOMAIN db.notes \in SUBSET Nat
      /\ run.at \in Nat /\ h \in Nat /\ DOMAIN db.heights = ids
      /\ \A b \in ids : db.heights[b] \in Nat
  BY WalletAssumption DEF RowsTyped, DbOK, TypedRows, Table, RunOK
<1>5. n \notin DOMAIN db.notes
      /\ \/ i \in DOMAIN db.txs /\ db.txs[i].account = a /\ db.txs[i].h = h
         \/ i \notin DOMAIN db.txs
  BY <1>1, <1>4, NextIdNew DEF TxId
<1>6. h \in DOMAIN in.spends => in.spends[h] < h
  BY <1>3, WalletAssumption
<1>7. \A g \in kept : g \in Nat /\ g <= h
  BY <1>3, <1>4
<1> HIDE DEF h, in, kept
<1>8. PICK notes, spent :
        /\ notes = NotesAfter(a, h, in, i, n) /\ spent = SpentIn(a, h, in, notes)
        /\ HasBlock(db', a, h, in, kept, i, notes, spent)
  BY <1>1, <1>4, ScanTables
<1>9. BlockOf(db, db', a, h, in, kept, i)
  BY <1>4, <1>5, <1>8, BlockAdds
<1>10. db'.heights = [b \in DOMAIN db.heights |-> IF b = a THEN h ELSE db.heights[b]]
  BY <1>8 DEF HasBlock
<1>11. Owners' = Owners /\ DOMAIN Owners = ids /\ overtaken' = overtaken
  BY <1>2 DEF Owners, accountVars, ids
<1> DEFINE u == db'
           K == Owners
           H == db.heights
           G == db'.heights
           O == overtaken
<1>12. /\ OwnRows(db, K, O) /\ Present(db, K, H, O) /\ BlockOf(db, u, a, h, in, kept, i)
       /\ \/ a \in O
          \/ a \in DOMAIN K /\ in = Involved[K[a]] /\ h = H[a] + 1
       /\ G[a] = h \/ a \in O
       /\ \A b \in DOMAIN K : b # a => G[b] = H[b]
       /\ \A b \in DOMAIN K : H[b] \in Nat
       /\ \A b \in DOMAIN K : K[b] \in Keys
       /\ \A k \in Keys : \A g \in Touched(k) : g \in Nat
  <2>1. \A k \in Keys : \A g \in Touched(k) : g \in Nat
    BY KeysOfIds, WalletAssumption
  <2>2. a \in O \/ (a \in DOMAIN K /\ in = Involved[K[a]] /\ h = H[a] + 1)
    BY <1>3, <1>11 DEF Owners, in, h
  <2>3. G[a] = h \/ a \in O
    BY <1>3, <1>4, <1>10
  <2>4. \A b \in DOMAIN K : (b # a => G[b] = H[b]) /\ H[b] \in Nat /\ K[b] \in Keys
    BY <1>4, <1>10, <1>11, KeysOfIds
  <2> HIDE DEF u, K, H, G
  <2>5. OwnRows(db, K, O) /\ Present(db, K, H, O)
    BY DEF OwnInv, K, H
  <2> QED BY <1>9, <2>1, <2>2, <2>3, <2>4, <2>5 DEF u
<1>13. OwnRows(u, K, O)
  <2> HIDE DEF u, K, H, G, O, a
  <2> QED BY <1>4, <1>6, <1>7, <1>12, BlockOwn
<1>14. Present(u, K, G, O)
  <2> HIDE DEF u, K, H, G, O, a
  <2> QED BY <1>4, <1>12, BlockPresent
<1>15. RunOwn'
  <2>1. run'.account = a /\ run'.key = run.key /\ run'.at = h /\ run'.tracked = kept
    BY <1>2 DEF RowsTyped, RunOK, NoRun
  <2>2. a \in ids => a \in ids' /\ accounts'[a].key = accounts[a].key /\ db'.heights[a] = h
    BY <1>4, <1>10 DEF accountVars, ids
  <2> QED BY <1>3, <1>7, <1>11, <2>1, <2>2 DEF RunOwn
<1>16. JobOwn'
  BY <1>2, <1>9, JobOwnStays DEF OwnInv, BlockOf, TxsStay
<1>17. FilePresent'
  BY <1>2, FilePresentStays DEF OwnInv
<1> QED BY <1>11, <1>13, <1>14, <1>15, <1>16, <1>17 DEF OwnInv

(* The details that are stored are rows of the account and refer to the    *)
(* transaction that was found, which is of the account.                    *)
AddsDetails(t, u, a, h, i) ==
    /\ IsTables(u) /\ u.txs = t.txs /\ u.notes = t.notes /\ u.spends = t.spends
    /\ u.witnesses = t.witnesses /\ u.heights = t.heights
    /\ \A o \in DOMAIN u.outputs :
        \/ o \in DOMAIN t.outputs /\ u.outputs[o] = t.outputs[o]
        \/ u.outputs[o].account = a /\ u.outputs[o].tx = i /\ u.outputs[o].h = h
    /\ \A m \in u.memos : m \in t.memos \/ (m.account = a /\ m.tx = i /\ m.h = h)

LEMMA OutputAdds ==
    ASSUME NEW t, NEW u, NEW a, NEW h, NEW i, HasOutput(t, u, a, h, i)
    PROVE  AddsDetails(t, u, a, h, i)
<1>1. \A o \in DOMAIN u.outputs :
        \/ o \in DOMAIN t.outputs /\ u.outputs[o] = t.outputs[o]
        \/ u.outputs[o].account = a /\ u.outputs[o].tx = i /\ u.outputs[o].h = h
  <2>1. u.outputs = StoredOutput(t, a, h, i)
    BY DEF HasOutput
  <2>2. CASE OutputOf(t, i) # {}
    BY <2>1, <2>2 DEF StoredOutput
  <2>3. CASE OutputOf(t, i) = {}
    BY <2>1, <2>3 DEF StoredOutput
  <2> QED BY <2>2, <2>3
<1>2. \A m \in u.memos : m \in t.memos \/ (m.account = a /\ m.tx = i /\ m.h = h)
  BY DEF HasOutput, MemosAfter
<1> QED BY <1>1, <1>2 DEF HasOutput, AddsDetails

LEMMA MemoAdds ==
    ASSUME NEW t, NEW u, NEW a, NEW h, NEW i, NEW rows, HasMemo(t, u, a, h, i, rows)
    PROVE  AddsDetails(t, u, a, h, i)
BY DEF HasMemo, MemosAfter, AddsDetails

LEMMA StoreOwn ==
    ASSUME WalletInv, RowsTyped, OwnInv, StoreDetails, UNCHANGED accountVars
    PROVE  OwnInv'
<1> DEFINE a == job.account
           h == job.h
           i == job.found
           out == WithOutput(db, a, h, i)
           rows == IF NoteId(a, h) = {} THEN {0} ELSE NoteId(a, h)
<1>1. /\ \/ db' = db
         \/ db' = out
         \/ db' = WithMemo(db, a, h, i)
         \/ db' = WithMemo(out, a, h, i)
      /\ job' = NoJob \/ job' = [job EXCEPT !.found = 0, !.h = 0]
      /\ UNCHANGED <<run, file, overtaken>> /\ i # 0
  BY DEF StoreDetails
<1>2. IsTables(db) /\ DOMAIN job = DOMAIN NoJob
  BY DEF RowsTyped, DbOK, TypedRows, JobOK
<1>3. AddsDetails(db, out, a, h, i)
  BY <1>2, OutputTables, OutputAdds
<1>4. ASSUME NEW t, IsTables(t) PROVE AddsDetails(t, WithMemo(t, a, h, i), a, h, i)
  <2>1. HasMemo(t, WithMemo(t, a, h, i), a, h, i, rows)
    BY <1>4, MemoTables
  <2> QED BY <2>1, MemoAdds
<1>5. AddsDetails(db, db', a, h, i)
  <2>1. AddsDetails(db, db, a, h, i)
    BY <1>2 DEF AddsDetails
  <2> HIDE DEF out, a, h, i
  <2>2. ASSUME NEW u, AddsDetails(out, u, a, h, i) PROVE AddsDetails(db, u, a, h, i)
    BY <1>3, <2>2 DEF AddsDetails
  <2>3. IsTables(out)
    BY <1>3 DEF AddsDetails
  <2> QED BY <1>1, <1>2, <1>3, <1>4, <2>1, <2>2, <2>3
<1> HIDE DEF out, rows
<1>6. job'.found = 0
  <2>1. CASE job' = NoJob
    BY <2>1 DEF NoJob
  <2>2. CASE job' = [job EXCEPT !.found = 0, !.h = 0]
    BY <1>2, <2>2 DEF NoJob
  <2> QED BY <1>1, <2>1, <2>2
<1>7. a \in overtaken \/ Listed(db, i, h)
  BY <1>1 DEF OwnInv, JobOwn
<1>8. /\ TxsStay(db, db') /\ NotesStay(db, db') /\ SameKeys(db, Owners, Owners')
      /\ db'.heights = db.heights /\ Owners' = Owners
  BY <1>5 DEF AddsDetails, TxsStay, NotesStay, SameKeys, Owners, accountVars, ids
<1>9. NewRowsOwn(db, db', Owners', overtaken')
  <2>1. ASSUME NEW x, x.account = a, x.tx = i, x.h = h PROVE x.account \in overtaken \/ Refers(db', x)
    BY <1>5, <1>7, <2>1 DEF Listed, Refers, AddsDetails
  <2>2. \A o \in DOMAIN db'.outputs :
        \/ o \in DOMAIN db.outputs /\ db'.outputs[o] = db.outputs[o]
        \/ db'.outputs[o].account \in overtaken
        \/ Refers(db', db'.outputs[o])
    BY <1>5, <2>1 DEF AddsDetails
  <2>3. \A m \in db'.memos : m \in db.memos \/ m.account \in overtaken \/ Refers(db', m)
    BY <1>5, <2>1 DEF AddsDetails
  <2> QED BY <1>1, <1>5, <2>2, <2>3 DEF AddsDetails, NewRowsOwn
<1>10. OwnRows(db', Owners', overtaken')
  <2> DEFINE u == db'
             K == Owners
             L == Owners'
             P == overtaken'
  <2>1. /\ OwnRows(db, K, overtaken) /\ overtaken \subseteq P /\ TxsStay(db, u) /\ NotesStay(db, u)
        /\ NewRowsOwn(db, u, L, P) /\ SameKeys(db, K, L)
    BY <1>1, <1>8, <1>9 DEF OwnInv
  <2> HIDE DEF u, K, L, P
  <2>2. OwnRows(u, L, P)
    BY <2>1, OwnGrow
  <2> QED BY <2>2 DEF u, L, P
<1>11. Present(db', Owners', db'.heights, overtaken')
  BY <1>1, <1>5, <1>8 DEF OwnInv, Present, AddsDetails
<1>12. RunOwn'
  BY <1>1, <1>8, RunOwnStays DEF OwnInv, accountVars, ids
<1>13. JobOwn'
  BY <1>6 DEF JobOwn
<1>14. FilePresent'
  BY <1>1, FilePresentStays DEF OwnInv
<1> QED BY <1>10, <1>11, <1>12, <1>13, <1>14 DEF OwnInv

LEMMA NewOwn ==
    ASSUME WalletInv, WalletInv', RowsTyped, OwnInv, NEW k \in Keys, NewAccount(k), CreateRows(ids')
    PROVE  OwnInv'
<1>1. PICK id \in NextId(accounts), position \in NextPosition :
        accounts' = With(accounts, id, NewRow(k, position))
  BY DEF NewAccount
<1>2. ids \in SUBSET Nat /\ DOMAIN db.heights = ids
  BY DEF WalletInv, Arranged, AccountTypeOK, RowsTyped, DbOK
<1>3. id \notin ids
  BY <1>1, <1>2, NextIdNew DEF ids
<1>4. ids' = ids \union {id} /\ \A a \in ids : accounts'[a] = accounts[a]
  BY <1>1, <1>3 DEF With, ids
<1> DEFINE heights == HeightsOf(ids')
<1>5. db' = [db EXCEPT !.heights = heights] /\ UNCHANGED <<run, job, file, overtaken>>
  BY DEF CreateRows
<1>6. /\ \A a \in ids : heights[a] = db.heights[a]
      /\ \A b \in ids' \ ids : heights[b] = 0
  BY <1>2, <1>4 DEF HeightsOf
<1> HIDE DEF heights
<1>7. /\ db'.txs = db.txs /\ db'.notes = db.notes /\ db'.spends = db.spends
      /\ db'.outputs = db.outputs /\ db'.memos = db.memos /\ db'.heights = heights
      /\ db'.witnesses = db.witnesses
  BY <1>5, Columns DEF IsTables, RowsTyped, DbOK, TypedRows
<1>8. Alike(db, db')
  BY <1>7 DEF Alike
<1> QED BY <1>4, <1>5, <1>6, <1>7, <1>8, OwnAlike


(* An account that is imported has the rows of the file, all that are of   *)
(* transactions up to its height.  Once an account was overtaken the file  *)
(* may have rows of it, and the account counts as one itself.              *)
LEMMA ImportPresent ==
    ASSUME TypedRows(db), NEW t, TypedRows(t), NEW c, NEW L, NEW F, DOMAIN L = {c},
           Present(t, L, F, {}), OwnRows(t, L, {}), NEW u, NEW a, HasImport(u, t, a),
           NEW K, NEW H, NEW O, Present(db, K, H, O), NEW M, NEW G, NEW P, O \subseteq P,
           \A b \in DOMAIN M \ P : \/ b \in DOMAIN K /\ M[b] = K[b] /\ G[b] = H[b]
                                   \/ b = a /\ M[b] = L[c] /\ G[b] = F[c]
    PROVE  Present(u, M, G, P)
<1>1. \A i \in DOMAIN db.txs : i \in DOMAIN u.txs /\ u.txs[i] = db.txs[i]
  BY DEF HasImport, Joined
<1>2. ASSUME NEW j \in DOMAIN t.txs
      PROVE  \E i \in DOMAIN u.txs : u.txs[i].account = a /\ u.txs[i].h = t.txs[j].h
  <2> DEFINE row == [t.txs[j] EXCEPT !.account = a]
  <2>1. MovedTxs(t, a)[j] = row /\ DOMAIN MovedTxs(t, a) = DOMAIN t.txs
    BY DEF MovedTxs
  <2>2. row.account = a /\ row.h = t.txs[j].h
    BY RowsAre DEF TxRow
  <2> HIDE DEF row
  <2>3. NewTx(t)[j] \in DOMAIN u.txs /\ u.txs[NewTx(t)[j]] = row
    BY <2>1 DEF HasImport, Joined
  <2> QED BY <2>2, <2>3
<1> SUFFICES ASSUME NEW b \in DOMAIN M \ P, NEW h \in Touched(M[b]), h <= G[b]
             PROVE  \E i \in DOMAIN u.txs : u.txs[i].account = b /\ u.txs[i].h = h
  BY DEF Present
<1>3. CASE b \in DOMAIN K /\ M[b] = K[b] /\ G[b] = H[b]
  <2>1. PICK i \in DOMAIN db.txs : db.txs[i].account = b /\ db.txs[i].h = h
    BY <1>3 DEF Present
  <2> QED BY <1>1, <2>1
<1>4. CASE b = a /\ M[b] = L[c] /\ G[b] = F[c]
  <2>1. PICK j \in DOMAIN t.txs : t.txs[j].h = h
    BY <1>4 DEF Present
  <2> QED BY <1>2, <1>4, <2>1
<1> QED BY <1>3, <1>4

LEMMA ImportOwn ==
    ASSUME WalletInv, RowsTyped, SoundInv, SoundInv', OwnInv, Import
    PROVE  OwnInv'
<1> DEFINE t == file.tables
           c == file.account
<1>1. PICK a \in NextId(accounts) :
        /\ c # 0 /\ UNCHANGED <<run, job, file>>
        /\ \/ /\ ~RefersToNoNote(t) /\ ~Collides(t, a)
              /\ ImportAccountRow(a, file.row, file.folder, file.addresses)
              /\ db' = Imported(t, a, file.height)
              /\ overtaken' = IF overtaken = {} THEN {} ELSE overtaken \union {a}
           \/ UNCHANGED <<accountVars, db, overtaken>>
  BY DEF Import
<1>2. CASE UNCHANGED <<accountVars, db, overtaken>>
  <2>1. Owners' = Owners
    BY <1>2 DEF Owners, accountVars, ids
  <2> QED BY <1>1, <1>2, <2>1 DEF OwnInv, RunOwn, JobOwn, FilePresent, Listed, accountVars, ids
<1>3. ASSUME ~RefersToNoNote(t), ~Collides(t, a),
             ImportAccountRow(a, file.row, file.folder, file.addresses),
             db' = Imported(t, a, file.height),
             overtaken' = IF overtaken = {} THEN {} ELSE overtaken \union {a}
      PROVE  OwnInv'
  <2>1. TypedRows(db) /\ TypedRows(t) /\ Closed(t) /\ DOMAIN db.heights = ids
    BY DEF RowsTyped, DbOK, FileOK
  <2>2. HasImport(db', t, a) /\ db'.heights = With(db.heights, a, file.height)
    BY <1>3, <2>1, ImportTables
  <2>3. file.row \in Account
    BY <1>1 DEF WalletInv, FilesImportable, Importable
  <2>4. /\ a \notin ids /\ ids' = ids \union {a} /\ accounts'[a].key = file.row.key
        /\ \A b \in ids : accounts'[b].key = accounts[b].key
    BY <1>3, <2>3, ImportedAccount
  <2>5. overtaken \subseteq overtaken' /\ (overtaken # {} => a \in overtaken')
    BY <1>3
  <2>6. db'.heights[a] = file.height /\ \A b \in ids : db'.heights[b] = db.heights[b]
    BY <2>1, <2>2, <2>4 DEF With
  <2>7. TxsStay(db, db') /\ NotesStay(db, db')
    BY <2>2 DEF HasImport, Joined, TxsStay, NotesStay
  <2> DEFINE u == db'
             K == Owners
             M == Owners'
             H == db.heights
             G == db'.heights
             L == [b \in {c} |-> file.row.key]
             F == [b \in {c} |-> file.height]
             P == overtaken'
  <2>8. OwnRows(u, M, P)
    <3>1. CASE overtaken' = {}
      <4>1. Sound(u, M)
        BY <3>1 DEF SoundInv, RowsSound
      <4> HIDE DEF u, M, P
      <4> QED BY <4>1, SoundOwn
    <3>2. CASE overtaken # {}
      <4>1. NewRowsOwn(db, u, M, P)
        <5> DEFINE txs == MovedTxs(t, a)
                   notes == MovedRows(t.notes, a, t)
                   outputs == MovedRows(t.outputs, a, t)
                   spends == MovedRows(t.spends, a, t)
        <5>1. /\ \A i \in DOMAIN txs : txs[i].account = a
              /\ \A i \in DOMAIN notes : notes[i].account = a
              /\ \A i \in DOMAIN outputs : outputs[i].account = a
              /\ \A i \in DOMAIN spends : spends[i].account = a
          <6>1. \A i \in DOMAIN txs : txs[i].account = a
            BY <2>1, RowsAre DEF MovedTxs, TxRow
          <6>2. ASSUME NEW i \in DOMAIN notes PROVE notes[i].account = a
            <7> DEFINE tx == NewTx(t)[t.notes[i].tx]
            <7>1. notes[i] = [t.notes[i] EXCEPT !.account = a, !.tx = tx] /\ i \in DOMAIN t.notes
              BY DEF MovedRows
            <7>2. t.notes[i] \in NoteRow
              BY <2>1, <7>1, RowsAre
            <7> HIDE DEF tx, notes
            <7> QED BY <7>1, <7>2 DEF NoteRow
          <6>3. ASSUME NEW i \in DOMAIN outputs PROVE outputs[i].account = a
            <7> DEFINE tx == NewTx(t)[t.outputs[i].tx]
            <7>1. outputs[i] = [t.outputs[i] EXCEPT !.account = a, !.tx = tx] /\ i \in DOMAIN t.outputs
              BY DEF MovedRows
            <7>2. t.outputs[i] \in Row
              BY <2>1, <7>1, RowsAre
            <7> HIDE DEF tx, outputs
            <7> QED BY <7>1, <7>2 DEF Row
          <6>4. ASSUME NEW i \in DOMAIN spends PROVE spends[i].account = a
            <7> DEFINE tx == NewTx(t)[t.spends[i].tx]
            <7>1. spends[i] = [t.spends[i] EXCEPT !.account = a, !.tx = tx] /\ i \in DOMAIN t.spends
              BY DEF MovedRows
            <7>2. t.spends[i] \in Row
              BY <2>1, <7>1, RowsAre
            <7> HIDE DEF tx, spends
            <7> QED BY <7>1, <7>2 DEF Row
          <6> QED BY <6>1, <6>2, <6>3, <6>4
        <5>2. /\ Joined(db.txs, u.txs, txs, NewTx(t)) /\ Joined(db.notes, u.notes, notes, NewNote(t))
              /\ Joined(db.outputs, u.outputs, outputs, NewOutput(t))
              /\ Joined(db.spends, u.spends, spends, NewNote(t))
              /\ \A m \in u.memos : m \in db.memos \/ m.account = a
              /\ \A w \in u.witnesses : w \in db.witnesses \/ w.account = a
          BY <2>2 DEF HasImport, MovedMemo
        <5>3. a \in P
          BY <2>5, <3>2
        <5> HIDE DEF txs, notes, outputs, spends, u, M, P, t
        <5>4. ASSUME NEW table, NEW result, NEW rows, NEW to, Joined(table, result, rows, to),
                     \A r \in DOMAIN rows : rows[r].account = a
              PROVE  \A x \in DOMAIN result : \/ x \in DOMAIN table /\ result[x] = table[x]
                                              \/ result[x].account = a
          BY <5>4 DEF Joined
        <5>5. /\ \A i \in DOMAIN u.txs : i \in DOMAIN db.txs \/ u.txs[i].account = a
              /\ \A i \in DOMAIN u.notes : i \in DOMAIN db.notes \/ u.notes[i].account = a
              /\ \A i \in DOMAIN u.outputs : \/ i \in DOMAIN db.outputs /\ u.outputs[i] = db.outputs[i]
                                             \/ u.outputs[i].account = a
              /\ \A i \in DOMAIN u.spends : \/ i \in DOMAIN db.spends /\ u.spends[i] = db.spends[i]
                                            \/ u.spends[i].account = a
          BY <5>1, <5>2, <5>4
        <5> QED BY <5>2, <5>3, <5>5 DEF NewRowsOwn
      <4>2. SameKeys(db, K, M)
        BY <2>4 DEF SameKeys, Owners
      <4>3. OwnRows(db, K, overtaken) /\ overtaken \subseteq P /\ TxsStay(db, u) /\ NotesStay(db, u)
        BY <2>5, <2>7 DEF OwnInv
      <4> HIDE DEF u, K, M, P
      <4> QED BY <4>1, <4>2, <4>3, OwnGrow
    <3> QED BY <1>3, <3>1, <3>2
  <2>9. Present(u, M, G, P)
    <3>1. Present(db, K, H, overtaken)
      BY DEF OwnInv
    <3>2. \A b \in DOMAIN M : \/ b \in DOMAIN K /\ M[b] = K[b] /\ G[b] = H[b]
                              \/ b = a /\ M[b] = L[c] /\ G[b] = F[c]
      BY <2>4, <2>6 DEF Owners
    <3>3. CASE overtaken # {}
      <4>1. \A b \in DOMAIN M \ P :
              \/ /\ b \in DOMAIN K /\ M[b] = K[b] /\ G[b] = H[b]
                 /\ \A i \in DOMAIN db.txs : db.txs[i].account = b /\ db.txs[i].h <= G[b] =>
                       i \in DOMAIN u.txs /\ u.txs[i].account = b /\ u.txs[i].h = db.txs[i].h
              \/ \A h \in Touched(M[b]) : ~(h <= G[b])
        BY <2>5, <2>7, <3>2, <3>3 DEF TxsStay
      <4> HIDE DEF u, K, M, H, G, P
      <4> QED BY <2>5, <3>1, <4>1, PresentStays DEF P
    <3>4. CASE overtaken = {}
      <4>1. Present(t, L, F, {}) /\ DOMAIN L = {c} /\ overtaken \subseteq P /\ HasImport(u, t, a)
        BY <1>1, <2>2, <2>5, <3>4 DEF OwnInv, FilePresent
      <4>2. OwnRows(t, L, {})
        <5>1. Sound(t, L)
          BY <1>1, <3>4 DEF SoundInv, FileSound
        <5> HIDE DEF t, L
        <5> QED BY <5>1, SoundOwn
      <4> HIDE DEF u, K, M, H, G, P, L, F, t, c
      <4> QED BY <2>1, <3>1, <3>2, <4>1, <4>2, ImportPresent
    <3> QED BY <3>3, <3>4
  <2>10. RunOwn'
    BY <1>1, <2>4, <2>5, <2>6, RunOwnStays DEF OwnInv
  <2>11. JobOwn'
    BY <1>1, <2>5, <2>7, JobOwnStays DEF OwnInv, TxsStay
  <2>12. FilePresent'
    BY <1>1, <2>5, FilePresentStays DEF OwnInv
  <2> QED BY <2>8, <2>9, <2>10, <2>11, <2>12 DEF OwnInv
<1> QED BY <1>1, <1>2, <1>3

(* A file that is written now: every transaction of its account is read,   *)
(* up to the height that was read first.                                   *)
LEMMA ExportEndOwn ==
    ASSUME WalletInv, WalletInv', RowsTyped, SoundInv, OwnInv, ExportEnd, UNCHANGED accountVars
    PROVE  OwnInv'
<1>1. UNCHANGED <<db, run, job, overtaken>> /\ export.account # 0
  BY DEF ExportEnd
<1> DEFINE a == export.account
           t == ExportedTables(a)
           height == HeightRead(a)
<1>2. ASSUME overtaken = {}
      PROVE  FilePresent'
  <2>1. /\ a \in ids /\ export.row.key = Owners[a] /\ export.height <= db.heights[a]
    BY <1>1, <1>2 DEF SoundInv, ExportSound, Owners
  <2>2. file' = [export EXCEPT !.tables = t, !.height = height]
    BY <2>1 DEF ExportEnd
  <2>3. height = export.height /\ HasExport(t, a)
    BY ExportTables DEF HeightRead
  <2>4. export.height \in Nat /\ db.heights[a] \in Nat /\ DOMAIN Owners = ids
    BY <1>1, <2>1, WalletAssumption DEF RowsTyped, DbOK, FileOK, Owners
  <2> HIDE DEF t, height
  <2>5. file'.account = a /\ file'.row = export.row /\ file'.height = export.height /\ file'.tables = t
    BY <2>2, <2>3 DEF WalletInv, FilesImportable, Importable, NoFile
  <2>6. ASSUME NEW h \in Touched(Owners[a]), h <= export.height
        PROVE  \E i \in DOMAIN t.txs : t.txs[i].account = a /\ t.txs[i].h = h
    <3>1. h \in Nat
      BY <2>1, <2>4, KeysOfIds
    <3>2. h <= db.heights[a]
      BY <2>1, <2>4, <2>6, <3>1
    <3>3. PICK i \in DOMAIN db.txs : db.txs[i].account = a /\ db.txs[i].h = h
      BY <1>2, <2>1, <2>4, <2>6, <3>2 DEF OwnInv, Present
    <3> QED BY <2>3, <3>3 DEF HasExport, Part
  <2> HIDE DEF a
  <2>7. Present(t, [b \in {a} |-> export.row.key], [b \in {a} |-> export.height], {})
    BY <2>1, <2>6 DEF Present
  <2> QED BY <2>5, <2>7 DEF FilePresent
<1>3. FilePresent'
  <2>1. overtaken # {} => FilePresent'
    BY <1>1 DEF FilePresent
  <2> QED BY <1>2, <2>1
<1> QED BY <1>1, <1>3, Same, OwnAlike DEF accountVars, ids

(* A transaction that is looked up is of the account.                      *)
LEMMA LookUpOwn ==
    ASSUME WalletInv, WalletInv', RowsTyped, OwnInv, NEW x, LookUp(x), UNCHANGED accountVars
    PROVE  OwnInv'
<1>1. /\ UNCHANGED <<db, run, file, overtaken>>
      /\ \/ job' = NoJob
         \/ \E i \in TxId(job.account, x[2]) :
              job' = [job EXCEPT !.h = x[2], !.listed = x[1], !.found = i, !.todo = @ \ {x}]
  BY DEF LookUp
<1>2. CASE job' = NoJob
  BY <1>1, <1>2, Same, OwnAlike DEF accountVars, ids, NoJob
<1>3. ASSUME NEW i \in TxId(job.account, x[2]),
             job' = [job EXCEPT !.h = x[2], !.listed = x[1], !.found = i, !.todo = @ \ {x}]
      PROVE  OwnInv'
  <2>1. job'.account = job.account /\ job'.h = x[2] /\ job'.found = i
    BY <1>3 DEF RowsTyped, JobOK, NoJob
  <2>2. JobOwn'
    BY <1>1, <1>3, <2>1 DEF JobOwn, Listed, TxId
  <2>3. Owners' = Owners
    BY DEF Owners, accountVars, ids
  <2> QED BY <1>1, <2>2, <2>3 DEF OwnInv, RunOwn, FilePresent, accountVars, ids
<1> QED BY <1>1, <1>2, <1>3

LEMMA InitOwn == Init => OwnInv
<1> SUFFICES ASSUME Init PROVE OwnInv
  OBVIOUS
<1>1. /\ DOMAIN db.txs = {} /\ DOMAIN db.notes = {} /\ DOMAIN db.spends = {} /\ DOMAIN db.outputs = {}
      /\ db.memos = {} /\ db.witnesses = {}
  BY DEF Init, NoTables, Nothing
<1>2. ids = {}
  BY DEF Init, AccountInit, ids
<1>3. OwnRows(db, Owners, overtaken) /\ Present(db, Owners, db.heights, overtaken)
  BY <1>1, <1>2 DEF OwnRows, Present, Owners
<1> QED BY <1>3 DEF OwnInv, Init, RunOwn, JobOwn, FilePresent, NoRun, NoJob, NoFile

LEMMA WorkOwn ==
    ASSUME WalletInv, WalletInv', RowsTyped, SoundInv, OwnInv, Work, UNCHANGED accountVars,
           overtaken \subseteq overtaken'
    PROVE  OwnInv'
<1>0. \A b \in ids : b \in ids' /\ accounts'[b].key = accounts[b].key
  BY DEF accountVars, ids
<1>1. ASSUME NEW a \in ids, StartRun(a) PROVE OwnInv'
  BY <1>1, StartRunOwn
<1>2. ASSUME ScanBlock PROVE OwnInv'
  BY <1>2, ScanOwn
<1>3. ASSUME LoseRun PROVE OwnInv'
  BY <1>0, <1>3, Same, OwnAlike DEF LoseRun, accountVars, ids
<1>4. ASSUME EndRun PROVE OwnInv'
  BY <1>0, <1>4, EndAlike, OwnAlike DEF EndRun, accountVars, ids
<1>5. ASSUME NEW a \in ids, NEW h \in 0 .. db.heights[a], Rewind(a, h) PROVE OwnInv'
  BY <1>5, RewindOwn
<1>6. ASSUME NEW a \in ids, ListDetails(a) PROVE OwnInv'
  <2>1. job'.found = 0
    BY <1>6 DEF ListDetails, NoJob
  <2> QED BY <1>0, <1>6, <2>1, Same, OwnAlike DEF ListDetails, accountVars, ids
<1>7. ASSUME NEW x \in job.todo, LookUp(x) PROVE OwnInv'
  BY <1>7, LookUpOwn
<1>8. ASSUME StoreDetails PROVE OwnInv'
  BY <1>8, StoreOwn
<1>9. ASSUME MarkDetails PROVE OwnInv'
  <2>1. job'.found = 0
    BY <1>9 DEF MarkDetails, NoJob, RowsTyped, JobOK
  <2> QED BY <1>0, <1>9, <2>1, MarkAlike, OwnAlike DEF MarkDetails, accountVars, ids
<1>10. ASSUME \/ \E i \in DOMAIN db.txs : SetUserMemo(i)
              \/ \E i \in DOMAIN db.txs, c \in Categories : SetCategory(i, c)
              \/ \E n \in DOMAIN db.notes : LockNote(n, ~db.notes[n].locked)
       PROVE  OwnInv'
  <2>1. UNCHANGED <<run, job, file>>
    BY <1>10 DEF SetUserMemo, SetCategory, LockNote, UserRows
  <2> QED BY <1>0, <1>10, <2>1, UserAlike, OwnAlike DEF accountVars, ids
<1>11. ASSUME NEW a \in ids, NEW h \in 1 .. Top, NEW c \in Categories, StorePending(a, h, c)
       PROVE  OwnInv'
  BY <1>0, <1>11, Same, OwnAlike DEF StorePending, accountVars, ids
<1>12. ASSUME NEW a \in ids, ExportBegin(a) PROVE OwnInv'
  BY <1>0, <1>12, Same, OwnAlike DEF ExportBegin, accountVars, ids
<1>13. ASSUME ExportEnd PROVE OwnInv'
  BY <1>13, ExportEndOwn
<1> HIDE DEF OwnInv
<1> QED BY <1>1, <1>2, <1>3, <1>4, <1>5, <1>6, <1>7, <1>8, <1>9, <1>10, <1>11, <1>12, <1>13 DEF Work

LEMMA NextOwn ==
    /\ WalletInv /\ RowsTyped /\ SoundInv /\ (WalletInv /\ RowsTyped /\ SoundInv)'
    /\ OwnInv /\ [Next]_vars
    => OwnInv'
<1> SUFFICES ASSUME WalletInv, RowsTyped, SoundInv, WalletInv', SoundInv', OwnInv, [Next]_vars
             PROVE  OwnInv'
  OBVIOUS
<1>0. overtaken \subseteq overtaken'
  BY OvertakenStays
<1>1. ASSUME NEW k \in Keys, NewAccount(k), CreateRows(ids') PROVE OwnInv'
  BY <1>1, NewOwn
<1>2. ASSUME NEW a \in ids, DeleteAccount(a), DeleteRows(a) PROVE OwnInv'
  BY <1>0, <1>2, DeleteOwn
<1>3. ASSUME Import PROVE OwnInv'
  BY <1>3, ImportOwn
<1>4. ASSUME UNCHANGED rowVars, ids' = ids, \A b \in ids : accounts'[b].key = accounts[b].key
      PROVE  OwnInv'
  BY <1>4, Same, OwnAlike DEF rowVars
<1>5. ASSUME Arrange /\ UNCHANGED rowVars PROVE OwnInv'
  BY <1>4, <1>5, ArrangeKeepsKeys
<1>6. ASSUME Work /\ UNCHANGED accountVars PROVE OwnInv'
  BY <1>0, <1>6, WorkOwn
<1>7. ASSUME UNCHANGED vars PROVE OwnInv'
  BY <1>4, <1>7 DEF vars, accountVars, rowVars, ids
<1> QED BY <1>1, <1>2, <1>3, <1>5, <1>6, <1>7 DEF Next

LEMMA OwnAlways == Spec => [](WalletInv /\ RowsTyped /\ OwnInv)
<1>1. Init => OwnInv
  BY InitOwn
<1>2. /\ WalletInv /\ RowsTyped /\ SoundInv /\ (WalletInv /\ RowsTyped /\ SoundInv)'
      /\ OwnInv /\ [Next]_vars
      => OwnInv'
  BY NextOwn
<1> QED BY <1>1, <1>2, SoundAlways, PTL DEF Spec

(* The rows of an account are of its own key and refer to each other, as   *)
(* long as this account is not trimmed or deleted while its rows are in    *)
(* use; what happens to others, overtaken or not, does not matter.         *)
THEOREM RowsAlwaysOwn == Spec => []RowsOfOwnKey
<1>1. OwnInv => RowsOfOwnKey
  <2> SUFFICES ASSUME OwnInv PROVE RowsOfOwnKey
    OBVIOUS
  <2> DEFINE O == overtaken
  <2>1. ASSUME NEW i \in DOMAIN db.txs, db.txs[i].account \notin O
        PROVE  /\ db.txs[i].account \in ids
               /\ db.txs[i].h \in Involved[accounts[db.txs[i].account].key].notes
                                  \union DOMAIN Involved[accounts[db.txs[i].account].key].spends
    BY <2>1 DEF OwnInv, OwnRows, OwnTx, Owners, Touched
  <2>2. ASSUME NEW x, x.account \notin O,
               \/ \E n \in DOMAIN db.notes : x = db.notes[n]
               \/ \E n \in DOMAIN db.spends : x = db.spends[n]
               \/ \E o \in DOMAIN db.outputs : x = db.outputs[o]
               \/ x \in db.memos
        PROVE  x.tx \in DOMAIN db.txs /\ db.txs[x.tx].account = x.account /\ db.txs[x.tx].h = x.h
    BY <2>2 DEF OwnInv, OwnRows, Refers
  <2>3. \A n \in DOMAIN db.spends : db.spends[n].account \notin O =>
            n \in DOMAIN db.notes /\ db.notes[n].account \notin O
    BY DEF OwnInv, OwnRows, SpendOfNote
  <2>4. \A w \in db.witnesses : w.account \notin O =>
            w.note \in DOMAIN db.notes /\ db.notes[w.note].account \notin O
    BY DEF OwnInv, OwnRows, WitnessOfNote
  <2> QED BY <2>1, <2>2, <2>3, <2>4 DEF RowsOfOwnKey
<1> QED BY <1>1, OwnAlways, PTL

(* A payment stops waiting only when its transaction has its category, if  *)
(* the account has read the block: whatever was scanned, trimmed, deleted  *)
(* or imported before, the transaction is there to be merged with.         *)
THEOREM PaymentsKeepCategory == Spec => PurgedAfterMerge
<1>1. WalletInv /\ RowsTyped /\ OwnInv /\ [Next]_vars =>
        \A p \in DOMAIN pending \ DOMAIN pending' :
          LET a == p[1]
              h == p[2]
          IN  /\ a \in ids \ overtaken /\ h <= db.heights[a]
              /\ h \in DOMAIN Involved[accounts[a].key].spends
              => \E i \in TxId(a, h)' : db'.txs[i].category = pending[p].category
  <2> SUFFICES ASSUME RowsTyped, OwnInv, [Next]_vars, NEW p \in DOMAIN pending, p \notin DOMAIN pending',
                      p[1] \in ids \ overtaken, p[2] <= db.heights[p[1]],
                      p[2] \in DOMAIN Involved[accounts[p[1]].key].spends
               PROVE  \E i \in TxId(p[1], p[2])' : db'.txs[i].category = pending[p].category
    OBVIOUS
  <2>1. EndRun
    BY PendingKept
  <2>2. PICK i \in DOMAIN db.txs : db.txs[i].account = p[1] /\ db.txs[i].h = p[2]
    BY DEF OwnInv, Present, Owners, Touched
  <2>3. i \in DOMAIN db'.txs /\ db'.txs[i].account = p[1] /\ db'.txs[i].h = p[2]
    BY <2>1, <2>2, EndAlike DEF Alike
  <2>4. db'.txs[i].category = pending[p].category
    BY <2>3, PurgeAfterMerge
  <2> QED BY <2>3, <2>4 DEF TxId
<1> QED BY <1>1, OwnAlways, PTL DEF Spec, PurgedAfterMerge

(* A transaction that is marked has its output and its note with memos.    *)
THEOREM DetailsNeverLost == Spec => []DetailsComplete
<1>1. SoundInv => DetailsComplete
  <2> SUFFICES ASSUME RowsSound PROVE DetailsComplete
    BY DEF SoundInv, DetailsComplete
  <2> SUFFICES ASSUME NEW i \in DOMAIN db.txs, db.txs[i].details
               PROVE  /\ db.txs[i].h \in Involved[accounts[db.txs[i].account].key].outs =>
                          \E o \in OutputOf(db, i) : \E m \in MemoOf(db, i, "output") : m.row = o
                      /\ db.txs[i].h \in Involved[accounts[db.txs[i].account].key].notes =>
                          \E n \in NoteId(db.txs[i].account, db.txs[i].h) :
                              \E m \in MemoOf(db, i, "note") : m.row = n
    BY DEF DetailsComplete
  <2>1. HasDetails(db, Owners, i) /\ db.txs[i].account \in ids
    BY RowOwners DEF RowsSound, Sound, Complete
  <2>2. InvolvedIn(db, Owners, i) = Involved[accounts[db.txs[i].account].key]
    BY <2>1 DEF InvolvedIn, Owners
  <2>3. OutputShown(db, i) => \E o \in OutputOf(db, i) : \E m \in MemoOf(db, i, "output") : m.row = o
    BY DEF OutputShown, OutputOf, MemoOf
  <2>4. NoteShown(db, i) => \E n \in NoteId(db.txs[i].account, db.txs[i].h) :
                              \E m \in MemoOf(db, i, "note") : m.row = n
    BY DEF NoteShown, NoteId, MemoOf
  <2> QED BY <2>1, <2>2, <2>3, <2>4 DEF HasDetails
<1> QED BY <1>1, SoundAlways, PTL

(* A note that is not spent has a witness at the height of its account.    *)
THEOREM WitnessAlwaysKept == Spec => []NotesKeepWitness
<1>1. RowsTyped /\ SoundInv => NotesKeepWitness
  <2> SUFFICES ASSUME RowsTyped, RowsSound PROVE NotesKeepWitness
    BY DEF SoundInv, NotesKeepWitness
  <2> SUFFICES ASSUME NEW n \in DOMAIN db.notes, NEW a, a = db.notes[n].account,
                      NEW h, h = db.heights[a]
               PROVE  \/ db.notes[n].h > h
                      \/ n \in DOMAIN db.spends /\ db.spends[n].h <= h
                      \/ [account |-> a, note |-> n, h |-> h] \in db.witnesses
    BY DEF NotesKeepWitness
  <2>1. a \in ids
    BY RowOwners DEF RowsSound
  <2>2. h \in Nat
    BY <2>1, WalletAssumption DEF RowsTyped, DbOK
  <2>3. db.notes[n].h \in Nat
    BY RowsAre DEF RowsTyped, DbOK
  <2> QED BY <2>2, <2>3 DEF RowsSound, Witnessed
<1> QED BY <1>1, SoundAlways, PTL

-----------------------------------------------------------------------------
(* What an import shows of an account is what the file has of it.          *)
Noted(t, of, x) == \E m \in t.memos : m.of = of /\ m.row = x
MineOf(t, txs, rows) == {x \in DOMAIN rows : rows[x].tx \in txs}

NotesShown(t, txs) ==
    {<<t.txs[t.notes[n].tx].h, t.notes[n].h, t.notes[n].locked, Noted(t, "note", n)>> :
        n \in MineOf(t, txs, t.notes)}
OutputsShown(t, txs) ==
    {<<t.txs[t.outputs[o].tx].h, t.outputs[o].h, Noted(t, "output", o)>> :
        o \in MineOf(t, txs, t.outputs)}
SpendsShown(t, txs) ==
    {<<t.txs[t.spends[n].tx].h, t.spends[n].h, t.notes[n].h>> : n \in MineOf(t, txs, t.spends)}
WitnessesShown(t, txs) ==
    {<<t.notes[w.note].h, w.h>> :
        w \in {x \in t.witnesses : x.note \in DOMAIN t.notes /\ t.notes[x.note].tx \in txs}}
TxsShown(t, txs) == {<<t.txs[i].h, t.txs[i].details, t.txs[i].category>> : i \in txs}

LEMMA ContentIs ==
    ASSUME NEW t, NEW txs
    PROVE  ContentOf(t, txs) =
             [txs |-> TxsShown(t, txs), notes |-> NotesShown(t, txs), outputs |-> OutputsShown(t, txs),
              spends |-> SpendsShown(t, txs), witnesses |-> WitnessesShown(t, txs)]
BY DEF ContentOf, TxsShown, NotesShown, OutputsShown, SpendsShown, WitnessesShown, MineOf, Noted

(* The rows that a file brought are those of the new account.              *)
Apart(s, t, a, note, out) ==
    /\ Referring(s) /\ MemosOfRows(s) /\ SpendsOfNotes(s) /\ WitnessesOfNotes(s)
    /\ \A i \in DOMAIN s.txs : s.txs[i].account # a
    /\ Referring(t) /\ MemosOfRows(t) /\ SpendsOfNotes(t) /\ WitnessesOfNotes(t)
    /\ \A x, y \in DOMAIN t.notes : note[x] = note[y] => x = y
    /\ \A x, y \in DOMAIN t.outputs : out[x] = out[y] => x = y

LEMMA MovedMemos ==
    ASSUME NEW s, NEW t, NEW u, NEW a, NEW tx, NEW note, NEW out,
           Renewed(s, t, u, a, tx, note, out), Apart(s, t, a, note, out)
    PROVE  /\ \A n \in DOMAIN t.notes : Noted(u, "note", note[n]) = Noted(t, "note", n)
           /\ \A o \in DOMAIN t.outputs : Noted(u, "output", out[o]) = Noted(t, "output", o)
<1>1. ASSUME NEW n \in DOMAIN t.notes PROVE Noted(u, "note", note[n]) <=> Noted(t, "note", n)
  <2>1. ASSUME Noted(t, "note", n) PROVE Noted(u, "note", note[n])
    <3>1. PICK m \in t.memos : m.of = "note" /\ m.row = n
      BY <2>1 DEF Noted
    <3>2. PICK k \in u.memos : Became(k, m, a, tx, note, out)
      BY DEF Renewed
    <3> QED BY <3>1, <3>2 DEF Noted, Became
  <2>2. ASSUME Noted(u, "note", note[n]) PROVE Noted(t, "note", n)
    <3>1. PICK k \in u.memos : k.of = "note" /\ k.row = note[n]
      BY <2>2 DEF Noted
    <3>2. note[n] \notin DOMAIN s.notes
      BY DEF Renewed, Moves
    <3>3. k \notin s.memos
      BY <3>1, <3>2 DEF Apart, MemosOfRows
    <3>4. PICK m \in t.memos : Became(k, m, a, tx, note, out)
      BY <3>3 DEF Renewed
    <3>5. m.of = "note" /\ m.row \in DOMAIN t.notes /\ note[m.row] = note[n]
      BY <3>1, <3>4 DEF Became, Apart, MemosOfRows
    <3> QED BY <3>5 DEF Noted, Apart
  <2> QED BY <2>1, <2>2
<1>2. ASSUME NEW o \in DOMAIN t.outputs PROVE Noted(u, "output", out[o]) <=> Noted(t, "output", o)
  <2>1. ASSUME Noted(t, "output", o) PROVE Noted(u, "output", out[o])
    <3>1. PICK m \in t.memos : m.of = "output" /\ m.row = o
      BY <2>1 DEF Noted
    <3>2. PICK k \in u.memos : Became(k, m, a, tx, note, out)
      BY DEF Renewed
    <3> QED BY <3>1, <3>2 DEF Noted, Became
  <2>2. ASSUME Noted(u, "output", out[o]) PROVE Noted(t, "output", o)
    <3>1. PICK k \in u.memos : k.of = "output" /\ k.row = out[o]
      BY <2>2 DEF Noted
    <3>2. out[o] \notin DOMAIN s.outputs
      BY DEF Renewed, Moves
    <3>3. k \notin s.memos
      BY <3>1, <3>2 DEF Apart, MemosOfRows
    <3>4. PICK m \in t.memos : Became(k, m, a, tx, note, out)
      BY <3>3 DEF Renewed
    <3>5. m.of = "output" /\ m.row \in DOMAIN t.outputs /\ out[m.row] = out[o]
      BY <3>1, <3>4 DEF Became, Apart, MemosOfRows
    <3> QED BY <3>5 DEF Noted, Apart
  <2> QED BY <2>1, <2>2
<1>3. \A p, of, x : Noted(p, of, x) \in BOOLEAN
  BY DEF Noted
<1> HIDE DEF Noted
<1> QED BY <1>1, <1>2, <1>3

LEMMA ContentMoved ==
    ASSUME NEW s, NEW t, NEW u, NEW a, NEW tx, NEW note, NEW out,
           Renewed(s, t, u, a, tx, note, out), Apart(s, t, a, note, out),
           NEW txs, \A i : i \in txs <=> i \in DOMAIN u.txs /\ u.txs[i].account = a
    PROVE  ContentOf(u, txs) = ContentOf(t, DOMAIN t.txs)
<1> DEFINE old == DOMAIN t.txs
<1>1. /\ \A i \in DOMAIN s.txs : i \in DOMAIN u.txs /\ u.txs[i].account # a
      /\ \A i \in old : tx[i] \in DOMAIN u.txs /\ u.txs[tx[i]].account = a
  BY DEF Renewed, Apart
<1>2. /\ \A i \in old : tx[i] \in txs
      /\ \A i \in txs : \E j \in old : i = tx[j]
  BY <1>1 DEF Renewed
<1>3. /\ \A x \in DOMAIN s.notes : s.notes[x].tx \in DOMAIN s.txs
      /\ \A x \in DOMAIN s.outputs : s.outputs[x].tx \in DOMAIN s.txs
      /\ \A x \in DOMAIN s.spends : s.spends[x].tx \in DOMAIN s.txs
      /\ \A x \in DOMAIN t.notes : t.notes[x].tx \in DOMAIN t.txs
      /\ \A x \in DOMAIN t.outputs : t.outputs[x].tx \in DOMAIN t.txs
      /\ \A x \in DOMAIN t.spends : t.spends[x].tx \in DOMAIN t.txs
  BY DEF Apart, Referring, Refers
<1>4. /\ Moves(s.notes, t.notes, u.notes, note, a, tx)
      /\ Moves(s.outputs, t.outputs, u.outputs, out, a, tx)
      /\ Moves(s.spends, t.spends, u.spends, note, a, tx)
  BY DEF Renewed
<1> DEFINE Brought(rows, after, to) ==
        /\ \A x \in DOMAIN rows : to[x] \in MineOf(u, txs, after)
        /\ \A x \in MineOf(u, txs, after) : \E y \in DOMAIN rows : x = to[y]
        /\ MineOf(t, old, rows) = DOMAIN rows
<1>5. ASSUME NEW before, NEW rows, NEW after, NEW to, Moves(before, rows, after, to, a, tx),
             \A x \in DOMAIN before : before[x].tx \in DOMAIN s.txs,
             \A x \in DOMAIN rows : rows[x].tx \in DOMAIN t.txs
      PROVE  Brought(rows, after, to)
  <2>1. \A x \in DOMAIN rows : to[x] \in MineOf(u, txs, after)
    BY <1>2, <1>5 DEF Moves, MineOf
  <2>2. ASSUME NEW x \in MineOf(u, txs, after) PROVE \E y \in DOMAIN rows : x = to[y]
    BY <1>1, <1>5 DEF Moves, MineOf
  <2>3. MineOf(t, old, rows) = DOMAIN rows
    BY <1>5 DEF MineOf
  <2> QED BY <2>1, <2>2, <2>3
<1> HIDE DEF Brought
<1>6. /\ Brought(t.notes, u.notes, note) /\ Brought(t.outputs, u.outputs, out)
      /\ Brought(t.spends, u.spends, note)
  BY <1>3, <1>4, <1>5
<1>7. /\ \A x \in DOMAIN t.notes : note[x] \in MineOf(u, txs, u.notes)
      /\ \A x \in MineOf(u, txs, u.notes) : \E y \in DOMAIN t.notes : x = note[y]
      /\ MineOf(t, old, t.notes) = DOMAIN t.notes
      /\ \A x \in DOMAIN t.outputs : out[x] \in MineOf(u, txs, u.outputs)
      /\ \A x \in MineOf(u, txs, u.outputs) : \E y \in DOMAIN t.outputs : x = out[y]
      /\ MineOf(t, old, t.outputs) = DOMAIN t.outputs
      /\ \A x \in DOMAIN t.spends : note[x] \in MineOf(u, txs, u.spends)
      /\ \A x \in MineOf(u, txs, u.spends) : \E y \in DOMAIN t.spends : x = note[y]
      /\ MineOf(t, old, t.spends) = DOMAIN t.spends
  BY <1>6 DEF Brought
<1>8. \A i \in old : u.txs[tx[i]].h = t.txs[i].h /\ u.txs[tx[i]].details = t.txs[i].details
                     /\ u.txs[tx[i]].category = t.txs[i].category
  BY DEF Renewed
<1>9. /\ \A n \in DOMAIN t.notes :
            /\ u.notes[note[n]].h = t.notes[n].h /\ u.notes[note[n]].locked = t.notes[n].locked
            /\ u.txs[u.notes[note[n]].tx].h = t.txs[t.notes[n].tx].h
      /\ \A o \in DOMAIN t.outputs :
            /\ u.outputs[out[o]].h = t.outputs[o].h
            /\ u.txs[u.outputs[out[o]].tx].h = t.txs[t.outputs[o].tx].h
      /\ \A n \in DOMAIN t.spends :
            /\ n \in DOMAIN t.notes
            /\ u.spends[note[n]].h = t.spends[n].h
            /\ u.txs[u.spends[note[n]].tx].h = t.txs[t.spends[n].tx].h
  <2>1. /\ Moves(s.notes, t.notes, u.notes, note, a, tx)
        /\ Moves(s.outputs, t.outputs, u.outputs, out, a, tx)
        /\ Moves(s.spends, t.spends, u.spends, note, a, tx)
        /\ \A n \in DOMAIN t.notes : u.notes[note[n]].locked = t.notes[n].locked
    BY DEF Renewed
  <2>2. ASSUME NEW n \in DOMAIN t.notes
        PROVE  /\ u.notes[note[n]].h = t.notes[n].h
               /\ u.txs[u.notes[note[n]].tx].h = t.txs[t.notes[n].tx].h
    BY <1>3, <1>8, <2>1 DEF Moves
  <2>3. ASSUME NEW o \in DOMAIN t.outputs
        PROVE  /\ u.outputs[out[o]].h = t.outputs[o].h
               /\ u.txs[u.outputs[out[o]].tx].h = t.txs[t.outputs[o].tx].h
    BY <1>3, <1>8, <2>1 DEF Moves
  <2>4. ASSUME NEW n \in DOMAIN t.spends
        PROVE  /\ u.spends[note[n]].h = t.spends[n].h
               /\ u.txs[u.spends[note[n]].tx].h = t.txs[t.spends[n].tx].h
    BY <1>3, <1>8, <2>1 DEF Moves
  <2>5. \A n \in DOMAIN t.spends : n \in DOMAIN t.notes
    BY DEF Apart, SpendsOfNotes
  <2> QED BY <2>1, <2>2, <2>3, <2>4, <2>5
<1>10. TxsShown(u, txs) = TxsShown(t, old)
  <2>1. \A x \in TxsShown(u, txs) : x \in TxsShown(t, old)
    BY <1>2, <1>8 DEF TxsShown
  <2>2. \A x \in TxsShown(t, old) : x \in TxsShown(u, txs)
    BY <1>2, <1>8 DEF TxsShown
  <2> QED BY <2>1, <2>2
<1>11. NotesShown(u, txs) = NotesShown(t, old)
  <2> HIDE DEF old
  <2> DEFINE f(n) == <<u.txs[u.notes[n].tx].h, u.notes[n].h, u.notes[n].locked, Noted(u, "note", n)>>
             g(n) == <<t.txs[t.notes[n].tx].h, t.notes[n].h, t.notes[n].locked, Noted(t, "note", n)>>
  <2>1. NotesShown(u, txs) = {f(n) : n \in MineOf(u, txs, u.notes)}
        /\ NotesShown(t, old) = {g(n) : n \in DOMAIN t.notes}
    BY <1>7 DEF NotesShown
  <2>2. \A n \in DOMAIN t.notes : f(note[n]) = g(n)
    <3> SUFFICES ASSUME NEW n \in DOMAIN t.notes PROVE f(note[n]) = g(n)
      OBVIOUS
    <3> DEFINE b == Noted(u, "note", note[n])
               c == Noted(t, "note", n)
    <3>1. b = c
      BY MovedMemos
    <3> HIDE DEF b, c
    <3>2. <<u.txs[u.notes[note[n]].tx].h, u.notes[note[n]].h, u.notes[note[n]].locked, b>>
          = <<t.txs[t.notes[n].tx].h, t.notes[n].h, t.notes[n].locked, c>>
      BY <1>9, <3>1
    <3> QED BY <3>2 DEF b, c
  <2> HIDE DEF f, g
  <2> QED BY <1>7, <2>1, <2>2
<1>12. OutputsShown(u, txs) = OutputsShown(t, old)
  <2> HIDE DEF old
  <2> DEFINE f(n) == <<u.txs[u.outputs[n].tx].h, u.outputs[n].h, Noted(u, "output", n)>>
             g(n) == <<t.txs[t.outputs[n].tx].h, t.outputs[n].h, Noted(t, "output", n)>>
  <2>1. OutputsShown(u, txs) = {f(n) : n \in MineOf(u, txs, u.outputs)}
        /\ OutputsShown(t, old) = {g(n) : n \in DOMAIN t.outputs}
    BY <1>7 DEF OutputsShown
  <2>2. \A n \in DOMAIN t.outputs : f(out[n]) = g(n)
    <3> SUFFICES ASSUME NEW n \in DOMAIN t.outputs PROVE f(out[n]) = g(n)
      OBVIOUS
    <3> DEFINE b == Noted(u, "output", out[n])
               c == Noted(t, "output", n)
    <3>1. b = c
      BY MovedMemos
    <3> HIDE DEF b, c
    <3>2. <<u.txs[u.outputs[out[n]].tx].h, u.outputs[out[n]].h, b>>
          = <<t.txs[t.outputs[n].tx].h, t.outputs[n].h, c>>
      BY <1>9, <3>1
    <3> QED BY <3>2 DEF b, c
  <2> HIDE DEF f, g
  <2> QED BY <1>7, <2>1, <2>2
<1>13. SpendsShown(u, txs) = SpendsShown(t, old)
  <2> HIDE DEF old
  <2> DEFINE f(n) == <<u.txs[u.spends[n].tx].h, u.spends[n].h, u.notes[n].h>>
             g(n) == <<t.txs[t.spends[n].tx].h, t.spends[n].h, t.notes[n].h>>
  <2>1. SpendsShown(u, txs) = {f(n) : n \in MineOf(u, txs, u.spends)}
        /\ SpendsShown(t, old) = {g(n) : n \in DOMAIN t.spends}
    BY <1>7 DEF SpendsShown
  <2>2. \A n \in DOMAIN t.spends : f(note[n]) = g(n)
    BY <1>9
  <2> HIDE DEF f, g
  <2> QED BY <1>7, <2>1, <2>2
<1>14. WitnessesShown(u, txs) = WitnessesShown(t, old)
  <2>1. ASSUME NEW w \in t.witnesses
        PROVE  w.note \in DOMAIN t.notes /\ t.notes[w.note].tx \in old
    BY <1>3 DEF Apart, WitnessesOfNotes
  <2>2. ASSUME NEW v \in u.witnesses, v.note \in DOMAIN u.notes, u.notes[v.note].tx \in txs
        PROVE  \E w \in t.witnesses : v.note = note[w.note] /\ v.h = w.h
    <3>1. v \notin s.witnesses
      <4> SUFFICES ASSUME v \in s.witnesses PROVE FALSE
        OBVIOUS
      <4>1. v.note \in DOMAIN s.notes
        BY DEF Apart, WitnessesOfNotes
      <4>2. u.notes[v.note].tx \in DOMAIN s.txs
        BY <1>3, <1>4, <4>1 DEF Moves
      <4> QED BY <1>1, <2>2, <4>2
    <3> QED BY <3>1 DEF Renewed
  <2>3. ASSUME NEW x \in WitnessesShown(u, txs) PROVE x \in WitnessesShown(t, old)
    <3>1. PICK v \in u.witnesses : /\ v.note \in DOMAIN u.notes /\ u.notes[v.note].tx \in txs
                                   /\ x = <<u.notes[v.note].h, v.h>>
      BY DEF WitnessesShown
    <3>2. PICK w \in t.witnesses : v.note = note[w.note] /\ v.h = w.h
      BY <2>2, <3>1
    <3>3. x = <<t.notes[w.note].h, w.h>>
      BY <1>9, <2>1, <3>1, <3>2
    <3> QED BY <2>1, <3>3 DEF WitnessesShown
  <2>4. ASSUME NEW x \in WitnessesShown(t, old) PROVE x \in WitnessesShown(u, txs)
    <3>1. PICK w \in t.witnesses : x = <<t.notes[w.note].h, w.h>>
      BY DEF WitnessesShown
    <3> DEFINE v == [account |-> a, note |-> note[w.note], h |-> w.h]
    <3>2. v \in u.witnesses
      BY DEF Renewed
    <3>3. v.note = note[w.note] /\ v.h = w.h
      OBVIOUS
    <3> HIDE DEF v
    <3>4. v.note \in DOMAIN u.notes /\ u.notes[v.note].tx \in txs
      BY <1>7, <2>1, <3>3 DEF MineOf
    <3>5. x = <<u.notes[v.note].h, v.h>>
      BY <1>9, <2>1, <3>1, <3>3
    <3> QED BY <3>2, <3>4, <3>5 DEF WitnessesShown
  <2> QED BY <2>3, <2>4
<1> QED BY <1>10, <1>11, <1>12, <1>13, <1>14, ContentIs

-----------------------------------------------------------------------------
(* The memos of the user are kept by account and transaction, those of a   *)
(* file for one account.                                                   *)
UserMemosPlaced ==
    /\ DOMAIN db.userMemos \subseteq Nat \X Nat
    /\ file.account # 0 => DOMAIN file.tables.userMemos \subseteq {file.account} \X Nat

(* The memos of the user after an import.                                  *)
KeptMemos(t) == {v \in DOMAIN t.userMemos : v[2] \in DOMAIN t.txs}
HasUserMemos(u, t, a) ==
    /\ DOMAIN u.userMemos = DOMAIN db.userMemos \union {<<a, NewTx(t)[v[2]]>> : v \in KeptMemos(t)}
    /\ \A x \in DOMAIN u.userMemos : x \notin DOMAIN db.userMemos =>
        \E w \in KeptMemos(t) : NewTx(t)[w[2]] = x[2] /\ u.userMemos[x] = t.userMemos[w]

LEMMA ImportMemos ==
    ASSUME IsTables(db), NEW t, NEW a, NEW height, NEW u, u = Imported(t, a, height)
    PROVE  HasUserMemos(u, t, a)
<1> DEFINE Rows(rows) == [r \in DOMAIN rows |-> Moved(rows[r], a, t)]
           kept == Those(t.userMemos, LAMBDA v : v[2] \in DOMAIN t.txs)
           txs == Renamed(db.txs, [i \in DOMAIN t.txs |-> ImportedTx(t.txs[i], a)], NewTx(t))
           notes == Renamed(db.notes, Rows(t.notes), NewNote(t))
           outputs == Renamed(db.outputs, Rows(t.outputs), NewOutput(t))
           spends == Renamed(db.spends, Rows(t.spends), NewNote(t))
           memos == db.memos \union
                {[Moved([m EXCEPT !.tx = RowOf(t, m).tx], a, t) EXCEPT
                    !.h = RowOf(t, m).h,
                    !.row = IF m.of = "note" THEN NewNote(t)[@] ELSE NewOutput(t)[@]] : m \in t.memos}
           userMemos == [x \in DOMAIN db.userMemos \union {<<a, NewTx(t)[v[2]]>> : v \in DOMAIN kept} |->
                            IF x \in DOMAIN db.userMemos THEN db.userMemos[x]
                            ELSE kept[CHOOSE v \in DOMAIN kept : NewTx(t)[v[2]] = x[2]]]
           witnesses == db.witnesses \union
                {[account |-> a, note |-> NewNote(t)[w.note], h |-> w.h] : w \in t.witnesses}
           heights == With(db.heights, a, height)
           r == [db EXCEPT !.txs = txs, !.notes = notes, !.outputs = outputs, !.spends = spends,
                           !.memos = memos, !.userMemos = userMemos, !.witnesses = witnesses,
                           !.heights = heights]
<1>1. u = r
  BY DEF Imported
<1>2. DOMAIN kept = KeptMemos(t) /\ \A v \in KeptMemos(t) : kept[v] = t.userMemos[v]
  BY DEF Those, KeptMemos
<1> HIDE DEF kept
<1>3. DOMAIN userMemos = DOMAIN db.userMemos \union {<<a, NewTx(t)[v[2]]>> : v \in KeptMemos(t)}
  BY <1>2
<1>4. ASSUME NEW x \in DOMAIN userMemos, x \notin DOMAIN db.userMemos
      PROVE  \E w \in KeptMemos(t) : NewTx(t)[w[2]] = x[2] /\ userMemos[x] = t.userMemos[w]
  <2> DEFINE w == CHOOSE v \in DOMAIN kept : NewTx(t)[v[2]] = x[2]
  <2>1. PICK v \in KeptMemos(t) : x = <<a, NewTx(t)[v[2]]>>
    BY <1>3, <1>4
  <2>2. \E y \in DOMAIN kept : NewTx(t)[y[2]] = x[2]
    BY <1>2, <2>1
  <2>3. w \in DOMAIN kept /\ NewTx(t)[w[2]] = x[2]
    BY <2>2
  <2>4. userMemos[x] = kept[w]
    BY <1>4
  <2> HIDE DEF w, userMemos
  <2> QED BY <1>2, <2>3, <2>4
<1> HIDE DEF txs, notes, outputs, spends, memos, userMemos, witnesses, heights
<1>5. r.userMemos = userMemos
  BY Columns DEF IsTables
<1> HIDE DEF r
<1> QED BY <1>1, <1>3, <1>4, <1>5 DEF HasUserMemos

(* Most steps leave the memos of the user.                                 *)
LEMMA WorkMemos ==
    ASSUME WalletInv, RowsTyped, Work
    PROVE  \/ db'.userMemos = db.userMemos
           \/ \E i \in DOMAIN db.txs : SetUserMemo(i)
<1>0. IsTables(db) /\ TypedRows(db)
  BY DEF RowsTyped, DbOK, TypedRows
<1> DEFINE Kept == db'.userMemos = db.userMemos
<1>1. ASSUME NEW a, NEW h, db' = Trimmed(db, a, h) PROVE Kept
  <2>1. RestOf(db, db', a, h)
    BY <1>0, <1>1, TrimTables
  <2> QED BY <2>1 DEF RestOf
<1>2. ASSUME ScanBlock PROVE Kept
  <2> DEFINE a  == run.account
             h  == run.at + 1
             in == Involved[run.key]
  <2>1. PICK i, n, kept : db' = Scanned(a, h, in, kept, i, n)
    BY <1>2 DEF ScanBlock
  <2> HIDE DEF a, h, in
  <2>2. HasBlock(db', a, h, in, kept, i, NotesAfter(a, h, in, i, n),
                 SpentIn(a, h, in, NotesAfter(a, h, in, i, n)))
    <3> DEFINE notes == NotesAfter(a, h, in, i, n)
               spent == SpentIn(a, h, in, notes)
    <3>1. PICK x, y : x = notes /\ y = spent
      OBVIOUS
    <3>2. HasBlock(db', a, h, in, kept, i, x, y)
      BY <1>0, <2>1, <3>1, ScanTables
    <3> QED BY <3>1, <3>2
  <2> QED BY <2>2 DEF HasBlock
<1>3. ASSUME LoseRun \/ (\E a \in ids : ListDetails(a)) \/ (\E x \in job.todo : LookUp(x)) \/ ExportEnd
      PROVE  Kept
  BY <1>3 DEF LoseRun, ListDetails, LookUp, ExportEnd
<1>4. ASSUME EndRun PROVE Kept
  <2>1. PICK txs : db' = [db EXCEPT !.txs = txs]
    BY <1>4 DEF EndRun
  <2> QED BY <1>0, <2>1, Columns DEF IsTables
<1>5. ASSUME NEW a \in ids, StartRun(a) \/ \E h \in 0 .. db.heights[a] : Rewind(a, h) PROVE Kept
  BY <1>1, <1>5 DEF StartRun, Rewind
<1>6. ASSUME StoreDetails PROVE Kept
  <2> DEFINE a == job.account
             h == job.h
             i == job.found
             out == WithOutput(db, a, h, i)
             rows == IF NoteId(a, h) = {} THEN {0} ELSE NoteId(a, h)
  <2>1. db' \in {db, out, WithMemo(db, a, h, i), WithMemo(out, a, h, i)}
    BY <1>6 DEF StoreDetails
  <2>2. HasOutput(db, out, a, h, i)
    BY <1>0, OutputTables
  <2>3. ASSUME NEW t, IsTables(t), NEW u, u = WithMemo(t, a, h, i) PROVE u.userMemos = t.userMemos
    <3>1. HasMemo(t, u, a, h, i, rows)
      BY <2>3, MemoTables
    <3> QED BY <3>1 DEF HasMemo
  <2>4. IsTables(out) /\ out.userMemos = db.userMemos
    BY <2>2 DEF HasOutput
  <2> HIDE DEF out
  <2> QED BY <1>0, <2>1, <2>3, <2>4
<1>7. ASSUME MarkDetails PROVE Kept
  <2>1. PICK txs : db' = [db EXCEPT !.txs = txs]
    BY <1>7 DEF MarkDetails
  <2> QED BY <1>0, <2>1, Columns DEF IsTables
<1>8. ASSUME NEW i, NEW c, SetCategory(i, c) PROVE Kept
  <2>1. PICK txs : db' = [db EXCEPT !.txs = txs]
    BY <1>8 DEF SetCategory
  <2> QED BY <1>0, <2>1, Columns DEF IsTables
<1>9. ASSUME NEW n, NEW locked, LockNote(n, locked) PROVE Kept
  <2>1. PICK notes : db' = [db EXCEPT !.notes = notes]
    BY <1>9 DEF LockNote
  <2> QED BY <1>0, <2>1, Columns DEF IsTables
<1>10. ASSUME NEW a \in ids, NEW h, NEW c, StorePending(a, h, c) \/ ExportBegin(a) PROVE Kept
  BY <1>10 DEF StorePending, ExportBegin
<1> DEFINE Notes == \E i \in DOMAIN db.txs : SetUserMemo(i)
           Locks == \E n \in DOMAIN db.notes : LockNote(n, ~db.notes[n].locked)
<1>11. Locks => Kept
  <2> SUFFICES ASSUME NEW n \in DOMAIN db.notes, NEW locked, locked = ~db.notes[n].locked,
                      LockNote(n, locked)
               PROVE  Kept
    OBVIOUS
  <2> QED BY <1>9
<1> HIDE DEF Kept
<1>12. Kept \/ Notes \/ Locks
  BY <1>2, <1>3, <1>4, <1>5, <1>6, <1>7, <1>8, <1>10 DEF Work
<1> QED BY <1>11, <1>12 DEF Kept

-----------------------------------------------------------------------------
(* Only the end of an export writes a file.                                *)
LEMMA FileStays == ASSUME [Next]_vars, ~ExportEnd PROVE file' = file
<1> USE DEF UserRows
<1>1. ASSUME NEW a, NEW h, NEW c,
             \/ StartRun(a) \/ Rewind(a, h) \/ ScanBlock \/ LoseRun \/ EndRun \/ ListDetails(a)
             \/ StoreDetails \/ MarkDetails \/ StorePending(a, h, c) \/ ExportBegin(a)
      PROVE  file' = file
  BY <1>1 DEF StartRun, Rewind, ScanBlock, LoseRun, EndRun, ListDetails, StoreDetails, MarkDetails,
              StorePending, ExportBegin
<1>2. ASSUME NEW x, NEW c, LookUp(x) \/ SetUserMemo(x) \/ SetCategory(x, c) \/ LockNote(x, c)
      PROVE  file' = file
  BY <1>2 DEF LookUp, SetUserMemo, SetCategory, LockNote
<1>3. CASE Work
  BY <1>1, <1>2, <1>3 DEF Work
<1>4. ASSUME NEW a, (\E new : CreateRows(new)) \/ DeleteRows(a) \/ Import \/ UNCHANGED rowVars
      PROVE  file' = file
  BY <1>4 DEF CreateRows, DeleteRows, Import, rowVars
<1>5. CASE UNCHANGED vars
  BY <1>5 DEF vars, rowVars
<1> QED BY <1>3, <1>4, <1>5 DEF Next

LEMMA MemosStayPlaced ==
    ASSUME WalletInv, RowsTyped, UserMemosPlaced, [Next]_vars
    PROVE  DOMAIN db'.userMemos \subseteq Nat \X Nat
<1>0. IsTables(db) /\ TypedRows(db)
  BY DEF RowsTyped, DbOK, TypedRows
<1>1. ASSUME db'.userMemos = db.userMemos PROVE DOMAIN db'.userMemos \subseteq Nat \X Nat
  BY <1>1 DEF UserMemosPlaced
<1>2. ASSUME NEW i \in DOMAIN db.txs, SetUserMemo(i) PROVE DOMAIN db'.userMemos \subseteq Nat \X Nat
  <2> DEFINE memos == With(db.userMemos, <<db.txs[i].account, i>>, db.txs[i].h)
  <2>1. db' = [db EXCEPT !.userMemos = memos]
    BY <1>2 DEF SetUserMemo
  <2>2. DOMAIN memos = DOMAIN db.userMemos \union {<<db.txs[i].account, i>>}
    BY DEF With
  <2>3. <<db.txs[i].account, i>> \in Nat \X Nat
    BY <1>0, RowsAre
  <2>4. DOMAIN memos \subseteq Nat \X Nat
    BY <2>2, <2>3 DEF UserMemosPlaced
  <2> HIDE DEF memos
  <2>5. db'.userMemos = memos
    BY <1>0, <2>1, Columns DEF IsTables
  <2> QED BY <2>4, <2>5
<1>3. CASE Work
  BY <1>1, <1>2, <1>3, WorkMemos
<1>4. ASSUME NEW new, CreateRows(new) PROVE DOMAIN db'.userMemos \subseteq Nat \X Nat
  <2> DEFINE heights == HeightsOf(new)
  <2>1. db' = [db EXCEPT !.heights = heights]
    BY <1>4 DEF CreateRows
  <2> HIDE DEF heights
  <2>2. db'.userMemos = db.userMemos
    BY <1>0, <2>1, Columns DEF IsTables
  <2> QED BY <1>1, <2>2
<1>5. ASSUME NEW a \in ids, DeleteRows(a) PROVE DOMAIN db'.userMemos \subseteq Nat \X Nat
  <2> DEFINE s == TrimmedRows(db, a, 0)
             heights == Without(s.heights, {a})
  <2>1. db' = [s EXCEPT !.heights = heights]
    BY <1>5 DEF DeleteRows, Deleted
  <2>2. IsTables(s) /\ s.userMemos = db.userMemos
    BY <1>0, TrimRows DEF RestOf
  <2> HIDE DEF s, heights
  <2>3. db'.userMemos = s.userMemos
    BY <2>1, <2>2, Columns DEF IsTables
  <2> QED BY <1>1, <2>2, <2>3
<1>6. CASE Import
  <2> DEFINE t == file.tables
  <2>1. PICK a \in NextId(accounts) : db' = db \/ db' = Imported(t, a, file.height)
    BY <1>6 DEF Import
  <2>2. ASSUME db' = Imported(t, a, file.height) PROVE DOMAIN db'.userMemos \subseteq Nat \X Nat
    <3>1. HasUserMemos(db', t, a)
      BY <1>0, <2>2, ImportMemos
    <3>2. TypedRows(t)
      BY DEF RowsTyped, FileOK
    <3>3. a \in Nat
      <4>1. DOMAIN accounts \in SUBSET Nat
        BY DEF WalletInv, Arranged, AccountTypeOK, ids
      <4> QED BY <4>1, NextIdNew
    <3> HIDE DEF t
    <3>4. \A v \in KeptMemos(t) : <<a, NewTx(t)[v[2]]>> \in Nat \X Nat
      BY <1>0, <3>2, <3>3, NewIds DEF KeptMemos
    <3> QED BY <3>1, <3>4 DEF HasUserMemos, UserMemosPlaced
  <2> QED BY <1>1, <2>1, <2>2
<1>7. ASSUME UNCHANGED rowVars PROVE DOMAIN db'.userMemos \subseteq Nat \X Nat
  BY <1>1, <1>7 DEF rowVars
<1>8. CASE UNCHANGED vars
  BY <1>1, <1>8 DEF vars, rowVars
<1> QED BY <1>3, <1>4, <1>5, <1>6, <1>7, <1>8 DEF Next

LEMMA NextPlaced ==
    (WalletInv /\ RowsTyped) /\ UserMemosPlaced /\ [Next]_vars => UserMemosPlaced'
<1> SUFFICES ASSUME WalletInv, RowsTyped, UserMemosPlaced, [Next]_vars PROVE UserMemosPlaced'
  OBVIOUS
<1>1. DOMAIN db'.userMemos \subseteq Nat \X Nat
  BY MemosStayPlaced
<1>2. file'.account # 0 => DOMAIN file'.tables.userMemos \subseteq {file'.account} \X Nat
  <2>1. CASE ~ExportEnd
    BY <2>1, FileStays DEF UserMemosPlaced
  <2>2. CASE ExportEnd
    <3> DEFINE t == ExportedTables(export.account)
               height == HeightRead(export.account)
               written == [export EXCEPT !.tables = t, !.height = height]
    <3>1. file' \in {written, file}
      BY <2>2 DEF ExportEnd
    <3>2. HasExport(t, export.account)
      BY ExportTables
    <3> HIDE DEF t
    <3>3. DOMAIN t.userMemos \subseteq {export.account} \X Nat
      BY <3>2 DEF UserMemosPlaced, HasExport, Part
    <3> HIDE DEF height
    <3>4. written.tables = t /\ written.account = export.account
      BY DEF WalletInv, FilesImportable, Importable, NoFile
    <3> HIDE DEF written
    <3> QED BY <3>1, <3>3, <3>4 DEF UserMemosPlaced
  <2> QED BY <2>1, <2>2
<1> QED BY <1>1, <1>2 DEF UserMemosPlaced

-----------------------------------------------------------------------------
(* Only an import says how it ended.                                       *)
LEMMA OutcomeOfImport ==
    ASSUME [Next]_vars, ~Import
    PROVE  outcome' = NoImport \/ UNCHANGED vars
BY DEF Next

LEMMA ImportRoundTrip ==
    ASSUME WalletInv, RowsTyped, RowsSound, FileSound, UserMemosPlaced, Import
    PROVE  RoundTrip'
<1> DEFINE t == file.tables
           c == file.account
           old == DOMAIN t.txs
<1>1. PICK a \in NextId(accounts) :
        /\ c # 0 /\ file' = file
        /\ outcome' = [result |-> IF RefersToNoNote(t) THEN "panic"
                                  ELSE IF Collides(t, a) THEN "unique" ELSE "ok",
                       account |-> a]
        /\ ~RefersToNoNote(t) /\ ~Collides(t, a) =>
              /\ ImportAccountRow(a, file.row, file.folder, file.addresses)
              /\ db' = Imported(t, a, file.height)
  BY DEF Import
<1> DEFINE L == [b \in {c} |-> file.row.key]
<1>2. Sound(t, L) /\ DOMAIN L = {c}
  BY <1>1 DEF FileSound
<1> HIDE DEF L
<1>3. ~RefersToNoNote(t)
  BY <1>2 DEF Sound, SpendsOfNotes, WitnessesOfNotes, RefersToNoNote
<1>4. CASE Collides(t, a)
  BY <1>1, <1>3, <1>4 DEF RoundTrip
<1>5. CASE ~Collides(t, a)
  <2>1. /\ outcome'.account = a
        /\ ImportAccountRow(a, file.row, file.folder, file.addresses)
        /\ db' = Imported(t, a, file.height) /\ outcome'.result = "ok"
    BY <1>1, <1>3, <1>5
  <2>2. TypedRows(db) /\ TypedRows(t) /\ Closed(t) /\ IsTables(db)
    BY DEF RowsTyped, DbOK, FileOK, TypedRows
  <2>3. HasImport(db', t, a) /\ HasUserMemos(db', t, a)
    BY <1>3, <1>5, <2>1, <2>2, ImportTables, ImportMemos
  <2>4. a \notin ids
    BY <2>1, ImportedAccount
  <2> DEFINE u == db'
             tx == NewTx(t)
             note == NewNote(t)
             out == NewOutput(t)
             txs == {i \in DOMAIN u.txs : u.txs[i].account = a}
  <2>5. Renewed(db, t, u, a, tx, note, out)
    <3>1. \A n \in DOMAIN t.notes : note[n] \notin DOMAIN db.spends
      BY <1>5 DEF Collides
    <3>2. Referring(t) /\ SpendsOfNotes(t) /\ MemosOfRows(t)
      BY <1>2 DEF Sound
    <3> HIDE DEF t
    <3> QED BY <2>2, <2>3, <3>1, <3>2, ImportRenews
  <2>6. Apart(db, t, a, note, out)
    <3>1. \A i \in DOMAIN db.txs : db.txs[i].account # a
      BY <2>4, RowOwners DEF RowsSound
    <3>2. /\ \A x, y \in DOMAIN t.notes : note[x] = note[y] => x = y
          /\ \A x, y \in DOMAIN t.outputs : out[x] = out[y] => x = y
      BY <2>2, NewIds
    <3> HIDE DEF t, note, out
    <3> QED BY <1>2, <3>1, <3>2 DEF Apart, RowsSound, Sound
  <2>7. \A i : i \in txs <=> i \in DOMAIN u.txs /\ u.txs[i].account = a
    OBVIOUS
  <2>8. ContentOf(u, txs) = ContentOf(t, old)
    <3> HIDE DEF t, u, tx, note, out, txs
    <3> QED BY <2>5, <2>6, <2>7, ContentMoved DEF t
  <2>9. UserMemosOf(t, old) \subseteq UserMemosOf(u, txs)
    <3> SUFFICES ASSUME NEW v \in DOMAIN t.userMemos, v[2] \in old
                 PROVE  <<t.txs[v[2]].h, t.userMemos[v]>> \in UserMemosOf(u, txs)
      BY DEF UserMemosOf
    <3> DEFINE x == <<a, tx[v[2]]>>
    <3>1. v \in KeptMemos(t)
      BY DEF KeptMemos
    <3>2. x \in DOMAIN u.userMemos /\ x \notin DOMAIN db.userMemos
      BY <1>5, <2>3, <3>1 DEF HasUserMemos, Collides
    <3>3. PICK w \in KeptMemos(t) : tx[w[2]] = x[2] /\ u.userMemos[x] = t.userMemos[w]
      BY <2>3, <3>2 DEF HasUserMemos
    <3>4. w[2] = v[2]
      BY <2>2, <3>3, NewIds DEF KeptMemos
    <3>5. w = v
      <4>1. v \in {c} \X Nat /\ w \in {c} \X Nat
        BY <1>1 DEF UserMemosPlaced, KeptMemos
      <4> QED BY <3>4, <4>1
    <3>6. x[2] \in txs /\ u.txs[x[2]].h = t.txs[v[2]].h
      BY <2>5 DEF Renewed
    <3> HIDE DEF x, txs, u, t
    <3> QED BY <3>2, <3>3, <3>5, <3>6 DEF UserMemosOf
  <2> QED BY <1>1, <2>1, <2>8, <2>9 DEF RoundTrip
<1> QED BY <1>4, <1>5

(* Whatever is exported is what an import has, with any number of accounts *)
(* and rows, and with any operations between the queries of the export and *)
(* before the import, until one trims or deletes what another works on.    *)
THEOREM ImportsAreExact == Spec => []RoundTrip
<1>1. Init => UserMemosPlaced /\ RoundTrip
  BY DEF Init, UserMemosPlaced, RoundTrip, NoTables, Nothing, NoFile, NoImport
<1>2. (WalletInv /\ RowsTyped /\ SoundInv) /\ UserMemosPlaced /\ RoundTrip /\ [Next]_vars
        => UserMemosPlaced' /\ RoundTrip'
  <2> SUFFICES ASSUME WalletInv, RowsTyped, SoundInv, UserMemosPlaced, RoundTrip, [Next]_vars
               PROVE  UserMemosPlaced' /\ RoundTrip'
    OBVIOUS
  <2>1. UserMemosPlaced'
    BY NextPlaced
  <2>2. CASE outcome' = NoImport
    BY <2>1, <2>2 DEF RoundTrip, NoImport
  <2>3. CASE UNCHANGED vars
    BY <2>1, <2>3 DEF RoundTrip, vars, rowVars
  <2>4. CASE Import
    <3>1. CASE overtaken' # {}
      BY <2>1, <3>1 DEF RoundTrip
    <3>2. CASE overtaken' = {}
      BY <2>1, <2>4, <3>2, OvertakenStays, ImportRoundTrip DEF SoundInv
    <3> QED BY <3>1, <3>2
  <2> QED BY <2>2, <2>3, <2>4, OutcomeOfImport
<1> QED BY <1>1, <1>2, SoundAlways, PTL DEF Spec
=============================================================================
