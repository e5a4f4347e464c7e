------------------------------ MODULE Accounts -------------------------------
(***************************************************************************)
(* The accounts of a wallet file (account.rs, db.rs, api/account.rs): how  *)
(* they are created, listed, ordered, put in folders and deleted, and the  *)
(* addresses that are made for them.  sqlite numbers a row with one more   *)
(* than the greatest identifier in the table, so identifiers come back.    *)
(*                                                                         *)
(* A key is what an account is made from.  "transparent" says what it      *)
(* knows of transparent addresses: nothing, an extended key, a single key  *)
(* without extended key, or a hardware wallet to ask.                      *)
(***************************************************************************)
EXTENDS Integers, FiniteSets

CONSTANTS
    Keys,         \* records: transparent, sapling, diversifier, firsts
    ValidIndex,   \* the diversifier indices that are valid for sapling
    FolderNames

Transparent == {"none", "extended", "single", "hardware"}

ASSUME KeysAssumption ==
    \A k \in Keys :
        /\ k.transparent \in Transparent /\ k.sapling \in BOOLEAN
        /\ k.diversifier \in Nat /\ k.firsts \subseteq Nat
        /\ k.transparent \in {"extended", "hardware"} => k.diversifier \in k.firsts

ASSUME ValidIndexAssumption == ValidIndex \subseteq Nat

VARIABLES
    accounts,   \* the table accounts, with the keys of the account
    taddrs,     \* transparent_address_accounts: (scope, index) of each account
    folders     \* the table folders

accountVars == <<accounts, taddrs, folders>>

(* The columns of an account the model keeps.  "xvk" is the extended key   *)
(* of transparent_accounts ("empty" is a blob of no bytes) and "saddr" the *)
(* index of the address in sapling_accounts, -1 for the empty string.      *)
ids       == DOMAIN accounts
XvkStates == {"none", "null", "key", "empty"}
Account   == [key : Keys, position : Nat, dindex : Nat, folder : Nat,
              xvk : XvkStates, saddr : Int]

(* One more than the greatest of the numbers used, from the first: the     *)
(* identifier of a new row, MAX(position) + 1, the next index.             *)
NextAfter(used, first) ==
    {n \in {first} \union {u + 1 : u \in used} : \A u \in used : u < n}
NextId(table) == NextAfter(DOMAIN table, 1)
NextPosition  == NextAfter({accounts[a].position : a \in ids}, 1)

With(f, id, row) == [x \in DOMAIN f \union {id} |-> IF x = id THEN row ELSE f[x]]
Without(f, xs)   == [x \in DOMAIN f \ xs |-> f[x]]

----------------------------------------------------------------------------
(* new_account: the default diversifier and the first addresses of the     *)
(* kind of key.                                                            *)
NewRow(k, position) ==
    [key |-> k, position |-> position, dindex |-> k.diversifier, folder |-> 0,
     xvk |-> CASE k.transparent = "none" -> "none"
               [] k.transparent = "extended" -> "key"
               [] OTHER -> "null",
     saddr |-> IF k.sapling THEN k.diversifier ELSE -1]

NewAccount(k) ==
    /\ \E id \in NextId(accounts), position \in NextPosition :
        /\ accounts' = With(accounts, id, NewRow(k, position))
        /\ taddrs' = With(taddrs, id, {0} \X k.firsts)
    /\ UNCHANGED folders

DeleteAccount(a) ==
    /\ accounts' = Without(accounts, {a})
    /\ taddrs' = Without(taddrs, {a})
    /\ UNCHANGED folders

(* Mutant: the accounts in between move the wrong way.                     *)
ShiftedAway(p, old, new) ==
    IF old < new /\ old < p /\ p <= new THEN p + 1
    ELSE IF old > new /\ new <= p /\ p < old THEN p - 1
    ELSE p

(* reorder_account: the accounts in between close the gap and make room.   *)
(* The new position is of a list that was shown before.                    *)
Shifted(p, old, new) ==
    IF old < new /\ old < p /\ p <= new THEN p - 1
    ELSE IF old > new /\ new <= p /\ p < old THEN p + 1
    ELSE p

ReorderAccount(a, new) ==
    LET old == accounts[a].position
    IN  /\ accounts' = [c \in ids |->
              [accounts[c] EXCEPT !.position = IF c = a THEN new ELSE Shifted(@, old, new)]]
        /\ UNCHANGED <<taddrs, folders>>

(* select_account_transparent unwraps the extended key.                    *)
Readable(a) == accounts[a].xvk # "empty"

(* generate_next_dindex: the next index, valid for sapling if the account  *)
(* has it, and its transparent address if there is a key to derive it.     *)
NextIndex(a) ==
    IF ~accounts[a].key.sapling THEN {accounts[a].dindex + 1}
    ELSE {di \in ValidIndex :
            /\ di > accounts[a].dindex
            /\ \A e \in ValidIndex : e > accounts[a].dindex => di <= e}

Derives(row) == row.xvk = "key" \/ row.key.transparent = "hardware"

(* Mutant: the address is that of the index before.                        *)
AddressBefore(a, di) ==
    IF Derives(accounts[a]) THEN {<<0, accounts[a].dindex>>} ELSE {}

NewAddress(a, di) == IF Derives(accounts[a]) THEN {<<0, di>>} ELSE {}

GenerateNextDindex(a) ==
    /\ Readable(a)
    /\ \E di \in NextIndex(a) :
        /\ accounts' = [accounts EXCEPT ![a].dindex = di,
                                        ![a].saddr = IF accounts[a].key.sapling THEN di ELSE @]
        /\ taddrs' = [taddrs EXCEPT ![a] = @ \union NewAddress(a, di)]
    /\ UNCHANGED folders

(* generate_next_change_address: the next index of scope 1, from 0.        *)
ChangeIndices(a) == {r[2] : r \in {q \in taddrs[a] : q[1] = 1}}
GenerateNextChangeAddress(a) ==
    /\ accounts[a].xvk = "key"
    /\ \E di \in NextAfter(ChangeIndices(a), 0) :
        taddrs' = [taddrs EXCEPT ![a] = @ \union {<<1, di>>}]
    /\ UNCHANGED <<accounts, folders>>

(* migrate_sapling_addresses, when the file is opened again.               *)
OpenDatabase ==
    /\ accounts' = [a \in ids |->
          [accounts[a] EXCEPT !.saddr =
             IF accounts[a].key.sapling /\ @ = -1 THEN accounts[a].dindex ELSE @]]
    /\ UNCHANGED <<taddrs, folders>>

----------------------------------------------------------------------------
(* Folders.  create_new_folder inserts a row even when there is one of the *)
(* name (the column is not unique); delete_folders first takes the         *)
(* accounts out.                                                           *)
CreateNewFolder(name) ==
    /\ \E id \in NextId(folders) : folders' = With(folders, id, name)
    /\ UNCHANGED <<accounts, taddrs>>

(* update_account checks no folder: whoever calls it chooses among the     *)
(* folders there are (the page of the account) or takes none (graphql).    *)
UpdateAccount(a, folder) ==
    /\ accounts' = [accounts EXCEPT ![a].folder = folder]
    /\ UNCHANGED <<taddrs, folders>>

(* Mutant: the accounts of the folder are forgotten.                       *)
LeftInFolder(row, id) == row

OutOfFolder(row, id) == [row EXCEPT !.folder = IF @ = id THEN 0 ELSE @]

DeleteFolder(id) ==
    /\ folders' = Without(folders, {id})
    /\ accounts' = [a \in ids |-> OutOfFolder(accounts[a], id)]
    /\ UNCHANGED taddrs

----------------------------------------------------------------------------
(* The account of import_account: everyone moves down, the account comes   *)
(* first.  What it had without extended key is written as an empty one,    *)
(* and the sapling address is left to the next migration.                  *)
NoName      == ""
FolderOf(a) == IF accounts[a].folder = 0 THEN NoName ELSE folders[accounts[a].folder]

ImportedRow(row, folder) ==
    [row EXCEPT !.position = 1, !.folder = folder, !.saddr = -1,
                !.xvk = IF @ = "null" THEN "empty" ELSE @]

(* Mutant: nobody moves down.                                              *)
StayInPlace == accounts

MovedDown == [a \in ids |-> [accounts[a] EXCEPT !.position = @ + 1]]

(* INSERT OR IGNORE INTO folders, then the folder of that name.            *)
ImportFolder(name) ==
    IF name = NoName THEN folders' = folders
    ELSE \E id \in NextId(folders) : folders' = With(folders, id, name)
IsFolderNamed(id, name, fs) ==
    IF name = NoName THEN id = 0 ELSE id \in DOMAIN fs /\ fs[id] = name

ImportAccountRow(id, row, name, addresses) ==
    /\ ImportFolder(name)
    /\ \E folder \in DOMAIN folders' \union {0} :
        /\ IsFolderNamed(folder, name, folders')
        /\ accounts' = With(MovedDown, id, ImportedRow(row, folder))
    /\ taddrs' = With(taddrs, id, addresses)

----------------------------------------------------------------------------
AccountInit ==
    /\ accounts = [a \in {} |-> <<>>]
    /\ taddrs = [a \in {} |-> {}]
    /\ folders = [f \in {} |-> NoName]

AccountNext ==
    \/ \E k \in Keys : NewAccount(k)
    \/ \E a \in ids :
        DeleteAccount(a) \/ GenerateNextDindex(a) \/ GenerateNextChangeAddress(a)
    \/ \E a \in ids, new \in Nat \ {0} : ReorderAccount(a, new)
    \/ \E name \in FolderNames : CreateNewFolder(name)
    \/ \E a \in ids, f \in DOMAIN folders \union {0} : UpdateAccount(a, f)
    \/ \E f \in DOMAIN folders : DeleteFolder(f)
    \/ OpenDatabase
    \/ \E id \in NextId(accounts), row \in Account, name \in FolderNames \union {NoName},
          addresses \in SUBSET ({0, 1} \X Nat) :
        /\ Derives(row) => <<0, row.dindex>> \in addresses
        /\ ImportAccountRow(id, row, name, addresses)

AccountSpec == AccountInit /\ [][AccountNext]_accountVars

----------------------------------------------------------------------------
AccountTypeOK ==
    /\ accounts \in [ids -> Account]
    /\ ids \subseteq Nat \ {0}
    /\ DOMAIN taddrs = ids
    /\ \A a \in ids : taddrs[a] \subseteq {0, 1} \X Nat
    /\ DOMAIN folders \subseteq Nat \ {0}
    /\ folders \in [DOMAIN folders -> FolderNames]

(* No two accounts have the same position, whatever is deleted, imported   *)
(* or dragged in between: reorder_account finds the account by it, and     *)
(* would move another one.                                                 *)
PositionsDistinct ==
    \A a, b \in ids : accounts[a].position = accounts[b].position => a = b

(* The folder of an account exists; identifiers of folders come back, and  *)
(* the account would turn up in another one.                               *)
FolderExists ==
    \A a \in ids : accounts[a].folder # 0 => accounts[a].folder \in DOMAIN folders

(* The transparent address of the current index is in the table, where the *)
(* wallet looks for what the account receives and pays change to.  It is   *)
(* not so for a single key after the user asked for a new address.         *)
CurrentAddressKnown ==
    \A a \in ids :
        Derives(accounts[a]) => <<0, accounts[a].dindex>> \in taddrs[a]

(* Dragging an account to the place of another one keeps the others in     *)
(* order.                                                                  *)
OrderKept ==
    [][\E m \in ids \union {0} :
        \A a, b \in (ids \intersect ids') \ {m} :
            accounts[a].position < accounts[b].position
                <=> accounts'[a].position < accounts'[b].position]_accountVars
=============================================================================
