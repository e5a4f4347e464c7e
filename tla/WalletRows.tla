----------------------------- MODULE WalletRows ------------------------------
(***************************************************************************)
(* The rows of the wallet file that belong to an account, and everything   *)
(* that refers to them by an identifier sqlite may use again: what a       *)
(* synchronization writes, the details that are fetched afterwards with    *)
(* requests in between (memo.rs), the memos and categories of the user,    *)
(* payments waiting to be mined (budget.rs), and an account that is        *)
(* deleted, or exported and imported (io.rs).                              *)
(*                                                                         *)
(* The chain is fixed and has one transaction a block: the height stands   *)
(* for the block, its transaction and the note or output in it.  What      *)
(* reorganizations do to a run is in WarpSync; here they are rewinds.      *)
(***************************************************************************)
EXTENDS Accounts

CONSTANTS
    Top,        \* the height of the chain
    Involved,   \* for each key, the heights of its notes, spends and outputs
    PurgeAge,   \* 100 blocks in merge_pending_txs
    Categories, \* the categories of transactions, 0 for none
    Budgets     \* bound: how often each kind of operation occurs

Kinds == {"new", "delete", "reorder", "address", "folder", "open", "run", "rewind",
          "details", "user", "pay", "export", "import"}

ASSUME WalletAssumption ==
    /\ Top \in Nat /\ PurgeAge \in Nat /\ 0 \in Categories
    /\ \A k \in Keys :
        /\ Involved[k].notes \subseteq 1 .. Top /\ Involved[k].outs \subseteq 1 .. Top
        /\ DOMAIN Involved[k].spends \subseteq 1 .. Top
        /\ \A h \in DOMAIN Involved[k].spends :
            Involved[k].spends[h] \in Involved[k].notes /\ Involved[k].spends[h] < h
    /\ Budgets \subseteq [Kinds -> Nat]

VARIABLES
    db,         \* the tables
    pending,    \* pending_txs, by account and transaction
    run,        \* the synchronization of an account
    job,        \* fetch_tx_details
    export,     \* export_account, between its queries
    file,       \* the file that was exported
    outcome,    \* how the step before imported a file
    overtaken,  \* the accounts trimmed or deleted while rows of them were in use
    left        \* what is left of the budget

rowVars == <<db, pending, run, job, export, file, overtaken>>
vars    == <<accountVars, rowVars, outcome, left>>

Nothing  == [x \in {} |-> 0]
NoTables ==
    [txs |-> Nothing, notes |-> Nothing, spends |-> Nothing, witnesses |-> {},
     outputs |-> Nothing, memos |-> {}, userMemos |-> Nothing, heights |-> Nothing]
NoRun    == [account |-> 0, key |-> 0, at |-> 0, tracked |-> {}]
NoJob    == [account |-> 0, todo |-> {}, h |-> 0, listed |-> 0, found |-> 0]
NoFile   == [account |-> 0, row |-> 0, folder |-> NoName, addresses |-> {}, height |-> 0,
             tables |-> NoTables]
NoImport == [result |-> "none", account |-> 0]

(* The rows of a table that satisfy a condition.                           *)
Those(table, Keep(_)) == [i \in {j \in DOMAIN table : Keep(j)} |-> table[i]]

TxId(a, h) == {i \in DOMAIN db.txs : db.txs[i].account = a /\ db.txs[i].h = h}
NoteId(a, h) == {n \in DOMAIN db.notes : db.notes[n].account = a /\ db.notes[n].h = h}

----------------------------------------------------------------------------
(* trim_sync_data; the memos of the user stay.                             *)
Above(x, a, h) == x.account = a /\ x.h > h
TrimmedRows(t, a, h) ==
    [t EXCEPT !.notes = Those(@, LAMBDA n : ~Above(t.notes[n], a, h)),
              !.spends = Those(@, LAMBDA n : ~Above(t.spends[n], a, h)),
              !.witnesses = {w \in @ : ~Above(w, a, h)},
              !.outputs = Those(@, LAMBDA o : ~Above(t.outputs[o], a, h)),
              !.memos = {m \in @ : ~Above(m, a, h)},
              !.txs = Those(@, LAMBDA i : ~Above(t.txs[i], a, h))]

(* Mutant: the transactions stay, as those of another scan do.             *)
TrimmedAllButTxs(t, a, h) ==
    [TrimmedRows(t, a, h) EXCEPT !.txs = t.txs, !.heights = [@ EXCEPT ![a] = h]]

Trimmed(t, a, h) == [TrimmedRows(t, a, h) EXCEPT !.heights = [@ EXCEPT ![a] = h]]

(* The accounts with one that is trimmed or deleted, if it is in use.       *)
Overtaking(a) == overtaken \union ({a} \intersect {run.account, job.account, export.account})

(* A run for an account: what is above its height goes, the keys and the   *)
(* unspent notes are read, then each block is committed.                   *)
StartRun(a) ==
    LET kept == Trimmed(db, a, db.heights[a])
    IN  /\ run.account = 0 /\ db.heights[a] < Top
        /\ db' = kept
        /\ run' = [account |-> a, key |-> accounts[a].key, at |-> db.heights[a],
                   tracked |-> {kept.notes[n].h : n \in {m \in DOMAIN kept.notes :
                               kept.notes[m].account = a /\ m \notin DOMAIN kept.spends}}]
        /\ overtaken' = IF kept = db THEN overtaken ELSE Overtaking(a)
        /\ UNCHANGED <<pending, job, export, file>>

(* The tables with the rows of a block: its transaction, unless there is a *)
(* row for it, its note, its spend, and a witness of each tracked note.    *)
Scanned(a, h, in, kept, i, n) ==
    LET mine  == h \in in.notes \union DOMAIN in.spends
        notes == IF h \in in.notes
                 THEN With(db.notes, n, [account |-> a, tx |-> i, h |-> h, locked |-> FALSE])
                 ELSE db.notes
        Rows(hs) == {m \in DOMAIN notes : notes[m].account = a /\ notes[m].h \in hs}
        spent == IF h \in DOMAIN in.spends THEN Rows({in.spends[h]}) ELSE {}
    IN  [db EXCEPT
          !.txs = IF ~mine \/ i \in DOMAIN @ THEN @
                  ELSE With(@, i, [account |-> a, h |-> h, details |-> FALSE, category |-> 0]),
          !.notes = notes,
          !.spends = [m \in DOMAIN @ \union spent |->
                        IF m \in spent THEN [account |-> a, tx |-> i, h |-> h] ELSE @[m]],
          !.witnesses = @ \union {[account |-> a, note |-> m, h |-> h] : m \in Rows(kept)},
          !.heights = [b \in DOMAIN @ |-> IF b = a THEN h ELSE @[b]]]

(* handle_message asserts that each insert finds its note; a note cannot   *)
(* be stored or spent twice.                                               *)
ScanBlock ==
    LET a    == run.account
        h    == run.at + 1
        in   == Involved[run.key]
        gone == IF h \in DOMAIN in.spends THEN {in.spends[h]} ELSE {}
        new  == IF h \in in.notes THEN {h} ELSE {}
        kept == (run.tracked \ gone) \union new
    IN  /\ run.account # 0 /\ h <= Top
        /\ \A g \in new : NoteId(a, g) = {}
        /\ \A g \in (run.tracked \union gone) \ new :
            NoteId(a, g) # {} /\ NoteId(a, g) \intersect DOMAIN db.spends = {}
        /\ \E i \in IF TxId(a, h) # {} THEN TxId(a, h) ELSE NextId(db.txs),
              n \in NextId(db.notes) :
            db' = Scanned(a, h, in, kept, i, n)
        /\ run' = [run EXCEPT !.at = h, !.tracked = kept]
        /\ UNCHANGED <<pending, job, export, file, overtaken>>

(* An assertion of handle_message fails, or the run is lost.               *)
LoseRun ==
    /\ run.account # 0
    /\ run' = NoRun
    /\ UNCHANGED <<db, pending, job, export, file, overtaken>>

Stale(a) == {p \in DOMAIN pending : p[1] = a /\ pending[p].height + PurgeAge < Top}

(* Mutant: the payments are purged, then merged.                           *)
MergedAfterPurge(a, i) ==
    {p \in DOMAIN pending \ Stale(a) : p[2] = db.txs[i].h /\ db.txs[i].account = a}

(* The payments that merge_pending_txs finds for a transaction: those with *)
(* its txid, whichever account they are of.                                *)
Merged(a, i) == {p \in DOMAIN pending : p[2] = db.txs[i].h /\ db.txs[i].account = a}

(* The end of a run, at the height of the chain or below it: when the      *)
(* stream ends early the run succeeds all the same.  merge_pending_txs,    *)
(* with the height of the chain.                                           *)
EndRun ==
    LET a == run.account
    IN  /\ run.account # 0
        /\ db' = [db EXCEPT !.txs = [i \in DOMAIN @ |->
                    IF Merged(a, i) = {} THEN @[i]
                    ELSE [@[i] EXCEPT !.category =
                            pending[CHOOSE p \in Merged(a, i) : TRUE].category]]]
        /\ pending' = [p \in DOMAIN pending \ Stale(a) |-> pending[p]]
        /\ run' = NoRun
        /\ UNCHANGED <<job, export, file, overtaken>>

----------------------------------------------------------------------------
(* A rewind, by the user or by the next run.                               *)
Rewind(a, h) ==
    /\ run.account # a /\ h < db.heights[a]
    /\ db' = Trimmed(db, a, h)
    /\ overtaken' = Overtaking(a)
    /\ UNCHANGED <<pending, run, job, export, file>>

(* Mutant: no height is inserted.                                          *)
NoHeights(new) == db.heights

(* init_sync_heights, for the account that is new.                         *)
HeightsOf(new) == [b \in new |-> IF b \in DOMAIN db.heights THEN db.heights[b] ELSE 0]

CreateRows(new) ==
    /\ db' = [db EXCEPT !.heights = HeightsOf(new)]
    /\ UNCHANGED <<pending, run, job, export, file, overtaken>>

(* Mutant: the notes are left behind.                                      *)
DeletedAllButNotes(t, a) == [TrimmedRows(t, a, 0) EXCEPT !.notes = t.notes]

(* delete_account: every table but user_memos and pending_txs.             *)
Deleted(t, a) == TrimmedRows(t, a, 0)

DeleteRows(a) ==
    /\ db' = [Deleted(db, a) EXCEPT !.heights = Without(@, {a})]
    /\ overtaken' = Overtaking(a)
    /\ UNCHANGED <<pending, run, job, export, file>>

----------------------------------------------------------------------------
(* fetch_tx_details.  The list is made once; for each transaction there is *)
(* a request, then it is looked up again by its txid, its outputs and      *)
(* memos are written, and the row that was listed is marked.               *)
ListDetails(a) ==
    /\ job.account = 0
    /\ job' = [NoJob EXCEPT !.account = a,
                 !.todo = {<<i, db.txs[i].h>> : i \in {j \in DOMAIN db.txs :
                              db.txs[j].account = a /\ ~db.txs[j].details}}]
    /\ job'.todo # {}
    /\ UNCHANGED <<db, pending, run, export, file, overtaken>>

(* "Failed to find transaction" ends the fetch.                            *)
LookUp(x) ==
    /\ job.listed = 0 /\ x \in job.todo
    /\ IF TxId(job.account, x[2]) = {} THEN job' = NoJob
       ELSE \E i \in TxId(job.account, x[2]) :
             job' = [job EXCEPT !.h = x[2], !.listed = x[1], !.found = i, !.todo = @ \ {x}]
    /\ UNCHANGED <<db, pending, run, export, file, overtaken>>

(* Rows that exist are kept: ON CONFLICT DO NOTHING.                       *)
OutputOf(t, i) == {o \in DOMAIN t.outputs : t.outputs[o].tx = i}
MemoOf(t, i, of) == {m \in t.memos : m.tx = i /\ m.of = of}

StoredOutput(t, a, h, i) ==
    IF OutputOf(t, i) # {} THEN t.outputs
    ELSE [o \in DOMAIN t.outputs \union NextId(t.outputs) |->
            IF o \in DOMAIN t.outputs THEN t.outputs[o] ELSE [account |-> a, tx |-> i, h |-> h]]

StoredMemo(t, a, h, i, of, rows) ==
    IF MemoOf(t, i, of) # {} THEN t.memos
    ELSE t.memos \union {[account |-> a, tx |-> i, h |-> h, of |-> of, row |-> r] : r \in rows}

WithOutput(t, a, h, i) ==
    LET stored == [t EXCEPT !.outputs = StoredOutput(t, a, h, i)]
    IN  [stored EXCEPT !.memos = StoredMemo(stored, a, h, i, "output", OutputOf(stored, i))]

(* Without its note, the memo of an orchard note fails, that of a sapling  *)
(* note refers to none.                                                    *)
WithMemo(t, a, h, i) ==
    [t EXCEPT !.memos = StoredMemo(t, a, h, i, "note",
                          IF NoteId(a, h) = {} THEN {0} ELSE NoteId(a, h))]

(* decrypt_memo, with the keys the account has now.                        *)
StoreDetails ==
    LET a    == job.account
        h    == job.h
        sent == a \in ids /\ h \in Involved[accounts[a].key].outs
        got  == a \in ids /\ h \in Involved[accounts[a].key].notes
        out  == IF sent THEN WithOutput(db, a, h, job.found) ELSE db
    IN  /\ job.found # 0
        /\ \E fails \in IF got /\ NoteId(a, h) = {} THEN BOOLEAN ELSE {FALSE} :
            /\ db' = IF got /\ ~fails THEN WithMemo(out, a, h, job.found) ELSE out
            /\ job' = IF fails THEN NoJob ELSE [job EXCEPT !.found = 0, !.h = 0]
        /\ UNCHANGED <<pending, run, export, file, overtaken>>

MarkDetails ==
    /\ job.listed # 0 /\ job.found = 0
    /\ db' = [db EXCEPT !.txs = [i \in DOMAIN @ |->
                 IF i = job.listed THEN [@[i] EXCEPT !.details = TRUE] ELSE @[i]]]
    /\ job' = IF job.todo = {} THEN NoJob ELSE [job EXCEPT !.listed = 0]
    /\ UNCHANGED <<pending, run, export, file, overtaken>>

----------------------------------------------------------------------------
(* What the user does with rows that are shown, and payments.              *)
UserRows == UNCHANGED <<pending, run, job, export, file, overtaken>>

SetUserMemo(i) ==
    /\ db' = [db EXCEPT !.userMemos = With(@, <<db.txs[i].account, i>>, db.txs[i].h)]
    /\ UserRows
SetCategory(i, c) ==
    /\ db' = [db EXCEPT !.txs = [@ EXCEPT ![i].category = c]]
    /\ UserRows
LockNote(n, locked) ==
    /\ db' = [db EXCEPT !.notes = [@ EXCEPT ![n].locked = locked]]
    /\ UserRows

(* A payment the account made, to be mined at height h.                    *)
StorePending(a, h, c) ==
    /\ h \in DOMAIN Involved[accounts[a].key].spends
    /\ db.heights[a] < h /\ Involved[accounts[a].key].spends[h] <= db.heights[a]
    /\ \A p \in DOMAIN pending : p[2] # h
    /\ pending' = With(pending, <<a, h>>, [category |-> c, height |-> h - 1])
    /\ UNCHANGED <<db, run, job, export, file, overtaken>>

----------------------------------------------------------------------------
(* export_account: the queries of a list of tables, one after the other    *)
(* and outside a transaction, here in two groups: the height and the       *)
(* witnesses, then the transactions and all that is found through them.    *)
(* What a run commits between two queries of a group is of transactions    *)
(* not listed; what an account loses meanwhile makes it overtaken.         *)
ExportBegin(a) ==
    /\ export.account = 0
    /\ export' = [account |-> a, row |-> accounts[a], folder |-> FolderOf(a),
                  addresses |-> taddrs[a], height |-> db.heights[a],
                  tables |-> [NoTables EXCEPT !.witnesses = {w \in db.witnesses : w.account = a}]]
    /\ UNCHANGED <<db, pending, run, job, file, overtaken>>

ExportedNotes(txs) == Those(db.notes, LAMBDA n : db.notes[n].tx \in DOMAIN txs)

(* The transactions of the account, and what refers to them.               *)
ExportedTables(a) ==
    LET txs     == Those(db.txs, LAMBDA i : db.txs[i].account = a)
        notes   == ExportedNotes(txs)
        outputs == Those(db.outputs, LAMBDA o : db.outputs[o].tx \in DOMAIN txs)
    IN  [txs |-> txs, notes |-> notes, outputs |-> outputs,
         spends |-> Those(db.spends, LAMBDA n : db.spends[n].tx \in DOMAIN txs),
         memos |-> {m \in db.memos : (m.of = "note" /\ m.row \in DOMAIN notes)
                                     \/ (m.of = "output" /\ m.row \in DOMAIN outputs)},
         userMemos |-> Those(db.userMemos, LAMBDA u : u[1] = a),
         witnesses |-> export.tables.witnesses, heights |-> Nothing]

(* Mutant: the height of the account is read last.                         *)
HeightReadLast(a) == db.heights[a]

HeightRead(a) == export.height

ExportEnd ==
    /\ export.account # 0
    /\ LET a == export.account
       IN  file' = IF a \in ids
                   THEN [export EXCEPT !.tables = ExportedTables(a), !.height = HeightRead(a)]
                   ELSE file
    /\ export' = NoFile
    /\ UNCHANGED <<db, pending, run, job, overtaken>>

(* import_account.  Rows get new identifiers in the order of the old ones. *)
Renumbered(old, table) ==
    LET rank == [i \in old |-> Cardinality({j \in old : j < i})]
    IN  [i \in old |-> rank[i] + (CHOOSE n \in NextId(table) : TRUE)]

NewTx(t)     == Renumbered(DOMAIN t.txs, db.txs)
NewNote(t)   == Renumbered(DOMAIN t.notes, db.notes)
NewOutput(t) == Renumbered(DOMAIN t.outputs, db.outputs)

(* A map lookup of the import is unwrapped.                                *)
RefersToNoNote(t) ==
    \/ \E n \in DOMAIN t.spends : n \notin DOMAIN t.notes
    \/ \E w \in t.witnesses : w.note \notin DOMAIN t.notes

(* What is left in a table has the key of a row to insert.                 *)
Collides(t, a) ==
    LET txs   == {NewTx(t)[i] : i \in DOMAIN t.txs}
        notes == {NewNote(t)[n] : n \in DOMAIN t.notes}
    IN  \/ \E u \in DOMAIN t.userMemos :
              u[2] \in DOMAIN t.txs /\ <<a, NewTx(t)[u[2]]>> \in DOMAIN db.userMemos
        \/ \E o \in DOMAIN db.outputs : db.outputs[o].tx \in txs
        \/ \E m \in db.memos : m.tx \in txs
        \/ notes \intersect DOMAIN db.spends # {}
        \/ \E w \in db.witnesses : w.note \in notes

(* The row of the file that a memo is joined with.                         *)
RowOf(t, m) == IF m.of = "note" THEN t.notes[m.row] ELSE t.outputs[m.row]

Moved(row, a, t) == [row EXCEPT !.account = a, !.tx = NewTx(t)[@]]
Renamed(table, rows, to) ==
    [x \in DOMAIN table \union {to[r] : r \in DOMAIN rows} |->
        IF x \in DOMAIN table THEN table[x]
        ELSE rows[CHOOSE r \in DOMAIN rows : to[r] = x]]

(* Mutant: the category of a transaction is not mapped.                    *)
WithoutCategory(row, a) == [row EXCEPT !.account = a, !.category = 0]

ImportedTx(row, a) == [row EXCEPT !.account = a]

Imported(t, a, height) ==
    LET Rows(rows) == [r \in DOMAIN rows |-> Moved(rows[r], a, t)]
        kept == Those(t.userMemos, LAMBDA u : u[2] \in DOMAIN t.txs)
    IN  [db EXCEPT
          !.txs = Renamed(@, [i \in DOMAIN t.txs |-> ImportedTx(t.txs[i], a)], NewTx(t)),
          !.notes = Renamed(@, Rows(t.notes), NewNote(t)),
          !.outputs = Renamed(@, Rows(t.outputs), NewOutput(t)),
          !.spends = Renamed(@, Rows(t.spends), NewNote(t)),
          !.memos = @ \union
              {[Moved([m EXCEPT !.tx = RowOf(t, m).tx], a, t) EXCEPT
                  !.h = RowOf(t, m).h,
                  !.row = IF m.of = "note" THEN NewNote(t)[@] ELSE NewOutput(t)[@]] : m \in t.memos},
          !.userMemos = [u \in DOMAIN @ \union {<<a, NewTx(t)[v[2]]>> : v \in DOMAIN kept} |->
              IF u \in DOMAIN @ THEN @[u]
              ELSE kept[CHOOSE v \in DOMAIN kept : NewTx(t)[v[2]] = u[2]]],
          !.witnesses = @ \union
              {[account |-> a, note |-> NewNote(t)[w.note], h |-> w.h] : w \in t.witnesses},
          !.heights = With(@, a, height)]

(* The whole import is a transaction: a panic or an error leaves nothing.  *)
(* Once an account was overtaken the file may have rows of it.             *)
Import ==
    \E a \in NextId(accounts) :
        LET t    == file.tables
            fail == IF RefersToNoNote(t) THEN "panic"
                    ELSE IF Collides(t, a) THEN "unique" ELSE "ok"
        IN  /\ file.account # 0
            /\ outcome' = [result |-> fail, account |-> a]
            /\ IF fail = "ok"
               THEN /\ ImportAccountRow(a, file.row, file.folder, file.addresses)
                    /\ db' = Imported(t, a, file.height)
                    /\ overtaken' = IF overtaken = {} THEN {} ELSE overtaken \union {a}
               ELSE UNCHANGED <<accountVars, db, overtaken>>
            /\ UNCHANGED <<pending, run, job, export, file>>

----------------------------------------------------------------------------
Spend(kind) ==
    /\ left[kind] > 0
    /\ left' = [left EXCEPT ![kind] = @ - 1]

(* Operations on accounts alone.                                           *)
Arrange ==
    \/ Spend("reorder") /\ \E a \in ids, new \in 1 .. Cardinality(ids) + 1 : ReorderAccount(a, new)
    \/ Spend("address") /\ \E a \in ids : GenerateNextDindex(a)
    \/ Spend("address") /\ \E a \in ids : GenerateNextChangeAddress(a)
    \/ Spend("folder") /\ \E name \in FolderNames : CreateNewFolder(name)
    \/ Spend("folder") /\ \E a \in ids, f \in DOMAIN folders \union {0} : UpdateAccount(a, f)
    \/ Spend("folder") /\ \E f \in DOMAIN folders : DeleteFolder(f)
    \/ Spend("open") /\ OpenDatabase

(* Operations on the rows of accounts.                                     *)
Work ==
    \/ Spend("run") /\ \E a \in ids : StartRun(a)
    \/ ScanBlock /\ UNCHANGED left
    \/ LoseRun /\ UNCHANGED left
    \/ EndRun /\ UNCHANGED left
    \/ Spend("rewind") /\ \E a \in ids : \E h \in 0 .. db.heights[a] : Rewind(a, h)
    \/ Spend("details") /\ \E a \in ids : ListDetails(a)
    \/ (\E x \in job.todo : LookUp(x)) /\ UNCHANGED left
    \/ StoreDetails /\ UNCHANGED left
    \/ MarkDetails /\ UNCHANGED left
    \/ Spend("user") /\ \E i \in DOMAIN db.txs : SetUserMemo(i)
    \/ Spend("user") /\ \E i \in DOMAIN db.txs, c \in Categories : SetCategory(i, c)
    \/ Spend("user") /\ \E n \in DOMAIN db.notes : LockNote(n, ~db.notes[n].locked)
    \/ Spend("pay") /\ \E a \in ids, h \in 1 .. Top, c \in Categories : StorePending(a, h, c)
    \/ Spend("export") /\ \E a \in ids : ExportBegin(a)
    \/ ExportEnd /\ UNCHANGED left

Init ==
    /\ AccountInit
    /\ db = NoTables /\ pending = Nothing
    /\ run = NoRun /\ job = NoJob /\ export = NoFile /\ file = NoFile
    /\ outcome = NoImport /\ overtaken = {}
    /\ left \in Budgets

Next ==
    \/ /\ Spend("new")
       /\ \E k \in Keys : NewAccount(k)
       /\ CreateRows(ids')
       /\ outcome' = NoImport
    \/ /\ Spend("delete")
       /\ \E a \in ids : DeleteAccount(a) /\ DeleteRows(a)
       /\ outcome' = NoImport
    \/ Spend("import") /\ Import
    \/ Arrange /\ UNCHANGED rowVars /\ outcome' = NoImport
    \/ Work /\ UNCHANGED accountVars /\ outcome' = NoImport

Spec == Init /\ [][Next]_vars

----------------------------------------------------------------------------

TypeOK ==
    /\ AccountTypeOK
    /\ DOMAIN db.heights = ids
    /\ \A i \in DOMAIN db.txs :
        db.txs[i] \in [account : Nat, h : 1 .. Top, details : BOOLEAN, category : Categories]
    /\ \A n \in DOMAIN db.notes :
        db.notes[n] \in [account : Nat, tx : Nat, h : 1 .. Top, locked : BOOLEAN]
    /\ \A x \in {db.spends[n] : n \in DOMAIN db.spends}
                 \union {db.outputs[o] : o \in DOMAIN db.outputs} :
        x \in [account : Nat, tx : Nat, h : 1 .. Top]
    /\ DOMAIN pending \subseteq Nat \X (1 .. Top)
    /\ run.at \in 0 .. Top /\ overtaken \subseteq Nat
    /\ outcome.result \in {"none", "ok", "unique", "panic"}

(* The details of a transaction that is marked are in the table, for good: *)
(* it is never fetched again, and the memo would never be shown.  An       *)
(* account that is trimmed or deleted while its details are fetched is the *)
(* exception: the row that was listed may be another one by then.          *)
DetailsComplete ==
    overtaken # {} \/ \A i \in DOMAIN db.txs : db.txs[i].details =>
        LET row == db.txs[i]
            in  == Involved[accounts[row.account].key]
        IN  /\ row.h \in in.outs =>
                \E o \in OutputOf(db, i) : \E m \in MemoOf(db, i, "output") : m.row = o
            /\ row.h \in in.notes =>
                \E n \in NoteId(row.account, row.h) : \E m \in MemoOf(db, i, "note") : m.row = n

(* The rows of an account are of its own key, and refer to rows of the     *)
(* same account, whatever accounts and rows had their identifiers before,  *)
(* and whatever becomes of other accounts.  The exception are the accounts *)
(* that were overtaken: a run or a fetch that does not know of it goes on  *)
(* to write rows for them.                                                 *)
RowsOfOwnKey ==
    LET Own(table) == {x \in DOMAIN table : table[x].account \notin overtaken}
    IN  /\ \A i \in Own(db.txs) :
            /\ db.txs[i].account \in ids
            /\ LET in == Involved[accounts[db.txs[i].account].key]
               IN  db.txs[i].h \in in.notes \union DOMAIN in.spends
        /\ \A x \in {db.notes[n] : n \in Own(db.notes)}
                    \union {db.spends[n] : n \in Own(db.spends)}
                    \union {db.outputs[o] : o \in Own(db.outputs)}
                    \union {m \in db.memos : m.account \notin overtaken} :
            x.tx \in DOMAIN db.txs /\ db.txs[x.tx].account = x.account /\ db.txs[x.tx].h = x.h
        /\ \A n \in Own(db.spends) : n \in Own(db.notes)
        /\ \A w \in db.witnesses : w.account \notin overtaken => w.note \in Own(db.notes)

(* Every note that is not spent has a witness at the height of its         *)
(* account, also when the account came from a file that was written while  *)
(* it was synchronized; without, the note cannot be spent and the witness  *)
(* cannot be brought up to date.                                           *)
NotesKeepWitness ==
    overtaken # {} \/ \A n \in DOMAIN db.notes :
        LET a == db.notes[n].account
            h == db.heights[a]
        IN  \/ db.notes[n].h > h
            \/ n \in DOMAIN db.spends /\ db.spends[n].h <= h
            \/ [account |-> a, note |-> n, h |-> h] \in db.witnesses

(* What an account of some tables shows, without identifiers.              *)
ContentOf(t, txs) ==
    LET Mine(row) == row.tx \in txs
    IN  [txs |-> {<<t.txs[i].h, t.txs[i].details, t.txs[i].category>> : i \in txs},
         notes |-> {<<t.txs[t.notes[n].tx].h, t.notes[n].h, t.notes[n].locked,
                      \E m \in t.memos : m.of = "note" /\ m.row = n>> :
                        n \in {x \in DOMAIN t.notes : Mine(t.notes[x])}},
         outputs |-> {<<t.txs[t.outputs[o].tx].h, t.outputs[o].h,
                        \E m \in t.memos : m.of = "output" /\ m.row = o>> :
                        o \in {x \in DOMAIN t.outputs : Mine(t.outputs[x])}},
         spends |-> {<<t.txs[t.spends[n].tx].h, t.spends[n].h, t.notes[n].h>> :
                        n \in {x \in DOMAIN t.spends : Mine(t.spends[x])}},
         witnesses |-> {<<t.notes[w.note].h, w.h>> :
                        w \in {x \in t.witnesses : x.note \in DOMAIN t.notes /\ Mine(t.notes[x.note])}}]

UserMemosOf(t, txs) ==
    {<<t.txs[u[2]].h, t.userMemos[u]>> : u \in {x \in DOMAIN t.userMemos : x[2] \in txs}}

(* An import does not panic on a file that export_account wrote, and when  *)
(* it succeeds it has all that was exported, and only that: the notes with *)
(* their memos, spends and witnesses, the outputs, categories, locks and   *)
(* memos of the user, under whatever identifiers.  Two things come on top: *)
(* what the run of a deleted account goes on writing, and what the user    *)
(* noted on transactions of a deleted account.                             *)
RoundTrip ==
    overtaken # {} \/
        /\ outcome.result # "panic"
        /\ outcome.result = "ok" =>
            LET new == {i \in DOMAIN db.txs : db.txs[i].account = outcome.account}
                old == DOMAIN file.tables.txs
            IN  /\ ContentOf(db, new) = ContentOf(file.tables, old)
                /\ UserMemosOf(file.tables, old) \subseteq UserMemosOf(db, new)

(* A payment stops waiting only when its transaction has its category, if  *)
(* the account has read the block it is in: all that a run read before, or *)
(* that was imported, is there to be merged with.  (A payment in a block   *)
(* that the account has not read is lost when the run ends early.)         *)
PurgedAfterMerge ==
    [][\A p \in DOMAIN pending \ DOMAIN pending' :
        LET a == p[1]
            h == p[2]
        IN  /\ a \in ids \ overtaken /\ h <= db.heights[a]
            /\ h \in DOMAIN Involved[accounts[a].key].spends
            => \E i \in TxId(a, h)' : db'.txs[i].category = pending[p].category]_vars
=============================================================================
