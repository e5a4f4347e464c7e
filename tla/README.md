# Verification of zkool's wallet core

zkool is a Zcash wallet: a Flutter application (`src/lib`) over a Rust core
(`src/rust/src`) that keeps everything it knows in one sqlite database and learns
it from a node, lightwalletd or zebra. This directory holds TLA+ models of the
core, the TLC configurations that check them on small instances, and proofs that
TLAPS checks for every instance.

The models cover what is hard in the program: the synchronization of the
database with a chain that reorganizes, over connections that fail, in an
application that may be killed at any point; the scheduler that starts it; the
rows that refer to each other by identifiers that come back; the plan of a
payment; and the two protocols of FROST, which talk through memos on the chain.

## 1. The system

| Part | Source | State it keeps | Operations | Interacts with |
|---|---|---|---|---|
| Synchronization | `sync.rs`, `warp/sync.rs`, `warp/sync/shielded.rs` | tables `sync_heights`, `headers`, `notes`, `spends`, `witnesses`, `transactions`; the lock `SYNCING`, the sender `CANCEL_SYNC`; channels between the tasks of a run | `synchronize_impl`, `transparent_sync`, `shielded_sync`, `warp_sync`, `handle_message`, `recover_from_partial_sync`, `rewind_sync`, `trim_sync_data`, `prune_old_checkpoints`, `reset_sync` | node clients (requests and streams), the application (start, cancel, rewind, reset) |
| Node clients | `net/lwd.rs`, `net/zebra.rs` | none; a task for each stream | block ranges, transactions of an address, tree state, tip, mempool, broadcast | synchronization, mempool, payment |
| Merkle witnesses | `warp/sync/shielded.rs`, `warp/mod.rs` | authentication paths of the tracked notes, the frontier | `Synchronizer::add` | synchronization |
| Accounts and keys | `account.rs`, `key.rs`, `keys.rs`, `api/account.rs` | tables of accounts, keys, addresses and folders | create, delete, reorder, folders, new addresses, reset | all |
| Database | `db.rs` | the schema; identifiers of rows | creation, migration, queries | all |
| Payment | `pay/*.rs` | none between calls; locks on notes, pending transactions | plan, sign, extract, broadcast | notes and witnesses of the synchronization |
| FROST | `frost/*.rs` | tables `dkg_*`, `frost_*` | rounds of key generation and signing, driven by memos on the chain | payment (sends memos), synchronization (receives them) |
| Mempool | `mempool.rs`, `api/mempool.rs` | a cancellation token | run, cancel | node clients, application |
| Memos, budget | `memo.rs`, `budget.rs` | details, categories, prices of transactions, payments that wait to be mined | `fetch_tx_details`, `merge_pending_txs` | the end of a run; requests to the node |
| Import, export | `io.rs` | none; a file with the rows of one account | `export_account`, `import_account` | all tables, under new identifiers |
| Application | `lib/store.dart`, `lib/pages` | flags and timers of the scheduler | `autoSync`, `startSynchronize`, rewind, reset | synchronization, mempool |
| Others | `contacts.rs`, `openalias.rs`, `recover.rs`, `ledger/`, `vault/`, `plugin/`, `graphql/` | their own tables, or none | lookups, device commands, secrets, scripts, a second API | database |

What makes the synchronization hard:

* One run is four tasks: the caller, the reader of the block stream, the loop that
  decrypts chunks, and the writer that owns the database transaction. The reader
  stops for five reasons, and all but one look alike to the caller.
* A run commits many times: for each transparent address, for each chunk, for each
  fetched header. It may be lost between any two of them, and the next run starts
  from what is in the tables.
* The chain that one request sees need not be the chain of the next request.
* Accounts at different heights share a run, in segments, and share the table of
  headers, while nothing else is shared.
* The user may rewind or reset an account at any time; only runs take the lock.

What makes the other parts hard:

* sqlite gives the identifier of a deleted row to a new one, and half of the tables
  refer to rows by identifier without a foreign key. Details are fetched, and an
  account exported, over many statements with a run in between.
* A round of FROST is a database transaction with a message to the network in its
  middle: the message may be out and the transaction lost, or the message refused.
  What the others see is what is mined, in its order.
* The fee of a payment grows with each note that is taken to pay for it.
* The scheduler is a dozen of awaits with flags and subscriptions shared by callers
  that do not know of each other.

What makes each part correct:

* Synchronization: what an account shows is always what one branch of the chain
  contains, and it moves along a branch; every unspent note can be spent at the
  height of its account; rows of different tables about one note live and die
  together; runs do not fail on their own data; the wallet arrives at the tip.
* Merkle witnesses: the path that `add` maintains is the path of the full tree.
* Payment: inputs cover outputs and fee exactly, change goes to a permitted pool,
  the counters of the fee do not overflow.
* FROST: all participants hold the same packages and compute the same key, from
  secrets their owners have kept; nonces sign one package; those who take part
  finish in the end, whatever they have to repeat.
* Scheduler: one run at a time; calls do not take the lock or the subscription from each
  other; a run that failed or ended early is followed by another, and accounts that are
  behind are synchronized in the end.
* Database: an identifier that is used again never carries state of its former row;
  an account that is exported and imported is the same account.

## 2. Plan

Done, in this order:

1. `BlockTree`, the chain as the node serves it.
2. `ChainView`, the promise: the abstract specification of synchronization.
3. `WarpSync`, the synchronization, which implements `ChainView`.
4. `WarpSync_rows`, `WarpSync_promise`: proofs.
5. `FrostDkg` and `FrostDkg_proofs`, the generation of a shared key.
6. `FrostSign` and `FrostSign_proofs`, the signing of a transaction.
7. `PaymentPlan` and `PaymentPlan_proofs`, the plan of a payment.
8. `Accounts`, the accounts as they are listed; `WalletRows`, the rows behind them,
   which implements `Accounts`; `WalletRows_proofs`: proofs.
9. `SyncScheduler` and `SyncScheduler_proofs`, what starts a run.
10. `WitnessTree` and `WitnessTree_proofs`, the authentication paths.

Left, most important first:

* `ImplementsPromise` for one account with transparent addresses under reorganizations
  between runs, as a theorem (`crash` checks it).
* The plan for other assets than ZEC, issuance and burning (`pay/plan.rs`), and the
  locks on notes from the plan to the broadcast.
* The tables of a shared account over versions of the application
  (`dkg_packages` and its migration), and their export.
* The mempool listener.

Compositions: `WarpSync` stands on `BlockTree` and implements `ChainView`;
`WalletRows` extends `Accounts` and implements it. `SyncScheduler` and the two
modules of FROST use of a run only what `ChainView` promises: it brings accounts to
a height, or fails. `WitnessTree` gives what `WarpSync` takes for granted of one
chunk: a path that led to the last block leads to the new one.

Twelve runs are kept. Each costs minutes with its mutants; a disagreement that is
told by another run, or by one line of code, is told in section 6 without a run.

## 3. The modules

### BlockTree

External: the chain of the node. `blocks` holds every block ever mined with the
path from the first block to it, so a block is its hash and its whole history;
`best` is the tip of the node. `Mine` adds a block that creates and spends notes of
the wallet; `Orphan` takes the node back to an ancestor, after which other blocks
may be mined: a reorganization, or a node that lags.

### ChainView

What synchronization promises. `view[a]` is what account `a` shows: a height, the
notes and the spends. `Contents(a, b)` is what it has to be when the account
stands on block `b`. A `Move` changes views from the contents of one block to the
contents of another on the same branch: forward for chunks, back for rewinds.

### WarpSync

State and code:

| Variables | Code |
|---|---|
| `height`, `headers`, `noted`, `spent`, `witnesses`, `untimed` | tables `sync_heights`, `headers`, `notes`, `spends`, `witnesses`, and the rows of `transactions` with time 0 |
| `pc`, `chosen`, `target`, `resume`, `todo`, `seg`, `scan` | where `synchronize_impl` is, and its locals (`account_heights`, `unique_heights`, the segment) |
| `reading`, `next`, `prevHash`, `wanted`, `buf`, `chan` | the reader task of `warp_sync` and the channel `tx_blocks` |
| `utxo`, `edge`, `pend` | the synchronizers (`utxos`, `tree_state`) and the headers in the writer's open transaction |
| `left` | how many faults of each kind may still occur: the bound of the instances |

A row of a table is the height at which it stands; a witness also keeps the block
that its authentication path leads to, which is what can go wrong with it.

| Actions | Code |
|---|---|
| `StartSync`, `Recover` | lock, pruning, `recover_from_partial_sync`, start heights |
| `BeginSegment`, `EndSegment`, `RequestFails` | the loop over the start heights and its ends |
| `ScanAddress`, `ScanDone` | `transparent_sync` |
| `OpenStream` | tree state, notes to track and previous hash |
| `ReadBlock`, `DetectReorg`, `EndOfStream`, `StopReader` | the reader |
| `HandleChunk`, `FailChunk`, `HandleHeader`, `CloseStream` | the loop of `warp_sync` with `handle_message` and `db_writer` |
| `FetchTime` | the headers that are fetched one by one |
| `Abort` | the process is killed, or a request fails: all that is not committed is lost |
| `UserRewind`, `UserReset` | the calls of the application that take no lock |

Abstractions, and why they are safe:

* The loop that decrypts and the writer are one process. The writer applies the
  messages of a chunk in the order in which they were sent and commits once, so
  the tables change as they do in `HandleChunk`; between the two there is no state
  that anybody else reads. What the writer has not committed when the loop stops
  is applied in `CloseStream`.
* The two messages that one block may cause (its header, its chunk) are sent in one
  step. The receiver takes them one at a time.
* The size of a chunk depends on outputs that are not the wallet's, so `ReadBlock`
  may close it at any block.
* Blocks are served from the node's present branch at the height asked for. The
  check of the previous hash is what stands between the wallet and a mixture.
* The note of a transparent row, its address and its account are constants of the
  note; amounts, memos and assets are left out.
* A transaction is a block: a transparent output that is spent in the block that
  creates it is left out, and so is a transaction found under one address that also
  spends a note of another address of the account. The scan of that other address
  finds the same row, in the same run, and rows that exist are kept.
* The row of a spend has the height of its row in `transactions`, which is kept if the scan of
  an address made it before (`TransactionHeight`). `Outs[n]` is the transparent output of the
  account in the transaction that spends note n, if it has one.
* `UserRewind` and `UserReset` are one step; the code commits their statements separately
  (`sync.rs:1052`, `account.rs:915`), so that a stop between them leaves the rows trimmed
  and headers, or the heights of some pools, as they were.
* Conflicts on unique keys are modelled as the error that they are (`ChunkFails`),
  and foreign keys as the inner joins and assertions of `handle_message`.
* The birth height of an account is the same for all its pools (it is at least the
  activation height of each).
* The build is the release build: `check_witness_consistency` does nothing.

### WitnessTree

`Synchronizer::add`. `position` is the size of the commitment tree, `edge` is
`tree_state`, `utxos` the ommers of each tracked note. `Add` is one chunk: any number
of outputs, any of them the wallet's, any tracked note spent; `New` is
`Synchronizer::new`, which takes the edge from the node at the start of a segment.
A hash is the sequence of the leaves under it, so combining is concatenation and two
subtrees are equal only if their leaves are. `Size[d]` is the power of two by which the
code shifts at depth d. `Served`, `EdgePath` and `AuthPath` stand
for the node and for the crate `zcash_trees` (external). The decoding of the
compact outputs and the parallel hashing of a layer are left out: the result of a
layer does not depend on the order in which its pairs are combined.

### Accounts and WalletRows

`Accounts` has what the user sees of the wallet file.

| Variables and actions | Code |
|---|---|
| `accounts`, `taddrs`, `folders` | tables `accounts` with the keys of each account, `transparent_address_accounts`, `folders` |
| `NewAccount`, `DeleteAccount`, `ReorderAccount` | `new_account`, `delete_account`, `reorder_account` |
| `GenerateNextDindex`, `GenerateNextChangeAddress`, `OpenDatabase` | new addresses, `migrate_sapling_addresses` |
| `CreateNewFolder`, `UpdateAccount`, `DeleteFolder` | folders |
| `ImportAccountRow` | the row of the account in `import_account` |

`WalletRows` adds the rows of each account and all that works on them.

| Variables | Code |
|---|---|
| `db` | `transactions`, `notes`, `spends`, `witnesses`, `outputs`, `memos`, `user_memos`, `sync_heights`, by identifier |
| `pending` | `pending_txs` |
| `run` | a synchronization: the account and its key, and the notes it tracks |
| `job` | `fetch_tx_details`: the list, the row listed and the row found |
| `export`, `file` | `export_account` half-way, and the file |
| `outcome`, `overtaken`, `left` | the last import; the accounts that were trimmed or deleted under their own run, job or export; the budget of the scenario |

| Actions | Code |
|---|---|
| `StartRun`, `ScanBlock`, `EndRun`, `LoseRun` | a run, a block at a time, with the assertions of `handle_message` and `merge_pending_txs` at its end |
| `Rewind`, `DeleteRows` | `trim_sync_data`, `delete_account` |
| `ListDetails`, `LookUp`, `StoreDetails`, `MarkDetails` | `fetch_tx_details`: the list once, then for each row a request, a lookup by txid, the writes, the mark |
| `SetUserMemo`, `SetCategory`, `LockNote`, `StorePending` | what the user does with rows, and a payment |
| `ExportBegin`, `ExportEnd` | the two groups of queries of `export_account`; a run may commit in between |
| `Import` | `import_account`: new identifiers, lookups that are unwrapped, unique keys, one transaction |

A run may end at any height, for a stream that ends early ends it without an error, and
`merge_pending_txs` merges and purges all the same (`EndRun`). The two groups of an export are
the queries up to the witnesses, and those from the transactions on: what lies between the
tables of one group is left out, and so are the rows of key generation. `UpdateAccount` puts an
account in a folder that exists: the function checks nothing (`api/account.rs:195`), but its
callers offer the folders there are (`account.dart:594`), and the one of GraphQL passes none.
The chain is fixed and has one transaction a block; reorganizations are rewinds here,
for what they do to a run is in `WarpSync`. Identifiers are numbers, one more than
the greatest in the table, as sqlite gives them without AUTOINCREMENT.

### FrostDkg

One participant's call of `do_dkg_impl` runs through the rounds as far as the memos
go (`RunRounds`): it stores what it has received, draws a secret if it has none, stores
it and publishes its package in one database transaction. `RunRoundsLost` is the call
that ends between publish and commit; `RunRoundsRejected` the one whose message the
node refuses because its notes are spent by an earlier message. The end of the
generation is one action for each statement (`Part3`, `StorePublic`, `CreateAccount`,
`MoveRows`, `Close`), with `Crash` between any two and `Reload` in the next call.
`Cancel` is `cancel_dkg`, which takes no lock: it may come between calls or between two
statements at the end of one (`NothingLeft` is what the call then finds). A cancellation
during the rounds of a call is left out. The statements after the first of `Close` (the seed,
the removal of the mailbox accounts, the key once more) change nothing of this state.

| Variables | Code |
|---|---|
| `secret`, `keyPkg` | `dkg_state` |
| `peers`, `pubPkg` | `dkg_peers` |
| `accounts`, `moved`, `active` | the shared account, `dkg_finalize` half-way, the row of `props` |
| `made`, `pending`, `mined` | secrets drawn, messages sent, messages on the chain in order |

A package is the number of the secret it is made from. A share of round 2 lies on the
polynomial of a package of round 1 when they have the same number (`SharesVerify`);
that is all the cryptography. A call sees one state of the memos, since it holds
`SYNCING` (or nothing else writes). A shared account that was kept by an older version
(`dkg_packages`) and reorganizations of memos already read are left out.

### FrostSign

`do_sign_impl` in one action (`Call`), phase after phase: commitments to the
coordinator, its signing package, the shares, the aggregation, the transaction.
`CallLost` ends between a publish and its commit, `CallRejected` when the node
refuses the message; `Before` gives the tables in both cases. `CallRefused` is the call whose
transaction, the one that was signed, is refused: the code does not tell that from an
acceptance, and `sent` does. `delete_frost_state` is one step, while the code commits its
statements one by one (section 6). `Cancel` is `reset_sign` and `InitSign` is `init_sign`. `db[p]` has a field for each column of
`frost_signatures` and `frost_commitments`, `drawn` numbers the nonces, and a package
is the function from signers to their commitments. All inputs of the transaction
take part in the same messages: one stands for all.

### PaymentPlan

`plan_transaction` for ZEC. `Fill` is one iteration of `fill_single_receivers` that pays
something, in the order of `fill_order`; `EndSingle` gives the recipients with two
receivers their pool; `EndDouble` is the end. `inputs`, `outputs` and `feePaid` are
those of `FeeManager`, modulo `Width` (256). Amounts are multiples of a unit, the price of an
action is 5 units, so that dust, one-action notes and notes that just fail are
among a few values.

### SyncScheduler

| Variables | Code |
|---|---|
| `syncInProgress`, `autoAt`, `known`, `timers`, `field`, `listening`, `call` | `SynchronizerNotifier` of `lib/store.dart`: the flag, where `autoSync` stands, its timers, the subscription in `syncProgressSubscription`, the calls of `startSynchronize` |
| `shown`, `interval`, `saving` | heights a page has read, the setting and the save under way |
| `syncing`, `run`, `stream`, `height`, `tip` | `SYNCING`, each `synchronize_impl`, its stream to Dart, the heights |

A step is the code from one await to the next. A run brings its accounts to the
height it was given (`RunSucceeds`), fails part of the way (`RunFails`), ends part of the way
without an error, for its stream was lost or met a reorganization (`RunIsCut`), or is
cancelled: in the scan it ends with an error, in the stream without, between the two
nobody hears (`CancelRun`). The
lengths of timers and delays, the offline flag and the progress are left out.

### MC modules

`MCWarpSync`, `MCWallet`, `MCFrostDkg`, `MCFrostSign`, `MCPaymentPlan`, `MCSyncScheduler`:
the constants of the instances. `Scenarios`, `Budgets` and `Faults` bound how often
things happen in a behaviour; when they happen is free.

## 4. The checks

One type invariant for each module apart, the properties are:

* Synchronization. `ImplementsPromise`: every behaviour is one of `ChainView`.
  `WitnessesUsable`, `NotesHaveWitness`: unspent notes can be spent at the height of
  their account, with each other. `SpendsHaveNotes`, `WitnessesHaveNotes`: no row about a
  note that is gone. `ChunksFit`: a chunk that arrives violates no unique key.
  `HeightHasHeader`: the header `get_db_height` needs exists. `OthersUntouched`: a run leaves
  other accounts alone, unless it rewinds. `CatchesUp`: every account arrives at the tip.
* Witnesses. `PathsLeadToRoot`.
* Wallet file. `PositionsDistinct`, `OrderKept`, `FolderExists`, `CurrentAddressKnown` for the
  list of accounts; `RowsOfOwnKey`, `DetailsComplete`, `NotesKeepWitness`, `RoundTrip`,
  `PurgedAfterMerge` for the rows.
* FROST. `SameViews`, `Agreement`, `KeyHasOwners`, `KeyNotLost`, `EventuallyShared` for the
  key; `OnePackage`, `NonceSignsOnce`, `EventuallySigned` for signatures.
* Payment. `FeeNotOverpaid` (an unsigned subtraction), `ChangeIsWhatIsLeft`,
  `FeeIsThatOfTheTransaction` (never less, and more only by a transparent output without a
  value), `GivesUpOnlyWithoutFunds`.
* Scheduler. `CallsDoNotCollide` (no call waits for a subscription that another cancelled, no
  run meets that of another), `EventuallySynced`, and `AutoSyncs`, which fails.

| Run | Instance | What may happen | Shows |
|---|---|---|---|
| `reorg` | one account with two shielded pools, two notes, four blocks | a reorganization, two blocks and a lost connection during a run; any number of blocks between runs | mixed branches are detected wherever the stream is |
| `crash` | one account, transparent and shielded, four blocks | one crash, one reorganization between runs | recovery after a run lost between any two commits, and arrival at the tip |
| `two_accounts` | two accounts, one with a transparent output and a note that one transaction may create and spend, four blocks | one crash, one rewind or reset | segments of accounts at different heights |
| `hostile` | one account, transparent and shielded, three blocks | a cut scan, a rewind or reset during a run, a reorganization during a run, a cancellation, a crash | what still holds where the promise does not |
| `gap` | two accounts | one cancellation | a disagreement, section 6 |
| `witnesses` | a tree of 32 leaves, two notes tracked | chunks of up to five outputs at every position | paths lead to the root |
| `wallet` | keys with and without an extended key, two blocks, nine scenarios | creations, deletions, drops, folders, exports, imports, runs that end at any height, rewinds, details, payments | identifiers that come back do no harm |
| `dkg` | three participants; two are enough and nothing fails, or three are needed and one is hit by faults | lost answers, rejected messages, crashes between statements, cancellation also between statements | one key, kept by its owners; everybody ends |
| `sign` | a coordinator and two others, two are enough, four scenarios | answers lost, messages rejected, the transaction refused, cancellations, three signers instead of two | one package, nonces used once; exactly two signers end |
| `payment` | one recipient and three notes, two recipients and two notes | all pools, dust, either side pays the fee | the plan's numbers are right |
| `schedule` | two accounts, `autoSync` and a button, four scenarios | errors, a stream cut short, a lock taken by FROST, presses, a change of the interval, a cancellation | accounts are synchronized in the end |
| `retry` | the same | one error, one press | a disagreement, section 6 |

Bounds. A chain of four blocks lets a run read up to three blocks, a
reorganization be one, two or three blocks deep, and a new branch grow. With one
note per block and two notes, a note can be created and spent in one chunk, in two
chunks of one run, or in two runs, and created again on another branch. The channel has
capacity two, as in the code: three messages are in flight with the one being handled,
and the reader is made to wait in every instance that reads three blocks. Checkpoints
are pruned at age one so that pruning happens in every instance. A tree of depth
five has layers whose first and last nodes are met by chunks of every parity at
every position, and more depth repeats the same step. In `wallet` two blocks give a note,
its spend, change and an output to another account; four accounts are enough for a
drop over two others in both directions; each operation is there often enough for
an identifier to be given out again. In `dkg` two tries at each package are what a lost
answer needs, and a third try is a second lost answer. In `sign` three nonces are a first
try and two lost or cancelled ones. In `payment` the values are one below, at and above
the price of one and two actions; with three notes a pool has its second and its third
action. In `schedule` two errors, in height, start or run, are one after the other or one in each of two
calls; a stream that is cut leaves each account at any height on its way.

Deadlock is checked in the runs of `WarpSync`: the application can always start a run.
The other systems may really stop: a key exists, a transaction is sent, a payment is
planned, the tree is full, the budgets are used up, automatic synchronization is off
with an interval of 0.

Fairness, and why the code justifies it:

* `crash`: `autoSync` starts a run again and again (weak fairness of `StartSync` for all
  accounts), the tasks of a run go on as long as they can (weak fairness of each), and
  the network goes on mining until the bound of the chain (strong fairness of a step
  of the node that makes the chain longer than it was). Nothing obliges the node to
  reorganize, a connection to fail, or the user to act.
* `dkg`, `sign`: one weak fairness of `Progress`: the page of each participant has a timer
  of thirty seconds, a call goes on by itself, and what is sent is mined. That something
  happens while it can is enough, since no step is undone.
* `schedule`, `retry`: weak fairness of `autoSync`'s timers and answers, of each loop of
  `startSynchronize` (the user closes the dialog of an error), of each run, of the save of the
  settings, and of the end of a FROST call.

## 5. The proofs

Assumptions: those of the modules on their constants, which every run evaluates on
its instance. Each proof has one lemma for each action and is about all values of
the constants: any accounts, keys, chains, participants, thresholds, capacities and
numbers of faults.

* `WarpSync_rows`, `TypeCorrect`: `Spec => []TypeOK`. `TypeOK` is not inductive:
  that the row written by a chunk has the height of a block depends on the chunk
  in the channel, which depends on where the reader was. `InFlight` adds that: the
  chunks in the channel and the buffer end before the next block to read, a segment
  has a block, nothing is in flight outside the stream. The same module shows that
  the chain keeps its types.
* `WarpSync_rows`, `NoWitnessWithoutNote`: `Spec => []WitnessesHaveNotes`. The
  property says that a witness row never outlives, and never lies below, the note
  it is for, though rows are trimmed by recoveries, rewinds and resets while chunks
  are in flight. The strengthening needs the order of the chunks in the channel
  (`ChunksOrdered`) and that tracked notes lie before everything in flight
  (`TrackedBefore`); the assertion of `handle_message` that the note is there
  (`ChunkFails`) covers notes that were trimmed under a running stream.
* `WarpSync_rows`, `NoSpendWithoutNote`: `Spec => []SpendsHaveNotes`. A row of
  spends is that of a note in the table and is not below it. For a note of the same
  chunk this rests on the check of `prev_hash`: what the reader holds and sends is a
  stretch of one branch (`StreamInv`), and on a branch a note is created before it is
  spent (`TreeInv`, of the external chain). For a note tracked before it rests on
  `RowsInv`. A note that is spent together with a transparent output of its account (`Outs`) is
  exempt: its spend takes the height of a row that may be of an abandoned branch (section 6). For a scanned address it rests on the account having no row above the
  start of the segment until the address is scanned, across segments (`Behind`); that
  needs the addresses of an account to differ (`WarpSyncAssumption`): they are those
  of keys with different derivation paths.
* `WarpSync_rows`, `OthersKeepRows` and `OthersKeepAll`: an account that a run was not
  started for shows the same at each step of it. The accounts of a segment are some of
  those, and what the synchronizers track belongs to them (`OwnRun`). The header of its
  height stays as well if the node abandons no block (`NoReorgs`, the instance of
  `two_accounts`): then all that is stored or in flight is of one chain (`OneChain`), every
  block has the expected parent, and no run rewinds. Without `NoReorgs` this is false, as section 6 tells.
* `WarpSync_promise`, `SyncKeepsPromise`: `Spec => ImplementsPromise`, the refinement of
  `ChainView`. `EveryChunkFits`, `UnspentHaveWitness`, `WitnessesAgree` and `HeaderOfHeight`
  follow from the same invariant, `PromiseInv`:
  * The account always *stands on* a block: there is a path and a height on it such that the
    rows are those of the path (`RowsFollow`), each checkpoint has the witnesses
    of what was unspent at it, and a header (`CheckpointsFollow`). That is why a
    recovery may go back to any checkpoint and find the promise kept there.
  * While a stream is open, everything in flight, in the buffer of the reader, in the channel,
    in the open transaction of the writer, lies on one extension of that path,
    from the height of the account on and without a gap (`Streams`). What is tracked
    is what is unspent, so no spend is overlooked.
  * The reader may find that the node has gone to another branch. That it notices, before the
    first block as well, rests on the header at the height of the account: it is that
    of the block the account stands on, or one that the node has abandoned
    (`HeaderOn`), and then no block links to it.

  These theorems assume `OneShielded`: one account, shielded pools only, no rewind by the
  user while a run is on its way. The promise fails without the first (with two accounts a
  cancellation leaves a gap: run `gap`; what holds of several accounts comes next) and without the third (section 6). The second is a
  limit of the proof: a transparent scan commits its rows before the height
  moves, and until then a view is what is left when rows above the height are hidden;
  `crash` checks the promise for such an account. Everything else is free: the chain, reorganizations at any step,
  crashes, cancellations, lost streams and their number. `WitnessesAgree` also assumes
  `BirthFixed`: the block of the birth height is out of reach of reorganizations, or its header
  was stored when the account was made and is not rewound to. Otherwise the
  first tree state is of a block that nothing compares. `HeaderOfHeight` assumes that the
  header of the birth height is stored and no rewind goes back to it.
* `WarpSync_promise`, `SharedKeepsPromise`, and from the same invariant `SharedChunksFit`,
  `SharedHaveWitness` and `SharedWitnessesAgree`: the promise for any number of accounts, at
  different heights, with shielded pools and transparent addresses. Two assumptions:
  * `Undisturbed`: the node abandons no block, no stream or scan is cut short, and nobody cancels a
    run or rewinds during one. Crashes at any step and rewinds between runs remain.
    Section 6 and run `gap` tell what the others do.
  * `AddressesKnown`: the addresses of an account are all that received its notes, and an account
    without another pool has one address. With two, the height is recorded with the first
    (section 6).

  An output in `Outs[n]` is in the block that spends n (`JoinedBlocks`), so that the row of their
  transaction, whoever made it, has the height of that block.

  There is one chain, so the path of every account is known (`OneChain`); what
  has to be said is where each account is (`SharedInv`). At any time the rows of its shielded
  pools are those of the chain up to the height that is shown, while an address may have
  been scanned above it (`AccountOn`): a view hides what is above. Within a run an account
  waits for a segment to come, with all its pools at one height, just below its segment
  (`WaitsFor`), or takes part in the present one (`TakesPart`), where each address is scanned or
  still to be scanned, and the shielded pools are at the last chunk that was committed. That no
  account is left behind when a segment ends is the reason why segments end where another
  account starts (`SegmentRight`). The stream of a segment is left only when all of
  it is committed, so the accounts of one segment go on in the next from its
  end (`GoesOn`). These are the segments that `gap` breaks.
* `WalletRows_proofs`, `AccountsArranged`: types, distinct positions from 1, folders that exist
  and current addresses that are known are together inductive (`Arranged`): a drop moves
  the accounts in between by one, and keeps positions distinct only because the place
  that is freed is one of theirs.
* `WalletRows_proofs`, `ImplementsAccounts`: `Spec => AccountSpec`. The step that is not obvious
  is an import: its row was read by an export long ago, and must still be one that
  `Accounts` allows (`FilesImportable`). `NoSharedPosition`, `NoLostFolder`,
  `CurrentAddressNeverLost` and `OrderNeverLost` follow for the whole wallet file.
* `WalletRows_proofs`, `TypeCorrect`: the rows of all tables and of all that was read from
  them (`RowsTyped`). SQLite gives the next identifier after the largest there is, so
  that it is new is a fact about maxima of finite sets; an import gives new identifiers
  to all rows of a file at once, and to different rows different ones.
* `WalletRows_proofs`, `RowsAlwaysOwn` and `PaymentsKeepCategory` (`Spec => PurgedAfterMerge`), from
  `OwnInv`, which speaks of each account that is not itself overtaken, whatever becomes of others:
  its rows are of its key and refer to each other, and all that its key has in the blocks up
  to its height is in the table (`Present`). A payment in such a block is merged before it is
  purged, wherever the run ends. One in a block above is not (section 6). That an account which
  is overtaken does no harm to others rests on each operation that is under way keeping
  identifiers of one account only (`RunOwn`, `JobOwn`).
* `WalletRows_proofs`: `DetailsNeverLost`, `WitnessAlwaysKept`, `ImportsAreExact`, from `SoundInv`. No row is wrong when it is written; each becomes right or wrong by what was
  read before, at another step. So the invariant says of each operation that is under way
  what it still knows: a run follows every note that is not spent, and its account has no
  transaction above the height it has reached (`RunSound`); the transaction that a listing is
  at is the one that was listed (`JobSound`); an export that reads its tables one by one
  has the witnesses up to the height it read first (`ExportSound`), and a file has all of
  this of its own rows (`FileSound`), or an import would bring what is not sound into the wallet.
  The tables themselves refer to each other and to the right account (`RowsSound`). `Sound` speaks of any
  tables, and each operation is one of a few changes of them: a trim, a part, more details, a
  block, rows under other identifiers. `RoundTrip` needs besides that memos of the user are found by account
  and transaction in the file (`UserMemosPlaced`); that an import does not panic rests on the spends and
  witnesses of a file being those of its notes. All of it holds until an operation trims or deletes rows that
  another has read and still uses (`overtaken`), where it is false; `RowsAlwaysOwn` goes on for the
  other accounts.
* `PaymentPlan_proofs`: `TypeCorrect` for every request: the counters stay below their width, and what is
  left of notes, what recipients are due and `fee_paid` stay natural numbers. It does not speak
  of `fee() - fee_paid`; `NeverOverpaid` does, for requests that can be counted. `NeverOverpaid`, `ChangeIsRight` and `FeeIsRight`
  assume `Countable`: the inputs and outputs of each pool can be counted in 8 bits, as `FeeManager`
  does; beyond, they are false (section 6). `PlanInv` says that the counters are those of the notes that have
  paid, the change and the recipients that have their pool (`CountsRight`), and that what the notes
  have given is the fee that is paid and what the recipients have got (`NothingLost`). An output that is counted and left out of the
  transaction can only make the fee larger, since no action more makes it smaller. The fee never
  shrinks when a note is added. That a sum over notes, a fold, does not depend on the order is proved
  by a smallest subset for which it does.
* `PaymentPlan_proofs`, `GivesUpRightly`: `Spec => []GivesUpOnlyWithoutFunds`, for requests that
  can be counted and have a recipient (`Addressed`). The plan takes notes pool by pool, and the
  fee grows with each; the property compares what it took with every set of notes it could
  have taken. A plan gives up only when every note it may spend is spent to the last zatoshi
  (`FundsInv`: the iterations of the loop that are behind have nothing left to pay, or nothing to pay with, and
  once the fee is paid it stays paid to the end of the pass). So what it has is the value of all notes, which is
  compared with that of a largest choice that would pay: if it is not all of them, one more note
  adds no less than it costs. This needs that the sender pays the fee and each shielded note is worth
  two actions, as the property says; otherwise fewer notes may do what all do not.
* `WitnessTree_proofs`, `PathsAlwaysLead`: `Spec => []PathsLeadToRoot`, for a tree of any depth and
  chunks of any size. The synchronizer is a function of the number of outputs n
  (`TreeInv`): its edge is that of the node (`EdgeAsServed`: it does not matter how outputs were cut into
  chunks, nor whether a segment goes on from memory or from the node), and a note has at each
  depth the sibling, if n leaves complete it. A chunk keeps this because the layers that it builds
  are the nodes from the edge to the last complete one (`CmxsIs`); that each pair is there to be combined
  is `AssertionsHold`. A path then has the siblings at all depths (`PathHasSiblings`): at the first
  ommer that is missing the node of the edge is the sibling, and above it the note is on the
  edge. Sizes, layers, edge and climb are recursive functions of the depth. What is said of them
  is proved by a set of depths that has 0 and the next of each (`UpToDepth`), as a smallest depth outside of
  it does not exist; no induction theorem over a predicate is needed.
* `SyncScheduler_proofs`, `TypeCorrect`, and `NobodyWaitsInVain`: `Spec => []CallsDoNotCollide`. A run that
  finds the lock taken ends like one that has done its work, and a call whose subscription is
  cancelled waits for ever, so all depends on there being one call at a time. There is, because the
  flag is set during a call; and after an error has cleared it, only `autoSync` makes
  calls, and it waits for the one it made (`SchedInv`). The property assumes that nobody calls
  between an error and the next try (`OneLoop`); run `retry` shows what happens otherwise.
* `FrostDkg_proofs`: `TypeCorrect`, `EverybodySeesTheSame`, `KeysAgree`, `KeysAreOwned`,
  `KeyNeverLost`, from `DkgInv`. A package that is stored is the first one mined of its
  sender and round (`FirstOnes`), and the first stays the first. Packages of round 2 are
  made from the stored secret (`SharesOfSecret`), so a key whose shares verify is made
  from secrets that are kept (`KeysVerified`); `AtItsPlace` says what is known at each
  statement of the end while the generation is not cancelled.
* `FrostSign_proofs`: `TypeCorrect`, `OnePackageEver`, `NoncesSignOnce`, from `SignInv`. The
  coordinator keeps every commitment it has put in a package (`CommitmentsKept`) and a
  package has exactly t of them, so a package that is made again has the signers of
  the first one: it is the same. A share that was sent is in the tables as long
  as its nonces are (`NoncesUsedUp`), so they sign nothing else; when the answer to a
  share was lost, what is signed again is the one package.

Model-checked only: liveness (`CatchesUp`, `EventuallyShared`, `EventuallySigned`,
`EventuallySynced`), which is out of the prover's reach, and the promise of synchronization for
an account with transparent addresses when the node abandons blocks between runs (`crash`).
Every invariant and every action property of a passing run is stated by a theorem.
`NotesHaveWitness` is one of the violated ones (run `gap`); it is proved for runs that are not disturbed.
The theorems about synchronization have assumptions on the instance (`OneShielded`, `Undisturbed`
and those next to them); the runs satisfy them as follows: `reorg` is an instance of `OneShielded`,
`two_accounts` of `Undisturbed` and `AddressesKnown`.

## 6. Disagreements between the code and what it promises

Two have a run:

* `gap`: a segment that ends early is taken for done by the caller (`sync.rs:258`); the
  next segment of the same run goes on above the gap. A cancellation suffices; so
  does a reorganization seen while two accounts at different heights are synchronized.
* `retry`: `startSynchronize` clears its flag after the first error but goes on trying
  (`store.dart:803`). A press of the button starts a second loop; each loop cancels the
  subscription of the other, and one waits for ever. When it is that of `autoSync`,
  nothing is synchronized any more until the application is started again.

The others were met while modelling, in instances that are not kept or in the code.

Synchronization:

* A rewind takes the headers above its height "because there are no accounts using them"
  (`sync.rs:1075`), but it takes those of the accounts that are not rewound. Such an account
  stands on an abandoned block and the header of its height is gone; the end of the segment
  fetches that of the new branch (`sync.rs:237`), the next block links to it, and the blocks
  of the new branch below are never read. With `StopFaults` (a reorganization between runs) in
  the place of `TwoFaults`, `two_accounts` shows it: `OthersUntouched` and `ImplementsPromise` fail.
* The transparent scan cannot tell a lost connection from the end of the stream, and
  records the range as scanned (`sync.rs:501`).
* The transparent scan and the shielded stream are two requests and may see two branches.
* With two transparent addresses and no other pool, the height of the account is
  recorded with the first address (`sync.rs:508`); a crash then loses the range of the second.
* A rewind keeps the header of the height it goes to (`sync.rs:1076`): an account whose birth
  block is orphaned finds the same reorganization in each run and stops for good.
* A spend takes the height of its transaction's row (`sync.rs:870`), and a row that exists is kept
  (`sync.rs:793`). When the scan of an address has found the transaction on one branch and the
  stream reads it on another, the spend has the height of the first, maybe below its note;
  a trim between the two then takes the note and leaves the spend (`SpendsHaveNotes` exempts it).
* "Synchronization Completed" (`store.dart:768`) is shown whenever the stream of the run is done
  without an error: also when a reorganization, `StallAbort` or a lost connection ended it
  early (`warp/sync.rs:345`), when it was cancelled, or when the lock was taken. The next timer of
  `autoSync` mends it, which `EventuallySynced` shows.
* A rewind below the birth height leaves `get_db_height` without a row.
* A rewind during a run leaves a gap, for neither takes account of the other. The
  page (`account.dart:852`) rewinds without reading the heights again.
* A cancellation in the scan is an error, which is tried again; in the stream it ends the
  segment only.
* An interval that is typed is saved in the background while `autoSync` already reads the
  old one (`settings.dart:820`): with an old interval of 0 automatic synchronization stays off.
* The zebra client returns a stream that is closed at once (`net/zebra.rs:311`), and the mempool
  loop opens it again without a delay. The loop reads the keys of the accounts
  once (`mempool.rs:54`).

Wallet file:

* `delete_account` leaves `user_memos` and `pending_txs`: a memo may turn up on a transaction
  that gets the identifier again, and an import may fail on a unique key.
* An imported account has an empty sapling address until the file is opened again, and, if
  it had no extended key, an empty blob (`io.rs:588`) that does not decode: its next address
  cannot be made. Imported transparent addresses lose `uncompressed`.
* `export_account` writes `dkg_packages`, the table of an older version (`io.rs:446`), and none of
  `dkg_state`, `dkg_peers` and `dkg_addresses`: a backup of a shared account has no key
  package.
* `create_schema` copies `dkg_packages` to the new tables whenever a file is opened
  (`db.rs:507`), and nothing deletes it: generations of that time that were cancelled or
  finished come back.
* The category of a transaction is written again at the end of every run while its
  payment is pending, over one the user chose meanwhile, also on a transaction of
  another account with the same txid.
* A new address for an account with a single key has an index and no address.
* A payment older than 100 blocks is purged at the end of a run because it was "probably never
  mined" (`budget.rs:152`), but a run whose stream ended early purges too, with the height it was
  called for: a payment in a block that was not read yet loses its category and price.
* `fetch_tx_details` marks the identifier that it listed (`memo.rs:37`). When the account is
  trimmed or deleted meanwhile, the identifier may be that of a transaction of another
  account, whose details are then never fetched.

Payment:

* The counters of the fee are u8: with 256 inputs of a pool they wrap (or panic), and
  `fee() - fee_paid` goes below zero.
* An output to a transparent address without a value, change or recipient, is counted for the
  fee and left out of the transaction: the plan's fee may be above that of the transaction, never
  below.

FROST:

* With more than t signers the coordinator waits for ever for exactly t shares (`sign.rs:635`).
* A signer that loses the answer to its commitment draws other nonces; when the package has
  the first commitment it never signs.
* A lost answer to a share, together with a cancellation by the coordinator, makes the
  same nonces sign two packages: the exception in `NonceSignsOnce`.
* The answer to the final transaction is ignored (`sign.rs:715`): `post_transaction` returns the
  message of a refusal like a txid (`net/lwd.rs:80`), the page shows it as sent, and the state of
  the signing is deleted. `publish` does look at the answer (`protocol.rs:488`).
* `delete_frost_state` and `cancel_dkg` commit each statement (`dkg.rs:495`): stopped between the tables and
  `props`, a signing goes on as a session without nonces, and a signer draws new ones.
* `cancel_dkg` while a call is between the two statements of the key package (`dkg.rs:657`) leaves a row
  of round 3 behind, which the next generation on the same account keeps
  (`ON CONFLICT DO NOTHING`).
* A round of the key generation goes on with t packages; a signing key that is mined later
  is not stored, although all n are needed.
* Messages of one call are paid with the same notes; the second is refused, and its round
  repeated half a minute later (`RunRoundsRejected`). A participant that has no funds for
  its message does not get an error: `publish` unwraps the plan (`protocol.rs:485`) and panics.

## 7. Not modelled

* The mempool listener: its state is a token and the keys it read when it started, and what it
  decrypts is shown and not stored. Its two defects are one step each and are above.
* Cryptography: the decryption of an output is a lookup, a share verifies when it is made from
  the right secret, hashes are what they commit to.
* Building, proving, signing and broadcasting a payment; assets other than ZEC, issuance and
  burning. They start from a plan and end in one transaction; what the wallet knows of
  it afterwards is a row of `pending_txs`.
* Hardware wallets: a sequence of commands of their firmware. Vault, plugins, address
  book, OpenAlias, recovery of keys, prices and reports: one request and one answer, without
  state in between. GraphQL: a second front end of the same operations.
* The schema and its migrations; encodings, wording, progress reports; generated bindings.
* The gap-limit scan for addresses, which only adds addresses, before a run.
