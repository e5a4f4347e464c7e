------------------------------ MODULE WarpSync -------------------------------
(***************************************************************************)
(* The synchronization of the wallet database with the chain:              *)
(* synchronize_impl (sync.rs) and the tasks it starts.                     *)
(*                                                                         *)
(*   StartSync, Recover    take the SYNCING lock, prune old checkpoints,   *)
(*                         trim what an interrupted run left behind        *)
(*   BeginSegment          accounts of different heights are synchronized  *)
(*                         in segments, from the lowest height up          *)
(*   ScanAddress           transparent_sync, one address per transaction   *)
(*   OpenStream, ReadBlock,                                                *)
(*   EndOfStream, ...      the task of warp_sync that reads compact blocks *)
(*   HandleChunk, ...      the loop of warp_sync that decrypts a chunk of  *)
(*                         blocks, and db_writer that commits the result   *)
(*   FetchTime, EndSegment the end of the loop over the segments           *)
(*                                                                         *)
(* The reader and the loop of warp_sync are joined by a bounded channel,   *)
(* chan.  The loop and db_writer are one process here: the writer applies  *)
(* the messages of a chunk, in the order they were sent, in one database   *)
(* transaction.                                                            *)
(*                                                                         *)
(* A row of the tables notes and spends is known by its note, for notes is *)
(* unique on (account, nullifier) and the key of spends is the note: the   *)
(* tables are the functions noted and spent, from notes to the height of   *)
(* the row, 0 for no row.  A witness row keeps its root, the block whose   *)
(* commitment tree the authentication path leads to; Broken when blocks    *)
(* were missed or came from another branch.                                *)
(***************************************************************************)
EXTENDS BlockTree

CONSTANTS
    PoolOf,         \* pool of each note: 0 transparent, 1 sapling, 2 orchard
    AddrOf,         \* address that received a transparent note
    Outs,           \* transparent note that the transaction that spends a note creates
    PoolsOf,        \* pools that an account has keys for
    AddrsOf,        \* addresses of an account, in the order they are scanned
    BirthCached,    \* accounts whose birth block the app has cached (cache_block_time)
    CheckpointAge,  \* checkpoints older than this are pruned
    ChanCap,        \* capacity of the channel from the reader (2 in the code)
    Faults          \* bound: how often each kind of fault may occur in a behaviour

Pools == 0..2
Shielded == {1, 2}
FaultKinds == {"midblock", "orphan", "midorphan", "stop", "cut", "scancut", "crash", "rewind", "midrewind"}

ASSUME WarpSyncAssumption ==
    /\ PoolsOf \in [Account -> SUBSET Pools]
    /\ \A a \in Account : PoolsOf[a] # {}
    /\ PoolOf \in [Note -> Pools]
    /\ \A n \in Note : PoolOf[n] \in PoolsOf[Owner[n]]
    /\ Outs \in [Note -> SUBSET Note]
    /\ \A n \in Note : \A c \in Outs[n] :
         PoolOf[n] # 0 /\ PoolOf[c] = 0 /\ Owner[c] = Owner[n] /\ Outs[n] = {c}
    /\ AddrsOf \in [Account -> Seq({AddrOf[n] : n \in Note})]
    /\ \A a \in Account : \A i, j \in DOMAIN AddrsOf[a] : AddrsOf[a][i] = AddrsOf[a][j] => i = j
    /\ BirthCached \subseteq Account
    /\ CheckpointAge \in Nat /\ ChanCap \in Nat \ {0}
    /\ Faults \in [FaultKinds -> Nat]

VARIABLES
    \* the database
    height,         \* sync_heights: height of each account and pool
    headers,        \* headers: hash stored for a height
    noted,          \* notes: height of the row of a note
    spent,          \* spends: height of the row that spends a note
    witnesses,      \* witnesses: rows [note, height, root]
    untimed,        \* transactions with time 0: pairs <<account, height>>
    \* synchronize_impl
    pc,             \* where it is; "idle" when SYNCING is free
    chosen,         \* the accounts it was called with
    target,         \* the height it was called with
    resume,         \* account_heights
    todo,           \* start heights of the segments that are left
    seg,            \* the segment: start, end and its accounts
    scan,           \* transparent_sync: addresses left, <<account, index in AddrsOf>>
    \* warp_sync, the reader
    reading,        \* the reader runs
    next,           \* height of the next block of the stream
    prevHash,       \* prev_hash
    wanted,         \* heights_without_time
    buf,            \* bs: blocks of the chunk being filled
    chan,           \* tx_blocks / rx_blocks
    \* warp_sync, the synchronizers and the writer
    utxo,           \* Synchronizer.utxos: root of the witness of a tracked note
    edge,           \* Synchronizer.tree_state: block of the commitment tree
    pend,           \* headers in messages not committed yet
    left            \* faults still to come

dbVars == <<height, headers, noted, spent, witnesses, untimed>>
runVars == <<chosen, target, resume, todo, seg, scan>>
readerVars == <<reading, next, prevHash, wanted, buf, chan>>
writerVars == <<utxo, edge, pend>>
vars == <<treeVars, dbVars, pc, runVars, readerVars, writerVars, left>>

Broken == -1        \* root of a path that leads to no block
MaxOf(S) == CHOOSE x \in S : \A y \in S : y <= x
MinOf(S) == CHOOSE x \in S : \A y \in S : x <= y

AddrIndexes == UNION {DOMAIN AddrsOf[a] : a \in Account}

NoHeaders == [h \in Heights |-> NoBlock]
Untracked == [n \in Note |-> 0]
NoSegment == [start |-> 0, end |-> 0, accounts |-> {}]

Message == [kind : {"chunk", "header", "reorg", "stop"}, from : Nat, ids : Seq(Nat)]
Chunk(from, ids) == [kind |-> "chunk", from |-> from, ids |-> ids]
SaveHeader(h, id) == [kind |-> "header", from |-> h, ids |-> <<id>>]
Reorg(h) == [kind |-> "reorg", from |-> h, ids |-> <<>>]
Stop == [kind |-> "stop", from |-> 0, ids |-> <<>>]

WitnessRow == [note : Note, height : Heights, root : Int]

DatabaseTypes ==
    /\ DOMAIN height = Account /\ \A a \in Account : height[a] \in [PoolsOf[a] -> Heights]
    /\ headers \in [Heights -> Nat]
    /\ noted \in [Note -> Heights] /\ spent \in [Note -> Heights]
    /\ \A w \in witnesses : w \in WitnessRow
    /\ untimed \subseteq Account \X Heights

RunTypes ==
    /\ pc \in {"idle", "recover", "plan", "scan", "open", "read", "times"}
    /\ chosen \subseteq Account /\ target \in Heights
    /\ resume \in [Account -> 0..(MaxHeight + 1)]
    /\ todo \subseteq 0..(MaxHeight + 1)
    /\ seg.start \in 0..(MaxHeight + 1) /\ seg.end \in Heights /\ seg.accounts \subseteq Account
    /\ scan \subseteq Account \X AddrIndexes

StreamTypes ==
    /\ reading \in BOOLEAN /\ next \in Nat /\ prevHash \in Nat
    /\ wanted \subseteq Heights /\ buf \in Seq(Nat)
    /\ chan \in Seq(Message) /\ Len(chan) <= ChanCap
    /\ utxo \in [Note -> Int] /\ edge \in Int
    /\ pend \in [Heights -> Nat]

TypeOK ==
    /\ TreeTypeOK
    /\ DatabaseTypes
    /\ RunTypes
    /\ StreamTypes
    /\ left \in [FaultKinds -> Nat]

-------------------------------------------------------------------------------
(* Queries on the database *)

SyncHeight(a) == MinOf({height[a][p] : p \in PoolsOf[a]})

(* mutant of CheckpointsBelow: rewind_sync asks for height <= ?            *)
CheckpointsUpto(a, h) ==
    {w.height : w \in {x \in witnesses : Owner[x.note] = a /\ x.height <= h}}

(* heights of the witnesses of an account before a height                  *)
CheckpointsBelow(a, h) ==
    {w.height : w \in {x \in witnesses : Owner[x.note] = a /\ x.height < h}}

(* headers of a message are inserted unless the height has one             *)
StoreHeaders(old, new) ==
    [h \in Heights |-> IF old[h] # NoBlock THEN old[h] ELSE new[h]]

HeadersAt(new) == {h \in Heights : new[h] # NoBlock}

HeightsWithoutTime(start, end) ==
    {h \in start..end : \E a \in Account : <<a, h>> \in untimed}
        \cup {h \in Heights \ {0} : /\ headers[h] = NoBlock
                                    /\ \E a \in Account : \E p \in PoolsOf[a] : height[a][p] = h}

(* trim_sync_data for the accounts of S: drop the rows above cut[a]; the   *)
(* heights become to[a] (cut[a], or the birth height after reset_sync)     *)
Gone(S, cut, a, h) == a \in S /\ h > cut[a]

TrimNotes(S, cut) == [n \in Note |-> IF Gone(S, cut, Owner[n], noted[n]) THEN 0 ELSE noted[n]]

(* mutants of the next two: the DELETE on the table is missing             *)
KeepSpends(S, cut) == spent
KeepWitnesses(S, cut) == witnesses

TrimSpends(S, cut) == [n \in Note |-> IF Gone(S, cut, Owner[n], spent[n]) THEN 0 ELSE spent[n]]
TrimWitnesses(S, cut) == {w \in witnesses : ~Gone(S, cut, Owner[w.note], w.height)}

Trim(S, cut, to) ==
    /\ noted' = TrimNotes(S, cut)
    /\ spent' = TrimSpends(S, cut)
    /\ witnesses' = TrimWitnesses(S, cut)
    /\ height' = [a \in Account |->
                    IF a \in S THEN [p \in PoolsOf[a] |-> to[a]] ELSE height[a]]

TrimUntimed(S, cut, rows) == {r \in rows : ~Gone(S, cut, r[1], r[2])}

(* rewind_sync for the accounts of S, on headers hs: back to the latest    *)
(* checkpoint below h, or to birth; the header of h itself stays           *)
Rewind(S, h, hs, rows) ==
    LET cut == [a \in Account |-> IF CheckpointsBelow(a, h) = {} THEN 0
                                  ELSE MaxOf(CheckpointsBelow(a, h))]
        to == [a \in Account |-> IF CheckpointsBelow(a, h) = {} THEN Birth[a] ELSE cut[a]]
    IN  /\ Trim(S, cut, to)
        /\ untimed' = TrimUntimed(S, cut, rows)
        /\ headers' = [k \in Heights |-> IF k > h THEN NoBlock ELSE hs[k]]

-------------------------------------------------------------------------------
Init ==
    /\ TreeInit
    /\ height = [a \in Account |-> [p \in PoolsOf[a] |-> Birth[a]]]
    /\ headers = [h \in Heights |->
                    IF \E a \in BirthCached : Birth[a] = h THEN h ELSE NoBlock]
    /\ noted = [n \in Note |-> 0]
    /\ spent = [n \in Note |-> 0]
    /\ witnesses = {}
    /\ untimed = {}
    /\ pc = "idle"
    /\ chosen = {} /\ target = 0 /\ resume = [a \in Account |-> 0]
    /\ todo = {} /\ seg = NoSegment /\ scan = {}
    /\ reading = FALSE /\ next = 0 /\ prevHash = NoBlock /\ wanted = {}
    /\ buf = <<>> /\ chan = <<>>
    /\ utxo = Untracked /\ edge = NoBlock /\ pend = NoHeaders
    /\ left = Faults

Fault(kind) == left[kind] > 0 /\ left' = [left EXCEPT ![kind] = @ - 1]

(* the variables of a run are reset when it ends: they do not outlive it   *)
EndRun ==
    /\ pc' = "idle"
    /\ chosen' = {} /\ target' = 0 /\ resume' = [a \in Account |-> 0]
    /\ todo' = {} /\ seg' = NoSegment /\ scan' = {}

EndStream ==
    /\ reading' = FALSE /\ next' = 0 /\ prevHash' = NoBlock /\ wanted' = {}
    /\ buf' = <<>> /\ chan' = <<>>
    /\ utxo' = Untracked /\ edge' = NoBlock /\ pend' = NoHeaders

-------------------------------------------------------------------------------
(* synchronize_impl: before the segments *)

(* prune_old_checkpoints keeps the newest checkpoint below the cutoff and  *)
(* those above.  The mutant does not keep it.                              *)
OutdatedOrNewest(w, cutoff) == \E h \in CheckpointsBelow(Owner[w.note], cutoff) : h >= w.height
Outdated(w, cutoff) == \E h \in CheckpointsBelow(Owner[w.note], cutoff) : h > w.height

(* The lock is free.  The caller asks for a set of accounts up to the tip  *)
(* it knows.                                                               *)
StartSync(S) ==
    /\ pc = "idle" /\ S # {}
    /\ LET cutoff == IF Tip > CheckpointAge THEN Tip - CheckpointAge ELSE 0
       IN  witnesses' = {w \in witnesses : ~(Owner[w.note] \in S /\ Outdated(w, cutoff))}
    /\ pc' = "recover" /\ chosen' = S /\ target' = Tip
    /\ UNCHANGED <<treeVars, height, headers, noted, spent, untimed, resume, todo, seg,
                   scan, readerVars, writerVars, left>>

(* mutant of Recover: nothing is trimmed                                   *)
RecoverNothing ==
    /\ pc = "recover"
    /\ resume' = [a \in Account |-> IF a \in chosen THEN SyncHeight(a) + 1 ELSE 0]
    /\ todo' = {SyncHeight(a) + 1 : a \in chosen}
    /\ pc' = "plan"
    /\ UNCHANGED <<treeVars, dbVars, chosen, target, seg, scan, readerVars, writerVars, left>>

(* recover_from_partial_sync: every account back to the lowest of its      *)
(* heights; then the start heights of the segments                         *)
Recover ==
    /\ pc = "recover"
    /\ LET cut == [a \in Account |-> SyncHeight(a)]
       IN  /\ Trim(chosen, cut, cut)
           /\ untimed' = TrimUntimed(chosen, cut, untimed)
           /\ resume' = [a \in Account |-> IF a \in chosen THEN cut[a] + 1 ELSE 0]
           /\ todo' = {cut[a] + 1 : a \in chosen}
    /\ pc' = "plan"
    /\ UNCHANGED <<treeVars, headers, chosen, target, seg, scan, readerVars, writerVars, left>>

(* A segment ends before the next start height.  The mutant ends it one    *)
(* block too early.                                                        *)
EndTooEarly(later) == IF later = {} THEN target ELSE MinOf(later) - 2
SegmentEnd(later) == IF later = {} THEN target ELSE MinOf(later) - 1

(* One round of the loop over the start heights.  The accounts that an     *)
(* earlier round was for take part again, from its end height.             *)
BeginSegment ==
    /\ pc = "plan" /\ todo # {}
    /\ LET start == MinOf(todo)
           later == todo \ {start}
           end == SegmentEnd(later)
           accounts == {a \in chosen : resume[a] <= start}
       IN  IF start > end
           THEN EndRun
           ELSE /\ pc' = "scan"
                /\ seg' = [start |-> start, end |-> end, accounts |-> accounts]
                /\ todo' = later
                /\ scan' = {s \in accounts \X AddrIndexes : s[2] \in DOMAIN AddrsOf[s[1]]}
                /\ UNCHANGED <<chosen, target, resume>>
    /\ UNCHANGED <<treeVars, dbVars, readerVars, writerVars, left>>

-------------------------------------------------------------------------------
(* transparent_sync *)

ActiveAt(n, k) == n \in blocks[Chain[k]].mints \cup blocks[Chain[k]].spends

(* Scan one address of an account and commit: its new notes, the spends of *)
(* its notes that are in the table, and the height of the account.  Rows   *)
(* that exist are kept.  The transactions come without a time.  upto is    *)
(* the height that the stream of the server reached.                       *)
ScanOne(a, i, upto) ==
    LET range == seg.start..upto
        mine == {n \in Note : PoolOf[n] = 0 /\ AddrOf[n] = AddrsOf[a][i] /\ Owner[n] = a}
        mintedAt(n) == {k \in range : n \in blocks[Chain[k]].mints}
        spentAt(n) == {k \in range : n \in blocks[Chain[k]].spends}
    IN  /\ noted' = [n \in Note |-> IF n \in mine /\ noted[n] = 0 /\ mintedAt(n) # {}
                                    THEN MinOf(mintedAt(n)) ELSE noted[n]]
        /\ spent' = [n \in Note |-> IF n \in mine /\ noted'[n] # 0 /\ spent[n] = 0
                                         /\ spentAt(n) # {}
                                    THEN MinOf(spentAt(n)) ELSE spent[n]]
        /\ untimed' = untimed \cup {<<a, k>> : k \in {j \in range : \E n \in mine : ActiveAt(n, j)}}
        /\ height' = IF 0 \in PoolsOf[a] THEN [height EXCEPT ![a][0] = seg.end] ELSE height

(* the addresses of an account are scanned in order, one account after the *)
(* other                                                                   *)
ScanAddress(a, i, upto) ==
    /\ pc = "scan" /\ <<a, i>> \in scan
    /\ \A j \in AddrIndexes : <<a, j>> \in scan => i <= j
    /\ \A b \in seg.accounts \ {a} :
         {j \in AddrIndexes : <<b, j>> \in scan} \in {{}, DOMAIN AddrsOf[b]}
    /\ LET served == IF seg.end < Tip THEN seg.end ELSE Tip
       IN  \/ upto = served /\ UNCHANGED left
           \/ upto \in (seg.start - 1)..(served - 1) /\ Fault("scancut")
    /\ ScanOne(a, i, upto)
    /\ scan' = scan \ {<<a, i>>}
    /\ UNCHANGED <<treeVars, headers, witnesses, pc, chosen, target, resume, todo, seg,
                   readerVars, writerVars>>

ScanDone ==
    /\ pc = "scan" /\ scan = {}
    /\ pc' = "open"
    /\ UNCHANGED <<treeVars, dbVars, runVars, readerVars, writerVars, left>>

-------------------------------------------------------------------------------
(* warp_sync: the reader *)

(* A note that the synchronizers of this segment have the keys for         *)
Tracked(n) == PoolOf[n] \in Shielded /\ Owner[n] \in seg.accounts

RootAt(n, h) ==
    LET rows == {w \in witnesses : w.note = n /\ w.height = h}
    IN  IF rows = {} THEN 0 ELSE (CHOOSE w \in rows : TRUE).root

(* shielded_sync up to the loop of warp_sync: the tree state before the    *)
(* segment comes from the server, the unspent notes that have a witness    *)
(* there and the hash to check the first block against from the database.  *)
(* Without any shielded key there is nothing to read.                      *)
OpenStream ==
    /\ pc = "open" /\ seg.start - 1 <= Tip
    /\ IF \E a \in seg.accounts : PoolsOf[a] \cap Shielded # {}
       THEN /\ pc' = "read"
            /\ reading' = TRUE /\ next' = seg.start
            /\ prevHash' = headers[seg.start - 1]
            /\ wanted' = HeightsWithoutTime(seg.start, seg.end)
            /\ edge' = Chain[seg.start - 1]
            /\ utxo' = [n \in Note |-> IF Tracked(n) /\ noted[n] # 0 /\ spent[n] = 0
                                       THEN RootAt(n, seg.start - 1) ELSE 0]
            /\ UNCHANGED <<buf, chan, pend>>
       ELSE /\ pc' = "times"
            /\ UNCHANGED <<readerVars, writerVars>>
    /\ UNCHANGED <<treeVars, dbVars, runVars, left>>

Streaming == pc = "read" /\ reading /\ next <= seg.end /\ next <= Tip

(* The block that arrives has the expected parent; the mutant checks no    *)
(* block.                                                                  *)
NotLinked == TRUE
Linked == prevHash \in {NoBlock, PrevHash(Chain[next])}

(* the sender of a bounded channel waits for room; the mutant does not     *)
SendUnbounded(msgs) == chan' = chan \o msgs
Send(msgs) == Len(chan) + Len(msgs) <= ChanCap /\ chan' = chan \o msgs

ChunkOf(ids) == IF ids = <<>> THEN <<>> ELSE <<Chunk(next - Len(ids), ids)>>

(* The next block continues the branch.  The chunk is sent (full) when it  *)
(* holds enough outputs and actions, of any wallet.                        *)
ReadBlock(full) ==
    /\ Streaming /\ Linked
    /\ LET id == Chain[next]
           ids == Append(buf, id)
       IN  /\ prevHash' = id
           /\ buf' = IF full THEN <<>> ELSE ids
           /\ Send((IF next \in wanted THEN <<SaveHeader(next, id)>> ELSE <<>>)
                   \o (IF full THEN <<Chunk(next - Len(buf), ids)>> ELSE <<>>))
    /\ next' = next + 1
    /\ wanted' = wanted \ {next}
    /\ UNCHANGED <<treeVars, dbVars, pc, runVars, reading, writerVars, left>>

(* prev_hash differs: the blocks not sent yet are dropped                  *)
DetectReorg ==
    /\ Streaming /\ ~Linked
    /\ Send(<<Reorg(next - 1)>>)
    /\ reading' = FALSE /\ buf' = <<>>
    /\ UNCHANGED <<treeVars, dbVars, pc, runVars, next, prevHash, wanted, writerVars, left>>

(* The stream is over: at the end of the segment, where the server has no  *)
(* more blocks, or (cut) when the connection fails, which looks the same   *)
(* because the task that feeds the stream drops its error.                 *)
EndOfStream ==
    /\ pc = "read" /\ reading
    /\ \/ ~Streaming /\ UNCHANGED left
       \/ Streaming /\ Fault("cut")
    /\ Send(ChunkOf(buf))
    /\ reading' = FALSE /\ buf' = <<>>
    /\ UNCHANGED <<treeVars, dbVars, pc, runVars, next, prevHash, wanted, writerVars>>

(* Cancel (cancel_sync) or StallAbort (no block in a minute)               *)
StopReader ==
    /\ pc = "read" /\ reading /\ Fault("stop")
    /\ Send(<<Stop>>)
    /\ reading' = FALSE /\ buf' = <<>>
    /\ UNCHANGED <<treeVars, dbVars, pc, runVars, next, prevHash, wanted, writerVars>>

-------------------------------------------------------------------------------
(* warp_sync: the synchronizers and db_writer *)

Arriving(kind) == pc = "read" /\ chan # <<>> /\ Head(chan).kind = kind

(* Synchronizer.add on the blocks of a chunk *)
Last(m) == m.ids[Len(m.ids)]
Upto(m) == m.from + Len(m.ids) - 1
MintsIn(m, n) == {k \in 1..Len(m.ids) : n \in blocks[m.ids[k]].mints}
SpendsIn(m, n) == {k \in 1..Len(m.ids) : n \in blocks[m.ids[k]].spends}
Found(m) == {n \in Note : Tracked(n) /\ MintsIn(m, n) # {}}
Kept == {n \in Note : utxo[n] # 0}

(* A witness or the tree is advanced over the chunk; the result is a path  *)
(* to its last block if it was one to the block before its first.          *)
Advance(m, root) == IF root = PrevHash(m.ids[1]) THEN Last(m) ELSE Broken

(* the header sent after a chunk, which the mutant forgets, and the        *)
(* accounts of the checkpoints: the mutant moves every account             *)
NoHeaderOf(m) == NoHeaders
HeaderOf(m) == [NoHeaders EXCEPT ![Upto(m)] = Last(m)]
AllMove(a) == TRUE
Moves(a) == a \in seg.accounts

(* The rows of the chunk cannot be written: notes is unique on the         *)
(* nullifier, witnesses on note and height, spends on the note, and the    *)
(* note of a witness or of a spend must be there.                          *)
ChunkFails(m) ==
    \/ \E n \in Found(m) : noted[n] # 0
    \/ \E n \in Kept : noted[n] = 0
    \/ \E w \in witnesses : w.note \in Found(m) \cup Kept /\ w.height = Upto(m)
    \/ \E n \in Found(m) \cup Kept : SpendsIn(m, n) # {} /\ spent[n] # 0

(* The height of the row of the transaction that spends n, from a block at *)
(* height k.  The row is there already when the scan of an address has     *)
(* found the transaction, and it is kept: on another branch it may have    *)
(* been at another height.                                                 *)
TransactionHeight(n, k) ==
    IF \E c \in Outs[n] : noted[c] # 0 THEN noted[CHOOSE c \in Outs[n] : TRUE] ELSE k

(* The messages of a chunk, committed together: new notes, the witnesses   *)
(* of the tracked ones at the last block, the spends, at the heights of    *)
(* their transactions, the checkpoint of the shielded pools and the header *)
(* of the last block.                                                      *)
HandleChunk ==
    /\ Arriving("chunk")
    /\ LET m == Head(chan)
           live == Found(m) \cup Kept
           root(n) == Advance(m, IF n \in Found(m) THEN edge ELSE utxo[n])
           hs == StoreHeaders(pend, HeaderOf(m))
       IN  /\ ~ChunkFails(m)
           /\ noted' = [n \in Note |-> IF n \in Found(m)
                                       THEN m.from + MinOf(MintsIn(m, n)) - 1 ELSE noted[n]]
           /\ spent' = [n \in Note |->
                           IF n \in live /\ SpendsIn(m, n) # {}
                           THEN TransactionHeight(n, m.from + MinOf(SpendsIn(m, n)) - 1)
                           ELSE spent[n]]
           /\ witnesses' = witnesses \cup
                             {[note |-> n, height |-> Upto(m), root |-> root(n)] : n \in live}
           /\ height' = [a \in Account |-> [p \in PoolsOf[a] |->
                           IF Moves(a) /\ p \in Shielded THEN Upto(m)
                           ELSE height[a][p]]]
           /\ headers' = StoreHeaders(headers, hs)
           /\ untimed' = {r \in untimed : r[2] \notin HeadersAt(hs)}
           /\ utxo' = [n \in Note |-> IF n \in live /\ SpendsIn(m, n) = {} THEN root(n) ELSE 0]
           /\ edge' = Advance(m, edge)
    /\ chan' = Tail(chan) /\ pend' = NoHeaders
    /\ UNCHANGED <<treeVars, pc, runVars, reading, next, prevHash, wanted, buf, left>>

(* ... or none of it, and synchronize_impl ends with the error             *)
FailChunk ==
    /\ Arriving("chunk") /\ ChunkFails(Head(chan))
    /\ EndRun /\ EndStream
    /\ UNCHANGED <<treeVars, dbVars, left>>

(* a header that was asked for waits for the next commit *)
HandleHeader ==
    /\ Arriving("header")
    /\ pend' = StoreHeaders(pend, [NoHeaders EXCEPT ![Head(chan).from] = Head(chan).ids[1]])
    /\ chan' = Tail(chan)
    /\ UNCHANGED <<treeVars, dbVars, pc, runVars, reading, next, prevHash, wanted, buf,
                   utxo, edge, left>>

(* The loop ends, the channels close, and the writer applies what is left: *)
(* headers and, for a reorg, the rewind of every account of the segment.   *)
(* shielded_sync returns Ok in each case.                                  *)
CloseStream ==
    /\ pc = "read" /\ ~reading
    /\ \/ /\ Arriving("reorg")
          /\ Rewind(seg.accounts, Head(chan).from, StoreHeaders(headers, pend),
                    {r \in untimed : r[2] \notin HeadersAt(pend)})
       \/ /\ chan = <<>> \/ Arriving("stop")
          /\ headers' = StoreHeaders(headers, pend)
          /\ untimed' = {r \in untimed : r[2] \notin HeadersAt(pend)}
          /\ UNCHANGED <<height, noted, spent, witnesses>>
    /\ pc' = "times" /\ EndStream
    /\ UNCHANGED <<treeVars, runVars, left>>

-------------------------------------------------------------------------------
(* synchronize_impl: after the stream *)

Missing == HeightsWithoutTime(seg.start, seg.end)

(* fetch the block of a height that has a transaction without a time, or   *)
(* that some account stands on without a header                            *)
FetchTime(h) ==
    /\ pc = "times" /\ h \in Missing /\ h <= Tip
    /\ headers' = StoreHeaders(headers, [NoHeaders EXCEPT ![h] = Chain[h]])
    /\ untimed' = {r \in untimed : r[2] # h}
    /\ UNCHANGED <<treeVars, height, noted, spent, witnesses, pc, runVars, readerVars,
                   writerVars, left>>

EndSegment ==
    /\ pc = "times" /\ Missing = {}
    /\ IF todo = {}
       THEN EndRun
       ELSE /\ pc' = "plan"
            /\ resume' = [a \in Account |-> IF a \in seg.accounts THEN seg.end ELSE resume[a]]
            /\ seg' = NoSegment
            /\ UNCHANGED <<chosen, target, todo, scan>>
    /\ UNCHANGED <<treeVars, dbVars, readerVars, writerVars, left>>

(* the server does not have a block that is asked for: the error ends the  *)
(* run                                                                     *)
RequestFails ==
    /\ \/ pc = "open" /\ seg.start - 1 > Tip
       \/ pc = "times" /\ \E h \in Missing : h > Tip
    /\ EndRun /\ EndStream
    /\ UNCHANGED <<treeVars, dbVars, left>>

-------------------------------------------------------------------------------
(* The run is lost at any point: the application is killed, a request      *)
(* fails, or the user cancels during transparent_sync.  What was not       *)
(* committed is rolled back.                                               *)
Abort ==
    /\ pc # "idle" /\ Fault("crash")
    /\ EndRun /\ EndStream
    /\ UNCHANGED <<treeVars, dbVars>>

(* The user rewinds an account (api rewind_sync) or puts it back to its    *)
(* birth height (api reset_sync, which keeps the headers): nothing takes   *)
(* the SYNCING lock, so this may happen during a run.  Each is one step    *)
(* here: the code commits the trimmed rows first, then the heights of a    *)
(* reset pool by pool, then the removal of the headers.                    *)
UserFault == Fault(IF pc = "idle" THEN "rewind" ELSE "midrewind")

UserRewind(a, h) ==
    /\ UserFault
    /\ Rewind({a}, h, headers, untimed)
    /\ UNCHANGED <<treeVars, pc, runVars, readerVars, writerVars>>

UserReset(a) ==
    /\ UserFault
    /\ LET cut == [b \in Account |-> 0]
       IN  Trim({a}, cut, Birth) /\ untimed' = TrimUntimed({a}, cut, untimed)
    /\ UNCHANGED <<treeVars, headers, pc, runVars, readerVars, writerVars>>

NodeStep ==
    /\ \/ \E mints, spends \in SUBSET Note :
            /\ Mine(mints, spends)
            /\ \A n \in Note : \A c \in Outs[n] : c \in mints <=> n \in spends
            /\ IF pc = "idle" THEN UNCHANGED left ELSE Fault("midblock")
       \/ \E fork \in Heights : Orphan(fork) /\ Fault(IF pc = "idle" THEN "orphan" ELSE "midorphan")
    /\ UNCHANGED <<dbVars, pc, runVars, readerVars, writerVars>>

Scan == \E a \in Account, i \in AddrIndexes, upto \in Heights : ScanAddress(a, i, upto)
Reader == (\E full \in BOOLEAN : ReadBlock(full)) \/ DetectReorg \/ EndOfStream
Writer == HandleChunk \/ FailChunk \/ HandleHeader \/ CloseStream
Times == (\E h \in Heights : FetchTime(h)) \/ EndSegment
Begin == Recover \/ BeginSegment \/ ScanDone \/ OpenStream \/ RequestFails
Synchronize == Begin \/ Scan \/ Reader \/ Writer \/ Times

Next ==
    \/ NodeStep
    \/ \E S \in SUBSET Account : StartSync(S)
    \/ Synchronize
    \/ StopReader
    \/ Abort
    \/ \E a \in Account, h \in Heights : UserRewind(a, h)
    \/ \E a \in Account : UserReset(a)

Spec == Init /\ [][Next]_vars

(* autoSync of the app starts a run again and again, and a run goes on as  *)
(* long as it is not interrupted; nothing obliges the node to abandon      *)
(* blocks, the connection to fail or the user to act.                      *)
FairSpec ==
    /\ Spec
    /\ SF_vars(NodeStep /\ Tip' > Tip)
    /\ WF_vars(StartSync(Account))
    /\ WF_vars(Begin) /\ WF_vars(Scan) /\ WF_vars(Reader) /\ WF_vars(Writer) /\ WF_vars(Times)

-------------------------------------------------------------------------------
(* Correctness *)

Unspent(n) == noted[n] # 0 /\ spent[n] = 0

(* What an account shows: its rows up to the lowest of its heights (rows   *)
(* above are trimmed by the next run).                                     *)
View(a) ==
    LET h == SyncHeight(a)
        shown == {n \in Note : Owner[n] = a /\ noted[n] \in 1..h}
    IN  [height |-> h,
         noted  |-> [n \in Note |-> IF n \in shown THEN noted[n] ELSE 0],
         spent  |-> [n \in Note |-> IF n \in shown /\ spent[n] <= h THEN spent[n] ELSE 0]]

Views == [a \in Account |-> View(a)]
Promise == INSTANCE ChainView WITH view <- Views

(* The database always shows an account exactly the notes of one branch,   *)
(* and a commit moves it along that branch: chunks, rewinds, recoveries    *)
(* and interrupted runs never skip a block or mix two branches.            *)
ImplementsPromise == Promise!ViewSpec

(* A spend never refers to a note that was trimmed: rows of notes have no  *)
(* AUTOINCREMENT key, so the id of a trimmed note is given to a new one,   *)
(* which would be born spent.  Except for a note that is spent together    *)
(* with a transparent output of the account: TransactionHeight may be      *)
(* below the note, and a trim between the two takes only the note.         *)
SpendsHaveNotes ==
    \A n \in Note : Outs[n] = {} /\ spent[n] # 0 => noted[n] # 0 /\ noted[n] <= spent[n]

(* ... nor does a witness.                                                 *)
WitnessesHaveNotes == \A w \in witnesses : noted[w.note] # 0 /\ noted[w.note] <= w.height

(* The assertions of handle_message and the unique keys never stop a run:  *)
(* a chunk that arrives at the writer can be written.                      *)
ChunksFit == Arriving("chunk") => ~ChunkFails(Head(chan))

(* check_witness_consistency: each unspent shielded note has a witness at  *)
(* the height of its account and pool.                                     *)
NotesHaveWitness ==
    \A n \in Note : PoolOf[n] \in Shielded /\ Unspent(n) =>
        RootAt(n, height[Owner[n]][PoolOf[n]]) # 0

(* The witnesses of an account can be spent together: at its height they   *)
(* all lead to the commitment tree of a block that the account stands on.  *)
WitnessesUsable ==
    \A n \in Note : PoolOf[n] \in Shielded /\ Unspent(n) /\ noted[n] <= SyncHeight(Owner[n]) =>
        RootAt(n, SyncHeight(Owner[n])) \in Promise!Positions(Owner[n], View(Owner[n]))

(* get_db_height joins the height of the account with the headers: the     *)
(* header of the height an account stands on is in the table.              *)
HeightHasHeader == pc = "idle" => \A a \in Account : headers[SyncHeight(a)] # NoBlock

(* A run only touches the accounts it was started for; unless it rewinds,  *)
(* for that takes headers of any account.                                  *)
OthersUntouched ==
    [][pc # "idle" /\ left'["midrewind"] = left["midrewind"] =>
         \A a \in Account \ chosen :
            /\ View(a)' = View(a)
            /\ headers[SyncHeight(a)] # NoBlock => headers'[SyncHeight(a)] = headers[SyncHeight(a)]]_vars

(* Once the chain is done and faults are over, every account arrives at    *)
(* the tip, with the notes of the chain.                                   *)
InSync(a) == View(a) = Promise!Contents(a, best)
CatchesUp == <>[](\A a \in Account : InSync(a))
=============================================================================
