-------------------------- MODULE WarpSync_promise --------------------------
(***************************************************************************)
(* The synchronization of an account implements what ChainView promises:   *)
(* for one account with keys for shielded pools, any chain, any notes, any *)
(* reorganizations, before and during a run, lost connections, crashes,    *)
(* cancellations, and rewinds between runs; and for several accounts, with *)
(* any pools and at different heights, when the node abandons no block, no *)
(* stream is cut short and no run is cancelled.  Both at once it does not: *)
(* an account that waits for its segment does not see the blocks that the  *)
(* node abandons, and the scan of an address may mix two branches.  Nor    *)
(* does it with a rewind during a run.                                     *)
(*                                                                         *)
(* The idea.  At any time there is a block that the account stands on: its *)
(* rows are those of the path of the block, and so are its checkpoints.    *)
(* While a stream is read there is a block that the reader stands on, its  *)
(* path goes on from that of the account, and all that is in flight is on  *)
(* it, from the height of the account on and without a gap.  That the      *)
(* reader goes on from the account, and not on another branch, rests on    *)
(* the header at the height of the account: it is that of the block the    *)
(* account stands on, or of a block the node has abandoned.                *)
(***************************************************************************)
EXTENDS WarpSync_rows

(* What the theorems are about: one account, with keys for shielded pools, *)
(* that is not rewound while a run is on its way.                          *)
OneShielded ==
    /\ \E a : Account = {a}
    /\ \A a \in Account : PoolsOf[a] \subseteq Shielded
    /\ Faults["midrewind"] = 0

(* The block at the birth height is known, or will not change.             *)
BirthFixed == \A a \in Account : Birth[a] <= MinFork \/ (a \in BirthCached /\ Faults["rewind"] = 0)

OffChain(id) == \A k \in 1..Tip : Chain[k] # id

-------------------------------------------------------------------------------
(* The rows of an account are those of path p up to height h.              *)
NoteFollows(n, p, h) ==
    /\ noted[n] # 0 => noted[n] \in (Birth[Owner[n]] + 1)..h /\ n \in blocks[p[noted[n]]].mints
    /\ noted[n] = 0 => spent[n] = 0 /\ \A k \in (Birth[Owner[n]] + 1)..h : n \notin blocks[p[k]].mints
    /\ spent[n] # 0 => spent[n] \in (noted[n] + 1)..h /\ n \in blocks[p[spent[n]]].spends
    /\ noted[n] # 0 /\ spent[n] = 0 =>
         \A k \in (noted[n] + 1)..h : n \notin blocks[p[k]].spends

RowsFollow(p, h) == \A n \in Note : NoteFollows(n, p, h)

(* NoteFollows of given rows                                               *)
RowFollows(n, no, sp, p, h) ==
    /\ no # 0 => no \in (Birth[Owner[n]] + 1)..h /\ n \in blocks[p[no]].mints
    /\ no = 0 => sp = 0 /\ \A k \in (Birth[Owner[n]] + 1)..h : n \notin blocks[p[k]].mints
    /\ sp # 0 => sp \in (no + 1)..h /\ n \in blocks[p[sp]].spends
    /\ no # 0 /\ sp = 0 => \A k \in (no + 1)..h : n \notin blocks[p[k]].spends

(* A note that is there, and not spent, at height c.                       *)
LiveAt(n, c) == noted[n] # 0 /\ noted[n] <= c /\ (spent[n] = 0 \/ spent[n] > c)

(* Its checkpoints are on the path, are complete, and have a header: that  *)
(* of their block, or of one that the node has abandoned.                  *)
Marks(h) == {h} \cup {w.height : w \in witnesses}

HeaderOn(p, k) ==
    headers[k] # NoBlock /\ (headers[k] = p[k] \/ OffChain(headers[k]))

CheckpointsFollow(a, p, h) ==
    /\ \A w \in witnesses : /\ w.height \in (Birth[a] + 1)..h
                            /\ w.root # 0 /\ (BirthFixed => w.root = p[w.height])
    /\ \A c \in Marks(h) : \A n \in Note : LiveAt(n, c) =>
         \E w \in witnesses : w.note = n /\ w.height = c
    /\ \A c \in Marks(h) : c > Birth[a] => HeaderOn(p, c)

Standing(a, p, h) ==
    /\ Birth[a] <= h /\ h <= Len(p)
    /\ \A q \in PoolsOf[a] : height[a][q] = h
    /\ RowsFollow(p, h)
    /\ CheckpointsFollow(a, p, h)

-------------------------------------------------------------------------------
(* The stream: everything in flight is on one path, from the height of the *)
(* account on and without a gap; what is tracked is what is not spent.     *)
Covers(i, k) == IsChunk(chan[i]) /\ chan[i].from <= k /\ k <= Upto(chan[i])
Covered(k) == \E i \in 1..Len(chan) : Covers(i, k)

ChunkFollows(m, p, h) ==
    /\ h < m.from /\ Upto(m) <= Len(p)
    /\ \A k \in 1..Len(m.ids) : m.ids[k] = p[m.from + k - 1]
    /\ \A k \in (h + 1)..Upto(m) : Covered(k)

MessagesFollow(p, h) ==
    \A i \in 1..Len(chan) :
        /\ IsChunk(chan[i]) => ChunkFollows(chan[i], p, h)
        /\ chan[i].kind = "header" => chan[i].from <= Len(p) /\ chan[i].ids[1] = p[chan[i].from]
        /\ chan[i].kind = "reorg" => ~reading /\ chan[i].from = next - 1

(* Before the first block: the tree state that the server gave is that of  *)
(* the block the account stands on, unless the first block will not link.  *)
Unread(h) ==
    /\ h = seg.start - 1 /\ prevHash = headers[h]
    /\ buf = <<>> /\ chan = <<>> /\ pend = NoHeaders
    /\ BirthFixed /\ prevHash # NoBlock /\ ~OffChain(prevHash) => edge = prevHash
    /\ BirthFixed /\ prevHash = NoBlock => h <= MinFork /\ h <= Tip /\ edge = Chain[h]

BufferFollows(p, h) ==
    /\ h < next - Len(buf)
    /\ \A k \in 1..Len(buf) : buf[k] = p[next - Len(buf) + k - 1]
    /\ \A k \in (h + 1)..(next - Len(buf) - 1) : Covered(k)

ReaderFollows(p, h) ==
    reading =>
        /\ next > seg.start => prevHash = p[Len(p)] /\ Len(p) = next - 1
        /\ next = seg.start => Unread(h)
        /\ BufferFollows(p, h)

PendingFollow(p, h) ==
    /\ \A k \in Heights : pend[k] # NoBlock => k \in 1..Len(p) /\ pend[k] = p[k]
    /\ \A k \in (h + 1)..Len(p) : headers[k] \in {NoBlock, p[k]} \/ OffChain(headers[k])

TracksUnspent == \A n \in Note : utxo[n] # 0 <=> Unspent(n)

Rooted(p, h) ==
    BirthFixed =>
        /\ next > seg.start => edge = p[h]
        /\ \A n \in Note : utxo[n] # 0 => utxo[n] = p[h]

Streams(p, h) ==
    /\ seg.start <= next /\ seg.start <= h + 1 /\ h < next
    /\ MessagesFollow(p, h)
    /\ ReaderFollows(p, h)
    /\ PendingFollow(p, h)
    /\ TracksUnspent
    /\ Rooted(p, h)

(* The run: one segment, from the height of the account on.                *)
RunFollows(a, h) ==
    /\ pc # "idle" => chosen = {a}
    /\ pc = "plan" => todo = {h + 1} /\ resume[a] = h + 1
    /\ InSegment => todo = {} /\ seg.accounts = {a}
    /\ pc \in {"scan", "open"} => seg.start = h + 1

On(a, p, h) ==
    /\ Standing(a, p, h)
    /\ RunFollows(a, h)
    /\ pc # "read" => Len(p) = h /\ pend = NoHeaders
    /\ pc = "read" => Streams(p, h)

Paths == {PathOf(id) : id \in 1..Len(blocks)}

HeadersKnown ==
    \A k \in Heights : headers[k] # NoBlock =>
        headers[k] \in 1..Len(blocks) /\ Len(PathOf(headers[k])) = k

(* The header of the birth height is there when nothing removes it.        *)
BirthKnown(a) ==
    a \in BirthCached /\ Faults["rewind"] = 0 => headers[Birth[a]] # NoBlock /\ left["rewind"] = 0

Follows ==
    /\ HeadersKnown
    /\ left["midrewind"] = 0
    /\ \A a \in Account : BirthKnown(a) /\ \E p \in Paths, h \in Heights : On(a, p, h)

(* a step moves the account along a path                                   *)
MovesAlong(a) ==
    \E p \in Paths, h, k \in Heights : Standing(a, p, h) /\ Standing(a, p, k)'

PromiseInv == SpendsInv /\ TreeOnce /\ Follows

-------------------------------------------------------------------------------
(* Paths, heights and headers *)

(* a path leads to known blocks, and each of them ends a prefix of it      *)
LEMMA PathFacts ==
    ASSUME TreeInv, NEW p \in Paths
    PROVE  /\ p \in Seq(Nat) /\ Len(p) \in 1..MaxHeight
           /\ \A k \in 1..Len(p) : /\ p[k] \in 1..Len(blocks) /\ PathOf(p[k]) \in Paths
                                   /\ Len(PathOf(p[k])) = k
                                   /\ \A j \in 1..k : PathOf(p[k])[j] = p[j]
<1>1. PICK id \in 1..Len(blocks) : p = PathOf(id)
  BY DEF Paths
<1>2. TreeTypeOK /\ PathsShared
  BY DEF TreeInv
<1>3. Len(blocks) \in Nat /\ blocks[id] \in BlockType
  BY <1>1, <1>2 DEF TreeTypeOK
<1>4. p \in Seq(Nat) /\ Len(p) \in 1..MaxHeight /\ \A k \in 1..Len(p) : p[k] \in 1..id
  BY <1>1, <1>2, <1>3 DEF TreeTypeOK, PathOf, BlockType
<1>5. \A k \in 1..Len(p) : p[k] \in 1..Len(blocks)
  BY <1>1, <1>3, <1>4
<1>6. \A k \in 1..Len(p) : PathOf(p[k]) \in Paths
  BY <1>5 DEF Paths
<1>7. \A k \in 1..Len(p) : Len(PathOf(p[k])) = k /\ \A j \in 1..k : PathOf(p[k])[j] = p[j]
  BY <1>1, <1>2 DEF PathsShared
<1> QED
  BY <1>4, <1>5, <1>6, <1>7

(* the chain is a path, and a block of it is known by its height           *)
LEMMA ChainFacts ==
    ASSUME TreeInv
    PROVE  /\ Chain \in Paths /\ Tip = Len(Chain)
           /\ \A id \in 1..Len(blocks) :
                 ~OffChain(id) => Len(PathOf(id)) \in 1..Tip /\ id = Chain[Len(PathOf(id))]
<1>1. Chain \in Paths /\ Tip = Len(Chain)
  BY DEF TreeInv, TreeTypeOK, Paths, Chain, Tip
<1>2. ASSUME NEW id \in 1..Len(blocks), ~OffChain(id)
      PROVE  Len(PathOf(id)) \in 1..Tip /\ id = Chain[Len(PathOf(id))]
  <2>1. PICK k \in 1..Len(Chain) : Chain[k] = id
    BY <1>1, <1>2 DEF OffChain
  <2>2. Len(PathOf(Chain[k])) = k
    BY <1>1, <2>1, PathFacts
  <2> QED
    BY <1>1, <2>1, <2>2
<1> QED
  BY <1>1, <1>2

(* two paths through a block share what is below it                        *)
LEMMA SharedPrefix ==
    ASSUME TreeInv, NEW p \in Paths, NEW q \in Paths,
           NEW k \in 1..Len(p), k \in 1..Len(q), p[k] = q[k]
    PROVE  \A j \in 1..k : p[j] = q[j]
BY PathFacts

(* a block that is off the chain stays off it                              *)
LEMMA OffChainKept ==
    ASSUME TreeInv, NodeStep, NEW id \in 1..Len(blocks), OffChain(id)
    PROVE  OffChain(id)'
<1>1. TreeTypeOK /\ Len(blocks) \in Nat /\ Chain \in Seq(Nat) /\ Tip = Len(Chain) /\ Tip \in Nat
  BY ChainType, BlockTreeAssumption DEF TreeInv, TreeTypeOK, Tip
<1>2. ASSUME NEW mints \in SUBSET Note, NEW spends \in SUBSET Note, Mine(mints, spends)
      PROVE  OffChain(id)'
  <2>1. Chain' = Append(Chain, Len(blocks) + 1)
    BY <1>1, <1>2, MinedBlock DEF Chain, PathOf, Mine
  <2>2. Tip' = Tip + 1 /\ \A k \in 1..Tip : Chain'[k] = Chain[k]
    BY <1>1, <2>1 DEF Tip
  <2>3. Chain'[Tip + 1] = Len(blocks) + 1
    BY <1>1, <2>1
  <2>4. ASSUME NEW k \in 1..Tip' PROVE Chain'[k] # id
    BY <1>1, <2>2, <2>3, <2>4 DEF OffChain
  <2> QED
    BY <2>4 DEF OffChain
<1>3. ASSUME NEW fork \in Heights, Orphan(fork)
      PROVE  OffChain(id)'
  <2>1. fork \in 1..Tip /\ Chain' = PathOf(Chain[fork])
    BY <1>1, <1>3, BlockTreeAssumption DEF Orphan, Chain, PathOf, Tip
  <2>2. Len(Chain') = fork /\ \A j \in 1..fork : Chain'[j] = Chain[j]
    BY <1>1, <2>1, ChainFacts, PathFacts
  <2> QED
    BY <1>1, <2>1, <2>2 DEF OffChain, Tip
<1> QED
  BY <1>2, <1>3 DEF NodeStep

-------------------------------------------------------------------------------
(* Standing on a path *)

LEMMA MinOfOne ==
    ASSUME NEW f, NEW S, S # {}, NEW h \in Nat, \A q \in S : f[q] = h
    PROVE  MinOf({f[q] : q \in S}) = h
<1>1. {f[q] : q \in S} = {h}
  OBVIOUS
<1>2. {h} \in SUBSET Nat /\ {h} # {}
  OBVIOUS
<1> QED
  BY <1>1, <1>2, MinOfIsMin

LEMMA StandingHeight ==
    ASSUME NEW a \in Account, NEW p, NEW h \in Nat, Standing(a, p, h)
    PROVE  SyncHeight(a) = h
BY MinOfOne, Bounds DEF Standing, SyncHeight

LEMMA StandingHeightNext ==
    ASSUME NEW a \in Account, NEW p, NEW h \in Nat, Standing(a, p, h)'
    PROVE  SyncHeight(a)' = h
<1>1. PoolsOf[a] # {} /\ \A q \in PoolsOf[a] : height'[a][q] = h
  BY Bounds DEF Standing
<1> QED
  BY <1>1, MinOfOne DEF SyncHeight

(* the owner of a note, and the pools of an account, when there is one     *)
LEMMA OneAccount ==
    ASSUME OneShielded, NEW a \in Account
    PROVE  /\ Account = {a} /\ PoolsOf[a] \subseteq Shielded /\ 0 \notin PoolsOf[a]
           /\ PoolsOf[a] \cap Shielded # {}
           /\ \A n \in Note : Owner[n] = a /\ PoolOf[n] \in Shielded
           /\ Birth[a] \in 1..MaxHeight
<1>1. Account = {a} /\ PoolsOf[a] \subseteq Shielded /\ PoolsOf[a] # {} /\ Birth[a] \in 1..MaxHeight
  BY Bounds DEF OneShielded
<1>2. \A n \in Note : Owner[n] = a /\ PoolOf[n] \in PoolsOf[a]
  BY <1>1, Bounds, WarpSyncAssumption
<1>3. 0 \notin Shielded
  BY DEF Shielded
<1> QED
  BY <1>1, <1>2, <1>3

(* Where an account stands depends on its rows, on the headers it has and  *)
(* on the blocks of its path, which the node does not change.              *)
LEMMA StandingKept ==
    ASSUME OneShielded, PromiseInv, NEW a \in Account, NEW p \in Paths, NEW h \in Heights,
           Standing(a, p, h), UNCHANGED <<noted, spent, witnesses>>,
           \A q \in PoolsOf[a] : height'[a][q] = height[a][q],
           \A id \in 1..Len(blocks) : blocks'[id] = blocks[id] /\ (OffChain(id) => OffChain(id)'),
           \A k \in Heights : headers[k] # NoBlock => headers'[k] = headers[k]
    PROVE  Standing(a, p, h)'
<1>1. TreeInv /\ HeadersKnown
  BY DEF PromiseInv, SpendsInv, Follows
<1>2. /\ Len(p) \in 1..MaxHeight /\ MaxHeight \in Nat /\ h \in Nat /\ Birth[a] \in 1..MaxHeight
      /\ Birth[a] <= h /\ h <= Len(p)
      /\ \A k \in 1..Len(p) : p[k] \in 1..Len(blocks)
  BY <1>1, PathFacts, OneAccount, Bounds DEF Standing
<1>3. ASSUME NEW n \in Note PROVE NoteFollows(n, p, h)'
  <2>1. NoteFollows(n, p, h) /\ Owner[n] = a
    BY OneAccount DEF Standing, RowsFollow
  <2>2. \A k \in (Birth[a] + 1)..h : k \in 1..Len(p) /\ blocks'[p[k]] = blocks[p[k]]
    BY <1>2
  <2>3. noted[n] # 0 => \A k \in (noted[n] + 1)..h : k \in (Birth[a] + 1)..h
    BY <1>2, <2>1 DEF NoteFollows
  <2>4. spent[n] # 0 => noted[n] # 0
    BY <2>1 DEF NoteFollows
  <2> QED
    BY <2>1, <2>2, <2>3, <2>4 DEF NoteFollows
<1>4. CheckpointsFollow(a, p, h)'
  <2>1. CheckpointsFollow(a, p, h) /\ Marks(h)' = Marks(h)
    BY DEF Standing, Marks
  <2>2. \A c \in Marks(h) : c > Birth[a] => c \in Heights
    BY <1>2, <2>1, Bounds DEF Marks, CheckpointsFollow
  <2>3. ASSUME NEW c \in Marks(h), c > Birth[a] PROVE HeaderOn(p, c)'
    <3>1. HeaderOn(p, c) /\ c \in Heights
      BY <2>1, <2>2, <2>3 DEF CheckpointsFollow
    <3>2. headers'[c] = headers[c] /\ headers[c] \in 1..Len(blocks)
      BY <1>1, <3>1 DEF HeaderOn, HeadersKnown
    <3> QED
      BY <3>1, <3>2 DEF HeaderOn
  <2>4. \A c, n : LiveAt(n, c)' <=> LiveAt(n, c)
    BY DEF LiveAt
  <2> QED
    BY <2>1, <2>3, <2>4 DEF CheckpointsFollow
<1> QED
  BY <1>2, <1>3, <1>4 DEF Standing, RowsFollow

(* ... and only on the path from birth up to its height.                   *)
LEMMA StandingOnOther ==
    ASSUME OneShielded, NEW a \in Account, NEW p, NEW q, NEW h \in Nat,
           Standing(a, p, h)', \A k \in (Birth[a] + 1)..h : q[k] = p[k], h <= Len(q)
    PROVE  Standing(a, q, h)'
<1>1. Birth[a] \in Nat /\ Birth[a] >= 1 /\ Birth[a] <= h /\ MaxHeight \in Nat
  BY OneAccount, Bounds DEF Standing
<1>2. ASSUME NEW n \in Note PROVE NoteFollows(n, q, h)'
  <2>1. NoteFollows(n, p, h)' /\ Owner[n] = a
    BY OneAccount DEF Standing, RowsFollow
  <2>2. \A k \in (Birth[a] + 1)..h : q[k] = p[k]
    BY <1>1
  <2>3. noted'[n] # 0 => \A k \in (noted'[n] + 1)..h : k \in (Birth[a] + 1)..h
    BY <1>1, <2>1 DEF NoteFollows
  <2>4. spent'[n] # 0 => noted'[n] # 0
    BY <2>1 DEF NoteFollows
  <2> QED
    BY <2>1, <2>2, <2>3, <2>4 DEF NoteFollows
<1>3. CheckpointsFollow(a, q, h)'
  <2>1. CheckpointsFollow(a, p, h)'
    BY DEF Standing
  <2>2. \A c \in Marks(h)' : c > Birth[a] => q[c] = p[c]
    BY <1>1, <2>1 DEF Marks, CheckpointsFollow
  <2>3. \A w \in witnesses' : q[w.height] = p[w.height]
    BY <1>1, <2>1 DEF CheckpointsFollow
  <2> QED
    BY <2>1, <2>2, <2>3 DEF CheckpointsFollow, HeaderOn
<1> QED
  BY <1>2, <1>3 DEF Standing, RowsFollow

LEMMA SameStanding ==
    ASSUME OneShielded, PromiseInv, NEW a \in Account, NEW p \in Paths, NEW h \in Heights,
           Standing(a, p, h), UNCHANGED <<treeVars, noted, spent, witnesses>>,
           \A q \in PoolsOf[a] : height'[a][q] = height[a][q],
           \A k \in Heights : headers[k] # NoBlock => headers'[k] = headers[k]
    PROVE  Standing(a, p, h)'
<1>1. \A id \in 1..Len(blocks) : blocks'[id] = blocks[id] /\ (OffChain(id) => OffChain(id)')
  BY DEF treeVars, OffChain, Tip, Chain, PathOf
<1> QED
  BY <1>1, StandingKept

(* Outside the stream the account stands on the last block of a path.      *)
LEMMA Landing ==
    ASSUME OneShielded, PromiseInv, UNCHANGED treeVars,
           NEW a \in Account, NEW p \in Paths, NEW h \in Heights,
           Standing(a, p, h)', RunFollows(a, h)', pc' # "read", pend' = NoHeaders
    PROVE  \E q \in Paths', k \in Heights : On(a, q, k)'
<1>1. TreeInv
  BY DEF PromiseInv, SpendsInv
<1>2. h \in 1..Len(p) /\ h \in Nat
  BY OneAccount, Bounds DEF Standing
<1>3. PICK q \in Paths : Len(q) = h /\ \A j \in 1..h : q[j] = p[j]
  BY <1>1, <1>2, PathFacts
<1>4. Standing(a, q, h)'
  <2>1. \A j \in (Birth[a] + 1)..h : j \in 1..h
    BY <1>2, OneAccount, Bounds
  <2> QED
    BY <1>2, <1>3, <2>1, StandingOnOther
<1>5. q \in Paths'
  BY DEF treeVars, Paths, PathOf
<1>6. On(a, q, h)'
  BY <1>3, <1>4 DEF On
<1> QED
  BY <1>5, <1>6

-------------------------------------------------------------------------------
(* The steps of the node *)

LEMMA NodeStepOn ==
    ASSUME OneShielded, PromiseInv, Typed', NodeStep,
           NEW a \in Account, NEW p \in Paths, NEW h \in Heights, On(a, p, h)
    PROVE  \E q \in Paths', k \in Heights : On(a, q, k)'
<1>1. TreeInv /\ TreeTypeOK /\ Len(blocks) \in Nat
  BY DEF PromiseInv, SpendsInv, TreeInv, TreeTypeOK
<1>0. \/ \E mints \in SUBSET Note, spends \in SUBSET Note : Mine(mints, spends)
      \/ \E fork \in Heights : Orphan(fork)
  BY DEF NodeStep
<1>2. UNCHANGED <<dbVars, pc, runVars, readerVars, writerVars>>
  BY DEF NodeStep
<1>3. \A id \in 1..Len(blocks) : blocks'[id] = blocks[id] /\ id \in 1..Len(blocks')
  <2>1. CASE \E mints \in SUBSET Note, spends \in SUBSET Note : Mine(mints, spends)
    <3>1. PICK mints \in SUBSET Note, spends \in SUBSET Note : Mine(mints, spends)
      BY <2>1
    <3>2. Len(blocks') = Len(blocks) + 1 /\ \A id \in 1..Len(blocks) : blocks'[id] = blocks[id]
      BY <1>1, <3>1, MinedBlock
    <3> QED
      BY <1>1, <3>2
  <2>2. CASE \E fork \in Heights : Orphan(fork)
    BY <2>2 DEF Orphan
  <2> QED
    BY <1>0, <2>1, <2>2
<1>4. \A id \in 1..Len(blocks) : OffChain(id) => OffChain(id)'
  BY <1>1, OffChainKept
<1>5. p \in Paths'
  BY <1>3 DEF Paths, PathOf
<1>6. Standing(a, p, h)'
  BY <1>2, <1>3, <1>4, StandingKept DEF dbVars, On
<1>7. RunFollows(a, h)'
  BY <1>2 DEF runVars, RunFollows, On, InSegment
<1>8. ASSUME pc = "read" PROVE Streams(p, h)'
  <2>1. Streams(p, h) /\ HeadersKnown
    BY <1>8 DEF On, PromiseInv, Follows
  <2>2. MessagesFollow(p, h)' /\ BufferFollows(p, h) = BufferFollows(p, h)'
    BY <1>2, <2>1 DEF Streams, MessagesFollow, ChunkFollows, BufferFollows, Covered, Covers,
                      readerVars, Upto, IsChunk
  <2>3. TracksUnspent' /\ Rooted(p, h)'
    BY <1>2, <2>1 DEF Streams, TracksUnspent, Unspent, Rooted, readerVars, writerVars, dbVars, runVars
  <2>4. PendingFollow(p, h)'
    <3>1. \A k \in (h + 1)..Len(p) : headers[k] \in {NoBlock, p[k]} \/ OffChain(headers[k])'
      <4>1. \A k \in (h + 1)..Len(p) : k \in Heights
        BY <1>1, PathFacts, Bounds
      <4> QED
        BY <1>2, <1>4, <2>1, <4>1 DEF Streams, PendingFollow, HeadersKnown, OffChain, dbVars
    <3> QED
      BY <1>2, <2>1, <3>1 DEF Streams, PendingFollow, writerVars, dbVars
  <2>5. ASSUME Unread(h) PROVE Unread(h)'
    <3>1. h \in Heights /\ prevHash = headers[h]
      BY <2>5 DEF Unread
    <3>2. prevHash # NoBlock /\ ~OffChain(prevHash)' => ~OffChain(prevHash)
      BY <1>2, <1>4, <2>1, <3>1 DEF HeadersKnown, OffChain, readerVars
    <3>3. h >= 1 /\ h <= MinFork /\ h <= Tip => h <= Tip' /\ Chain'[h] = Chain[h]
      <4>1. Chain \in Paths /\ Tip = Len(Chain) /\ Tip \in Nat /\ Chain \in Seq(Nat)
        BY <1>1, ChainFacts, ChainType
      <4>2. ASSUME NEW mints \in SUBSET Note, NEW spends \in SUBSET Note, Mine(mints, spends)
            PROVE  Chain' = Append(Chain, Len(blocks) + 1) /\ Tip' = Tip + 1
        BY <1>1, <4>1, <4>2, MinedBlock DEF Chain, PathOf, Mine, Tip
      <4>3. ASSUME NEW fork \in Heights, Orphan(fork)
            PROVE  /\ fork >= MinFork /\ Tip' = fork
                   /\ \A j \in 1..fork : Chain'[j] = Chain[j]
        <5>1. fork \in 1..Tip /\ fork >= MinFork /\ Chain' = PathOf(Chain[fork])
          BY <4>1, <4>3, BlockTreeAssumption DEF Orphan, Chain, PathOf, Tip
        <5> QED
          BY <1>1, <4>1, <5>1, PathFacts DEF Tip
      <4> QED
        <5>1. h \in Nat /\ MinFork \in Nat
          BY <3>1, Bounds, BlockTreeAssumption
        <5>2. CASE \E mints \in SUBSET Note, spends \in SUBSET Note : Mine(mints, spends)
          <6>1. PICK mints \in SUBSET Note, spends \in SUBSET Note : Mine(mints, spends)
            BY <5>2
          <6>2. Chain' = Append(Chain, Len(blocks) + 1) /\ Tip' = Tip + 1
            BY <4>2, <6>1
          <6> QED
            BY <4>1, <5>1, <6>2
        <5>3. CASE \E fork \in Heights : Orphan(fork)
          BY <4>1, <4>3, <5>1, <5>3, Bounds
        <5> QED
          BY <1>0, <5>2, <5>3
    <3>4. h >= 1
      BY OneAccount, Bounds DEF On, Standing
    <3> QED
      BY <1>2, <2>5, <3>2, <3>3, <3>4 DEF Unread, dbVars, readerVars, writerVars, runVars, OffChain
  <2> QED
    BY <1>2, <2>1, <2>2, <2>3, <2>4, <2>5 DEF Streams, ReaderFollows, readerVars, runVars
<1> QED
  BY <1>2, <1>5, <1>6, <1>7, <1>8 DEF On, writerVars

-------------------------------------------------------------------------------
(* The steps of a run outside the stream *)

LEMMA StartSyncOn ==
    ASSUME OneShielded, PromiseInv, NEW S \in SUBSET Account, StartSync(S),
           NEW a \in Account, NEW p \in Paths, NEW h \in Heights, On(a, p, h)
    PROVE  \E q \in Paths', k \in Heights : On(a, q, k)'
<1>1. /\ UNCHANGED <<treeVars, height, headers, noted, spent, pend>>
      /\ pc = "idle" /\ pc' = "recover" /\ chosen' = {a}
  BY OneAccount DEF StartSync, writerVars
<1>2. PICK cutoff : witnesses' = {w \in witnesses : ~(Owner[w.note] \in S /\ Outdated(w, cutoff))}
  BY DEF StartSync
<1>3. /\ Standing(a, p, h) /\ Len(p) = h /\ h \in Nat
      /\ \A w \in witnesses : w.height \in Nat /\ w.height <= h /\ Owner[w.note] = a
  BY <1>1, OneAccount, Bounds, HeightsOfRows
     DEF On, Standing, CheckpointsFollow, WitnessRow, PromiseInv, SpendsInv, RowsInv
<1>4. Standing(a, p, h)'
  <2>1. ASSUME NEW v \in witnesses, NEW w \in witnesses, v.height = w.height, v \in witnesses'
        PROVE  w \in witnesses'
    BY <1>2, <1>3, <2>1 DEF Outdated
  <2>2. ASSUME NEW w \in witnesses, w.height = h PROVE w \in witnesses'
    <3>1. \A k \in CheckpointsBelow(a, cutoff) : k <= h
      BY <1>3 DEF CheckpointsBelow
    <3> QED
      BY <1>2, <1>3, <2>2, <3>1 DEF Outdated, CheckpointsBelow
  <2>3. witnesses' \subseteq witnesses
    BY <1>2
  <2>4. CheckpointsFollow(a, p, h) /\ Marks(h)' \subseteq Marks(h)
    BY <1>3, <2>3 DEF Standing, Marks
  <2>5. ASSUME NEW c \in Marks(h)', NEW n \in Note, LiveAt(n, c)'
        PROVE  \E w \in witnesses' : w.note = n /\ w.height = c
    <3>1. LiveAt(n, c) /\ c \in Marks(h)
      BY <1>1, <2>4, <2>5 DEF LiveAt
    <3>2. PICK w \in witnesses : w.note = n /\ w.height = c
      BY <2>4, <3>1 DEF CheckpointsFollow
    <3>3. c = h \/ \E v \in witnesses' : v.height = c
      BY <2>5 DEF Marks
    <3> QED
      BY <2>1, <2>2, <2>3, <3>2, <3>3
  <2>6. \A c : HeaderOn(p, c) => HeaderOn(p, c)'
    BY <1>1 DEF HeaderOn, OffChain, Tip, Chain, PathOf, treeVars
  <2>7. CheckpointsFollow(a, p, h)'
    BY <2>3, <2>4, <2>5, <2>6 DEF CheckpointsFollow
  <2>8. RowsFollow(p, h)'
    BY <1>1, <1>3 DEF Standing, RowsFollow, NoteFollows, treeVars
  <2> QED
    BY <1>1, <1>3, <2>7, <2>8 DEF Standing
<1>5. RunFollows(a, h)' /\ pend' = NoHeaders
  BY <1>1 DEF RunFollows, InSegment, On
<1> QED
  BY <1>1, <1>4, <1>5, Landing

LEMMA RecoverOn ==
    ASSUME OneShielded, PromiseInv, Recover,
           NEW a \in Account, NEW p \in Paths, NEW h \in Heights, On(a, p, h)
    PROVE  /\ UNCHANGED <<noted, spent>> /\ SyncHeight(a)' = SyncHeight(a)
           /\ \E q \in Paths', k \in Heights : On(a, q, k)'
<1>1. /\ UNCHANGED <<treeVars, headers, chosen, pend>> /\ pc = "recover" /\ pc' = "plan"
      /\ chosen = {a} /\ Standing(a, p, h) /\ h \in Nat /\ SyncHeight(a) = h
  BY StandingHeight, Bounds DEF Recover, writerVars, On, RunFollows
<1> DEFINE cut == [b \in Account |-> SyncHeight(b)]
<1>2. Trim(chosen, cut, cut) /\ cut[a] = h
  BY <1>1 DEF Recover
<1>3. resume' = [b \in Account |-> IF b \in chosen THEN cut[b] + 1 ELSE 0] /\ todo' = {cut[b] + 1 : b \in chosen}
  BY DEF Recover
<1>4. todo' = {h + 1} /\ resume'[a] = h + 1
  BY <1>1, <1>2, <1>3
<1> HIDE DEF cut
<1>5. UNCHANGED <<noted, spent, witnesses>> /\ \A q \in PoolsOf[a] : height'[a][q] = height[a][q]
  <2>1. /\ noted \in [Note -> Heights] /\ spent \in [Note -> Heights]
        /\ DOMAIN height = Account /\ \A b \in Account : height[b] \in [PoolsOf[b] -> Heights]
    BY DEF PromiseInv, SpendsInv, RowsInv, Typed, TypeOK, DatabaseTypes
  <2>2. ASSUME NEW n \in Note PROVE noted[n] <= h /\ spent[n] <= h
    BY <1>1, <2>1, OneAccount, Bounds DEF Standing, RowsFollow, NoteFollows
  <2>3. ASSUME NEW w \in witnesses PROVE w.height <= h
    BY <1>1, OneAccount, Bounds DEF Standing, CheckpointsFollow
  <2>4. \A n \in Note : noted[n] \in Nat /\ spent[n] \in Nat
    BY <2>1, Bounds
  <2>5. \A k \in Nat : k <= h => ~Gone(chosen, cut, a, k)
    BY <1>1, <1>2 DEF Gone
  <2>6. \A w \in witnesses : w.height \in Nat /\ Owner[w.note] = a
    BY HeightsOfRows, OneAccount, Bounds DEF PromiseInv, SpendsInv, RowsInv, WitnessRow
  <2>7. noted' = noted /\ spent' = spent
    BY <1>2, <2>1, <2>2, <2>4, <2>5, OneAccount DEF Trim, TrimNotes, TrimSpends
  <2>8. witnesses' = witnesses
    BY <1>2, <2>3, <2>5, <2>6 DEF Trim, TrimWitnesses
  <2>9. height'[a] = [q \in PoolsOf[a] |-> h]
    BY <1>1, <1>2 DEF Trim
  <2>10. \A q \in PoolsOf[a] : height[a][q] = h
    BY <1>1 DEF Standing
  <2> QED
    BY <2>7, <2>8, <2>9, <2>10
<1>6. Standing(a, p, h)'
  BY <1>1, <1>5, SameStanding
<1>7. RunFollows(a, h)' /\ pend' = NoHeaders
  BY <1>1, <1>4 DEF RunFollows, InSegment, On
<1> QED
  BY <1>1, <1>5, <1>6, <1>7, Landing, StandingHeightNext

LEMMA BeginSegmentOn ==
    ASSUME OneShielded, PromiseInv, BeginSegment,
           NEW a \in Account, NEW p \in Paths, NEW h \in Heights, On(a, p, h)
    PROVE  \E q \in Paths', k \in Heights : On(a, q, k)'
<1>1. /\ UNCHANGED <<treeVars, dbVars, pend>> /\ pc = "plan" /\ h \in Nat
      /\ chosen = {a} /\ todo = {h + 1} /\ resume[a] = h + 1 /\ pend = NoHeaders
      /\ Standing(a, p, h)
  BY Bounds DEF BeginSegment, writerVars, On, RunFollows
<1>2. MinOf(todo) = h + 1
  BY <1>1, MinOfIsMin
<1>3. {b \in chosen : resume[b] <= MinOf(todo)} = {a}
  BY <1>1, <1>2
<1>4. \/ EndRun
      \/ /\ pc' = "scan" /\ chosen' = chosen /\ todo' = todo \ {MinOf(todo)}
         /\ seg'.start = MinOf(todo) /\ seg'.accounts = {b \in chosen : resume[b] <= MinOf(todo)}
  BY DEF BeginSegment
<1>5. RunFollows(a, h)' /\ pc' # "read"
  BY <1>1, <1>2, <1>3, <1>4 DEF RunFollows, InSegment, EndRun
<1>6. Standing(a, p, h)'
  BY <1>1, SameStanding DEF dbVars
<1> QED
  BY <1>1, <1>5, <1>6, Landing

(* without an address there is nothing to scan *)
LEMMA ScanAddressOn ==
    ASSUME OneShielded, PromiseInv, Typed', NEW i \in AddrIndexes, NEW upto \in Heights,
           NEW a \in Account, ScanAddress(a, i, upto),
           NEW p \in Paths, NEW h \in Heights, On(a, p, h)
    PROVE  /\ UNCHANGED <<height, noted, spent, headers>>
           /\ \E q \in Paths', k \in Heights : On(a, q, k)'
<1>1. /\ UNCHANGED <<treeVars, headers, witnesses, pc, chosen, todo, seg, pend>> /\ pc = "scan"
  BY DEF ScanAddress, writerVars
<1>2. UNCHANGED <<noted, spent>>
  <2>1. \A n \in Note : PoolOf[n] # 0
    BY OneAccount DEF Shielded
  <2>2. noted \in [Note -> Heights] /\ spent \in [Note -> Heights]
    BY DEF PromiseInv, SpendsInv, RowsInv, Typed, TypeOK, DatabaseTypes
  <2>3. noted' = noted
    BY <2>1, <2>2 DEF ScanAddress, ScanOne
  <2>4. spent' = spent
    BY <2>1, <2>2 DEF ScanAddress, ScanOne
  <2> QED
    BY <2>3, <2>4
<1>3. UNCHANGED height
  BY OneAccount DEF ScanAddress, ScanOne
<1>4. Standing(a, p, h)'
  BY <1>1, <1>2, <1>3, SameStanding DEF On
<1>5. RunFollows(a, h)' /\ pend' = NoHeaders
  BY <1>1 DEF RunFollows, InSegment, On
<1> QED
  BY <1>1, <1>2, <1>3, <1>4, <1>5, Landing

LEMMA RunEndsOn ==
    ASSUME OneShielded, PromiseInv, EndRun, EndStream, UNCHANGED <<treeVars, dbVars>>,
           NEW a \in Account, NEW p \in Paths, NEW h \in Heights, On(a, p, h)
    PROVE  \E q \in Paths', k \in Heights : On(a, q, k)'
<1>1. Standing(a, p, h)'
  BY SameStanding DEF On, dbVars
<1>2. RunFollows(a, h)' /\ pend' = NoHeaders /\ pc' # "read"
  BY DEF RunFollows, InSegment, EndRun, EndStream
<1> QED
  BY <1>1, <1>2, Landing

LEMMA ScanDoneOn ==
    ASSUME OneShielded, PromiseInv, ScanDone,
           NEW a \in Account, NEW p \in Paths, NEW h \in Heights, On(a, p, h)
    PROVE  \E q \in Paths', k \in Heights : On(a, q, k)'
<1>1. UNCHANGED <<treeVars, dbVars, runVars, pend>> /\ pc = "scan" /\ pc' = "open"
  BY DEF ScanDone, writerVars
<1>2. Standing(a, p, h)'
  BY <1>1, SameStanding DEF On, dbVars
<1>3. RunFollows(a, h)' /\ pend' = NoHeaders
  BY <1>1 DEF RunFollows, InSegment, On, runVars
<1> QED
  BY <1>1, <1>2, <1>3, Landing

LEMMA FetchTimeOn ==
    ASSUME OneShielded, PromiseInv, NEW f \in Heights, FetchTime(f),
           NEW a \in Account, NEW p \in Paths, NEW h \in Heights, On(a, p, h)
    PROVE  \E q \in Paths', k \in Heights : On(a, q, k)'
<1>1. /\ UNCHANGED <<treeVars, height, noted, spent, witnesses, pc, runVars, pend>> /\ pc = "times"
      /\ \A k \in Heights : headers[k] # NoBlock => headers'[k] = headers[k]
  BY DEF FetchTime, writerVars, StoreHeaders
<1>2. Standing(a, p, h)'
  BY <1>1, SameStanding DEF On
<1>3. RunFollows(a, h)' /\ pend' = NoHeaders
  BY <1>1 DEF RunFollows, InSegment, On, runVars
<1> QED
  BY <1>1, <1>2, <1>3, Landing

LEMMA EndSegmentOn ==
    ASSUME OneShielded, PromiseInv, EndSegment,
           NEW a \in Account, NEW p \in Paths, NEW h \in Heights, On(a, p, h)
    PROVE  \E q \in Paths', k \in Heights : On(a, q, k)'
<1>1. UNCHANGED <<treeVars, dbVars, pend>> /\ pc = "times" /\ todo = {}
  BY DEF EndSegment, writerVars, On, RunFollows, InSegment
<1>2. EndRun
  BY <1>1 DEF EndSegment
<1>3. Standing(a, p, h)'
  BY <1>1, SameStanding DEF On, dbVars
<1>4. RunFollows(a, h)' /\ pend' = NoHeaders /\ pc' # "read"
  BY <1>1, <1>2 DEF RunFollows, InSegment, On, EndRun
<1> QED
  BY <1>1, <1>3, <1>4, Landing

-------------------------------------------------------------------------------
(* Rewinds *)

(* The rows of a note, when those above c are gone.                        *)
LEMMA TrimmedRow ==
    ASSUME NEW p, OnceOn(p), Len(p) \in Nat, NEW n \in Note, NEW no \in Nat, NEW sp \in Nat,
           NEW h \in Nat, h <= Len(p), RowFollows(n, no, sp, p, h),
           NEW c \in Nat, c <= h, Birth[Owner[n]] \in Nat, Birth[Owner[n]] <= c,
           NEW no2, no2 = IF no > c THEN 0 ELSE no, NEW sp2, sp2 = IF sp > c THEN 0 ELSE sp
    PROVE  RowFollows(n, no2, sp2, p, c)
<1> DEFINE b == Birth[Owner[n]]
<1>1. ASSUME no2 = 0, NEW k \in (b + 1)..c
      PROVE  n \notin blocks[p[k]].mints
  <2>1. k \in 1..Len(p) /\ k \in (b + 1)..h /\ k <= c
    OBVIOUS
  <2>2. CASE no = 0
    BY <2>1, <2>2 DEF RowFollows
  <2>3. CASE no > c
    <3>1. no \in 1..Len(p) /\ n \in blocks[p[no]].mints /\ no # k
      BY <2>1, <2>3 DEF RowFollows
    <3> QED
      BY <2>1, <3>1 DEF OnceOn
  <2> QED
    BY <1>1, <2>2, <2>3
<1>2. no2 = 0 => sp2 = 0
  BY DEF RowFollows
<1>3. no2 # 0 => no2 \in (b + 1)..c /\ n \in blocks[p[no2]].mints
  BY DEF RowFollows
<1>4. sp2 # 0 => sp2 \in (no2 + 1)..c /\ n \in blocks[p[sp2]].spends
  BY DEF RowFollows
<1>5. ASSUME no2 # 0, sp2 = 0, NEW k \in (no2 + 1)..c
      PROVE  n \notin blocks[p[k]].spends
  <2>1. no2 = no /\ no # 0
    BY <1>5
  <2>2. k \in 1..Len(p) /\ k \in (no + 1)..h /\ k <= c
    BY <2>1
  <2>3. CASE sp = 0
    BY <2>1, <2>2, <2>3 DEF RowFollows
  <2>4. CASE sp > c
    <3>1. sp # 0 /\ sp # k
      BY <2>2, <2>4
    <3>2. sp \in 1..Len(p) /\ n \in blocks[p[sp]].spends
      BY <2>1, <3>1 DEF RowFollows
    <3> QED
      BY <2>2, <3>1, <3>2 DEF OnceOn
  <2> QED
    BY <1>5, <2>3, <2>4
<1> QED
  BY <1>1, <1>2, <1>3, <1>4, <1>5 DEF RowFollows

LEMMA TrimmedNote ==
    ASSUME UNCHANGED blocks, NEW p, OnceOn(p), Len(p) \in Nat,
           NEW n \in Note, noted[n] \in Nat, spent[n] \in Nat,
           NEW h \in Nat, h <= Len(p), NoteFollows(n, p, h),
           NEW c \in Nat, c <= h, Birth[Owner[n]] \in Nat, Birth[Owner[n]] <= c,
           noted'[n] = IF noted[n] > c THEN 0 ELSE noted[n],
           spent'[n] = IF spent[n] > c THEN 0 ELSE spent[n]
    PROVE  NoteFollows(n, p, c)'
<1>1. RowFollows(n, noted[n], spent[n], p, h)
  BY DEF NoteFollows, RowFollows
<1>2. RowFollows(n, noted'[n], spent'[n], p, c)
  BY <1>1, TrimmedRow
<1> QED
  BY <1>2 DEF NoteFollows, RowFollows

(* Back to a checkpoint: the rows above it are gone, and nothing else.     *)
LEMMA TrimToMark ==
    ASSUME OneShielded, PromiseInv, UNCHANGED treeVars,
           NEW a \in Account, NEW p \in Paths, NEW h \in Heights, Standing(a, p, h),
           NEW c, \E w \in witnesses : w.height = c,
           NEW cut, NEW to, Trim({a}, cut, to), cut[a] = c, to[a] = c,
           \A k \in Heights : k <= c /\ headers[k] # NoBlock => headers'[k] = headers[k]
    PROVE  Standing(a, p, c)' /\ c \in Heights
<1>1. /\ TreeInv /\ TreeOnce /\ MaxHeight \in Nat /\ Birth[a] \in 1..MaxHeight /\ h \in Nat
      /\ \A n \in Note : Owner[n] = a
  BY OneAccount, Bounds DEF PromiseInv, SpendsInv
<1>0. Len(p) \in Nat /\ h <= Len(p)
  BY <1>1, PathFacts DEF Standing
<1>2. CheckpointsFollow(a, p, h)
  BY DEF Standing
<1>3. c \in (Birth[a] + 1)..h /\ c \in Nat /\ c \in Heights /\ c \in Marks(h)
  BY <1>1, <1>2, Bounds DEF CheckpointsFollow, Marks
<1>4. \A w \in witnesses : w.height \in Nat /\ Owner[w.note] = a
  BY HeightsOfRows, OneAccount, Bounds DEF PromiseInv, SpendsInv, RowsInv, WitnessRow
<1>5. witnesses' = {w \in witnesses : w.height <= c}
  BY <1>3, <1>4 DEF Trim, TrimWitnesses, Gone
<1>6. \A n \in Note : noted[n] \in Nat /\ spent[n] \in Nat
  BY RunNumbers DEF PromiseInv, SpendsInv, RowsInv
<1>7. ASSUME NEW n \in Note
      PROVE  /\ noted'[n] = IF noted[n] > c THEN 0 ELSE noted[n]
             /\ spent'[n] = IF spent[n] > c THEN 0 ELSE spent[n]
  BY <1>1 DEF Trim, TrimNotes, TrimSpends, Gone
<1>8. OnceOn(p)
  BY <1>1 DEF TreeOnce, Paths
<1>9. ASSUME NEW n \in Note PROVE NoteFollows(n, p, c)'
  <2>1. NoteFollows(n, p, h) /\ Owner[n] = a
    BY <1>1 DEF Standing, RowsFollow
  <2>2. Birth[a] \in Nat /\ Birth[a] <= c /\ c <= h /\ UNCHANGED blocks
    BY <1>1, <1>3 DEF treeVars
  <2> QED
    BY <1>0, <1>1, <1>3, <1>6, <1>7, <1>8, <2>1, <2>2, TrimmedNote
<1>10. CheckpointsFollow(a, p, c)'
  <2>1. \A w \in witnesses' : w \in witnesses /\ w.height \in (Birth[a] + 1)..c
    BY <1>1, <1>2, <1>3, <1>4, <1>5 DEF CheckpointsFollow
  <2>2. ASSUME NEW k \in Marks(c)' PROVE k \in Marks(h) /\ k \in Nat /\ k <= c
    BY <1>3, <1>4, <1>5, <2>2 DEF Marks
  <2>3. ASSUME NEW k \in Marks(c)', NEW n \in Note, LiveAt(n, k)'
        PROVE  \E w \in witnesses' : w.note = n /\ w.height = k
    <3>1. k \in Marks(h) /\ k \in Nat /\ k <= c
      BY <2>2
    <3>2. LiveAt(n, k)
      BY <1>3, <1>6, <1>7, <2>3, <3>1 DEF LiveAt
    <3> QED
      BY <1>2, <1>5, <3>1, <3>2 DEF CheckpointsFollow
  <2>4. ASSUME NEW k \in Marks(c)', k > Birth[a] PROVE HeaderOn(p, k)'
    <3>1. k \in Marks(h) /\ k \in Heights /\ k <= c
      BY <1>1, <1>3, <2>2, Bounds
    <3>2. HeaderOn(p, k) /\ headers'[k] = headers[k]
      BY <1>2, <2>4, <3>1 DEF CheckpointsFollow, HeaderOn
    <3> QED
      BY <3>2 DEF HeaderOn, OffChain, Tip, Chain, PathOf, treeVars
  <2> QED
    BY <1>2, <2>1, <2>3, <2>4 DEF CheckpointsFollow
<1>11. \A q \in PoolsOf[a] : height'[a][q] = c
  BY DEF Trim
<1>12. Birth[a] <= c /\ c <= Len(p)
  BY <1>0, <1>1, <1>3
<1> QED
  BY <1>3, <1>9, <1>10, <1>11, <1>12 DEF Standing, RowsFollow

(* Back to the birth height: no row is left.                               *)
LEMMA TrimToBirth ==
    ASSUME OneShielded, PromiseInv, UNCHANGED treeVars,
           NEW a \in Account, NEW p \in Paths, NEW h \in Heights, Standing(a, p, h),
           NEW cut, NEW to, Trim({a}, cut, to), cut[a] = 0, to[a] = Birth[a]
    PROVE  Standing(a, p, Birth[a])' /\ Birth[a] \in Heights
<1>1. /\ TreeInv /\ MaxHeight \in Nat /\ Birth[a] \in 1..MaxHeight /\ h \in Nat
      /\ \A n \in Note : Owner[n] = a
  BY OneAccount, Bounds DEF PromiseInv, SpendsInv
<1>2. \A w \in witnesses : w.height \in 1..MaxHeight /\ Owner[w.note] = a
  BY HeightsOfRows, OneAccount, Bounds DEF PromiseInv, SpendsInv, RowsInv, WitnessRow
<1>3. witnesses' = {}
  BY <1>1, <1>2 DEF Trim, TrimWitnesses, Gone
<1>4. \A n \in Note : noted[n] \in Nat /\ spent[n] \in Nat
  BY RunNumbers DEF PromiseInv, SpendsInv, RowsInv
<1>5. \A n \in Note : noted'[n] = 0 /\ spent'[n] = 0
  BY <1>1, <1>4 DEF Trim, TrimNotes, TrimSpends, Gone
<1>6. RowsFollow(p, Birth[a])'
  BY <1>1, <1>5 DEF RowsFollow, NoteFollows
<1>7. CheckpointsFollow(a, p, Birth[a])'
  BY <1>1, <1>3, <1>5 DEF CheckpointsFollow, Marks, LiveAt
<1>8. \A q \in PoolsOf[a] : height'[a][q] = Birth[a]
  BY DEF Trim
<1>9. Birth[a] <= Birth[a] /\ Birth[a] <= Len(p) /\ Birth[a] \in Heights
  BY <1>1, PathFacts, Bounds DEF Standing
<1> QED
  BY <1>6, <1>7, <1>8, <1>9 DEF Standing

LEMMA RewindStanding ==
    ASSUME OneShielded, PromiseInv, UNCHANGED treeVars,
           NEW a \in Account, NEW p \in Paths, NEW h \in Heights, Standing(a, p, h),
           NEW f \in Nat, NEW hs, NEW rows, Rewind({a}, f, hs, rows),
           \A k \in Heights : headers[k] # NoBlock => hs[k] = headers[k]
    PROVE  \E c \in Heights : Standing(a, p, c)'
<1> DEFINE cut == [b \in Account |-> IF CheckpointsBelow(b, f) = {} THEN 0
                                     ELSE MaxOf(CheckpointsBelow(b, f))]
           to == [b \in Account |-> IF CheckpointsBelow(b, f) = {} THEN Birth[b] ELSE cut[b]]
<1>1. Trim({a}, cut, to) /\ headers' = [k \in Heights |-> IF k > f THEN NoBlock ELSE hs[k]]
  BY DEF Rewind
<1>2. CASE CheckpointsBelow(a, f) = {}
  <2>1. cut[a] = 0 /\ to[a] = Birth[a]
    BY <1>2
  <2> HIDE DEF cut, to
  <2> QED
    BY <1>1, <2>1, TrimToBirth
<1>3. CASE CheckpointsBelow(a, f) # {}
  <2>1. \A w \in witnesses : w.height \in 0..MaxHeight
    BY HeightsOfRows, Bounds DEF PromiseInv, SpendsInv, RowsInv, WitnessRow
  <2>2. CheckpointsBelow(a, f) \in SUBSET (0..MaxHeight)
    BY <2>1 DEF CheckpointsBelow
  <2>3. PICK c : c = MaxOf(CheckpointsBelow(a, f))
    OBVIOUS
  <2>4. c \in CheckpointsBelow(a, f)
    BY <1>3, <2>2, <2>3, MaxOfIsMax, Bounds
  <2>5. (\E w \in witnesses : w.height = c) /\ c < f
    BY <2>4 DEF CheckpointsBelow
  <2>6. cut[a] = c /\ to[a] = c
    BY <1>3, <2>3
  <2> HIDE DEF cut, to
  <2>7. \A k \in Heights : k <= c /\ headers[k] # NoBlock => headers'[k] = headers[k]
    BY <1>1, <2>2, <2>4, <2>5, Bounds
  <2> QED
    BY <1>1, <2>5, <2>6, <2>7, TrimToMark
<1> QED
  BY <1>2, <1>3

LEMMA UserRewindOn ==
    ASSUME OneShielded, PromiseInv, NEW f \in Heights,
           NEW a \in Account, UserRewind(a, f),
           NEW p \in Paths, NEW h \in Heights, On(a, p, h)
    PROVE  MovesAlong(a) /\ \E q \in Paths', k \in Heights : On(a, q, k)'
<1>1. pc = "idle" /\ UNCHANGED <<treeVars, pc, pend>> /\ pend = NoHeaders
  BY DEF UserRewind, UserFault, Fault, PromiseInv, Follows, writerVars, On
<1>2. Rewind({a}, f, headers, untimed) /\ Standing(a, p, h) /\ f \in Nat
  BY Bounds DEF UserRewind, On
<1>3. PICK c \in Heights : Standing(a, p, c)'
  BY <1>1, <1>2, RewindStanding
<1>4. RunFollows(a, c)' /\ pc' # "read"
  BY <1>1 DEF RunFollows, InSegment
<1>5. \E r \in Paths', m \in Heights : On(a, r, m)'
  BY <1>1, <1>3, <1>4, Landing
<1> QED
  BY <1>2, <1>3, <1>5 DEF MovesAlong

LEMMA UserResetOn ==
    ASSUME OneShielded, PromiseInv, NEW a \in Account, UserReset(a),
           NEW p \in Paths, NEW h \in Heights, On(a, p, h)
    PROVE  MovesAlong(a) /\ \E q \in Paths', k \in Heights : On(a, q, k)'
<1>1. pc = "idle" /\ UNCHANGED <<treeVars, pc, pend>> /\ pend = NoHeaders /\ Standing(a, p, h)
  BY DEF UserReset, UserFault, Fault, PromiseInv, Follows, writerVars, On
<1>2. PICK cut : cut[a] = 0 /\ Trim({a}, cut, Birth)
  BY DEF UserReset
<1>3. Standing(a, p, Birth[a])' /\ Birth[a] \in Heights
  BY <1>1, <1>2, TrimToBirth
<1>4. RunFollows(a, Birth[a])' /\ pc' # "read"
  BY <1>1 DEF RunFollows, InSegment
<1>5. \E r \in Paths', m \in Heights : On(a, r, m)'
  BY <1>1, <1>3, <1>4, Landing
<1> QED
  BY <1>1, <1>3, <1>5 DEF MovesAlong

-------------------------------------------------------------------------------
(* The stream: what is given to the synchronizers and to the reader *)

LEMMA RootOfRow ==
    ASSUME OneShielded, NEW a \in Account, NEW p, NEW h \in Nat, Standing(a, p, h),
           NEW n \in Note, Unspent(n)
    PROVE  RootAt(n, h) # 0 /\ (BirthFixed => RootAt(n, h) = p[h])
<1>1. LiveAt(n, h)
  <2>1. noted[n] # 0 /\ spent[n] = 0 /\ NoteFollows(n, p, h)
    BY DEF Unspent, Standing, RowsFollow
  <2>2. Birth[Owner[n]] \in Nat
    BY OneAccount, Bounds
  <2>3. noted[n] <= h
    BY <2>1, <2>2 DEF NoteFollows
  <2> QED
    BY <2>1, <2>3 DEF LiveAt
<1>2. h \in Marks(h) /\ CheckpointsFollow(a, p, h)
  BY DEF Marks, Standing
<1>3. {w \in witnesses : w.note = n /\ w.height = h} # {}
  BY <1>1, <1>2 DEF CheckpointsFollow
<1>4. PICK w \in witnesses : w.height = h /\ RootAt(n, h) = w.root
  BY <1>3 DEF RootAt
<1> QED
  BY <1>2, <1>4 DEF CheckpointsFollow

LEMMA OpenStreamOn ==
    ASSUME OneShielded, PromiseInv, OpenStream,
           NEW a \in Account, NEW p \in Paths, NEW h \in Heights, On(a, p, h)
    PROVE  \E q \in Paths', k \in Heights : On(a, q, k)'
<1>1. /\ pc = "open" /\ UNCHANGED <<treeVars, dbVars, runVars>>
      /\ seg.start = h + 1 /\ seg.accounts = {a} /\ Len(p) = h /\ pend = NoHeaders
      /\ Standing(a, p, h) /\ RunFollows(a, h) /\ h \in Nat /\ seg.start - 1 = h /\ h <= Tip
  BY Bounds DEF OpenStream, On, RunFollows, InSegment
<1>2. \E b \in seg.accounts : PoolsOf[b] \cap Shielded # {}
  BY <1>1, OneAccount
<1>3. /\ pc' = "read" /\ reading' = TRUE /\ next' = h + 1 /\ prevHash' = headers[h]
      /\ edge' = Chain[h] /\ UNCHANGED <<buf, chan, pend>>
      /\ utxo' = [n \in Note |-> IF Tracked(n) /\ noted[n] # 0 /\ spent[n] = 0
                                 THEN RootAt(n, h) ELSE 0]
  BY <1>1, <1>2 DEF OpenStream
<1>4. buf = <<>> /\ chan = <<>> /\ TreeInv /\ HeadersKnown
  BY <1>1 DEF PromiseInv, SpendsInv, RowsInv, Typed, InFlight, Follows
<1>5. Standing(a, p, h)'
  BY <1>1, SameStanding DEF dbVars
<1>6. RunFollows(a, h)'
  BY <1>1, <1>3 DEF RunFollows, InSegment, runVars
<1>7. ASSUME NEW n \in Note
      PROVE  (utxo'[n] # 0 <=> Unspent(n)) /\ (BirthFixed /\ utxo'[n] # 0 => utxo'[n] = p[h])
  <2>1. Tracked(n)
    BY <1>1, OneAccount DEF Tracked
  <2>2. utxo'[n] = IF Unspent(n) THEN RootAt(n, h) ELSE 0
    BY <1>3, <2>1 DEF Unspent
  <2> QED
    BY <1>1, <2>2, RootOfRow
<1>8. Unread(h)'
  <2>1. ASSUME BirthFixed, headers[h] # NoBlock, ~OffChain(headers[h]) PROVE Chain[h] = headers[h]
    BY <1>4, <2>1, ChainFacts DEF HeadersKnown
  <2>2. ASSUME BirthFixed, headers[h] = NoBlock PROVE h <= MinFork
    <3>1. h = Birth[a]
      <4>1. h > Birth[a] => HeaderOn(p, h)
        BY <1>1 DEF Standing, CheckpointsFollow, Marks
      <4> QED
        BY <1>1, <2>2, <4>1, OneAccount DEF Standing, HeaderOn
    <3> QED
      BY <2>2, <3>1 DEF BirthFixed, PromiseInv, Follows, BirthKnown
  <2>3. headers' = headers /\ Chain' = Chain /\ Tip' = Tip /\ seg' = seg
    BY <1>1 DEF dbVars, Chain, Tip, PathOf, treeVars, runVars
  <2> QED
    BY <1>1, <1>3, <1>4, <2>1, <2>2, <2>3 DEF Unread, OffChain
<1>9. MessagesFollow(p, h)'
  BY <1>3, <1>4 DEF MessagesFollow
<1>10. BufferFollows(p, h)'
  BY <1>1, <1>3, <1>4 DEF BufferFollows
<1>11. PendingFollow(p, h)'
  BY <1>1, <1>3 DEF PendingFollow, NoHeaders
<1>12. TracksUnspent' /\ Rooted(p, h)'
  BY <1>1, <1>3, <1>7 DEF TracksUnspent, Unspent, Rooted, dbVars, runVars
<1>13. Streams(p, h)'
  <2>1. seg'.start = h + 1 /\ next' = h + 1
    BY <1>1, <1>3 DEF runVars
  <2>2. ReaderFollows(p, h)'
    BY <1>1, <1>8, <1>10, <2>1 DEF ReaderFollows
  <2> QED
    BY <1>1, <1>9, <1>11, <1>12, <2>1, <2>2 DEF Streams
<1>14. On(a, p, h)' /\ p \in Paths'
  BY <1>1, <1>3, <1>5, <1>6, <1>13 DEF On, Paths, PathOf, treeVars
<1> QED
  BY <1>14

-------------------------------------------------------------------------------
(* The stream: the reader *)

(* What is sent goes behind what is in the channel.                        *)
LEMMA Appended ==
    ASSUME NEW msgs \in Seq(Message), chan \in Seq(Message), Send(msgs)
    PROVE  /\ \A i \in 1..Len(chan) : i \in 1..Len(chan') /\ chan'[i] = chan[i]
           /\ \A i \in 1..Len(msgs) : Len(chan) + i \in 1..Len(chan') /\ chan'[Len(chan) + i] = msgs[i]
           /\ \A i \in 1..Len(chan') : \/ i \in 1..Len(chan)
                                       \/ i - Len(chan) \in 1..Len(msgs) /\ chan'[i] = msgs[i - Len(chan)]
           /\ \A k : Covered(k) => Covered(k)'
<1>1. chan' = chan \o msgs /\ Len(chan) \in Nat /\ Len(msgs) \in Nat
  BY DEF Send
<1>2. Len(chan') = Len(chan) + Len(msgs)
  BY <1>1
<1>3. \A i \in 1..Len(chan) : i \in 1..Len(chan') /\ chan'[i] = chan[i]
  BY <1>1, <1>2
<1>4. \A i \in 1..Len(msgs) : Len(chan) + i \in 1..Len(chan') /\ chan'[Len(chan) + i] = msgs[i]
  BY <1>1, <1>2
<1>5. \A i \in 1..Len(chan') : \/ i \in 1..Len(chan)
                               \/ i - Len(chan) \in 1..Len(msgs) /\ chan'[i] = msgs[i - Len(chan)]
  BY <1>1, <1>2
<1>6. ASSUME NEW k, Covered(k) PROVE Covered(k)'
  BY <1>3, <1>6 DEF Covered, Covers
<1> QED
  BY <1>3, <1>4, <1>5, <1>6

SentFollows(m, p, h) ==
    /\ IsChunk(m) => /\ h < m.from /\ Upto(m) <= Len(p)
                     /\ \A k \in 1..Len(m.ids) : m.ids[k] = p[m.from + k - 1]
                     /\ \A k \in (h + 1)..(m.from - 1) : Covered(k)
    /\ m.kind = "header" => m.from <= Len(p) /\ m.ids[1] = p[m.from]

LEMMA SendMessages ==
    ASSUME Typed, reading, NEW p, NEW h \in Nat, MessagesFollow(p, h),
           NEW msgs \in Seq(Message), Send(msgs),
           \A i \in 1..Len(msgs) :
             /\ SentFollows(msgs[i], p, h)
             /\ msgs[i].kind = "reorg" => ~reading' /\ msgs[i].from = next' - 1
    PROVE  MessagesFollow(p, h)'
<1>1. chan \in Seq(Message)
  BY DEF Typed, TypeOK, StreamTypes
<1>2. ASSUME NEW i \in 1..Len(chan)
      PROVE  /\ chan'[i] = chan[i] /\ chan[i].kind # "reorg"
             /\ \A m : m = chan[i] /\ IsChunk(m) => ChunkFollows(m, p, h)'
             /\ chan[i].kind = "header" => chan[i].from <= Len(p) /\ chan[i].ids[1] = p[chan[i].from]
  <2>1. chan'[i] = chan[i]
    BY <1>1, <1>2, Appended
  <2>2. IsChunk(chan[i]) => ChunkFollows(chan[i], p, h)
    BY <1>2 DEF MessagesFollow
  <2>3. PICK m : m = chan[i]
    OBVIOUS
  <2>4. ChunkFollows(m, p, h) => ChunkFollows(m, p, h)'
    BY <1>1, Appended DEF ChunkFollows
  <2> QED
    BY <2>1, <2>2, <2>3, <2>4, <1>2 DEF MessagesFollow
<1>3. ASSUME NEW i \in 1..Len(msgs), IsChunk(msgs[i])
      PROVE  \A k \in (h + 1)..Upto(msgs[i]) : Covered(k)'
  <2>1. PICK j \in 1..Len(chan') : chan'[j] = msgs[i]
    BY <1>1, <1>3, Appended
  <2>2. msgs[i] \in Message /\ msgs[i].from \in Nat /\ Len(msgs[i].ids) \in Nat
    <3>1. msgs[i] \in Message
      BY <1>3
    <3>2. msgs[i].from \in Nat /\ msgs[i].ids \in Seq(Nat)
      BY <3>1 DEF Message
    <3> QED
      BY <3>1, <3>2
  <2>3. PICK from, upto \in Int : from = msgs[i].from /\ upto = Upto(msgs[i])
    BY <2>2 DEF Upto
  <2>4. \A k \in from..upto : Covered(k)'
    BY <1>3, <2>1, <2>3 DEF Covered, Covers, Upto
  <2>5. \A k \in (h + 1)..(from - 1) : Covered(k)'
    BY <1>1, <1>3, <2>3, Appended DEF SentFollows
  <2> QED
    BY <2>3, <2>4, <2>5
<1>4. ASSUME NEW i \in 1..Len(chan'), NEW m, m = chan'[i]
      PROVE  /\ IsChunk(m) => ChunkFollows(m, p, h)'
             /\ m.kind = "header" => m.from <= Len(p) /\ m.ids[1] = p[m.from]
             /\ m.kind = "reorg" => ~reading' /\ m.from = next' - 1
  <2>1. CASE i \in 1..Len(chan)
    <3>1. m = chan[i]
      BY <1>2, <1>4, <2>1
    <3> QED
      BY <1>2, <2>1, <3>1
  <2>2. CASE i - Len(chan) \in 1..Len(msgs) /\ chan'[i] = msgs[i - Len(chan)]
    <3>1. PICK j \in 1..Len(msgs) : m = msgs[j]
      BY <1>4, <2>2
    <3> QED
      BY <1>3, <3>1 DEF ChunkFollows, SentFollows
  <2> QED
    BY <1>1, <1>4, <2>1, <2>2, Appended
<1> QED
  BY <1>4 DEF MessagesFollow, ChunkFollows, IsChunk

(* The next block continues the path, with what the account has on it.     *)
LEMMA NextPath ==
    ASSUME OneShielded, PromiseInv, Streaming, Linked,
           NEW a \in Account, NEW p \in Paths, NEW h \in Heights, On(a, p, h),
           NEW q, q = PathOf(Chain[next])
    PROVE  /\ q \in Paths /\ Len(q) = next /\ q[next] = Chain[next]
           /\ \A k \in (Birth[a] + 1)..h : q[k] = p[k]
           /\ MessagesFollow(q, h) /\ BufferFollows(q, h) /\ PendingFollow(q, h)
           /\ BirthFixed => edge = q[h] /\ \A n \in Note : utxo[n] # 0 => utxo[n] = q[h]
<1>1. /\ TreeInv /\ HeadersKnown /\ Typed /\ reading /\ Streams(p, h) /\ Standing(a, p, h)
      /\ next \in Nat /\ next >= 2 /\ next <= Tip
  BY DEF PromiseInv, SpendsInv, RowsInv, Follows, Streaming, On, Typed, InFlight, TypeOK, StreamTypes
<1>2. /\ h \in Nat /\ h >= 1 /\ h < next /\ seg.start <= next /\ Birth[a] \in Nat /\ Birth[a] >= 1
      /\ h <= Len(p) /\ Len(p) \in Nat /\ seg.start \in Nat /\ Birth[a] <= h
  <2>1. /\ h \in Nat /\ Birth[a] \in Nat /\ Birth[a] >= 1 /\ Birth[a] <= h /\ h <= Len(p)
        /\ Len(p) \in Nat
    BY <1>1, OneAccount, Bounds, PathFacts DEF Standing
  <2> QED
    BY <1>1, <2>1, RunNumbers DEF Streams
<1>3. Chain \in Paths /\ next \in 1..Len(Chain) /\ Tip = Len(Chain)
  <2>1. Chain \in Paths /\ Tip = Len(Chain)
    BY <1>1, ChainFacts
  <2>2. Tip \in Nat
    BY <1>1, <2>1, PathFacts
  <2> QED
    BY <1>1, <2>1, <2>2
<1>4. q \in Paths /\ Len(q) = next /\ \A j \in 1..next : q[j] = Chain[j]
  BY <1>1, <1>3, PathFacts
<1>5. /\ PrevHash(Chain[next]) = Chain[next - 1] /\ next - 1 \in 1..Len(Chain)
      /\ Chain[next - 1] # NoBlock
  <2>1. next - 1 \in 1..next /\ next - 1 \in 1..Len(Chain)
    BY <1>1, <1>3
  <2>2. PrevHash(Chain[next]) = q[next - 1]
    BY <1>1, <1>4 DEF PrevHash
  <2>3. Chain[next - 1] \in 1..Len(blocks)
    BY <1>1, <1>3, <2>1, PathFacts
  <2> QED
    BY <1>4, <2>1, <2>2, <2>3 DEF NoBlock
<1>6. ASSUME next > seg.start
      PROVE  Len(p) = next - 1 /\ \A j \in 1..Len(p) : q[j] = p[j]
  <2>1. prevHash = p[Len(p)] /\ Len(p) = next - 1
    BY <1>1, <1>6 DEF Streams, ReaderFollows
  <2>2. prevHash # NoBlock
    <3>1. Len(p) \in 1..Len(p)
      BY <1>2
    <3>2. p[Len(p)] \in 1..Len(blocks)
      BY <1>1, <3>1, PathFacts
    <3> QED
      BY <2>1, <3>2 DEF NoBlock
  <2>3. p[next - 1] = Chain[next - 1]
    BY <1>5, <2>1, <2>2 DEF Linked
  <2>4. next - 1 \in 1..Len(p)
    BY <1>1, <2>1
  <2>5. \A j \in 1..(next - 1) : p[j] = Chain[j]
    BY <1>1, <1>3, <1>5, <2>3, <2>4, SharedPrefix
  <2> QED
    BY <1>1, <1>4, <2>1, <2>5
<1>7. ASSUME next = seg.start
      PROVE  /\ Unread(h) /\ h = next - 1 /\ q[h] = Chain[h]
             /\ prevHash # NoBlock => prevHash = Chain[h] /\ ~OffChain(prevHash)
             /\ \A k \in (Birth[a] + 1)..h : q[k] = p[k]
  <2>1. Unread(h) /\ h = next - 1 /\ h \in 1..Len(Chain) /\ h \in 1..next
    BY <1>1, <1>2, <1>5, <1>7 DEF Streams, ReaderFollows, Unread
  <2>2. prevHash # NoBlock => prevHash = Chain[h] /\ ~OffChain(prevHash)
    BY <1>3, <1>5, <2>1 DEF Linked, OffChain
  <2>3. ASSUME NEW k \in (Birth[a] + 1)..h PROVE q[k] = p[k]
    <3>1. h > Birth[a] /\ k \in 1..h
      BY <1>2, <2>3
    <3>2. headers[h] # NoBlock /\ (headers[h] = p[h] \/ OffChain(headers[h]))
      BY <1>1, <3>1 DEF Standing, CheckpointsFollow, Marks, HeaderOn
    <3>3. p[h] = Chain[h] /\ h \in 1..Len(p)
      BY <1>2, <2>1, <2>2, <3>2 DEF Unread
    <3>4. \A j \in 1..h : p[j] = Chain[j]
      BY <1>1, <1>3, <2>1, <3>3, SharedPrefix
    <3> QED
      BY <1>2, <1>4, <2>1, <3>1, <3>4
  <2> QED
    BY <1>4, <2>1, <2>2, <2>3
<1>8. \A k \in (Birth[a] + 1)..h : q[k] = p[k]
  <2>1. next > seg.start => \A k \in (Birth[a] + 1)..h : q[k] = p[k]
    BY <1>2, <1>6
  <2> QED
    BY <1>1, <1>2, <1>7, <2>1
<1>9. MessagesFollow(q, h)
  <2>1. CASE next = seg.start
    BY <1>7, <2>1 DEF Unread, MessagesFollow
  <2>2. CASE next > seg.start
    <3>1. Len(p) <= Len(q)
      BY <1>1, <1>4, <1>6, <2>2
    <3>2. ASSUME NEW i \in 1..Len(chan), IsChunk(chan[i]) PROVE ChunkFollows(chan[i], q, h)
      <4>1. ChunkFollows(chan[i], p, h)
        BY <1>1, <3>2 DEF Streams, MessagesFollow
      <4>2. chan[i].from \in Nat /\ Len(chan[i].ids) \in Nat
        BY <1>1, RowNumbers
      <4>3. Upto(chan[i]) = chan[i].from + Len(chan[i].ids) - 1 /\ Upto(chan[i]) <= Len(p) /\ h < chan[i].from
        BY <4>1 DEF ChunkFollows, Upto
      <4>4. \A k \in 1..Len(chan[i].ids) : chan[i].from + k - 1 \in 1..Len(p)
        BY <1>2, <4>2, <4>3
      <4>5. \A k \in 1..Len(chan[i].ids) : chan[i].ids[k] = q[chan[i].from + k - 1]
        BY <1>6, <2>2, <4>1, <4>4 DEF ChunkFollows
      <4>6. Upto(chan[i]) <= Len(q)
        BY <1>1, <1>4, <1>6, <2>2, <4>2, <4>3
      <4> QED
        BY <4>1, <4>5, <4>6 DEF ChunkFollows
    <3>3. ASSUME NEW i \in 1..Len(chan), chan[i].kind = "header"
          PROVE  chan[i].from <= Len(q) /\ chan[i].ids[1] = q[chan[i].from]
      <4>1. chan[i].from <= Len(p) /\ chan[i].ids[1] = p[chan[i].from]
        BY <1>1, <3>3 DEF Streams, MessagesFollow
      <4>2. chan[i].from \in 1..MaxHeight
        BY <1>1, <3>3 DEF Typed, InFlight, Fits
      <4>3. chan[i].from \in 1..Len(p)
        BY <1>2, <4>1, <4>2, Bounds
      <4> QED
        BY <1>1, <1>4, <1>6, <2>2, <4>1, <4>3
    <3> QED
      BY <1>1, <3>2, <3>3 DEF Streams, MessagesFollow
  <2> QED
    BY <1>1, <1>2, <2>1, <2>2
<1>10. BufferFollows(q, h)
  <2>1. BufferFollows(p, h) /\ Len(buf) \in Nat /\ Len(buf) + 2 <= next
    BY <1>1, RowNumbers DEF Streams, ReaderFollows, Typed, InFlight, Streaming
  <2>2. CASE next = seg.start
    <3>1. Len(buf) = 0
      BY <1>7, <2>2 DEF Unread
    <3>2. \A k \in 1..Len(buf) : FALSE
      BY <3>1
    <3> QED
      BY <2>1, <3>2 DEF BufferFollows
  <2>3. CASE next > seg.start
    <3>1. \A k \in 1..Len(buf) : next - Len(buf) + k - 1 \in 1..Len(p)
      BY <1>1, <1>6, <2>1, <2>3
    <3>2. \A k \in 1..Len(buf) : buf[k] = q[next - Len(buf) + k - 1]
      BY <1>6, <2>1, <2>3, <3>1 DEF BufferFollows
    <3> QED
      BY <2>1, <3>2 DEF BufferFollows
  <2> QED
    BY <1>1, <1>2, <2>2, <2>3
<1>11. PendingFollow(q, h)
  <2>1. ASSUME NEW k \in Heights, pend[k] # NoBlock PROVE k \in 1..Len(q) /\ pend[k] = q[k]
    <3>1. k \in 1..Len(p) /\ pend[k] = p[k] /\ next # seg.start
      BY <1>1, <1>7, <2>1 DEF Streams, PendingFollow, Unread, NoHeaders
    <3> QED
      BY <1>1, <1>2, <1>4, <1>6, <3>1
  <2>2. ASSUME NEW k \in (h + 1)..Len(q) PROVE headers[k] \in {NoBlock, q[k]} \/ OffChain(headers[k])
    <3>1. CASE k = next
      <4>1. k \in Heights
        BY <1>1, <1>3, <3>1, PathFacts, Bounds
      <4>2. headers[k] # NoBlock /\ ~OffChain(headers[k]) => headers[k] = Chain[k]
        BY <1>1, <4>1, ChainFacts DEF HeadersKnown
      <4> QED
        BY <1>1, <1>4, <3>1, <4>2
    <3>2. CASE k # next
      <4>1. next # seg.start
        BY <1>1, <1>2, <1>4, <1>7, <2>2, <3>2
      <4>2. next > seg.start
        BY <1>1, <1>2, <4>1
      <4>3. k \in (h + 1)..Len(p) /\ q[k] = p[k]
        BY <1>1, <1>2, <1>4, <1>6, <2>2, <3>2, <4>2
      <4> QED
        BY <1>1, <4>3 DEF Streams, PendingFollow
    <3> QED
      BY <3>1, <3>2
  <2> QED
    BY <2>1, <2>2 DEF PendingFollow
<1>12. ASSUME BirthFixed PROVE edge = q[h] /\ \A n \in Note : utxo[n] # 0 => utxo[n] = q[h]
  <2>1. edge = q[h]
    <3>1. CASE next = seg.start
      BY <1>7, <1>12, <3>1 DEF Unread
    <3>2. CASE next > seg.start
      <4>1. edge = p[h]
        BY <1>1, <1>12, <3>2 DEF Streams, Rooted
      <4> QED
        BY <1>2, <1>6, <3>2, <4>1
    <3> QED
      BY <1>1, <1>2, <3>1, <3>2
  <2>2. ASSUME NEW n \in Note, utxo[n] # 0 PROVE utxo[n] = q[h]
    <3>1. utxo[n] = p[h] /\ Unspent(n)
      BY <1>1, <1>12, <2>2 DEF Streams, Rooted, TracksUnspent
    <3>2. noted[n] \in (Birth[a] + 1)..h
      BY <1>1, <3>1, OneAccount DEF Unspent, Standing, RowsFollow, NoteFollows
    <3>3. h \in (Birth[a] + 1)..h
      BY <1>2, <3>2
    <3> QED
      BY <1>8, <3>1, <3>3
  <2> QED
    BY <2>1, <2>2
<1> QED
  BY <1>1, <1>3, <1>4, <1>8, <1>9, <1>10, <1>11, <1>12

LEMMA ReaderOn ==
    ASSUME OneShielded, PromiseInv, pc = "read",
           UNCHANGED <<treeVars, dbVars, pc, runVars, writerVars>>,
           NEW a \in Account, NEW p \in Paths, NEW h \in Heights,
           Standing(a, p, h)', RunFollows(a, h), PendingFollow(p, h), TracksUnspent,
           seg.start <= next', seg.start <= h + 1, h < next',
           MessagesFollow(p, h)', ReaderFollows(p, h)',
           BirthFixed => /\ next' > seg.start => edge = p[h]
                         /\ \A n \in Note : utxo[n] # 0 => utxo[n] = p[h]
    PROVE  \E q \in Paths', k \in Heights : On(a, q, k)'
<1>1. RunFollows(a, h)'
  BY DEF RunFollows, InSegment, runVars
<1>2. PendingFollow(p, h)'
  BY DEF PendingFollow, OffChain, Tip, Chain, PathOf, treeVars, dbVars, writerVars
<1>3. TracksUnspent' /\ Rooted(p, h)'
  BY DEF TracksUnspent, Unspent, Rooted, dbVars, runVars, writerVars
<1>4. Streams(p, h)'
  BY <1>2, <1>3 DEF Streams, runVars
<1>5. p \in Paths'
  BY DEF Paths, PathOf, treeVars
<1>6. On(a, p, h)'
  BY <1>1, <1>4 DEF On
<1> QED
  BY <1>5, <1>6

(* The reader ends: what it held is sent, or dropped.                      *)
LEMMA ReaderEndsOn ==
    ASSUME OneShielded, PromiseInv, pc = "read", reading, reading' = FALSE,
           UNCHANGED <<treeVars, dbVars, pc, runVars, writerVars, next>>,
           NEW a \in Account, NEW p \in Paths, NEW h \in Heights, On(a, p, h),
           NEW msgs \in Seq(Message), Send(msgs),
           \A i \in 1..Len(msgs) :
             /\ SentFollows(msgs[i], p, h)
             /\ msgs[i].kind = "reorg" => msgs[i].from = next - 1
    PROVE  \E q \in Paths', k \in Heights : On(a, q, k)'
<1>1. Typed /\ Streams(p, h) /\ RunFollows(a, h) /\ h \in Nat
  BY Bounds DEF PromiseInv, SpendsInv, RowsInv, On
<1>2. MessagesFollow(p, h)'
  BY <1>1, SendMessages DEF Streams
<1>3. ReaderFollows(p, h)'
  BY DEF ReaderFollows
<1>4. Standing(a, p, h)'
  BY SameStanding DEF On, dbVars
<1> QED
  BY <1>1, <1>2, <1>3, <1>4, ReaderOn DEF Streams, Rooted

LEMMA OneMessage ==
    ASSUME NEW m \in Message
    PROVE  \E s \in Seq(Message) : s = <<m>> /\ Len(s) = 1 /\ \A i \in 1..Len(s) : s[i] = m
<1>1. <<m>> \in Seq(Message) /\ Len(<<m>>) = 1 /\ \A i \in 1..Len(<<m>>) : <<m>>[i] = m
  OBVIOUS
<1> QED
  BY <1>1

LEMMA DetectReorgOn ==
    ASSUME OneShielded, PromiseInv, DetectReorg,
           NEW a \in Account, NEW p \in Paths, NEW h \in Heights, On(a, p, h)
    PROVE  \E q \in Paths', k \in Heights : On(a, q, k)'
<1>1. /\ pc = "read" /\ reading /\ reading' = FALSE /\ Send(<<Reorg(next - 1)>>)
      /\ UNCHANGED <<treeVars, dbVars, pc, runVars, writerVars, next>>
  BY DEF DetectReorg, Streaming
<1>2. PICK m : m = Reorg(next - 1)
  OBVIOUS
<1>3. next - 1 \in Nat
  BY <1>1 DEF PromiseInv, SpendsInv, RowsInv, Typed, TypeOK, StreamTypes, InFlight
<1>4. m \in Message /\ m.kind = "reorg" /\ m.from = next - 1
  BY <1>2, <1>3 DEF Reorg, Message
<1>5. SentFollows(m, p, h)
  BY <1>4 DEF SentFollows, IsChunk
<1>6. PICK msgs \in Seq(Message) : msgs = <<m>> /\ \A i \in 1..Len(msgs) : msgs[i] = m
  BY <1>4, OneMessage
<1>7. Send(msgs)
  BY <1>1, <1>2, <1>6
<1> QED
  BY <1>1, <1>4, <1>5, <1>6, <1>7, ReaderEndsOn

LEMMA StopReaderOn ==
    ASSUME OneShielded, PromiseInv, StopReader,
           NEW a \in Account, NEW p \in Paths, NEW h \in Heights, On(a, p, h)
    PROVE  \E q \in Paths', k \in Heights : On(a, q, k)'
<1>1. /\ pc = "read" /\ reading /\ reading' = FALSE /\ Send(<<Stop>>)
      /\ UNCHANGED <<treeVars, dbVars, pc, runVars, writerVars, next>>
  BY DEF StopReader
<1>2. PICK m : m = Stop
  OBVIOUS
<1>3. m \in Message /\ m.kind = "stop"
  BY <1>2 DEF Stop, Message
<1>4. SentFollows(m, p, h)
  BY <1>3 DEF SentFollows, IsChunk
<1>5. PICK msgs \in Seq(Message) : msgs = <<m>> /\ \A i \in 1..Len(msgs) : msgs[i] = m
  BY <1>3, OneMessage
<1>6. Send(msgs)
  BY <1>1, <1>2, <1>5
<1> QED
  BY <1>1, <1>3, <1>4, <1>5, <1>6, ReaderEndsOn

(* What is left in the buffer at the end of the stream.                    *)
LEMMA RestSent ==
    ASSUME Typed, EndOfStream, NEW p, NEW h \in Nat, BufferFollows(p, h), buf # <<>> => next - 1 <= Len(p)
    PROVE  \E msgs \in Seq(Message) :
             /\ Send(msgs)
             /\ \A i \in 1..Len(msgs) : msgs[i].kind = "chunk" /\ SentFollows(msgs[i], p, h)
             /\ buf # <<>> => \E i \in 1..Len(msgs) : Upto(msgs[i]) = next - 1
<1>1. pc = "read" /\ reading /\ Send(ChunkOf(buf))
  BY DEF EndOfStream
<1>2. CASE buf = <<>>
  <2>1. ChunkOf(buf) = <<>> /\ <<>> \in Seq(Message) /\ Len(<<>>) = 0
    BY <1>2 DEF ChunkOf
  <2>2. \A i \in 1..Len(<<>>) : FALSE
    BY <2>1
  <2> QED
    BY <1>1, <1>2, <2>1, <2>2
<1>3. CASE buf # <<>>
  <2>1. PICK m : m = Chunk(next - Len(buf), buf)
    OBVIOUS
  <2>2. next \in Nat /\ Len(buf) \in Nat /\ buf \in Seq(Nat) /\ Len(buf) + 2 <= next
    BY <1>1, RowNumbers DEF Typed, TypeOK, StreamTypes, InFlight
  <2>3. next - Len(buf) \in Nat
    BY <2>2
  <2>4. m \in Message /\ m.kind = "chunk" /\ m.from = next - Len(buf) /\ m.ids = buf
    BY <2>1, <2>2, <2>3 DEF Chunk, Message
  <2>5. Upto(m) = next - 1
    BY <2>2, <2>4 DEF Upto
  <2>6. SentFollows(m, p, h)
    BY <1>3, <2>2, <2>4, <2>5 DEF SentFollows, BufferFollows, IsChunk
  <2>7. ChunkOf(buf) = <<m>>
    BY <1>3, <2>1 DEF ChunkOf
  <2>8. PICK msgs \in Seq(Message) : msgs = <<m>> /\ Len(msgs) = 1 /\ \A i \in 1..Len(msgs) : msgs[i] = m
    BY <2>4, OneMessage
  <2>9. Send(msgs)
    BY <1>1, <2>7, <2>8
  <2>10. \A i \in 1..Len(msgs) : msgs[i].kind = "chunk" /\ SentFollows(msgs[i], p, h)
    BY <2>4, <2>6, <2>8
  <2>11. 1 \in 1..Len(msgs) /\ Upto(msgs[1]) = next - 1
    BY <2>5, <2>8
  <2> QED
    BY <2>9, <2>10, <2>11
<1> QED
  BY <1>2, <1>3

LEMMA EndOfStreamOn ==
    ASSUME OneShielded, PromiseInv, EndOfStream,
           NEW a \in Account, NEW p \in Paths, NEW h \in Heights, On(a, p, h)
    PROVE  \E q \in Paths', k \in Heights : On(a, q, k)'
<1>1. /\ pc = "read" /\ reading /\ reading' = FALSE
      /\ UNCHANGED <<treeVars, dbVars, pc, runVars, writerVars, next>>
  BY DEF EndOfStream
<1>2. Typed /\ Streams(p, h) /\ BufferFollows(p, h) /\ h \in Nat
  BY <1>1, Bounds DEF On, PromiseInv, SpendsInv, RowsInv, Streams, ReaderFollows
<1>3. next \in Nat /\ seg.start \in Nat
  BY <1>2, RowNumbers, RunNumbers
<1>4. buf # <<>> => next - 1 <= Len(p)
  BY <1>1, <1>2, <1>3 DEF Streams, ReaderFollows, Unread
<1>5. PICK msgs \in Seq(Message) :
         /\ Send(msgs)
         /\ \A i \in 1..Len(msgs) : msgs[i].kind = "chunk" /\ SentFollows(msgs[i], p, h)
  BY <1>2, <1>4, RestSent
<1> QED
  BY <1>1, <1>5, ReaderEndsOn

(* What the next block is sent with, and what stays in the buffer.         *)
LEMMA BlockSent ==
    ASSUME Typed, NEW full \in BOOLEAN, ReadBlock(full), Chain[next] \in Nat,
           NEW q, next <= Len(q), q[next] = Chain[next],
           NEW h \in Nat, h < next, MessagesFollow(q, h), BufferFollows(q, h)
    PROVE  /\ MessagesFollow(q, h)' /\ BufferFollows(q, h)'
           /\ \A i \in 1..Len(chan') : (i \in 1..Len(chan) /\ chan'[i] = chan[i]) \/ chan'[i].kind # "stop"
<1> DEFINE header == IF next \in wanted THEN <<SaveHeader(next, Chain[next])>> ELSE <<>>
           chunk == IF full THEN <<Chunk(next - Len(buf), Append(buf, Chain[next]))>> ELSE <<>>
<1>1. /\ Streaming /\ Send(header \o chunk)
      /\ buf' = IF full THEN <<>> ELSE Append(buf, Chain[next])
      /\ next' = next + 1
  BY DEF ReadBlock
<1>2. PICK id \in Nat : id = Chain[next]
  OBVIOUS
<1>3. next <= Len(q) /\ q[next] = id /\ MessagesFollow(q, h) /\ BufferFollows(q, h)
  BY <1>2
<1>4. /\ Typed /\ reading /\ next \in Nat /\ Len(buf) \in Nat /\ buf \in Seq(Nat)
      /\ Len(buf) + 2 <= next /\ h \in Nat /\ h < next /\ chan \in Seq(Message)
  <2>1. pc = "read" /\ reading
    BY <1>1 DEF Streaming
  <2> QED
    BY <2>1, RowNumbers DEF Typed, TypeOK, StreamTypes, InFlight
<1>6. /\ Append(buf, id) \in Seq(Nat) /\ Len(Append(buf, id)) = Len(buf) + 1
      /\ \A k \in 1..(Len(buf) + 1) : Append(buf, id)[k] = q[next - Len(buf) + k - 1]
  <2>1. \A k \in 1..Len(buf) : Append(buf, id)[k] = buf[k] /\ buf[k] = q[next - Len(buf) + k - 1]
    BY <1>3, <1>4, <1>2 DEF BufferFollows
  <2>2. Append(buf, id)[Len(buf) + 1] = id /\ next - Len(buf) + (Len(buf) + 1) - 1 = next
    BY <1>4, <1>2
  <2>3. \A k \in 1..(Len(buf) + 1) : k \in 1..Len(buf) \/ k = Len(buf) + 1
    BY <1>4
  <2>4. \A k \in 1..(Len(buf) + 1) : Append(buf, id)[k] = q[next - Len(buf) + k - 1]
    BY <1>3, <2>1, <2>2, <2>3
  <2> QED
    BY <1>4, <1>2, <2>4
<1>7. PICK m, c : m = SaveHeader(next, id) /\ c = Chunk(next - Len(buf), Append(buf, id))
  OBVIOUS
<1>8. m \in Message /\ m.kind = "header" /\ m.from = next /\ m.ids[1] = id
  BY <1>4, <1>2, <1>7 DEF SaveHeader, Message
<1>9. c \in Message /\ c.kind = "chunk" /\ c.from = next - Len(buf) /\ c.ids = Append(buf, id)
  <2>1. next - Len(buf) \in Nat
    BY <1>4
  <2> QED
    BY <1>6, <1>7, <2>1 DEF Chunk, Message
<1>10. Upto(c) = next
  BY <1>4, <1>6, <1>9 DEF Upto
<1>11. SentFollows(m, q, h)
  BY <1>3, <1>4, <1>8 DEF SentFollows, IsChunk
<1>12. SentFollows(c, q, h)
  BY <1>3, <1>4, <1>6, <1>9, <1>10 DEF SentFollows, IsChunk, BufferFollows
<1>13. /\ header \in Seq(Message) /\ \A i \in 1..Len(header) : header[i] = m
       /\ chunk \in Seq(Message) /\ \A i \in 1..Len(chunk) : chunk[i] = c
       /\ full => 1 \in 1..Len(chunk)
  <2>1. PICK ms \in Seq(Message) : ms = <<m>> /\ \A i \in 1..Len(ms) : ms[i] = m
    BY <1>8, OneMessage
  <2>2. PICK cs \in Seq(Message) : cs = <<c>> /\ \A i \in 1..Len(cs) : cs[i] = c
    BY <1>9, OneMessage
  <2>3. 1 \in 1..Len(cs)
    BY <2>2
  <2>4. PICK e : e = <<>>
    OBVIOUS
  <2>5. e \in Seq(Message) /\ \A i \in 1..Len(e) : FALSE
    BY <2>4
  <2>6. header \in {e, ms} /\ chunk = IF full THEN cs ELSE e
    BY <1>2, <1>7, <2>1, <2>2, <2>4
  <2> HIDE DEF header, chunk
  <2>7. header \in Seq(Message) /\ \A i \in 1..Len(header) : header[i] = m
    BY <2>1, <2>5, <2>6
  <2>8. chunk \in Seq(Message) /\ \A i \in 1..Len(chunk) : chunk[i] = c
    BY <2>2, <2>5, <2>6
  <2> QED
    BY <2>3, <2>6, <2>7, <2>8
<1> HIDE DEF header, chunk
<1>14. PICK msgs \in Seq(Message) :
         /\ msgs = header \o chunk
         /\ \A i \in 1..Len(msgs) : msgs[i] \in {m, c}
         /\ full => \E i \in 1..Len(msgs) : msgs[i] = c
  <2>1. /\ header \o chunk \in Seq(Message) /\ Len(header \o chunk) = Len(header) + Len(chunk)
        /\ Len(header) \in Nat /\ Len(chunk) \in Nat
    BY <1>13
  <2>2. ASSUME NEW i \in 1..Len(header \o chunk) PROVE (header \o chunk)[i] \in {m, c}
    <3>1. CASE i <= Len(header)
      <4>1. (header \o chunk)[i] = header[i] /\ i \in 1..Len(header)
        BY <1>13, <2>1, <3>1
      <4> QED
        BY <1>13, <4>1
    <3>2. CASE i > Len(header)
      <4>1. (header \o chunk)[i] = chunk[i - Len(header)] /\ i - Len(header) \in 1..Len(chunk)
        BY <1>13, <2>1, <3>2
      <4> QED
        BY <1>13, <4>1
    <3> QED
      BY <2>1, <3>1, <3>2
  <2>3. full => /\ Len(header) + 1 \in 1..Len(header \o chunk)
                /\ (header \o chunk)[Len(header) + 1] = c
    BY <1>13, <2>1
  <2> QED
    BY <2>1, <2>2, <2>3
<1>15. Send(msgs)
  BY <1>1, <1>14
<1>16. MessagesFollow(q, h)'
  BY <1>3, <1>4, <1>8, <1>9, <1>11, <1>12, <1>14, <1>15, SendMessages
<1>17. \A k : Covered(k) => Covered(k)'
  BY <1>4, <1>15, Appended
<1>18. BufferFollows(q, h)'
  <2>1. CASE ~full
    <3>1. buf' = Append(buf, id) /\ Len(buf') = Len(buf) + 1 /\ next' - Len(buf') = next - Len(buf)
      BY <1>1, <1>2, <1>4, <1>6, <2>1
    <3>2. h < next' - Len(buf') /\ \A k \in 1..Len(buf') : buf'[k] = q[next' - Len(buf') + k - 1]
      BY <1>3, <1>6, <3>1 DEF BufferFollows
    <3>3. \A k \in (h + 1)..(next' - Len(buf') - 1) : Covered(k)'
      BY <1>3, <1>17, <3>1 DEF BufferFollows
    <3> QED
      BY <3>2, <3>3 DEF BufferFollows
  <2>2. CASE full
    <3>1. buf' = <<>> /\ Len(buf') = 0
      BY <1>1, <2>2
    <3>2. PICK i \in 1..Len(msgs) : msgs[i] = c
      BY <1>14, <2>2
    <3>3. PICK j \in 1..Len(chan') : chan'[j] = c
      BY <1>4, <1>15, <3>2, Appended
    <3>4. \A k \in (h + 1)..next : Covered(k)'
      BY <1>9, <1>10, <1>16, <3>3 DEF MessagesFollow, ChunkFollows, IsChunk
    <3>5. h < next' - Len(buf') /\ next' - Len(buf') - 1 = next
      <4>1. next' = next + 1 /\ Len(buf') = 0 /\ h \in Nat /\ next \in Nat /\ h < next
        BY <1>1, <1>4, <3>1
      <4> QED
        BY <4>1
    <3>6. \A k \in 1..Len(buf') : FALSE
      BY <3>1
    <3> QED
      BY <3>4, <3>5, <3>6 DEF BufferFollows
  <2> QED
    BY <2>1, <2>2
<1>19. \A i \in 1..Len(chan') : (i \in 1..Len(chan) /\ chan'[i] = chan[i]) \/ chan'[i].kind # "stop"
  BY <1>4, <1>8, <1>9, <1>14, <1>15, Appended
<1> QED
  BY <1>16, <1>18, <1>19

LEMMA ReadBlockOn ==
    ASSUME OneShielded, PromiseInv, NEW full \in BOOLEAN, ReadBlock(full),
           NEW a \in Account, NEW p \in Paths, NEW h \in Heights, On(a, p, h)
    PROVE  \E q \in Paths', k \in Heights : On(a, q, k)'
<1>1. /\ Streaming /\ Linked /\ prevHash' = Chain[next] /\ next' = next + 1
      /\ UNCHANGED <<treeVars, dbVars, pc, runVars, reading, writerVars>>
  BY DEF ReadBlock
<1>2. PICK q : q = PathOf(Chain[next])
  OBVIOUS
<1>3. /\ q \in Paths /\ Len(q) = next /\ q[next] = Chain[next]
      /\ \A k \in (Birth[a] + 1)..h : q[k] = p[k]
      /\ MessagesFollow(q, h) /\ BufferFollows(q, h) /\ PendingFollow(q, h)
      /\ BirthFixed => edge = q[h] /\ \A n \in Note : utxo[n] # 0 => utxo[n] = q[h]
  BY <1>1, <1>2, NextPath
<1>4. /\ Typed /\ reading /\ pc = "read" /\ next \in Nat /\ next >= 2
      /\ Streams(p, h) /\ RunFollows(a, h) /\ h \in Nat /\ h < next
      /\ seg.start \in Nat
  <2>1. Typed /\ reading /\ pc = "read" /\ Streams(p, h) /\ RunFollows(a, h) /\ h \in Nat
    BY <1>1, Bounds DEF On, PromiseInv, SpendsInv, RowsInv, Streaming
  <2>2. next \in Nat /\ next >= 2 /\ seg.start \in Nat
    BY <2>1, RowNumbers, RunNumbers DEF Typed, InFlight
  <2> QED
    BY <2>1, <2>2 DEF Streams
<1>5. Chain[next] \in Nat
  <2>1. next \in 1..Len(q)
    BY <1>3, <1>4
  <2> QED
    BY <1>3, <2>1, PathFacts DEF PromiseInv, SpendsInv
<1>6. MessagesFollow(q, h)' /\ BufferFollows(q, h)'
  BY <1>3, <1>4, <1>5, BlockSent
<1>7. Standing(a, q, h)'
  <2>1. Standing(a, p, h)'
    BY <1>1, SameStanding DEF On, dbVars
  <2>2. h <= Len(q)
    BY <1>3, <1>4
  <2> QED
    BY <1>3, <1>4, <2>1, <2>2, StandingOnOther
<1>8. ReaderFollows(q, h)'
  <2>1. seg.start < next'
    <3>1. seg.start <= next
      BY <1>4 DEF Streams
    <3> QED
      BY <1>1, <1>4, <3>1
  <2> QED
    BY <1>1, <1>3, <1>4, <1>6, <2>1 DEF ReaderFollows, runVars
<1>9. seg.start <= next' /\ seg.start <= h + 1 /\ h < next' /\ TracksUnspent
  BY <1>1, <1>4 DEF Streams
<1> QED
  BY <1>1, <1>3, <1>4, <1>6, <1>7, <1>8, <1>9, ReaderOn

-------------------------------------------------------------------------------
(* The stream: the writer *)

(* The next message is taken, and the account is at u when it is handled.  *)
LEMMA TailMessages ==
    ASSUME RowsInv, chan # <<>>, chan' = Tail(chan), UNCHANGED <<reading, next, buf>>,
           NEW p, NEW h \in Nat, NEW u \in Nat, h <= u, MessagesFollow(p, h),
           \A i \in 2..Len(chan) : IsChunk(chan[i]) => u < chan[i].from,
           IsChunk(chan[1]) => Upto(chan[1]) <= u
    PROVE  MessagesFollow(p, u)' /\ \A k \in Nat : k > u /\ Covered(k) => Covered(k)'
<1>1. /\ Len(chan) \in Nat /\ Len(chan') = Len(chan) - 1
      /\ \A i \in 1..Len(chan') : i + 1 \in 2..Len(chan) /\ i + 1 \in 1..Len(chan) /\ chan'[i] = chan[i + 1]
      /\ \A i \in 1..Len(chan) : chan[i].from \in Nat /\ Len(chan[i].ids) \in Nat
  BY TailRows, RowNumbers DEF RowsInv
<1>2. ASSUME NEW k \in Nat, k > u, Covered(k) PROVE Covered(k)'
  <2>1. PICK i \in 1..Len(chan) : IsChunk(chan[i]) /\ chan[i].from <= k /\ k <= Upto(chan[i])
    BY <1>2 DEF Covered, Covers
  <2>2. i # 1
    <3>1. Upto(chan[i]) \in Int
      BY <1>1, <2>1 DEF Upto
    <3> QED
      BY <1>2, <2>1, <3>1
  <2>3. i - 1 \in 1..Len(chan') /\ chan'[i - 1] = chan[i]
    BY <1>1, <2>1, <2>2
  <2> QED
    BY <2>1, <2>3 DEF Covered, Covers
<1>3. ASSUME NEW i \in 1..Len(chan'), NEW m, m = chan'[i]
      PROVE  /\ IsChunk(m) => ChunkFollows(m, p, u)'
             /\ m.kind = "header" => m.from <= Len(p) /\ m.ids[1] = p[m.from]
             /\ m.kind = "reorg" => ~reading' /\ m.from = next' - 1
  <2>1. i + 1 \in 1..Len(chan) /\ i + 1 \in 2..Len(chan) /\ m = chan[i + 1]
    BY <1>1, <1>3
  <2>2. ASSUME IsChunk(m) PROVE ChunkFollows(m, p, u)'
    <3>1. ChunkFollows(m, p, h) /\ u < m.from
      BY <2>1, <2>2 DEF MessagesFollow
    <3>2. \A k \in (u + 1)..Upto(m) : k \in (h + 1)..Upto(m) /\ k \in Nat /\ k > u
      <4>1. Upto(m) \in Int
        BY <1>1, <2>1 DEF Upto
      <4> QED
        BY <4>1
    <3>3. \A k \in (u + 1)..Upto(m) : Covered(k)'
      BY <1>2, <3>1, <3>2 DEF ChunkFollows
    <3> QED
      BY <3>1, <3>3 DEF ChunkFollows
  <2> QED
    BY <2>1, <2>2 DEF MessagesFollow
<1>4. MessagesFollow(p, u)'
  BY <1>3 DEF MessagesFollow, ChunkFollows, IsChunk
<1> QED
  BY <1>2, <1>4

LEMMA HandleHeaderOn ==
    ASSUME OneShielded, PromiseInv, HandleHeader,
           NEW a \in Account, NEW p \in Paths, NEW h \in Heights, On(a, p, h)
    PROVE  \E q \in Paths', k \in Heights : On(a, q, k)'
<1>1. /\ pc = "read" /\ chan # <<>> /\ Head(chan).kind = "header" /\ chan' = Tail(chan)
      /\ pend' = StoreHeaders(pend, [NoHeaders EXCEPT ![Head(chan).from] = Head(chan).ids[1]])
      /\ UNCHANGED <<treeVars, dbVars, pc, runVars, reading, next, prevHash, wanted, buf, utxo, edge>>
  BY DEF HandleHeader, Arriving
<1>2. /\ Streams(p, h) /\ RowsInv /\ Typed /\ RunFollows(a, h) /\ h \in Nat
      /\ Head(chan) = chan[1] /\ 1 \in 1..Len(chan)
      /\ \A i \in 1..Len(chan) : IsChunk(chan[i]) => h < chan[i].from
  <2>1. Streams(p, h) /\ RowsInv /\ Typed /\ RunFollows(a, h) /\ h \in Nat
    BY <1>1, Bounds DEF PromiseInv, SpendsInv, RowsInv, On
  <2> QED
    BY <1>1, <2>1, TailRows DEF Streams, MessagesFollow, ChunkFollows
<1>3. PICK m : m = chan[1]
  OBVIOUS
<1>4. m.kind = "header" /\ m.from \in 1..Len(p) /\ m.ids[1] = p[m.from] /\ ~IsChunk(m)
  <2>1. m.from <= Len(p) /\ m.ids[1] = p[m.from] /\ m.kind = "header"
    BY <1>1, <1>2, <1>3 DEF Streams, MessagesFollow
  <2>2. m.from \in 1..MaxHeight
    BY <1>2, <1>3, <2>1 DEF Typed, InFlight, Fits
  <2>3. Len(p) \in Nat
    BY PathFacts DEF PromiseInv, SpendsInv
  <2> QED
    BY <2>1, <2>2, <2>3, Bounds DEF IsChunk
<1>5. MessagesFollow(p, h)' /\ \A k \in Nat : k > h /\ Covered(k) => Covered(k)'
  <2>1. MessagesFollow(p, h) /\ \A i \in 2..Len(chan) : i \in 1..Len(chan)
    BY <1>2 DEF Streams
  <2> QED
    BY <1>1, <1>2, <1>3, <1>4, <2>1, TailMessages
<1>6. ReaderFollows(p, h)'
  <2> SUFFICES ASSUME reading PROVE ReaderFollows(p, h)'
    BY <1>1 DEF ReaderFollows
  <2>1. next # seg.start /\ (next > seg.start => prevHash = p[Len(p)] /\ Len(p) = next - 1) /\ BufferFollows(p, h)
    BY <1>1, <1>2 DEF Streams, ReaderFollows, Unread
  <2>2. \A k \in (h + 1)..(next - Len(buf) - 1) : k \in Nat /\ k > h
    BY <1>2, RowNumbers
  <2>3. BufferFollows(p, h)'
    BY <1>1, <1>5, <2>1, <2>2 DEF BufferFollows
  <2> QED
    BY <1>1, <2>1, <2>3 DEF ReaderFollows, runVars
<1>7. PendingFollow(p, h)'
  <2>1. ASSUME NEW k \in Heights, pend'[k] # NoBlock PROVE k \in 1..Len(p) /\ pend'[k] = p[k]
    <3>1. \/ pend'[k] = pend[k]
          \/ k = m.from /\ pend'[k] = m.ids[1]
          \/ pend'[k] = NoBlock
      BY <1>1, <1>2, <1>3 DEF StoreHeaders, NoHeaders
    <3> QED
      BY <1>2, <1>4, <2>1, <3>1 DEF Streams, PendingFollow
  <2>2. UNCHANGED headers /\ \A id : OffChain(id) => OffChain(id)'
    BY <1>1 DEF OffChain, Tip, Chain, PathOf, treeVars, dbVars
  <2> QED
    BY <1>2, <2>1, <2>2 DEF Streams, PendingFollow, OffChain
<1>8. TracksUnspent' /\ Rooted(p, h)' /\ RunFollows(a, h)'
  BY <1>1, <1>2 DEF Streams, TracksUnspent, Unspent, Rooted, dbVars, runVars, RunFollows, InSegment
<1>9. Standing(a, p, h)'
  BY <1>1, SameStanding DEF On, dbVars
<1>10. On(a, p, h)'
  BY <1>1, <1>2, <1>5, <1>6, <1>7, <1>8, <1>9 DEF On, Streams, runVars
<1>11. p \in Paths'
  BY <1>1 DEF Paths, PathOf, treeVars
<1> QED
  BY <1>10, <1>11

(* The chunk that arrives goes on from height h of a path, if all that is  *)
(* in flight does.                                                         *)
LEMMA ChunkOnPath ==
    ASSUME RowsInv, TreeInv, Arriving("chunk"), NEW m, m = Head(chan),
           NEW p \in Paths, NEW h \in Nat, h >= 1, h <= Len(p), MessagesFollow(p, h)
    PROVE  /\ m = chan[1] /\ IsChunk(m) /\ m.from = h + 1 /\ Len(m.ids) \in Nat /\ Len(m.ids) >= 1
           /\ Upto(m) = h + Len(m.ids) /\ Upto(m) \in 1..Len(p) /\ Upto(m) < next - Len(buf)
           /\ \A k \in 1..Len(m.ids) : m.ids[k] = p[h + k]
           /\ Last(m) = p[Upto(m)] /\ PrevHash(m.ids[1]) = p[h]
           /\ \A i \in 2..Len(chan) : IsChunk(chan[i]) => Upto(m) < chan[i].from
<1>1. /\ pc = "read" /\ RowsInv /\ Typed /\ TreeInv /\ h \in Nat /\ h >= 1 /\ MessagesFollow(p, h)
      /\ chan # <<>> /\ chan \in Seq(Message) /\ h <= Len(p)
  BY DEF Arriving, RowsInv, Typed, TypeOK, StreamTypes
<1>2. m = chan[1] /\ 1 \in 1..Len(chan) /\ IsChunk(m) /\ Len(chan) \in Nat
  BY <1>1 DEF Arriving, IsChunk
<1>3. /\ Len(m.ids) \in Nat /\ Len(m.ids) >= 1 /\ m.from \in Nat /\ Upto(m) \in Nat
      /\ Upto(m) >= m.from /\ Upto(m) < next - Len(buf) /\ Upto(m) = m.from + Len(m.ids) - 1
  BY <1>1, ArrivingChunk, Bounds DEF Upto
<1>4. ChunkFollows(m, p, h)
  BY <1>1, <1>2 DEF MessagesFollow
<1>5. \A i \in 2..Len(chan) : IsChunk(chan[i]) => Upto(m) < chan[i].from
  <2>1. ASSUME NEW i \in 2..Len(chan), IsChunk(chan[i]) PROVE Upto(m) < chan[i].from
    <3>1. i \in 1..Len(chan) /\ 1 < i
      BY <1>2, <2>1
    <3> QED
      BY <1>1, <1>2, <2>1, <3>1 DEF RowsInv, ChunksOrdered
  <2> QED
    BY <2>1
<1>6. m.from = h + 1
  <2>1. Covered(h + 1)
    BY <1>1, <1>3, <1>4 DEF ChunkFollows
  <2>2. PICK i \in 1..Len(chan) : IsChunk(chan[i]) /\ chan[i].from <= h + 1
    BY <2>1 DEF Covered, Covers
  <2>3. h < chan[i].from /\ chan[i].from \in Nat
    BY <1>1, <2>2, RowNumbers DEF MessagesFollow, ChunkFollows
  <2>4. CASE i = 1
    BY <1>1, <1>2, <2>2, <2>3, <2>4
  <2>5. CASE i # 1
    <3>1. Upto(m) < chan[i].from
      BY <1>2, <1>5, <2>2, <2>5
    <3> QED
      BY <1>1, <1>3, <1>4, <2>2, <2>3, <3>1 DEF ChunkFollows
  <2> QED
    BY <2>4, <2>5
<1>7. Upto(m) = h + Len(m.ids) /\ Upto(m) \in 1..Len(p)
  <2>1. Upto(m) <= Len(p) /\ Len(p) \in Nat
    BY <1>1, <1>4, PathFacts DEF ChunkFollows
  <2> QED
    BY <1>1, <1>3, <1>6, <2>1
<1>8. \A k \in 1..Len(m.ids) : m.ids[k] = p[h + k]
  <2>1. \A k \in 1..Len(m.ids) : m.from + k - 1 = h + k
    BY <1>1, <1>3, <1>6
  <2> QED
    BY <1>4, <2>1 DEF ChunkFollows
<1>9. Last(m) = p[Upto(m)]
  <2>1. Len(m.ids) \in 1..Len(m.ids)
    BY <1>3
  <2> QED
    BY <1>7, <1>8, <2>1 DEF Last
<1>10. PrevHash(m.ids[1]) = p[h]
  <2>1. m.ids[1] = p[h + 1] /\ h + 1 \in 1..Len(p)
    BY <1>1, <1>3, <1>7, <1>8
  <2>2. PICK q, g : q = PathOf(p[g]) /\ g = h + 1
    OBVIOUS
  <2>3. Len(q) = g /\ \A j \in 1..g : q[j] = p[j]
    BY <1>1, <2>1, <2>2, PathFacts
  <2>4. h \in 1..g /\ g # 1 /\ g - 1 = h
    BY <1>1, <2>2
  <2>5. PrevHash(m.ids[1]) = q[h]
    BY <2>1, <2>2, <2>3, <2>4 DEF PrevHash
  <2> QED
    BY <2>3, <2>4, <2>5
<1> QED
  BY <1>2, <1>3, <1>5, <1>6, <1>7, <1>8, <1>9, <1>10

(* ... which is where the account stands.                                  *)
LEMMA FirstChunk ==
    ASSUME OneShielded, PromiseInv, Arriving("chunk"), NEW m, m = Head(chan),
           NEW a \in Account, NEW p \in Paths, NEW h \in Heights, On(a, p, h)
    PROVE  /\ m = chan[1] /\ IsChunk(m) /\ m.from = h + 1 /\ Len(m.ids) \in Nat /\ Len(m.ids) >= 1
           /\ Upto(m) = h + Len(m.ids) /\ Upto(m) \in 1..Len(p) /\ Upto(m) < next - Len(buf)
           /\ \A k \in 1..Len(m.ids) : m.ids[k] = p[h + k]
           /\ Last(m) = p[Upto(m)] /\ PrevHash(m.ids[1]) = p[h]
           /\ \A i \in 2..Len(chan) : IsChunk(chan[i]) => Upto(m) < chan[i].from
<1>1. RowsInv /\ TreeInv /\ pc = "read" /\ Birth[a] \in 1..MaxHeight /\ MaxHeight \in Nat
  BY OneAccount, Bounds DEF Arriving, PromiseInv, SpendsInv
<1>2. h \in Nat /\ h >= 1 /\ h <= Len(p) /\ MessagesFollow(p, h)
  BY <1>1, Bounds DEF On, Standing, Streams
<1> QED
  BY <1>1, <1>2, ChunkOnPath

(* The notes of such a chunk, by the heights at which they are created or  *)
(* spent.                                                                  *)
LEMMA NotesOfChunk ==
    ASSUME SpendsInv, TreeOnce, Arriving("chunk"), NEW m, m = Head(chan),
           NEW p \in Paths, NEW h \in Nat, h >= 1, h <= Len(p), MessagesFollow(p, h),
           NEW n \in Note, Tracked(n), NoteFollows(n, p, h)
    PROVE  /\ n \in Found(m) => /\ m.from + MinOf(MintsIn(m, n)) - 1 \in (h + 1)..Upto(m)
                                /\ n \in blocks[p[m.from + MinOf(MintsIn(m, n)) - 1]].mints
                                /\ noted[n] = 0 /\ spent[n] = 0
           /\ n \notin Found(m) => \A k \in (h + 1)..Upto(m) : n \notin blocks[p[k]].mints
           /\ SpendsIn(m, n) # {} =>
                /\ m.from + MinOf(SpendsIn(m, n)) - 1 \in (h + 1)..Upto(m)
                /\ n \in blocks[p[m.from + MinOf(SpendsIn(m, n)) - 1]].spends
           /\ SpendsIn(m, n) = {} => \A k \in (h + 1)..Upto(m) : n \notin blocks[p[k]].spends
           /\ n \in Found(m) /\ SpendsIn(m, n) # {} => MinOf(MintsIn(m, n)) < MinOf(SpendsIn(m, n))
<1>1. /\ SpendsInv /\ TreeInv /\ RowsInv /\ h \in Nat /\ h >= 1 /\ h <= Len(p) /\ MessagesFollow(p, h)
      /\ Arriving("chunk") /\ m = Head(chan)
  BY DEF SpendsInv
<1>2. Tracked(n)
  OBVIOUS
<1>4. PICK l \in Nat : l = Len(m.ids)
  BY <1>1, ChunkOnPath
<1>5. /\ m.from = h + 1 /\ Upto(m) = h + l /\ h + l \in 1..Len(p) /\ Len(p) \in Nat
      /\ \A k \in 1..l : m.ids[k] = p[h + k]
  <2>1. Len(p) \in Nat
    BY <1>1, PathFacts
  <2>2. m.from = h + 1 /\ Upto(m) = h + Len(m.ids) /\ Upto(m) \in 1..Len(p)
    BY <1>1, ChunkOnPath
  <2>3. \A k \in 1..Len(m.ids) : m.ids[k] = p[h + k]
    BY <1>1, ChunkOnPath
  <2> QED
    BY <1>4, <2>1, <2>2, <2>3
<1>6. /\ MintsIn(m, n) = {k \in 1..l : n \in blocks[p[h + k]].mints}
      /\ SpendsIn(m, n) = {k \in 1..l : n \in blocks[p[h + k]].spends}
  BY <1>4, <1>5 DEF MintsIn, SpendsIn
<1>7. /\ MintsIn(m, n) # {} => MinOf(MintsIn(m, n)) \in MintsIn(m, n)
      /\ SpendsIn(m, n) # {} => MinOf(SpendsIn(m, n)) \in SpendsIn(m, n)
  <2>1. MintsIn(m, n) \in SUBSET Nat /\ SpendsIn(m, n) \in SUBSET Nat
    BY <1>4, <1>6
  <2> QED
    BY <2>1, MinOfIsMin
<1>8. n \in Found(m) <=> MintsIn(m, n) # {}
  BY <1>2 DEF Found
<1>9. \A k \in 1..l : h + k \in (h + 1)..(h + l) /\ m.from + k - 1 = h + k
  BY <1>1, <1>4, <1>5
<1>10. \A k \in (h + 1)..(h + l) : k - h \in 1..l /\ h + (k - h) = k
  BY <1>1, <1>4
<1>11. MintsIn(m, n) # {} =>
         /\ m.from + MinOf(MintsIn(m, n)) - 1 \in (h + 1)..Upto(m)
         /\ n \in blocks[p[m.from + MinOf(MintsIn(m, n)) - 1]].mints
  <2> SUFFICES ASSUME MintsIn(m, n) # {}
               PROVE  /\ m.from + MinOf(MintsIn(m, n)) - 1 \in (h + 1)..Upto(m)
                      /\ n \in blocks[p[m.from + MinOf(MintsIn(m, n)) - 1]].mints
    OBVIOUS
  <2>1. PICK k \in 1..l : k = MinOf(MintsIn(m, n)) /\ n \in blocks[p[h + k]].mints
    BY <1>6, <1>7
  <2> QED
    BY <1>5, <1>9, <2>1
<1>12. SpendsIn(m, n) # {} =>
         /\ m.from + MinOf(SpendsIn(m, n)) - 1 \in (h + 1)..Upto(m)
         /\ n \in blocks[p[m.from + MinOf(SpendsIn(m, n)) - 1]].spends
  <2> SUFFICES ASSUME SpendsIn(m, n) # {}
               PROVE  /\ m.from + MinOf(SpendsIn(m, n)) - 1 \in (h + 1)..Upto(m)
                      /\ n \in blocks[p[m.from + MinOf(SpendsIn(m, n)) - 1]].spends
    OBVIOUS
  <2>1. PICK k \in 1..l : k = MinOf(SpendsIn(m, n)) /\ n \in blocks[p[h + k]].spends
    BY <1>6, <1>7
  <2> QED
    BY <1>5, <1>9, <2>1
<1>13. MintsIn(m, n) = {} => \A k \in (h + 1)..Upto(m) : n \notin blocks[p[k]].mints
  BY <1>5, <1>6, <1>10
<1>14. SpendsIn(m, n) = {} => \A k \in (h + 1)..Upto(m) : n \notin blocks[p[k]].spends
  BY <1>5, <1>6, <1>10
<1>15. n \in Found(m) => noted[n] = 0 /\ spent[n] = 0
  <2> SUFFICES ASSUME n \in Found(m) PROVE noted[n] = 0 /\ spent[n] = 0
    OBVIOUS
  <2>1. PICK x \in (h + 1)..Upto(m) : n \in blocks[p[x]].mints
    BY <1>8, <1>11
  <2>2. OnceOn(p) /\ NoteFollows(n, p, h) /\ Birth[Owner[n]] \in Nat
    BY Bounds DEF TreeOnce, Paths
  <2>3. x \in 1..Len(p) /\ x > h
    BY <1>1, <1>5
  <2>4. ASSUME noted[n] # 0 PROVE FALSE
    <3>1. noted[n] \in (Birth[Owner[n]] + 1)..h /\ n \in blocks[p[noted[n]]].mints
      BY <2>2, <2>4 DEF NoteFollows
    <3>2. noted[n] \in 1..Len(p) /\ noted[n] # x
      BY <1>1, <1>4, <1>5, <2>2, <2>3, <3>1
    <3> QED
      BY <2>1, <2>2, <2>3, <3>1, <3>2 DEF OnceOn
  <2> QED
    BY <2>2, <2>4 DEF NoteFollows
<1>16. n \in Found(m) /\ SpendsIn(m, n) # {} => MinOf(MintsIn(m, n)) < MinOf(SpendsIn(m, n))
  BY <1>1, <1>7, <1>8, ChunkOrder
<1> QED
  BY <1>8, <1>11, <1>12, <1>13, <1>14, <1>15, <1>16

(* ... of an account that all of them belong to.                           *)
LEMMA ChunkNotes ==
    ASSUME OneShielded, PromiseInv, Arriving("chunk"), NEW m, m = Head(chan),
           NEW a \in Account, NEW p \in Paths, NEW h \in Heights, On(a, p, h),
           NEW n \in Note
    PROVE  /\ Tracked(n) /\ (n \in Kept <=> Unspent(n))
           /\ n \in Found(m) => /\ m.from + MinOf(MintsIn(m, n)) - 1 \in (h + 1)..Upto(m)
                                /\ n \in blocks[p[m.from + MinOf(MintsIn(m, n)) - 1]].mints
                                /\ noted[n] = 0 /\ spent[n] = 0
           /\ n \notin Found(m) => \A k \in (h + 1)..Upto(m) : n \notin blocks[p[k]].mints
           /\ SpendsIn(m, n) # {} =>
                /\ m.from + MinOf(SpendsIn(m, n)) - 1 \in (h + 1)..Upto(m)
                /\ n \in blocks[p[m.from + MinOf(SpendsIn(m, n)) - 1]].spends
           /\ SpendsIn(m, n) = {} => \A k \in (h + 1)..Upto(m) : n \notin blocks[p[k]].spends
           /\ n \in Found(m) /\ SpendsIn(m, n) # {} => MinOf(MintsIn(m, n)) < MinOf(SpendsIn(m, n))
<1>1. /\ pc = "read" /\ Streams(p, h) /\ RunFollows(a, h) /\ h \in Nat /\ SpendsInv /\ TreeOnce
      /\ Standing(a, p, h) /\ Birth[a] \in Nat /\ Birth[a] >= 1
  BY Bounds DEF Arriving, PromiseInv, On
<1>2. Tracked(n)
  BY <1>1, OneAccount DEF Tracked, RunFollows, InSegment
<1>3. n \in Kept <=> Unspent(n)
  BY <1>1 DEF Kept, Streams, TracksUnspent
<1>4. h >= 1 /\ h <= Len(p) /\ MessagesFollow(p, h) /\ NoteFollows(n, p, h)
  BY <1>1 DEF Standing, Streams, RowsFollow
<1> QED
  BY <1>1, <1>2, <1>3, <1>4, NotesOfChunk

(* A chunk that arrives can be written.                                    *)
LEMMA ChunkFits ==
    ASSUME OneShielded, PromiseInv, Arriving("chunk"), NEW m, m = Head(chan),
           NEW a \in Account, NEW p \in Paths, NEW h \in Heights, On(a, p, h)
    PROVE  ~ChunkFails(m)
<1>1. \A n \in Found(m) : n \in Note /\ noted[n] = 0 /\ spent[n] = 0
  BY ChunkNotes DEF Found
<1>2. \A n \in Kept : n \in Note /\ noted[n] # 0 /\ spent[n] = 0
  BY ChunkNotes DEF Kept, Unspent
<1>3. \A w \in witnesses : w.height # Upto(m)
  <2>1. \A w \in witnesses : w.height \in (Birth[a] + 1)..h
    BY DEF On, Standing, CheckpointsFollow
  <2>2. Upto(m) = h + Len(m.ids) /\ Len(m.ids) \in Nat /\ Len(m.ids) >= 1 /\ h \in Nat
    BY FirstChunk, Bounds
  <2>3. Birth[a] \in Nat
    BY OneAccount, Bounds
  <2> QED
    BY <2>1, <2>2, <2>3
<1> QED
  BY <1>1, <1>2, <1>3 DEF ChunkFails

(* The transaction that spends a note has a row at the height of its block,*)
(* or none.                                                                *)
RowAtBlock(m, n) ==
    SpendsIn(m, n) # {} =>
        TransactionHeight(n, m.from + MinOf(SpendsIn(m, n)) - 1) = m.from + MinOf(SpendsIn(m, n)) - 1

(* What a chunk writes.                                                    *)
LEMMA ChunkWrites ==
    ASSUME HandleChunk, NEW m, m = Head(chan), NEW n \in Note
    PROVE  /\ n \in Found(m) => noted'[n] = m.from + MinOf(MintsIn(m, n)) - 1
           /\ n \notin Found(m) => noted'[n] = noted[n]
           /\ n \in Found(m) \cup Kept /\ SpendsIn(m, n) # {} =>
                /\ utxo'[n] = 0
                /\ RowAtBlock(m, n) => spent'[n] = m.from + MinOf(SpendsIn(m, n)) - 1
           /\ n \notin Found(m) \cup Kept => spent'[n] = spent[n] /\ utxo'[n] = 0
           /\ n \in Found(m) \cup Kept /\ SpendsIn(m, n) = {} =>
                /\ spent'[n] = spent[n]
                /\ utxo'[n] = Advance(m, IF n \in Found(m) THEN edge ELSE utxo[n])
BY DEF HandleChunk, RowAtBlock

(* A tracked note after a chunk.                                           *)
LEMMA NoteWritten ==
    ASSUME SpendsInv, TreeOnce, HandleChunk, NEW m, m = Head(chan),
           NEW p \in Paths, NEW h \in Nat, h >= 1, h <= Len(p), MessagesFollow(p, h),
           NEW u \in Nat, u = Upto(m), NEW n \in Note, Tracked(n), n \in Kept <=> Unspent(n),
           NoteFollows(n, p, h), NEW b \in Nat, b = Birth[Owner[n]], b <= h, RowAtBlock(m, n)
    PROVE  /\ NoteFollows(n, p, u)'
           /\ \A c \in Nat : c <= h /\ LiveAt(n, c)' => LiveAt(n, c)
           /\ LiveAt(n, u)' => n \in Found(m) \cup Kept
           /\ Unspent(n)' <=> n \in Found(m) \cup Kept /\ SpendsIn(m, n) = {}
<1>1. Arriving("chunk") /\ UNCHANGED treeVars
  BY DEF HandleChunk
<1>2. PICK x, y : x = m.from + MinOf(MintsIn(m, n)) - 1 /\ y = m.from + MinOf(SpendsIn(m, n)) - 1
  OBVIOUS
<1>3. /\ n \in Kept <=> Unspent(n)
      /\ n \in Found(m) => /\ x \in (h + 1)..u /\ n \in blocks[p[x]].mints
                           /\ noted[n] = 0 /\ spent[n] = 0
      /\ n \notin Found(m) => \A k \in (h + 1)..u : n \notin blocks[p[k]].mints
      /\ SpendsIn(m, n) # {} => y \in (h + 1)..u /\ n \in blocks[p[y]].spends
      /\ SpendsIn(m, n) = {} => \A k \in (h + 1)..u : n \notin blocks[p[k]].spends
  BY <1>1, <1>2, NotesOfChunk
<1>4. n \in Found(m) /\ SpendsIn(m, n) # {} => x < y
  <2> SUFFICES ASSUME n \in Found(m), SpendsIn(m, n) # {} PROVE x < y
    OBVIOUS
  <2>1. MinOf(MintsIn(m, n)) < MinOf(SpendsIn(m, n)) /\ MintsIn(m, n) # {}
    BY <1>1, NotesOfChunk DEF Found
  <2>2. Len(m.ids) \in Nat /\ m.from \in Nat
    BY <1>1, ChunkOnPath DEF SpendsInv
  <2>3. MintsIn(m, n) \in SUBSET Nat /\ SpendsIn(m, n) \in SUBSET Nat
    BY <2>2 DEF MintsIn, SpendsIn
  <2>4. MinOf(MintsIn(m, n)) \in Nat /\ MinOf(SpendsIn(m, n)) \in Nat
    BY <2>1, <2>3, MinOfIsMin
  <2> QED
    BY <1>2, <2>1, <2>2, <2>4
<1>5. /\ n \in Found(m) => noted'[n] = x
      /\ n \notin Found(m) => noted'[n] = noted[n]
      /\ n \in Found(m) \cup Kept /\ SpendsIn(m, n) # {} => spent'[n] = y
      /\ n \in Found(m) \cup Kept /\ SpendsIn(m, n) = {} => spent'[n] = spent[n]
      /\ n \notin Found(m) \cup Kept => spent'[n] = spent[n]
  BY <1>2, ChunkWrites
<1>6. NoteFollows(n, p, h) /\ b = Birth[Owner[n]] /\ b <= h /\ h < u /\ blocks' = blocks
  <2>1. Upto(m) = h + Len(m.ids) /\ Len(m.ids) \in Nat /\ Len(m.ids) >= 1
    BY <1>1, ChunkOnPath DEF SpendsInv
  <2> QED
    BY <1>1, <2>1 DEF treeVars
<1>7. CASE n \in Found(m)
  <2>1. x \in (b + 1)..u /\ x # 0 /\ x > h /\ \A k \in (x + 1)..u : k \in (h + 1)..u
    BY <1>3, <1>6, <1>7
  <2>2. SpendsIn(m, n) # {} => y \in (x + 1)..u /\ y # 0
    BY <1>3, <1>4, <1>6, <1>7, <2>1
  <2>3. NoteFollows(n, p, u)'
    BY <1>3, <1>5, <1>6, <1>7, <2>1, <2>2 DEF NoteFollows
  <2>4. \A c \in Nat : c <= h => ~LiveAt(n, c)'
    BY <1>5, <1>6, <1>7, <2>1 DEF LiveAt
  <2>5. Unspent(n)' <=> SpendsIn(m, n) = {}
    BY <1>3, <1>5, <1>7, <2>1, <2>2 DEF Unspent
  <2> QED
    BY <1>7, <2>3, <2>4, <2>5
<1>8. CASE n \notin Found(m) /\ n \in Kept
  <2>1. noted[n] # 0 /\ spent[n] = 0 /\ noted'[n] = noted[n]
    BY <1>3, <1>5, <1>8 DEF Unspent
  <2>2. /\ noted[n] \in (b + 1)..h /\ n \in blocks[p[noted[n]]].mints
        /\ \A k \in (noted[n] + 1)..h : n \notin blocks[p[k]].spends
    BY <1>6, <2>1 DEF NoteFollows
  <2>3. noted[n] \in (b + 1)..u /\ \A k \in (noted[n] + 1)..u : k \in (noted[n] + 1)..h \/ k \in (h + 1)..u
    BY <1>6, <2>2
  <2>4. SpendsIn(m, n) # {} => y \in (noted[n] + 1)..u /\ y # 0
    BY <1>3, <1>6, <2>2
  <2>5. NoteFollows(n, p, u)'
    BY <1>3, <1>5, <1>6, <1>8, <2>1, <2>2, <2>3, <2>4 DEF NoteFollows
  <2> QED
    BY <1>3, <1>5, <1>8, <2>1, <2>4, <2>5 DEF LiveAt, Unspent
<1>9. CASE n \notin Found(m) /\ n \notin Kept
  <2>1. noted'[n] = noted[n] /\ spent'[n] = spent[n] /\ (noted[n] # 0 => spent[n] # 0)
    BY <1>3, <1>5, <1>9 DEF Unspent
  <2>2. noted[n] # 0 => noted[n] \in (b + 1)..u
    BY <1>6 DEF NoteFollows
  <2>3. spent[n] # 0 => noted[n] # 0 /\ spent[n] \in (noted[n] + 1)..u /\ spent[n] <= h
    BY <1>6 DEF NoteFollows
  <2>4. noted[n] = 0 => \A k \in (b + 1)..u : n \notin blocks[p[k]].mints
    <3>1. \A k \in (b + 1)..u : k \in (b + 1)..h \/ k \in (h + 1)..u
      BY <1>6
    <3> QED
      BY <1>3, <1>6, <1>9, <3>1 DEF NoteFollows
  <2>5. NoteFollows(n, p, u)'
    BY <1>6, <2>1, <2>2, <2>3, <2>4 DEF NoteFollows
  <2>6. ~LiveAt(n, u)'
    BY <1>6, <2>1, <2>3 DEF LiveAt
  <2> QED
    BY <1>9, <2>1, <2>5, <2>6 DEF LiveAt, Unspent
<1> QED
  BY <1>7, <1>8, <1>9

LEMMA RowsWritten ==
    ASSUME OneShielded, PromiseInv, HandleChunk, NEW m, m = Head(chan),
           NEW a \in Account, NEW p \in Paths, NEW h \in Heights, On(a, p, h),
           NEW u \in Nat, u = Upto(m), NEW n \in Note
    PROVE  /\ NoteFollows(n, p, u)'
           /\ \A c \in Nat : c <= h /\ LiveAt(n, c)' => LiveAt(n, c)
           /\ LiveAt(n, u)' => n \in Found(m) \cup Kept
           /\ Unspent(n)' <=> n \in Found(m) \cup Kept /\ SpendsIn(m, n) = {}
<1>1. Arriving("chunk") /\ pc = "read"
  BY DEF HandleChunk, Arriving
<1>2. Tracked(n) /\ (n \in Kept <=> Unspent(n))
  BY <1>1, ChunkNotes
<1>3. /\ SpendsInv /\ TreeOnce /\ h \in Nat /\ h >= 1 /\ h <= Len(p) /\ MessagesFollow(p, h)
      /\ NoteFollows(n, p, h) /\ Birth[Owner[n]] \in Nat /\ Birth[Owner[n]] <= h
  BY <1>1, OneAccount, Bounds DEF PromiseInv, On, Standing, RowsFollow, Streams
<1>4. RowAtBlock(m, n)
  <2>1. \A c \in Note : PoolOf[c] # 0
    BY OneAccount DEF Shielded
  <2>2. Outs[n] = {}
    BY <2>1, WarpSyncAssumption
  <2> QED
    BY <2>2, TransactionRow DEF RowAtBlock
<1> QED
  BY <1>1, <1>2, <1>3, <1>4, NoteWritten

(* the header of the last block of a chunk, and the roots of its witnesses *)
LEMMA ChunkHeader ==
    ASSUME OneShielded, PromiseInv, HandleChunk, NEW m, m = Head(chan),
           NEW a \in Account, NEW p \in Paths, NEW h \in Heights, On(a, p, h),
           NEW u \in Nat, u = Upto(m)
    PROVE  /\ \A k \in Heights : headers[k] # NoBlock => headers'[k] = headers[k]
           /\ \A k \in Heights : headers[k] = NoBlock => headers'[k] \in {NoBlock, p[k]}
           /\ \A k \in Heights : headers'[k] # headers[k] => k \in 1..Len(p)
           /\ HeaderOn(p, u)'
<1>1. Arriving("chunk") /\ UNCHANGED treeVars
  BY DEF HandleChunk
<1>2. headers' = StoreHeaders(headers, StoreHeaders(pend, HeaderOf(m)))
  BY DEF HandleChunk
<1>3. /\ u \in 1..Len(p) /\ u \in Heights /\ Last(m) = p[u] /\ p[u] # NoBlock /\ h < u
      /\ PendingFollow(p, h) /\ h \in Nat /\ Len(p) \in Nat
  <2>1. u \in 1..Len(p) /\ Last(m) = p[u] /\ u = h + Len(m.ids) /\ Len(m.ids) \in Nat /\ Len(m.ids) >= 1
    BY <1>1, FirstChunk
  <2>2. Len(p) \in 1..MaxHeight /\ p[u] \in 1..Len(blocks) /\ Len(blocks) \in Nat
    BY <2>1, PathFacts DEF PromiseInv, SpendsInv, TreeInv, TreeTypeOK
  <2>3. pc = "read" /\ PendingFollow(p, h)
    BY <1>1 DEF Arriving, On, Streams
  <2> QED
    BY <2>1, <2>2, <2>3, Bounds DEF NoBlock
<1>4. ASSUME NEW k \in Heights
      PROVE  headers'[k] = IF headers[k] # NoBlock THEN headers[k]
                           ELSE IF pend[k] # NoBlock THEN pend[k]
                           ELSE IF k = u THEN p[u] ELSE NoBlock
  BY <1>2, <1>3 DEF StoreHeaders, HeaderOf, NoHeaders
<1>5. \A k \in Heights : pend[k] # NoBlock => k \in 1..Len(p) /\ pend[k] = p[k]
  BY <1>3 DEF PendingFollow
<1>6. \A k \in Heights : headers[k] # NoBlock => headers'[k] = headers[k]
  BY <1>4
<1>7. \A k \in Heights : headers[k] = NoBlock => headers'[k] \in {NoBlock, p[k]}
  BY <1>4, <1>5
<1>8. \A k \in Heights : headers'[k] # headers[k] => k \in 1..Len(p)
  BY <1>3, <1>4, <1>5
<1>9. HeaderOn(p, u)'
  <2>1. headers[u] \in {NoBlock, p[u]} \/ OffChain(headers[u])
    BY <1>3 DEF PendingFollow
  <2>2. headers'[u] # NoBlock /\ (headers'[u] = p[u] \/ (headers'[u] = headers[u] /\ headers[u] # NoBlock))
    BY <1>3, <1>4, <1>5
  <2>3. \A id : OffChain(id) => \A k \in 1..Tip' : Chain'[k] # id
    BY <1>1 DEF OffChain, Tip, Chain, PathOf, treeVars
  <2> QED
    BY <2>1, <2>2, <2>3 DEF HeaderOn, OffChain
<1> QED
  BY <1>6, <1>7, <1>8, <1>9

LEMMA RootsOn ==
    ASSUME OneShielded, PromiseInv, Arriving("chunk"),
           NEW a \in Account, NEW p \in Paths, NEW h \in Heights, On(a, p, h)
    PROVE  /\ next > seg.start
           /\ BirthFixed => edge = p[h] /\ \A n \in Note : utxo[n] # 0 => utxo[n] = p[h]
<1>1. Streams(p, h) /\ h \in Nat
  BY Bounds DEF Arriving, On
<1>2. PICK m : m = Head(chan)
  OBVIOUS
<1>3. next > seg.start
  <2>1. Upto(m) < next - Len(buf) /\ seg.start <= h + 1
    BY <1>1, <1>2, FirstChunk DEF Streams
  <2>2. Upto(m) = h + Len(m.ids) /\ Len(m.ids) \in Nat /\ Len(m.ids) >= 1
    BY <1>2, FirstChunk
  <2>3. next \in Nat /\ Len(buf) \in Nat /\ seg.start \in Nat
    BY RowNumbers, RunNumbers DEF PromiseInv, SpendsInv, RowsInv
  <2> QED
    BY <1>1, <2>1, <2>2, <2>3
<1> QED
  BY <1>1, <1>3 DEF Streams, Rooted

LEMMA AdvancesOn ==
    ASSUME OneShielded, PromiseInv, HandleChunk, NEW m, m = Head(chan),
           NEW a \in Account, NEW p \in Paths, NEW h \in Heights, On(a, p, h),
           NEW u \in Nat, u = Upto(m), NEW r
    PROVE  Advance(m, r) # 0 /\ (r = p[h] => Advance(m, r) = p[u])
<1>1. Arriving("chunk")
  BY DEF HandleChunk
<1>2. u \in 1..Len(p) /\ Last(m) = p[u] /\ PrevHash(m.ids[1]) = p[h]
  BY <1>1, FirstChunk
<1>3. p[u] \in 1..Len(blocks) /\ Len(blocks) \in Nat
  BY <1>2, PathFacts DEF PromiseInv, SpendsInv, TreeInv, TreeTypeOK
<1> QED
  BY <1>2, <1>3 DEF Advance, Broken

LEMMA ChunkStanding ==
    ASSUME OneShielded, PromiseInv, HandleChunk, NEW m, m = Head(chan),
           NEW a \in Account, NEW p \in Paths, NEW h \in Heights, On(a, p, h),
           NEW u \in Nat, u = Upto(m)
    PROVE  Standing(a, p, u)'
<1>1. Arriving("chunk") /\ UNCHANGED treeVars
  BY DEF HandleChunk
<1>2. /\ Standing(a, p, h) /\ Streams(p, h) /\ RunFollows(a, h) /\ pc = "read" /\ h < u
      /\ u \in 1..Len(p) /\ Birth[a] \in Nat /\ Birth[a] <= h /\ h \in Nat
  <2>1. u \in 1..Len(p) /\ u = h + Len(m.ids) /\ Len(m.ids) \in Nat /\ Len(m.ids) >= 1
    BY <1>1, FirstChunk
  <2> QED
    BY <1>1, <2>1, OneAccount, Bounds DEF Arriving, On, Standing
<1>3. RowsFollow(p, u)'
  BY RowsWritten DEF RowsFollow
<1>4. \A q \in PoolsOf[a] : height'[a][q] = u
  <2>1. seg.accounts = {a} /\ PoolsOf[a] \subseteq Shielded
    BY <1>2, OneAccount DEF RunFollows, InSegment
  <2>2. height' = [b \in Account |-> [q \in PoolsOf[b] |->
                     IF Moves(b) /\ q \in Shielded THEN Upto(m) ELSE height[b][q]]]
    BY DEF HandleChunk
  <2> QED
    BY <2>1, <2>2 DEF Moves
<1>5. /\ witnesses \subseteq witnesses'
      /\ \A n \in Found(m) \cup Kept : \E w \in witnesses' : w.note = n /\ w.height = u
      /\ \A w \in witnesses' \ witnesses : \E n \in Note : \E r :
            /\ w.height = u /\ w.root = Advance(m, r)
            /\ (r = edge \/ (utxo[n] # 0 /\ r = utxo[n]))
  <2> DEFINE from(n) == IF n \in Found(m) THEN edge ELSE utxo[n]
             row(n) == [note |-> n, height |-> u, root |-> Advance(m, from(n))]
  <2>1. witnesses' = witnesses \cup {row(n) : n \in Found(m) \cup Kept}
    BY DEF HandleChunk
  <2>2. \A n \in Found(m) \cup Kept : n \in Note /\ (from(n) = edge \/ (utxo[n] # 0 /\ from(n) = utxo[n]))
    BY DEF Found, Kept
  <2>3. \A n : row(n).note = n /\ row(n).height = u /\ row(n).root = Advance(m, from(n))
    OBVIOUS
  <2> HIDE DEF row, from
  <2> QED
    BY <2>1, <2>2, <2>3
<1>6. BirthFixed => edge = p[h] /\ \A n \in Note : utxo[n] # 0 => utxo[n] = p[h]
  BY <1>1, RootsOn
<1>7. CheckpointsFollow(a, p, u)'
  <2>1. CheckpointsFollow(a, p, h) /\ BirthFixed = BirthFixed'
    BY <1>2 DEF Standing, BirthFixed
  <2>2. ASSUME NEW w \in witnesses'
        PROVE  /\ w.height \in (Birth[a] + 1)..u
               /\ w.root # 0 /\ (BirthFixed => w.root = p[w.height])
    <3>1. CASE w \in witnesses
      BY <1>2, <2>1, <3>1 DEF CheckpointsFollow
    <3>2. CASE w \notin witnesses
      <4>1. PICK n \in Note : \E r : /\ w.height = u /\ w.root = Advance(m, r)
                                     /\ (r = edge \/ (utxo[n] # 0 /\ r = utxo[n]))
        BY <1>5, <2>2, <3>2
      <4>0. PICK r : /\ w.height = u /\ w.root = Advance(m, r)
                     /\ (r = edge \/ (utxo[n] # 0 /\ r = utxo[n]))
        BY <4>1
      <4>2. BirthFixed => r = p[h]
        BY <1>6, <4>0
      <4>3. Advance(m, r) # 0 /\ (r = p[h] => Advance(m, r) = p[u])
        BY AdvancesOn
      <4> QED
        BY <1>2, <4>0, <4>2, <4>3
    <3> QED
      BY <3>1, <3>2
  <2>3. ASSUME NEW c \in Marks(u)' PROVE c = u \/ (c \in Nat /\ c <= h /\ c \in Marks(h))
    <3>1. c = u \/ \E w \in witnesses' : w.height = c
      BY <2>3 DEF Marks
    <3>2. \A w \in witnesses' \ witnesses : w.height = u
      BY <1>5
    <3>3. \A w \in witnesses : w.height \in Nat /\ w.height <= h
      BY <1>2, <2>1 DEF CheckpointsFollow
    <3> QED
      BY <3>1, <3>2, <3>3 DEF Marks
  <2>4. ASSUME NEW c \in Marks(u)', NEW n \in Note, LiveAt(n, c)'
        PROVE  \E w \in witnesses' : w.note = n /\ w.height = c
    <3>1. CASE c = u
      <4>1. n \in Found(m) \cup Kept
        BY <2>4, <3>1, RowsWritten
      <4> QED
        BY <1>5, <3>1, <4>1
    <3>2. CASE c \in Nat /\ c <= h /\ c \in Marks(h)
      <4>1. LiveAt(n, c)
        BY <2>4, <3>2, RowsWritten
      <4>2. PICK w \in witnesses : w.note = n /\ w.height = c
        BY <2>1, <3>2, <4>1 DEF CheckpointsFollow
      <4> QED
        BY <1>5, <4>2
    <3> QED
      BY <2>3, <2>4, <3>1, <3>2
  <2>5. ASSUME NEW c \in Marks(u)', c > Birth[a] PROVE HeaderOn(p, c)'
    <3>1. CASE c = u
      BY <3>1, ChunkHeader
    <3>2. CASE c \in Nat /\ c <= h /\ c \in Marks(h)
      <4>1. HeaderOn(p, c) /\ c \in Heights
        BY <1>2, <2>1, <2>5, <3>2, Bounds DEF CheckpointsFollow
      <4>2. headers'[c] = headers[c]
        BY <4>1, ChunkHeader DEF HeaderOn
      <4> QED
        BY <1>1, <4>1, <4>2 DEF HeaderOn, OffChain, Tip, Chain, PathOf, treeVars
    <3> QED
      BY <2>3, <2>5, <3>1, <3>2
  <2> QED
    BY <2>1, <2>2, <2>4, <2>5 DEF CheckpointsFollow
<1>8. Birth[a] <= u /\ u <= Len(p)
  BY <1>2
<1> QED
  BY <1>3, <1>4, <1>7, <1>8 DEF Standing

LEMMA HandleChunkOn ==
    ASSUME OneShielded, PromiseInv, HandleChunk,
           NEW a \in Account, NEW p \in Paths, NEW h \in Heights, On(a, p, h)
    PROVE  MovesAlong(a) /\ \E q \in Paths', k \in Heights : On(a, q, k)'
<1>1. PICK m : m = Head(chan)
  OBVIOUS
<1>2. /\ Arriving("chunk") /\ pc = "read" /\ chan # <<>> /\ chan' = Tail(chan) /\ pend' = NoHeaders
      /\ edge' = Advance(m, edge)
      /\ UNCHANGED <<treeVars, pc, runVars, reading, next, prevHash, wanted, buf>>
  BY <1>1 DEF HandleChunk, Arriving
<1>3. /\ Streams(p, h) /\ RunFollows(a, h) /\ Standing(a, p, h) /\ h \in Nat /\ RowsInv
      /\ next \in Nat /\ Len(buf) \in Nat /\ seg.start \in Nat
  BY <1>2, RowNumbers, RunNumbers, Bounds DEF On, PromiseInv, SpendsInv, RowsInv
<1>4. PICK u \in Nat : u = Upto(m) /\ u \in 1..Len(p) /\ h < u /\ u < next - Len(buf) /\ u \in Heights
  <2>1. /\ Upto(m) = h + Len(m.ids) /\ Len(m.ids) \in Nat /\ Len(m.ids) >= 1
        /\ Upto(m) \in 1..Len(p) /\ Upto(m) < next - Len(buf)
    BY <1>1, <1>2, FirstChunk
  <2>2. Len(p) \in 1..MaxHeight
    BY PathFacts DEF PromiseInv, SpendsInv
  <2> QED
    BY <1>3, <2>1, <2>2, Bounds
<1>5. Standing(a, p, u)'
  BY <1>1, <1>4, ChunkStanding
<1>6. MessagesFollow(p, u)' /\ \A k \in Nat : k > u /\ Covered(k) => Covered(k)'
  <2>1. m = chan[1] /\ \A i \in 2..Len(chan) : IsChunk(chan[i]) => Upto(m) < chan[i].from
    BY <1>1, <1>2, FirstChunk
  <2> QED
    BY <1>2, <1>3, <1>4, <2>1, TailMessages DEF Streams
<1>7. next > seg.start /\ (BirthFixed => edge = p[h] /\ \A n \in Note : utxo[n] # 0 => utxo[n] = p[h])
  BY <1>2, RootsOn
<1>8. ReaderFollows(p, u)'
  <2> SUFFICES ASSUME reading PROVE ReaderFollows(p, u)'
    BY <1>2 DEF ReaderFollows
  <2>1. prevHash = p[Len(p)] /\ Len(p) = next - 1 /\ BufferFollows(p, h)
    BY <1>3, <1>7 DEF Streams, ReaderFollows
  <2>2. \A k \in (u + 1)..(next - Len(buf) - 1) : k \in Nat /\ k > u /\ k \in (h + 1)..(next - Len(buf) - 1)
    BY <1>3, <1>4
  <2>3. BufferFollows(p, u)'
    BY <1>2, <1>4, <1>6, <2>1, <2>2 DEF BufferFollows
  <2>4. next # seg.start
    BY <1>3, <1>7
  <2> QED
    BY <1>2, <2>1, <2>3, <2>4 DEF ReaderFollows, runVars
<1>9. PendingFollow(p, u)'
  <2>1. ASSUME NEW k \in (u + 1)..Len(p) PROVE headers'[k] \in {NoBlock, p[k]} \/ OffChain(headers'[k])
    <3>1. k \in Heights /\ k \in (h + 1)..Len(p)
      <4>1. Len(p) \in 1..MaxHeight
        BY PathFacts DEF PromiseInv, SpendsInv
      <4> QED
        BY <1>3, <1>4, <4>1, Bounds
    <3>2. headers[k] \in {NoBlock, p[k]} \/ OffChain(headers[k])
      BY <1>3, <3>1 DEF Streams, PendingFollow
    <3> QED
      BY <1>1, <1>4, <3>1, <3>2, ChunkHeader
  <2>2. \A id : OffChain(id) => \A k \in 1..Tip' : Chain'[k] # id
    BY <1>2 DEF OffChain, Tip, Chain, PathOf, treeVars
  <2> QED
    BY <1>2, <2>1, <2>2 DEF PendingFollow, NoHeaders, OffChain
<1>10. TracksUnspent' /\ Rooted(p, u)'
  <2>1. ASSUME NEW n \in Note
        PROVE  /\ utxo'[n] # 0 <=> Unspent(n)'
               /\ BirthFixed /\ utxo'[n] # 0 => utxo'[n] = p[u]
    <3>1. PICK r : r = IF n \in Found(m) THEN edge ELSE utxo[n]
      OBVIOUS
    <3>2. Advance(m, r) # 0 /\ (r = p[h] => Advance(m, r) = p[u])
      BY <1>1, <1>4, AdvancesOn
    <3>3. BirthFixed /\ n \in Found(m) \cup Kept => r = p[h]
      BY <1>7, <3>1 DEF Kept
    <3>4. /\ n \in Found(m) \cup Kept /\ SpendsIn(m, n) = {} => utxo'[n] = Advance(m, r)
          /\ ~(n \in Found(m) \cup Kept /\ SpendsIn(m, n) = {}) => utxo'[n] = 0
      BY <1>1, <3>1, ChunkWrites
    <3>5. Unspent(n)' <=> n \in Found(m) \cup Kept /\ SpendsIn(m, n) = {}
      BY <1>1, <1>4, RowsWritten
    <3> QED
      BY <3>2, <3>3, <3>4, <3>5
  <2>2. BirthFixed => edge' = p[u]
    BY <1>1, <1>2, <1>4, <1>7, AdvancesOn
  <2>3. BirthFixed' = BirthFixed
    BY DEF BirthFixed
  <2> QED
    BY <2>1, <2>2, <2>3 DEF TracksUnspent, Rooted
<1>11. RunFollows(a, u)'
  BY <1>2, <1>3 DEF RunFollows, InSegment, runVars
<1>12. Streams(p, u)'
  BY <1>2, <1>3, <1>4, <1>6, <1>7, <1>8, <1>9, <1>10 DEF Streams, runVars
<1>13. p \in Paths'
  BY <1>2 DEF Paths, PathOf, treeVars
<1>14. On(a, p, u)'
  BY <1>2, <1>5, <1>11, <1>12 DEF On
<1> QED
  BY <1>3, <1>4, <1>5, <1>13, <1>14 DEF MovesAlong

LEMMA CloseStreamOn ==
    ASSUME OneShielded, PromiseInv, CloseStream,
           NEW a \in Account, NEW p \in Paths, NEW h \in Heights, On(a, p, h)
    PROVE  MovesAlong(a) /\ \E q \in Paths', k \in Heights : On(a, q, k)'
<1>1. /\ pc = "read" /\ pc' = "times" /\ pend' = NoHeaders
      /\ UNCHANGED <<treeVars, runVars>>
      /\ RunFollows(a, h) /\ Standing(a, p, h) /\ Streams(p, h) /\ seg.accounts = {a}
  BY DEF CloseStream, EndStream, On, RunFollows, InSegment
<1>2. \A k \in Heights : headers[k] # NoBlock => StoreHeaders(headers, pend)[k] = headers[k]
  BY DEF StoreHeaders
<1>3. \E c \in Heights : Standing(a, p, c)'
  <2>1. CASE Arriving("reorg") /\ Rewind(seg.accounts, Head(chan).from, StoreHeaders(headers, pend),
                                         {r \in untimed : r[2] \notin HeadersAt(pend)})
    <3>1. Head(chan).from \in Nat
      <4>1. chan # <<>> /\ RowsInv
        BY <2>1 DEF Arriving, PromiseInv, SpendsInv
      <4>2. 1 \in 1..Len(chan) /\ Head(chan) = chan[1]
        BY <4>1 DEF RowsInv, Typed, TypeOK, StreamTypes
      <4> QED
        BY <4>1, <4>2, RowNumbers DEF RowsInv
    <3> HIDE DEF StoreHeaders
    <3> QED
      BY <1>1, <1>2, <2>1, <3>1, RewindStanding
  <2>2. CASE /\ headers' = StoreHeaders(headers, pend)
             /\ UNCHANGED <<height, noted, spent, witnesses>>
    BY <1>1, <1>2, <2>2, SameStanding
  <2> QED
    BY <2>1, <2>2 DEF CloseStream
<1>4. PICK c \in Heights : Standing(a, p, c)'
  BY <1>3
<1>5. RunFollows(a, c)'
  BY <1>1 DEF RunFollows, InSegment, runVars
<1>6. \E q \in Paths', k \in Heights : On(a, q, k)'
  BY <1>1, <1>4, <1>5, Landing
<1> QED
  BY <1>1, <1>4, <1>6 DEF MovesAlong

-------------------------------------------------------------------------------
(* The headers *)

LEMMA FaultsOnlyEnd ==
    ASSUME Typed, [Next]_vars, NEW k \in FaultKinds, left[k] = 0
    PROVE  left'[k] = 0
<1>1. UNCHANGED left \/ \E kind \in FaultKinds : Fault(kind)
  <2>1. CASE NodeStep \/ Abort \/ StopReader \/ EndOfStream
    BY <2>1 DEF NodeStep, Abort, StopReader, EndOfStream, FaultKinds
  <2>2. ASSUME NEW a \in Account, NEW i \in AddrIndexes, NEW upto \in Heights, ScanAddress(a, i, upto)
        PROVE  UNCHANGED left \/ \E kind \in FaultKinds : Fault(kind)
    BY <2>2 DEF ScanAddress, FaultKinds
  <2>3. ASSUME NEW a \in Account, NEW h \in Heights, UserRewind(a, h) \/ UserReset(a)
        PROVE  UNCHANGED left \/ \E kind \in FaultKinds : Fault(kind)
    BY <2>3 DEF UserRewind, UserReset, UserFault, FaultKinds
  <2>4. CASE RequestFails \/ EndSegment \/ BeginSegment \/ OpenStream \/ ScanDone \/ Recover
    BY <2>4 DEF RequestFails, EndSegment, BeginSegment, OpenStream, ScanDone, Recover
  <2>5. CASE HandleChunk \/ FailChunk \/ HandleHeader \/ CloseStream \/ DetectReorg
    BY <2>5 DEF HandleChunk, FailChunk, HandleHeader, CloseStream, DetectReorg
  <2>6. ASSUME NEW full \in BOOLEAN, ReadBlock(full) PROVE UNCHANGED left
    BY <2>6 DEF ReadBlock
  <2>7. ASSUME NEW h \in Heights, FetchTime(h) PROVE UNCHANGED left
    BY <2>7 DEF FetchTime
  <2>8. ASSUME NEW S \in SUBSET Account, StartSync(S) PROVE UNCHANGED left
    BY <2>8 DEF StartSync
  <2>9. CASE UNCHANGED vars
    BY <2>9 DEF vars
  <2>10. ASSUME NEW a \in Account, UserReset(a) PROVE \E kind \in FaultKinds : Fault(kind)
    BY <2>10 DEF UserReset, UserFault, FaultKinds
  <2> QED
    BY <2>1, <2>2, <2>3, <2>4, <2>5, <2>6, <2>7, <2>8, <2>9, <2>10
       DEF Next, Synchronize, Begin, Scan, Reader, Writer, Times
<1>2. CASE UNCHANGED left
  BY <1>2
<1>3. ASSUME NEW kind \in FaultKinds, Fault(kind) PROVE left'[k] = 0
  <2>1. left \in [FaultKinds -> Nat] /\ left[kind] > 0 /\ left' = [left EXCEPT ![kind] = @ - 1]
    BY <1>3 DEF Fault, Typed, TypeOK
  <2>2. k # kind
    BY <2>1
  <2> QED
    BY <2>1, <2>2
<1> QED
  BY <1>1, <1>2, <1>3

LEMMA HeadersOnPaths ==
    ASSUME TreeInv, HeadersKnown, UNCHANGED treeVars,
           \A k \in Heights : \/ headers'[k] \in {NoBlock, headers[k]}
                              \/ \E p \in Paths : k \in 1..Len(p) /\ headers'[k] = p[k]
    PROVE  HeadersKnown'
<1>1. ASSUME NEW k \in Heights, headers'[k] # NoBlock
      PROVE  headers'[k] \in 1..Len(blocks) /\ Len(PathOf(headers'[k])) = k
  BY <1>1, PathFacts DEF HeadersKnown
<1>2. UNCHANGED blocks
  BY DEF treeVars
<1> QED
  BY <1>1, <1>2 DEF HeadersKnown, PathOf

LEMMA NodeStepHeaders ==
    ASSUME TreeInv, HeadersKnown, NodeStep
    PROVE  HeadersKnown'
<1>1. UNCHANGED headers /\ TreeTypeOK /\ Len(blocks) \in Nat
  BY DEF NodeStep, dbVars, TreeInv, TreeTypeOK
<1>2. \A id \in 1..Len(blocks) : blocks'[id] = blocks[id] /\ id \in 1..Len(blocks')
  <2>1. CASE \E mints \in SUBSET Note, spends \in SUBSET Note : Mine(mints, spends)
    <3>1. PICK mints \in SUBSET Note, spends \in SUBSET Note : Mine(mints, spends)
      BY <2>1
    <3>2. Len(blocks') = Len(blocks) + 1 /\ \A id \in 1..Len(blocks) : blocks'[id] = blocks[id]
      BY <1>1, <3>1, MinedBlock
    <3> QED
      BY <1>1, <3>2
  <2>2. CASE \E fork \in Heights : Orphan(fork)
    BY <2>2 DEF Orphan
  <2> QED
    BY <2>1, <2>2 DEF NodeStep
<1> QED
  BY <1>1, <1>2 DEF HeadersKnown, PathOf

LEMMA CloseStreamHeaders ==
    ASSUME OneShielded, PromiseInv, CloseStream,
           NEW a \in Account, NEW p \in Paths, NEW h \in Heights, On(a, p, h)
    PROVE  /\ HeadersKnown'
           /\ \A k \in Heights : k <= h /\ headers[k] # NoBlock => headers'[k] # NoBlock
<1>1. /\ pc = "read" /\ ~reading /\ UNCHANGED treeVars /\ Streams(p, h) /\ HeadersKnown /\ TreeInv /\ RowsInv
      /\ h \in Nat
  BY Bounds DEF CloseStream, On, PromiseInv, Follows, SpendsInv
<1> DEFINE hs == StoreHeaders(headers, pend)
<1>2. ASSUME NEW k \in Heights
      PROVE  /\ hs[k] = headers[k] \/ (k \in 1..Len(p) /\ hs[k] = p[k])
             /\ headers[k] # NoBlock => hs[k] = headers[k]
  BY <1>1 DEF StoreHeaders, Streams, PendingFollow
<1>3. \/ headers' = hs
      \/ /\ Arriving("reorg")
         /\ \A k \in Heights : headers'[k] = IF k > Head(chan).from THEN NoBlock ELSE hs[k]
  BY DEF CloseStream, Rewind
<1> HIDE DEF hs
<1>4. Arriving("reorg") => \A k \in Heights : k <= h => ~(k > Head(chan).from)
  <2> SUFFICES ASSUME Arriving("reorg") PROVE \A k \in Heights : k <= h => ~(k > Head(chan).from)
    OBVIOUS
  <2>1. 1 \in 1..Len(chan) /\ Head(chan) = chan[1] /\ chan[1].kind = "reorg"
    BY <1>1 DEF Arriving, RowsInv, Typed, TypeOK, StreamTypes
  <2>2. Head(chan).from = next - 1 /\ h < next /\ next \in Nat
    BY <1>1, <2>1, RowNumbers DEF Streams, MessagesFollow, RowsInv
  <2> QED
    BY <1>1, <2>2, Bounds
<1> QED
  BY <1>1, <1>2, <1>3, <1>4, HeadersOnPaths

LEMMA FetchTimeHeaders ==
    ASSUME OneShielded, PromiseInv, NEW h \in Heights, FetchTime(h)
    PROVE  HeadersKnown'
<1>1. UNCHANGED treeVars /\ HeadersKnown /\ TreeInv /\ Typed /\ pc = "times" /\ h <= Tip
  BY DEF FetchTime, PromiseInv, Follows, SpendsInv, RowsInv
<1>2. h \in Nat /\ h # 0
  <2>1. seg.start >= 2 /\ seg.start \in Nat /\ seg.end \in Nat
    BY <1>1, RunNumbers, Bounds DEF Typed, InFlight
  <2> QED
    BY <2>1, Bounds DEF FetchTime, Missing, HeightsWithoutTime
<1>3. Chain \in Paths /\ h \in 1..Len(Chain)
  BY <1>1, <1>2, ChainFacts, ChainType DEF TreeInv
<1>4. \A k \in Heights : headers'[k] \in {NoBlock, headers[k]} \/ (k = h /\ headers'[k] = Chain[h])
  BY DEF FetchTime, StoreHeaders, NoHeaders
<1> QED
  BY <1>1, <1>3, <1>4, HeadersOnPaths

-------------------------------------------------------------------------------
(* Every step *)

(* a step that writes no row of the tables of notes and spends             *)
Rests(a) == UNCHANGED <<treeVars, noted, spent>> /\ SyncHeight(a)' = SyncHeight(a)

LEMMA IdleOn ==
    ASSUME OneShielded, PromiseInv, UNCHANGED vars,
           NEW a \in Account, NEW p \in Paths, NEW h \in Heights, On(a, p, h)
    PROVE  Rests(a) /\ \E q \in Paths', k \in Heights : On(a, q, k)'
<1>1. UNCHANGED <<treeVars, dbVars, pc, runVars, readerVars, writerVars>>
  BY DEF vars
<1>2. Standing(a, p, h)'
  BY <1>1, SameStanding DEF On, dbVars
<1>3. RunFollows(a, h)' /\ UNCHANGED <<pc, pend, headers>>
  BY <1>1 DEF RunFollows, InSegment, On, runVars, writerVars, dbVars
<1>4. ASSUME pc = "read" PROVE Streams(p, h)'
  <2>1. Streams(p, h)
    BY <1>4 DEF On
  <2>2. MessagesFollow(p, h)' /\ BufferFollows(p, h)' = BufferFollows(p, h)
    BY <1>1, <2>1 DEF Streams, MessagesFollow, ChunkFollows, BufferFollows, Covered, Covers,
                      readerVars, Upto, IsChunk
  <2>3. TracksUnspent' /\ Rooted(p, h)' /\ PendingFollow(p, h)' /\ Unread(h)' = Unread(h)
    BY <1>1, <2>1 DEF Streams, TracksUnspent, Unspent, Rooted, PendingFollow, Unread, OffChain, Tip, Chain,
                      PathOf, readerVars, writerVars, dbVars, runVars, treeVars
  <2> QED
    BY <1>1, <2>1, <2>2, <2>3 DEF Streams, ReaderFollows, readerVars, runVars
<1>5. p \in Paths'
  BY <1>1 DEF Paths, PathOf, treeVars
<1>6. On(a, p, h)'
  BY <1>2, <1>3, <1>4 DEF On
<1> QED
  BY <1>1, <1>5, <1>6 DEF Rests, SyncHeight, dbVars

LEMMA StepOn ==
    ASSUME OneShielded, PromiseInv, Typed', [Next]_vars,
           NEW a \in Account, NEW p \in Paths, NEW h \in Heights, On(a, p, h)
    PROVE  /\ \E q \in Paths', k \in Heights : On(a, q, k)'
           /\ NodeStep \/ Rests(a) \/ (MovesAlong(a) /\ UNCHANGED treeVars)
<1> DEFINE Goes == \E q \in Paths', k \in Heights : On(a, q, k)'
           Moved == MovesAlong(a) /\ UNCHANGED treeVars
           Goal == Goes /\ (NodeStep \/ Rests(a) \/ Moved)
<1> SUFFICES Goal
  OBVIOUS
<1>0. ASSUME UNCHANGED <<treeVars, dbVars>> PROVE Rests(a)
  BY <1>0 DEF Rests, dbVars, SyncHeight
<1>1. CASE NodeStep
  BY <1>1, NodeStepOn
<1>2. ASSUME NEW S \in SUBSET Account, StartSync(S) PROVE Goal
  <2>1. Rests(a)
    BY <1>2 DEF StartSync, Rests, SyncHeight
  <2> QED
    BY <1>2, <2>1, StartSyncOn
<1>3. CASE Recover
  <2>1. Rests(a)
    BY <1>3, RecoverOn DEF Recover, Rests
  <2> QED
    BY <1>3, <2>1, RecoverOn
<1>4. CASE BeginSegment
  <2>1. UNCHANGED <<treeVars, dbVars>>
    BY <1>4 DEF BeginSegment
  <2> QED
    BY <1>0, <1>4, <2>1, BeginSegmentOn
<1>5. CASE ScanDone
  <2>1. UNCHANGED <<treeVars, dbVars>>
    BY <1>5 DEF ScanDone
  <2> QED
    BY <1>0, <1>5, <2>1, ScanDoneOn
<1>6. CASE OpenStream
  <2>1. UNCHANGED <<treeVars, dbVars>>
    BY <1>6 DEF OpenStream
  <2> QED
    BY <1>0, <1>6, <2>1, OpenStreamOn
<1>7. CASE RequestFails \/ FailChunk \/ Abort
  <2>1. UNCHANGED <<treeVars, dbVars>> /\ EndRun /\ EndStream
    BY <1>7 DEF RequestFails, FailChunk, Abort
  <2> QED
    BY <1>0, <2>1, RunEndsOn
<1>8. ASSUME NEW b \in Account, NEW i \in AddrIndexes, NEW upto \in Heights, ScanAddress(b, i, upto)
      PROVE  Goal
  <2>1. b = a
    BY DEF OneShielded
  <2>2. UNCHANGED <<height, noted, spent>> /\ Goes
    BY <1>8, <2>1, ScanAddressOn
  <2>3. Rests(a)
    BY <1>8, <2>2 DEF ScanAddress, Rests, SyncHeight
  <2> QED
    BY <2>2, <2>3
<1>9. CASE Reader \/ StopReader
  <2>1. UNCHANGED <<treeVars, dbVars>>
    BY <1>9 DEF Reader, ReadBlock, DetectReorg, EndOfStream, StopReader
  <2> QED
    BY <1>0, <1>9, <2>1, ReadBlockOn, DetectReorgOn, EndOfStreamOn, StopReaderOn DEF Reader
<1>10. CASE HandleChunk
  <2>1. UNCHANGED treeVars
    BY <1>10 DEF HandleChunk
  <2> QED
    BY <1>10, <2>1, HandleChunkOn
<1>11. CASE HandleHeader
  <2>1. UNCHANGED <<treeVars, dbVars>>
    BY <1>11 DEF HandleHeader
  <2> QED
    BY <1>0, <1>11, <2>1, HandleHeaderOn
<1>12. CASE CloseStream
  <2>1. UNCHANGED treeVars
    BY <1>12 DEF CloseStream
  <2> QED
    BY <1>12, <2>1, CloseStreamOn
<1>13. ASSUME NEW f \in Heights, FetchTime(f) PROVE Goal
  <2>1. Rests(a)
    BY <1>13 DEF FetchTime, Rests, SyncHeight
  <2> QED
    BY <1>13, <2>1, FetchTimeOn
<1>14. CASE EndSegment
  <2>1. UNCHANGED <<treeVars, dbVars>>
    BY <1>14 DEF EndSegment
  <2> QED
    BY <1>0, <1>14, <2>1, EndSegmentOn
<1>15. ASSUME NEW b \in Account, NEW f \in Heights, UserRewind(b, f) PROVE Goal
  <2>1. b = a
    BY DEF OneShielded
  <2>2. UNCHANGED treeVars
    BY <1>15 DEF UserRewind
  <2> QED
    BY <1>15, <2>1, <2>2, UserRewindOn
<1>16. ASSUME NEW b \in Account, UserReset(b) PROVE Goal
  <2>1. b = a
    BY DEF OneShielded
  <2>2. UNCHANGED treeVars
    BY <1>16 DEF UserReset
  <2> QED
    BY <1>16, <2>1, <2>2, UserResetOn
<1>17. CASE UNCHANGED vars
  BY <1>17, IdleOn
<1> QED
  BY <1>1, <1>2, <1>3, <1>4, <1>5, <1>6, <1>7, <1>8, <1>9, <1>10, <1>11, <1>12, <1>13, <1>14, <1>15,
     <1>16, <1>17 DEF Next, Synchronize, Begin, Scan, Writer, Times

LEMMA StepHeaders ==
    ASSUME OneShielded, PromiseInv, Typed', [Next]_vars,
           NEW a \in Account, NEW p \in Paths, NEW h \in Heights, On(a, p, h)
    PROVE  /\ HeadersKnown'
           /\ left["rewind"] = 0 =>
                \A k \in Heights : k <= h /\ headers[k] # NoBlock => headers'[k] # NoBlock
<1> DEFINE Kept0 == left["rewind"] = 0 =>
                \A k \in Heights : k <= h /\ headers[k] # NoBlock => headers'[k] # NoBlock
           Goal == HeadersKnown' /\ Kept0
<1> SUFFICES Goal
  OBVIOUS
<1>1. TreeInv /\ HeadersKnown /\ Typed /\ left["midrewind"] = 0
  BY DEF PromiseInv, Follows, SpendsInv, RowsInv
<1>2. ASSUME UNCHANGED <<treeVars, headers>> PROVE Goal
  BY <1>1, <1>2, HeadersOnPaths
<1>3. CASE NodeStep
  <2>1. UNCHANGED headers
    BY <1>3 DEF NodeStep, dbVars
  <2> QED
    BY <1>1, <1>3, <2>1, NodeStepHeaders
<1>4. ASSUME NEW S \in SUBSET Account, StartSync(S) PROVE Goal
  BY <1>2, <1>4 DEF StartSync
<1>5. CASE Recover \/ BeginSegment \/ ScanDone \/ OpenStream \/ RequestFails \/ FailChunk \/ Abort
  BY <1>2, <1>5 DEF Recover, BeginSegment, ScanDone, OpenStream, RequestFails, FailChunk, Abort, dbVars
<1>6. ASSUME NEW b \in Account, NEW i \in AddrIndexes, NEW upto \in Heights, ScanAddress(b, i, upto)
      PROVE  Goal
  BY <1>2, <1>6 DEF ScanAddress
<1>7. CASE Reader \/ StopReader \/ HandleHeader \/ EndSegment
  BY <1>2, <1>7 DEF Reader, ReadBlock, DetectReorg, EndOfStream, StopReader, HandleHeader, EndSegment, dbVars
<1>8. CASE HandleChunk
  <2>1. PICK m, u : m = Head(chan) /\ u = Upto(m)
    OBVIOUS
  <2>2. u \in Nat /\ UNCHANGED treeVars
    <3>1. Arriving("chunk") /\ UNCHANGED treeVars
      BY <1>8 DEF HandleChunk
    <3>2. Upto(m) \in 1..Len(p)
      BY <2>1, <3>1, FirstChunk
    <3> QED
      BY <2>1, <3>1, <3>2, PathFacts DEF PromiseInv, SpendsInv
  <2>3. \A k \in Heights : /\ headers[k] # NoBlock => headers'[k] = headers[k]
                           /\ headers[k] = NoBlock => headers'[k] \in {NoBlock, p[k]}
                           /\ headers'[k] # headers[k] => k \in 1..Len(p)
    BY <1>8, <2>1, <2>2, ChunkHeader
  <2>4. HeadersKnown'
    BY <1>1, <2>2, <2>3, HeadersOnPaths
  <2> QED
    BY <2>3, <2>4
<1>9. CASE CloseStream
  BY <1>9, CloseStreamHeaders
<1>10. ASSUME NEW f \in Heights, FetchTime(f) PROVE Goal
  <2>1. \A k \in Heights : headers[k] # NoBlock => headers'[k] = headers[k]
    BY <1>10 DEF FetchTime, StoreHeaders
  <2> QED
    BY <1>10, <2>1, FetchTimeHeaders
<1>11. ASSUME NEW b \in Account, NEW f \in Heights, UserRewind(b, f) PROVE Goal
  <2>1. /\ UNCHANGED treeVars /\ left["rewind"] > 0
        /\ \A k \in Heights : headers'[k] \in {NoBlock, headers[k]}
    BY <1>1, <1>11 DEF UserRewind, UserFault, Fault, Rewind
  <2>2. HeadersKnown'
    BY <1>1, <2>1, HeadersOnPaths
  <2> QED
    BY <2>1, <2>2
<1>12. ASSUME NEW b \in Account, UserReset(b) PROVE Goal
  BY <1>2, <1>12 DEF UserReset
<1>13. CASE UNCHANGED vars
  BY <1>2, <1>13 DEF vars, dbVars
<1> QED
  BY <1>3, <1>4, <1>5, <1>6, <1>7, <1>8, <1>9, <1>10, <1>11, <1>12, <1>13
     DEF Next, Synchronize, Begin, Scan, Writer, Times

LEMMA StepFollows ==
    ASSUME OneShielded, PromiseInv, Typed', [Next]_vars
    PROVE  Follows'
<1>1. Typed /\ Follows /\ "midrewind" \in FaultKinds /\ "rewind" \in FaultKinds
  BY DEF PromiseInv, SpendsInv, RowsInv, FaultKinds
<1>2. left'["midrewind"] = 0
  BY <1>1, FaultsOnlyEnd DEF Follows
<1>3. ASSUME NEW a \in Account
      PROVE  HeadersKnown' /\ BirthKnown(a)' /\ \E p \in Paths', h \in Heights : On(a, p, h)'
  <2>1. PICK p \in Paths, h \in Heights : On(a, p, h)
    BY <1>1 DEF Follows
  <2>2. /\ HeadersKnown'
        /\ left["rewind"] = 0 =>
             \A k \in Heights : k <= h /\ headers[k] # NoBlock => headers'[k] # NoBlock
    BY <2>1, StepHeaders
  <2>3. Birth[a] \in Heights /\ Birth[a] <= h
    BY <2>1, Bounds DEF On, Standing
  <2>4. BirthKnown(a)'
    BY <1>1, <2>2, <2>3, FaultsOnlyEnd DEF Follows, BirthKnown
  <2> QED
    BY <2>1, <2>2, <2>4, StepOn
<1>4. HeadersKnown'
  <2>1. PICK a \in Account : TRUE
    BY DEF OneShielded
  <2> QED
    BY <1>3, <2>1
<1> QED
  BY <1>2, <1>3, <1>4 DEF Follows

LEMMA StepPromise ==
    ASSUME OneShielded, PromiseInv, [Next]_vars
    PROVE  /\ PromiseInv'
           /\ \A a \in Account : NodeStep \/ Rests(a) \/ (MovesAlong(a) /\ UNCHANGED treeVars)
<1>1. SpendsInv' /\ Typed'
  BY StepSpends DEF PromiseInv, SpendsInv, RowsInv
<1>2. Follows'
  BY <1>1, StepFollows
<1>3. \A a \in Account : NodeStep \/ Rests(a) \/ (MovesAlong(a) /\ UNCHANGED treeVars)
  BY <1>1, StepOn DEF PromiseInv, Follows
<1>4. TreeOnce'
  <2>1. PICK a \in Account : TRUE
    BY DEF OneShielded
  <2>2. CASE NodeStep
    <3>1. CASE \E mints, spends \in SUBSET Note : Mine(mints, spends)
      BY <3>1, MineOnce DEF PromiseInv, SpendsInv, TreeInv
    <3>2. CASE \E fork \in Heights : Orphan(fork)
      BY <3>2, SameBlocksOnce DEF PromiseInv, Orphan
    <3> QED
      BY <2>2, <3>1, <3>2 DEF NodeStep
  <2>3. CASE UNCHANGED treeVars
    BY <2>3, SameBlocksOnce DEF PromiseInv, treeVars
  <2> QED
    BY <1>3, <2>1, <2>2, <2>3 DEF Rests
<1> QED
  BY <1>1, <1>2, <1>3, <1>4 DEF PromiseInv

(* The account stands on the block of its birth height. *)
LEMMA InitPromise ==
    ASSUME OneShielded, Init
    PROVE  PromiseInv /\ \A a \in Account : Standing(a, PathOf(Birth[a]), Birth[a])
<1>1. SpendsInv /\ TreeOnce /\ TreeInv
  BY InitSpends, TreeInitOnce DEF Init, SpendsInv
<1>2. /\ InitHeight \in Nat /\ InitHeight >= 1 /\ InitHeight <= MaxHeight
      /\ blocks = [i \in 1..InitHeight |-> [path |-> [k \in 1..i |-> k], mints |-> {}, spends |-> {}]]
  BY BlockTreeAssumption DEF Init, TreeInit
<1>3. Len(blocks) = InitHeight
  BY <1>2
<1>4. ASSUME NEW i \in 1..InitHeight
      PROVE  Len(PathOf(i)) = i /\ PathOf(i) \in Paths /\ \A k \in 1..i : PathOf(i)[k] = k
  <2>1. PathOf(i) = [k \in 1..i |-> k] /\ i \in Nat
    BY <1>2, <1>4 DEF PathOf
  <2>2. Len(PathOf(i)) = i
    BY <2>1
  <2> QED
    BY <1>3, <2>1, <2>2 DEF Paths
<1>5. \A a \in Account : Birth[a] \in 1..InitHeight
  BY BlockTreeAssumption
<1>6. HeadersKnown
  <2>1. \A k \in Heights : headers[k] # NoBlock => headers[k] = k /\ k \in 1..InitHeight
    BY <1>5, WarpSyncAssumption DEF Init
  <2> QED
    BY <1>3, <1>4, <2>1 DEF HeadersKnown
<1>7. left["midrewind"] = 0
  BY DEF Init, OneShielded
<1>8. ASSUME NEW a \in Account PROVE BirthKnown(a)
  <2>1. Birth[a] \in Heights /\ Birth[a] # NoBlock
    BY <1>2, <1>5, Bounds DEF NoBlock
  <2> QED
    BY <2>1 DEF Init, BirthKnown
<1>9. ASSUME NEW a \in Account
      PROVE  Standing(a, PathOf(Birth[a]), Birth[a]) /\ On(a, PathOf(Birth[a]), Birth[a])
  <2>1. PICK p, h : p = PathOf(Birth[a]) /\ h = Birth[a]
    OBVIOUS
  <2>2. h \in Nat /\ h >= 1 /\ Len(p) = h
    BY <1>4, <1>5, <2>1
  <2>3. \A n \in Note : noted[n] = 0 /\ spent[n] = 0 /\ Owner[n] = a
    BY OneAccount DEF Init
  <2>4. RowsFollow(p, h)
    BY <2>1, <2>2, <2>3 DEF RowsFollow, NoteFollows
  <2>5. CheckpointsFollow(a, p, h)
    <3>1. witnesses = {}
      BY DEF Init
    <3> QED
      BY <2>1, <2>2, <2>3, <3>1 DEF CheckpointsFollow, Marks, LiveAt
  <2>6. \A q \in PoolsOf[a] : height[a][q] = h
    BY <2>1 DEF Init
  <2>7. Standing(a, p, h)
    BY <2>1, <2>2, <2>4, <2>5, <2>6 DEF Standing
  <2>8. pc = "idle" /\ pend = NoHeaders
    BY DEF Init
  <2>9. On(a, p, h)
    BY <2>2, <2>7, <2>8 DEF On, RunFollows, InSegment
  <2> QED
    BY <2>1, <2>7, <2>9
<1>10. Follows
  <2>1. \A a \in Account : PathOf(Birth[a]) \in Paths /\ Birth[a] \in Heights
    BY <1>2, <1>4, <1>5, Bounds
  <2> QED
    BY <1>6, <1>7, <1>8, <1>9, <2>1 DEF Follows
<1> QED
  BY <1>1, <1>9, <1>10 DEF PromiseInv

-------------------------------------------------------------------------------
(* What an account shows *)

LEMMA RowShown ==
    ASSUME TreeInv, TreeOnce, NEW p \in Paths, NEW h \in 1..Len(p),
           NEW n \in Note, NEW no, NEW sp, RowFollows(n, no, sp, p, h)
    PROVE  /\ MintHeight(n, PathOf(p[h]), Birth[Owner[n]]) = no
           /\ no # 0 => SpendHeight(n, PathOf(p[h]), no) = sp
           /\ no = 0 => sp = 0
           /\ no # 0 => no \in 1..h
           /\ sp # 0 => sp \in 1..h
<1>1. TreeInv /\ OnceOn(p) /\ Birth[Owner[n]] \in Nat /\ Len(p) \in Nat /\ h \in Nat
  BY PathFacts, Bounds DEF TreeOnce, Paths
<1>2. PICK q : q = PathOf(p[h])
  OBVIOUS
<1>3. q \in Seq(Nat) /\ Len(q) = h /\ \A j \in 1..h : q[j] = p[j]
  BY <1>1, <1>2, PathFacts
<1>4. DOMAIN q = 1..h
  BY <1>3
<1>5. PICK M : M = {k \in DOMAIN q : k > Birth[Owner[n]] /\ n \in blocks[q[k]].mints}
  OBVIOUS
<1>6. M = {k \in 1..h : k > Birth[Owner[n]] /\ n \in blocks[p[k]].mints}
  BY <1>3, <1>4, <1>5
<1>7. MintHeight(n, q, Birth[Owner[n]]) = IF M = {} THEN 0 ELSE CHOOSE k \in M : TRUE
  BY <1>5 DEF MintHeight
<1>8. MintHeight(n, q, Birth[Owner[n]]) = no /\ (no # 0 => no \in 1..h)
  <2>1. CASE no = 0
    <3>1. M = {}
      <4>1. \A k \in 1..h : k > Birth[Owner[n]] => k \in (Birth[Owner[n]] + 1)..h
        BY <1>1
      <4> QED
        BY <1>1, <1>6, <2>1, <4>1 DEF RowFollows
    <3> QED
      BY <1>7, <2>1, <3>1
  <2>2. CASE no # 0
    <3>1. no \in 1..h /\ no > Birth[Owner[n]] /\ n \in blocks[p[no]].mints
      BY <1>1, <2>2 DEF RowFollows
    <3>2. \A k \in 1..h : n \in blocks[p[k]].mints => k = no
      BY <1>1, <3>1 DEF OnceOn
    <3>3. M = {no}
      BY <1>6, <3>1, <3>2
    <3> QED
      BY <1>7, <3>1, <3>3
  <2> QED
    BY <2>1, <2>2
<1>9. no # 0 => SpendHeight(n, q, no) = sp
  <2> SUFFICES ASSUME no # 0 PROVE SpendHeight(n, q, no) = sp
    OBVIOUS
  <2>1. PICK S : S = {k \in DOMAIN q : k > no /\ n \in blocks[q[k]].spends}
    OBVIOUS
  <2>2. S = {k \in 1..h : k > no /\ n \in blocks[p[k]].spends}
    BY <1>3, <1>4, <2>1
  <2>3. SpendHeight(n, q, no) = IF S = {} THEN 0 ELSE CHOOSE k \in S : TRUE
    BY <2>1 DEF SpendHeight
  <2>4. CASE sp = 0
    <3>1. \A k \in 1..h : k > no => k \in (no + 1)..h
      BY <1>8
    <3>2. S = {}
      BY <2>2, <2>4, <3>1 DEF RowFollows
    <3> QED
      BY <2>3, <2>4, <3>2
  <2>5. CASE sp # 0
    <3>1. sp \in 1..h /\ sp > no /\ n \in blocks[p[sp]].spends
      BY <1>8, <2>5 DEF RowFollows
    <3>2. \A k \in 1..h : n \in blocks[p[k]].spends => k = sp
      BY <1>1, <3>1 DEF OnceOn
    <3>3. S = {sp}
      BY <2>2, <3>1, <3>2
    <3> QED
      BY <2>3, <3>3
  <2> QED
    BY <2>4, <2>5
<1>10. (no = 0 => sp = 0) /\ (sp # 0 => sp \in 1..h)
  BY <1>8 DEF RowFollows
<1> QED
  BY <1>2, <1>8, <1>9, <1>10

(* the view of an account with given rows at a height: those above it are  *)
(* not shown                                                               *)
Shown(a, N, S, h) ==
    LET shown == {n \in Note : Owner[n] = a /\ N[n] \in 1..h}
    IN  [height |-> h,
         noted  |-> [n \in Note |-> IF n \in shown THEN N[n] ELSE 0],
         spent  |-> [n \in Note |-> IF n \in shown /\ S[n] <= h THEN S[n] ELSE 0]]

LEMMA ContentsShown ==
    ASSUME TreeInv, TreeOnce, NEW a \in Account, NEW p \in Paths, NEW h \in 1..Len(p), Birth[a] <= h,
           NEW N, NEW S, \A n \in Note : N[n] \in Nat /\ S[n] \in Nat,
           \A n \in Note : Owner[n] = a => \E k \in h..Len(p) : RowFollows(n, N[n], S[n], p, k)
    PROVE  /\ Promise!Contents(a, p[h]) = Shown(a, N, S, h)
           /\ p[h] \in Promise!Positions(a, Shown(a, N, S, h))
<1>1. p[h] \in 1..Len(blocks) /\ Len(PathOf(p[h])) = h /\ OnceOn(p) /\ Len(p) \in Nat /\ h \in Nat
  BY PathFacts DEF TreeOnce, Paths
<1>2. PICK i : i = p[h]
  OBVIOUS
<1>3. Promise!PathOf(i) = PathOf(i)
  BY DEF Promise!PathOf, PathOf
<1>4. \A n, q, b : /\ Promise!MintHeight(n, q, b) = MintHeight(n, q, b)
                   /\ Promise!SpendHeight(n, q, b) = SpendHeight(n, q, b)
  BY DEF Promise!MintHeight, Promise!SpendHeight, MintHeight, SpendHeight
<1>5. PICK shown : shown = {n \in Note : Owner[n] = a /\ N[n] \in 1..h}
  OBVIOUS
<1> DEFINE no(n) == IF n \in shown THEN N[n] ELSE 0
           sp(n) == IF n \in shown /\ S[n] <= h THEN S[n] ELSE 0
           mint == [n \in Note |-> IF Owner[n] = a THEN MintHeight(n, PathOf(i), Birth[a]) ELSE 0]
<1>6. ASSUME NEW n \in Note, Owner[n] = a PROVE RowFollows(n, no(n), sp(n), p, h)
  <2>1. PICK k \in h..Len(p) : RowFollows(n, N[n], S[n], p, k)
    BY <1>6
  <2>2. PICK no2, sp2 : no2 = (IF N[n] > h THEN 0 ELSE N[n]) /\ sp2 = IF S[n] > h THEN 0 ELSE S[n]
    OBVIOUS
  <2>3. Birth[Owner[n]] \in Nat /\ Birth[Owner[n]] <= h /\ k \in Nat /\ k <= Len(p) /\ h <= k
    BY <1>1, <1>6, Bounds
  <2>4. RowFollows(n, no2, sp2, p, h)
    BY <1>1, <2>1, <2>2, <2>3, TrimmedRow
  <2>5. no2 = 0 => sp2 = 0
    BY <2>4 DEF RowFollows
  <2>6. no(n) = no2 /\ sp(n) = sp2
    BY <1>1, <1>5, <1>6, <2>2, <2>5
  <2> QED
    BY <2>4, <2>6
<1>7. ASSUME NEW n \in Note, Owner[n] # a PROVE no(n) = 0 /\ sp(n) = 0
  BY <1>5, <1>7
<1> HIDE DEF no, sp
<1>8. ASSUME NEW n \in Note
      PROVE  mint[n] = no(n) /\ (IF mint[n] # 0 THEN SpendHeight(n, PathOf(i), mint[n]) ELSE 0) = sp(n)
  <2>1. CASE Owner[n] = a
    BY <1>2, <1>6, <2>1, RowShown
  <2>2. CASE Owner[n] # a
    BY <1>7, <2>2
  <2> QED
    BY <2>1, <2>2
<1>9. Promise!Contents(a, i) = [height |-> Len(PathOf(i)), noted |-> mint,
         spent |-> [n \in Note |-> IF mint[n] # 0 THEN SpendHeight(n, PathOf(i), mint[n]) ELSE 0]]
  BY <1>3, <1>4 DEF Promise!Contents
<1>10. mint = [n \in Note |-> no(n)]
  BY <1>8
<1>11. [n \in Note |-> IF mint[n] # 0 THEN SpendHeight(n, PathOf(i), mint[n]) ELSE 0] = [n \in Note |-> sp(n)]
  BY <1>8
<1>12. Shown(a, N, S, h) = [height |-> h, noted |-> [n \in Note |-> no(n)], spent |-> [n \in Note |-> sp(n)]]
  BY <1>5 DEF Shown, no, sp
<1> HIDE DEF mint
<1>13. Promise!Contents(a, i) = Shown(a, N, S, h)
  BY <1>1, <1>2, <1>9, <1>10, <1>11, <1>12
<1> QED
  BY <1>1, <1>2, <1>3, <1>12, <1>13 DEF Promise!Positions

LEMMA ViewShown ==
    ASSUME OneShielded, PromiseInv, NEW a \in Account, NEW p \in Paths, NEW h \in Heights, Standing(a, p, h)
    PROVE  /\ h \in 1..Len(p) /\ View(a) = Promise!Contents(a, p[h])
           /\ p[h] \in Promise!Positions(a, View(a))
<1>1. h \in 1..Len(p) /\ SyncHeight(a) = h /\ Birth[a] <= h /\ h \in h..Len(p)
  <2>1. h \in Nat /\ SyncHeight(a) = h
    BY StandingHeight, Bounds
  <2>2. Birth[a] \in 1..MaxHeight /\ Len(p) \in Nat
    BY OneAccount, PathFacts, Bounds DEF PromiseInv, SpendsInv
  <2>3. Birth[a] <= h /\ h <= Len(p)
    BY DEF Standing
  <2> QED
    BY <2>1, <2>2, <2>3
<1>2. \A n \in Note : RowFollows(n, noted[n], spent[n], p, h)
  BY DEF Standing, RowsFollow, NoteFollows, RowFollows
<1>3. \A n \in Note : noted[n] \in Nat /\ spent[n] \in Nat
  BY RunNumbers DEF PromiseInv, SpendsInv, RowsInv
<1>4. View(a) = Shown(a, noted, spent, h)
  BY <1>1 DEF View, Shown
<1> QED
  BY <1>1, <1>2, <1>3, <1>4, ContentsShown DEF PromiseInv, SpendsInv

LEMMA ViewShownNext ==
    ASSUME OneShielded, PromiseInv, Typed', UNCHANGED treeVars,
           NEW a \in Account, NEW p \in Paths, NEW h \in Heights, Standing(a, p, h)'
    PROVE  h \in 1..Len(p) /\ p[h] \in Promise!Positions(a, View(a)')
<1>1. h \in 1..Len(p) /\ SyncHeight(a)' = h /\ Birth[a] <= h /\ h \in h..Len(p)
  <2>1. h \in Nat /\ SyncHeight(a)' = h
    BY StandingHeightNext, Bounds
  <2>2. Birth[a] \in 1..MaxHeight /\ Len(p) \in Nat
    BY OneAccount, PathFacts, Bounds DEF PromiseInv, SpendsInv
  <2>3. Birth[a] <= h /\ h <= Len(p)
    BY DEF Standing
  <2> QED
    BY <2>1, <2>2, <2>3
<1>2. \A n \in Note : RowFollows(n, noted'[n], spent'[n], p, h)
  BY DEF Standing, RowsFollow, NoteFollows, RowFollows, treeVars
<1>3. \A n \in Note : noted'[n] \in Nat /\ spent'[n] \in Nat
  BY Bounds DEF Typed, TypeOK, DatabaseTypes
<1>4. View(a)' = Shown(a, noted', spent', h)
  BY <1>1 DEF View, Shown
<1> QED
  BY <1>1, <1>2, <1>3, <1>4, ContentsShown DEF PromiseInv, SpendsInv

(* Two blocks of a path are on the same branch.                            *)
LEMMA OfOnePath ==
    ASSUME TreeInv, NEW p \in Paths, NEW h \in 1..Len(p), NEW k \in 1..Len(p)
    PROVE  Promise!SameBranch(p[h], p[k])
<1>1. /\ Len(PathOf(p[h])) = h /\ \A j \in 1..h : PathOf(p[h])[j] = p[j]
      /\ Len(PathOf(p[k])) = k /\ \A j \in 1..k : PathOf(p[k])[j] = p[j]
      /\ Len(p) \in Nat
  BY PathFacts
<1>2. PICK i, j : i = p[h] /\ j = p[k]
  OBVIOUS
<1>3. Promise!PathOf(i) = PathOf(i) /\ Promise!PathOf(j) = PathOf(j)
  BY DEF Promise!PathOf, PathOf
<1>4. h <= k => h \in 1..k /\ PathOf(j)[h] = i
  BY <1>1, <1>2
<1>5. k <= h => k \in 1..h /\ PathOf(i)[k] = j
  BY <1>1, <1>2
<1>6. h <= k \/ k <= h
  BY <1>1
<1> QED
  BY <1>1, <1>2, <1>3, <1>4, <1>5, <1>6 DEF Promise!SameBranch

(* A commit moves the account along a branch.                              *)
LEMMA Moving ==
    ASSUME OneShielded, PromiseInv, Typed', UNCHANGED treeVars, NEW a \in Account, MovesAlong(a)
    PROVE  \E i \in Promise!Positions(a, Views[a]), j \in Promise!Positions(a, Views'[a]) :
              Promise!SameBranch(i, j)
<1>1. PICK p \in Paths, h \in Heights, k \in Heights : Standing(a, p, h) /\ Standing(a, p, k)'
  BY DEF MovesAlong
<1>2. Views[a] = View(a) /\ Views'[a] = View(a)'
  BY DEF Views
<1>3. h \in 1..Len(p) /\ p[h] \in Promise!Positions(a, View(a))
  BY <1>1, ViewShown
<1>4. k \in 1..Len(p) /\ p[k] \in Promise!Positions(a, View(a)')
  BY <1>1, ViewShownNext
<1>5. Promise!SameBranch(p[h], p[k])
  BY <1>3, <1>4, OfOnePath DEF PromiseInv, SpendsInv
<1> QED
  BY <1>2, <1>3, <1>4, <1>5

LEMMA InitMaps ==
    ASSUME OneShielded, Init
    PROVE  Promise!ViewInit
<1>1. PromiseInv /\ TreeInit
  BY InitPromise DEF Init
<1>2. ASSUME NEW a \in Account PROVE View(a) = Promise!Contents(a, Birth[a])
  <2>1. PICK p, h : p = PathOf(Birth[a]) /\ h = Birth[a]
    OBVIOUS
  <2>2. /\ Standing(a, p, h) /\ h \in 1..InitHeight /\ InitHeight <= MaxHeight
        /\ InitHeight \in Nat /\ MaxHeight \in Nat
    BY <2>1, InitPromise, BlockTreeAssumption
  <2>3. p = [k \in 1..h |-> k] /\ h \in 1..Len(blocks)
    BY <2>1, <2>2 DEF PathOf, Init, TreeInit
  <2>4. p \in Paths /\ h \in Heights /\ p[h] = h
    <3>1. p \in Paths
      BY <2>1, <2>3 DEF Paths
    <3>2. h \in Heights /\ h \in 1..h
      BY <2>2 DEF Heights
    <3> QED
      BY <2>3, <3>1, <3>2
  <2> QED
    BY <1>1, <2>1, <2>2, <2>4, ViewShown
<1>3. Promise!TreeInit
  BY <1>1 DEF TreeInit, Promise!TreeInit
<1> QED
  BY <1>2, <1>3 DEF Promise!ViewInit, Views

(* A step of the node is one of the promise.                               *)
LEMMA NodeStepMaps ==
    ASSUME NodeStep
    PROVE  Promise!ViewNext
<1>1. UNCHANGED Views
  BY DEF NodeStep, dbVars, Views, View, SyncHeight
<1>2. \A mints, spends \in SUBSET Note : Mine(mints, spends) => Promise!Mine(mints, spends)
  <2>1. Promise!Chain = Chain
    BY DEF Chain, PathOf, Promise!Chain, Promise!PathOf
  <2>2. Promise!Tip = Tip
    BY <2>1 DEF Tip, Promise!Tip
  <2>3. \A q : Promise!MintedOn(q) = MintedOn(q) /\ Promise!SpentOn(q) = SpentOn(q)
    BY DEF MintedOn, SpentOn, Promise!MintedOn, Promise!SpentOn
  <2>4. /\ Promise!MintedOn(Promise!Chain) = MintedOn(Chain)
        /\ Promise!SpentOn(Promise!Chain) = SpentOn(Chain)
    BY <2>1, <2>3
  <2>5. \A S : Promise!Cardinality(S) = Cardinality(S)
    BY DEF Promise!Cardinality, Cardinality
  <2>6. ASSUME NEW mints \in SUBSET Note, NEW spends \in SUBSET Note, Mine(mints, spends)
        PROVE  Promise!Mine(mints, spends)
    BY <2>1, <2>2, <2>4, <2>5, <2>6 DEF Mine, Promise!Mine
  <2> QED
    BY <2>6
<1>3. \A fork \in Heights : Orphan(fork) => Promise!Orphan(fork)
  BY DEF Orphan, Promise!Orphan, Chain, Tip, PathOf, Promise!Chain, Promise!Tip, Promise!PathOf
<1>4. Promise!Heights = Heights
  BY DEF Promise!Heights, Heights
<1> QED
  BY <1>1, <1>2, <1>3, <1>4 DEF NodeStep, Promise!NodeStep, Promise!ViewNext

LEMMA StepMaps ==
    ASSUME OneShielded, PromiseInv, [Next]_vars
    PROVE  [Promise!ViewNext]_(Promise!viewVars)
<1>1. CASE NodeStep
  BY <1>1, NodeStepMaps
<1>2. CASE ~NodeStep
  <2>1. \A a \in Account : Rests(a) \/ (MovesAlong(a) /\ UNCHANGED treeVars)
    BY <1>2, StepPromise
  <2>2. UNCHANGED treeVars
    BY <2>1 DEF OneShielded, Rests
  <2>3. ASSUME NEW a \in Account
        PROVE  \/ Views'[a] = Views[a]
               \/ \E i \in Promise!Positions(a, Views[a]), j \in Promise!Positions(a, Views'[a]) :
                     Promise!SameBranch(i, j)
    <3>1. CASE Rests(a)
      BY <3>1 DEF Rests, Views, View
    <3> QED
      BY <2>1, <2>2, <3>1, StepSpends, Moving DEF PromiseInv, SpendsInv, RowsInv
  <2>4. DOMAIN Views' = Account
    BY DEF Views
  <2>5. UNCHANGED Promise!treeVars
    BY <2>2 DEF treeVars, Promise!treeVars
  <2> QED
    BY <2>3, <2>4, <2>5 DEF Promise!Move, Promise!ViewNext
<1> QED
  BY <1>1, <1>2

-------------------------------------------------------------------------------
(* The theorems *)

LEMMA AlwaysPromise == ASSUME OneShielded PROVE Spec => []PromiseInv
<1>1. Init => PromiseInv
  BY InitPromise
<1>2. PromiseInv /\ [Next]_vars => PromiseInv'
  BY StepPromise
<1> QED
  BY <1>1, <1>2, PTL DEF Spec

(* Whatever the chain does, and wherever a run is cut, stopped or lost:    *)
(* what the account shows is always what one block and its ancestors       *)
(* contain, and a commit of synchronize_impl, or a rewind, only moves it   *)
(* along the branch of that block.  No block is skipped and no two         *)
(* branches are mixed, although a run reads the chain in several requests. *)
THEOREM SyncKeepsPromise == ASSUME OneShielded PROVE Spec => ImplementsPromise
<1>1. Init => Promise!ViewInit
  BY InitMaps
<1>2. PromiseInv /\ [Next]_vars => [Promise!ViewNext]_(Promise!viewVars)
  BY StepMaps
<1>3. Spec => []PromiseInv
  BY AlwaysPromise
<1> QED
  BY <1>1, <1>2, <1>3, PTL DEF Spec, ImplementsPromise, Promise!ViewSpec

(* A chunk that arrives at db_writer can be written: the unique keys of    *)
(* notes, witnesses and spends and the assertions of handle_message never  *)
(* end a run, whichever run was interrupted before.                        *)
THEOREM EveryChunkFits == ASSUME OneShielded PROVE Spec => []ChunksFit
<1>1. PromiseInv => ChunksFit
  <2> SUFFICES ASSUME PromiseInv, Arriving("chunk") PROVE ~ChunkFails(Head(chan))
    BY DEF ChunksFit
  <2>1. PICK a \in Account : TRUE
    BY DEF OneShielded
  <2>2. PICK p \in Paths, h \in Heights : On(a, p, h)
    BY DEF PromiseInv, Follows
  <2> QED
    BY <2>2, ChunkFits
<1> QED
  BY <1>1, AlwaysPromise, PTL

(* The check of check_witness_consistency holds at any time, also while a  *)
(* run is on its way and after it was interrupted: each unspent note has a *)
(* witness at the height of its account.                                   *)
THEOREM UnspentHaveWitness == ASSUME OneShielded PROVE Spec => []NotesHaveWitness
<1>1. PromiseInv => NotesHaveWitness
  <2> SUFFICES ASSUME PromiseInv, NEW n \in Note, Unspent(n)
               PROVE  RootAt(n, height[Owner[n]][PoolOf[n]]) # 0
    BY DEF NotesHaveWitness
  <2>1. PICK a \in Account : a = Owner[n]
    BY Bounds
  <2>2. PICK p \in Paths, h \in Heights : Standing(a, p, h)
    BY DEF PromiseInv, Follows, On
  <2>3. height[a][PoolOf[n]] = h
    BY <2>1, <2>2, WarpSyncAssumption DEF Standing
  <2> QED
    BY <2>1, <2>2, <2>3, RootOfRow, Bounds
<1> QED
  BY <1>1, AlwaysPromise, PTL

(* With a birth block that is known or out of the reach of reorganizations *)
(* every witness of an unspent note at the height of the account leads to  *)
(* the tree of the one block the account stands on: the anchor of a        *)
(* transaction is that of a block, and all inputs agree on it.             *)
THEOREM WitnessesAgree == ASSUME OneShielded, BirthFixed PROVE Spec => []WitnessesUsable
<1>1. PromiseInv => WitnessesUsable
  <2> SUFFICES ASSUME PromiseInv, NEW n \in Note, Unspent(n)
               PROVE  RootAt(n, SyncHeight(Owner[n])) \in Promise!Positions(Owner[n], View(Owner[n]))
    BY DEF WitnessesUsable
  <2>1. PICK a \in Account : a = Owner[n]
    BY Bounds
  <2>2. PICK p \in Paths, h \in Heights : Standing(a, p, h)
    BY DEF PromiseInv, Follows, On
  <2>3. SyncHeight(a) = h /\ RootAt(n, h) = p[h]
    BY <2>2, StandingHeight, RootOfRow, Bounds
  <2>4. p[h] \in Promise!Positions(a, View(a))
    BY <2>2, ViewShown
  <2> QED
    BY <2>1, <2>3, <2>4
<1> QED
  BY <1>1, AlwaysPromise, PTL

(* When the birth block is cached and the user does not rewind, the header *)
(* that get_db_height joins with the height of the account is there        *)
(* whenever no run is on its way.                                          *)
THEOREM HeaderOfHeight ==
    ASSUME OneShielded, BirthCached = Account, Faults["rewind"] = 0
    PROVE  Spec => []HeightHasHeader
<1>1. PromiseInv => HeightHasHeader
  <2> SUFFICES ASSUME PromiseInv, NEW a \in Account PROVE headers[SyncHeight(a)] # NoBlock
    BY DEF HeightHasHeader
  <2>1. PICK p \in Paths, h \in Heights : Standing(a, p, h)
    BY DEF PromiseInv, Follows, On
  <2>2. SyncHeight(a) = h /\ h \in Marks(h) /\ Birth[a] <= h /\ h \in Nat /\ Birth[a] \in Nat
    BY <2>1, StandingHeight, OneAccount, Bounds DEF Standing, Marks
  <2>3. CASE h > Birth[a]
    BY <2>1, <2>2, <2>3 DEF Standing, CheckpointsFollow, HeaderOn
  <2>4. CASE h = Birth[a]
    BY <2>2, <2>4 DEF PromiseInv, Follows, BirthKnown
  <2> QED
    BY <2>2, <2>3, <2>4
<1> QED
  BY <1>1, AlwaysPromise, PTL

-------------------------------------------------------------------------------
(* Several accounts, with any pools, at different heights.                 *)

(* Nothing disturbs a run but crashes: the node abandons no block, no      *)
(* stream is cut short, and nobody cancels it or rewinds meanwhile.        *)
Undisturbed ==
    /\ NoReorgs
    /\ \A k \in {"stop", "cut", "scancut", "midrewind"} : Faults[k] = 0

(* The addresses of an account are all those that received its notes, and  *)
(* an account with no other pool has one.                                  *)
AddressesKnown ==
    \A a \in Account :
        /\ \A n \in TransparentOf(a) : \E i \in DOMAIN AddrsOf[a] : AddrsOf[a][i] = AddrOf[n]
        /\ 0 \in PoolsOf[a] => AddrsOf[a] # <<>>
        /\ PoolsOf[a] = {0} => \A i, j \in DOMAIN AddrsOf[a] : i = j

ShieldedOf(a) == {n \in Note : PoolOf[n] \in Shielded /\ Owner[n] = a}
WitnessesOf(a) == {w \in witnesses : Owner[w.note] = a}
ShieldedAt(a, h) == \A q \in PoolsOf[a] \cap Shielded : height[a][q] = h

(* The checkpoints of an account up to height h, and h itself, have a      *)
(* witness of each note that was not spent, and it leads to the chain.     *)
Checkpoints(a, h) ==
    /\ \A w \in WitnessesOf(a) : /\ PoolOf[w.note] \in Shielded /\ w.root = Chain[w.height]
                                 /\ w.height \in (Birth[a] + 1)..h
    /\ \A c \in {h} \cup {w.height : w \in WitnessesOf(a)} : \A n \in ShieldedOf(a) :
          LiveAt(n, c) => \E w \in WitnessesOf(a) : w.note = n /\ w.height = c

(* The rows of the shielded pools are those of the chain up to height h.   *)
ShieldedUpto(a, h) ==
    /\ Birth[a] <= h /\ h <= Tip
    /\ ShieldedAt(a, h)
    /\ \A n \in ShieldedOf(a) : NoteFollows(n, Chain, h)
    /\ Checkpoints(a, h)

(* An account at any time: a transparent address may have been scanned     *)
(* above the height that is shown.                                         *)
AccountOn(a) ==
    /\ ShieldedUpto(a, SyncHeight(a))
    /\ \A n \in TransparentOf(a) : \E h \in SyncHeight(a)..Tip : NoteFollows(n, Chain, h)

(* An account that waits for its segment: everything is at one height.     *)
Even(a, h) ==
    /\ ShieldedUpto(a, h)
    /\ 0 \in PoolsOf[a] => height[a][0] = h
    /\ \A n \in TransparentOf(a) : NoteFollows(n, Chain, h)

(* An account of a segment whose stream has been committed up to d.        *)
ScannedTo(a, i) == IF <<a, i>> \in scan THEN seg.start - 1 ELSE seg.end

TakesPart(a, d) ==
    /\ Birth[a] < seg.start
    /\ ShieldedUpto(a, d)
    /\ 0 \in PoolsOf[a] =>
         height[a][0] = IF \A i \in DOMAIN AddrsOf[a] : <<a, i>> \in scan THEN seg.start - 1 ELSE seg.end
    /\ \A n \in TransparentOf(a) : \A i \in DOMAIN AddrsOf[a] :
          AddrsOf[a][i] = AddrOf[n] => NoteFollows(n, Chain, ScannedTo(a, i))

WaitsFor(a) == \E h \in Heights : Even(a, h) /\ resume[a] = h + 1 /\ h + 1 \in todo

(* An account of the segment before takes part again in the next one.      *)
GoesOn(a) == \E h \in Heights : Even(a, h) /\ resume[a] = h /\ h + 1 \in todo /\ \A s \in todo : h < s

PlanRight == pc = "plan" => \A a \in chosen : WaitsFor(a) \/ GoesOn(a)

(* What is read and not committed is on the chain, without a gap, and what *)
(* is tracked are the notes of the segment that are not spent.             *)
StreamRight(d) ==
    /\ next \in seg.start..(seg.end + 1)
    /\ ~reading => next = seg.end + 1 /\ buf = <<>>
    /\ MessagesFollow(Chain, d) /\ BufferFollows(Chain, d)
    /\ \A i \in 1..Len(chan) : chan[i].kind # "stop"
    /\ edge = Chain[d]
    /\ \A n \in Note : utxo[n] = IF Tracked(n) /\ Unspent(n) THEN Chain[d] ELSE 0

SegmentAt(d) ==
    /\ \A a \in seg.accounts : TakesPart(a, d)
    /\ pc \in {"scan", "open"} => d = seg.start - 1
    /\ pc = "read" => StreamRight(d)
    /\ pc = "times" => d = seg.end

SegmentRight ==
    InSegment =>
        /\ seg.end <= Tip
        /\ todo # {} => seg.end + 1 \in todo
        /\ pc # "scan" => scan = {}
        /\ \A a \in chosen \ seg.accounts : WaitsFor(a)
        /\ \E d \in (seg.start - 1)..seg.end : SegmentAt(d)

RunRight ==
    /\ pc # "idle" => target <= Tip
    /\ \A s \in todo : s - 1 <= Tip
    /\ PlanRight
    /\ SegmentRight

NoFaultLeft == \A k \in {"stop", "cut", "scancut", "midrewind"} : left[k] = 0

(* A block has a transaction that spends a note and creates another, or    *)
(* neither of the two.                                                     *)
JoinedBlocks ==
    \A id \in 1..Len(blocks) : \A n \in Note : \A c \in Outs[n] :
        c \in blocks[id].mints <=> n \in blocks[id].spends

SharedInv ==
    /\ SpendsInv /\ TreeOnce /\ OneChain /\ OwnRun
    /\ NoFaultLeft /\ JoinedBlocks
    /\ \A a \in Account : AccountOn(a)
    /\ RunRight

-------------------------------------------------------------------------------
(* The chain goes on, and what a step does not touch stays as it was.      *)
ChainGoesOn ==
    /\ Tip \in Nat /\ Tip' \in Nat /\ Tip <= Tip'
    /\ \A k \in 1..Tip : Chain'[k] = Chain[k] /\ blocks'[Chain[k]] = blocks[Chain[k]]

LEMMA OnlyNode == [Next]_vars => NodeStep \/ UNCHANGED treeVars
<1>1. ASSUME NEW a \in Account, NEW i \in AddrIndexes, NEW upto \in Heights, ScanAddress(a, i, upto)
      PROVE  UNCHANGED treeVars
  BY <1>1 DEF ScanAddress
<1>2. CASE RequestFails \/ EndSegment \/ BeginSegment \/ OpenStream \/ ScanDone \/ Recover
  BY <1>2 DEF RequestFails, EndSegment, BeginSegment, OpenStream, ScanDone, Recover
<1>3. CASE HandleChunk \/ FailChunk \/ HandleHeader \/ CloseStream \/ DetectReorg \/ EndOfStream
  BY <1>3 DEF HandleChunk, FailChunk, HandleHeader, CloseStream, DetectReorg, EndOfStream
<1>4. ASSUME NEW full \in BOOLEAN, ReadBlock(full) PROVE UNCHANGED treeVars
  BY <1>4 DEF ReadBlock
<1>5. ASSUME NEW h \in Heights, FetchTime(h) PROVE UNCHANGED treeVars
  BY <1>5 DEF FetchTime
<1>6. ASSUME NEW S \in SUBSET Account, StartSync(S) PROVE UNCHANGED treeVars
  BY <1>6 DEF StartSync
<1>7. ASSUME NEW a \in Account, NEW h \in Heights, UserRewind(a, h) PROVE UNCHANGED treeVars
  BY <1>7 DEF UserRewind
<1>8. ASSUME NEW a \in Account, UserReset(a) PROVE UNCHANGED treeVars
  BY <1>8 DEF UserReset
<1>9. CASE UNCHANGED vars \/ Abort \/ StopReader
  BY <1>9 DEF vars, Abort, StopReader
<1> QED
  BY <1>1, <1>2, <1>3, <1>4, <1>5, <1>6, <1>7, <1>8, <1>9
     DEF Next, Synchronize, Begin, Scan, Reader, Writer, Times

LEMMA ChainLength ==
    ASSUME TreeInv
    PROVE  /\ Tip \in Nat /\ Tip >= 1 /\ Tip <= MaxHeight /\ Tip = Len(Chain) /\ Chain \in Paths
           /\ \A k \in 1..Tip : Chain[k] \in 1..Len(blocks)
<1>1. best \in 1..Len(blocks) /\ Chain = PathOf(best) /\ Tip = Len(Chain)
  BY DEF TreeInv, TreeTypeOK, Chain, Tip
<1>2. Chain \in Paths
  BY <1>1 DEF Paths
<1> QED
  BY <1>1, <1>2, PathFacts, Bounds

LEMMA SameChainGoesOn ==
    ASSUME TreeInv, UNCHANGED treeVars
    PROVE  ChainGoesOn
<1>1. UNCHANGED blocks /\ Chain' = Chain /\ Tip' = Tip
  BY DEF treeVars, Chain, Tip, PathOf
<1> QED
  BY <1>1, ChainLength DEF ChainGoesOn

LEMMA StepGoesOn ==
    ASSUME SpendsInv, OneChain, [Next]_vars
    PROVE  ChainGoesOn
<1>1. TreeInv /\ TreeTypeOK /\ Typed
  BY DEF SpendsInv, TreeInv, RowsInv
<1>2. CASE UNCHANGED treeVars
  BY <1>1, <1>2, SameChainGoesOn
<1>3. CASE NodeStep
  <2>1. ASSUME NEW fork \in Heights, Fault(IF pc = "idle" THEN "orphan" ELSE "midorphan") PROVE FALSE
    BY <2>1 DEF Fault, OneChain
  <2>2. PICK mints \in SUBSET Note, spends \in SUBSET Note : Mine(mints, spends)
    BY <1>3, <2>1 DEF NodeStep
  <2>3. ASSUME NEW k \in 1..Tip PROVE k \in 1..Tip' /\ Chain'[k] = Chain[k]
    <3>1. PICK id : id = Chain[k]
      OBVIOUS
    <3>2. OnChain(k, id)'
      BY <1>1, <2>2, <3>1, ChainGrows DEF OnChain
    <3> QED
      BY <3>1, <3>2 DEF OnChain
  <2>4. ASSUME NEW k \in 1..Tip PROVE blocks'[Chain[k]] = blocks[Chain[k]]
    <3>1. Chain[k] \in 1..Len(blocks) /\ blocks \in Seq(BlockType)
      BY <1>1, ChainLength DEF TreeTypeOK
    <3> QED
      BY <1>1, <2>2, <3>1, MinedBlock DEF Mine
  <2>5. Tip' \in Nat
    <3>1. TreeTypeOK'
      BY <1>3, NodeStepTyped, <1>1 DEF Typed, TypeOK
    <3> QED
      BY <3>1, Bounds DEF TreeTypeOK, Tip, Chain
  <2> QED
    BY <1>1, <2>3, <2>4, <2>5, ChainLength DEF ChainGoesOn
<1> QED
  BY <1>2, <1>3, OnlyNode

LEMMA NoteGoesOn ==
    ASSUME Typed, ChainGoesOn, NEW n \in Note, noted'[n] = noted[n], spent'[n] = spent[n],
           NEW h \in Nat, h <= Tip, NoteFollows(n, Chain, h)
    PROVE  NoteFollows(n, Chain, h)'
<1>1. noted[n] \in Nat /\ spent[n] \in Nat /\ Birth[Owner[n]] \in Nat /\ Tip \in Nat
  BY RunNumbers, Bounds DEF ChainGoesOn
<1>2. \A k \in 1..h : blocks'[Chain'[k]] = blocks[Chain[k]]
  BY <1>1 DEF ChainGoesOn
<1>3. \A j \in Nat : \A k \in (j + 1)..h : k \in 1..h
  OBVIOUS
<1>4. /\ noted[n] # 0 => noted[n] \in 1..h
      /\ spent[n] # 0 => noted[n] # 0 /\ spent[n] \in 1..h
  BY <1>1, <1>3 DEF NoteFollows
<1> QED
  BY <1>1, <1>2, <1>3, <1>4 DEF NoteFollows

(* The rows of the shielded pools of an account, and its witnesses.        *)
SameShieldedOf(a) ==
    /\ \A q \in PoolsOf[a] \cap Shielded : height'[a][q] = height[a][q]
    /\ \A n \in ShieldedOf(a) : noted'[n] = noted[n] /\ spent'[n] = spent[n]
    /\ WitnessesOf(a)' = WitnessesOf(a)

Untouched(a) == SameRowsOf(a) /\ WitnessesOf(a)' = WitnessesOf(a)

LEMMA ShieldedGoesOn ==
    ASSUME Typed, ChainGoesOn, NEW a \in Account, SameShieldedOf(a), NEW h \in Nat, ShieldedUpto(a, h)
    PROVE  ShieldedUpto(a, h)'
<1>1. Birth[a] <= h /\ h <= Tip /\ h <= Tip' /\ Birth[a] \in Nat /\ Tip \in Nat
  BY Bounds DEF ShieldedUpto, ChainGoesOn
<1>2. ShieldedAt(a, h)'
  BY DEF ShieldedUpto, ShieldedAt, SameShieldedOf
<1>3. \A n \in ShieldedOf(a) : NoteFollows(n, Chain, h)'
  BY <1>1, NoteGoesOn DEF ShieldedUpto, ShieldedOf, SameShieldedOf
<1>4. Checkpoints(a, h)'
  <2>1. WitnessesOf(a)' = WitnessesOf(a) /\ Checkpoints(a, h)
    BY DEF SameShieldedOf, ShieldedUpto
  <2>2. \A n \in ShieldedOf(a) : \A c : LiveAt(n, c)' <=> LiveAt(n, c)
    BY DEF SameShieldedOf, LiveAt
  <2>3. \A k \in (Birth[a] + 1)..h : Chain'[k] = Chain[k]
    BY <1>1 DEF ChainGoesOn
  <2> HIDE DEF WitnessesOf, LiveAt
  <2> QED
    BY <2>1, <2>2, <2>3 DEF Checkpoints
<1>5. ShieldedOf(a)' = ShieldedOf(a)
  BY DEF ShieldedOf
<1> QED
  BY <1>1, <1>2, <1>3, <1>4 DEF ShieldedUpto, ShieldedOf

LEMMA UntouchedShielded ==
    ASSUME NEW a \in Account, Untouched(a)
    PROVE  SameShieldedOf(a) /\ SyncHeight(a)' = SyncHeight(a)
BY DEF Untouched, SameShieldedOf, SameRowsOf, ShieldedOf, SyncHeight

LEMMA AccountGoesOn ==
    ASSUME Typed, ChainGoesOn, NEW a \in Account, Untouched(a), AccountOn(a)
    PROVE  AccountOn(a)'
<1>1. SameShieldedOf(a) /\ SyncHeight(a)' = SyncHeight(a) /\ SyncHeight(a) \in Nat
  BY UntouchedShielded, SyncHeightType, Bounds
<1>2. PICK h \in Nat : h = SyncHeight(a) /\ h = SyncHeight(a)'
  BY <1>1
<1>3. ShieldedUpto(a, h)'
  BY <1>1, <1>2, ShieldedGoesOn DEF AccountOn
<1>4. ASSUME NEW n \in TransparentOf(a) PROVE \E k \in h..Tip' : NoteFollows(n, Chain, k)'
  <2>1. PICK k \in h..Tip : NoteFollows(n, Chain, k)
    BY <1>2 DEF AccountOn
  <2>2. k \in Nat /\ k <= Tip /\ k \in h..Tip' /\ n \in Note
    BY <1>2 DEF ChainGoesOn, TransparentOf
  <2>3. noted'[n] = noted[n] /\ spent'[n] = spent[n]
    BY DEF Untouched, SameRowsOf, TransparentOf
  <2> QED
    BY <2>1, <2>2, <2>3, NoteGoesOn
<1> QED
  BY <1>2, <1>3, <1>4 DEF AccountOn, TransparentOf

LEMMA EvenGoesOn ==
    ASSUME Typed, ChainGoesOn, NEW a \in Account, Untouched(a), NEW h \in Nat, Even(a, h)
    PROVE  Even(a, h)'
<1>1. ShieldedUpto(a, h)'
  BY UntouchedShielded, ShieldedGoesOn DEF Even
<1>2. 0 \in PoolsOf[a] => height'[a][0] = h
  BY DEF Even, Untouched, SameRowsOf
<1>3. h <= Tip
  BY DEF Even, ShieldedUpto
<1>4. ASSUME NEW n \in TransparentOf(a) PROVE NoteFollows(n, Chain, h)'
  BY <1>3, NoteGoesOn DEF Even, Untouched, SameRowsOf, TransparentOf
<1> QED
  BY <1>1, <1>2, <1>4 DEF Even, TransparentOf

(* the part of an account in a segment that goes on                        *)
SameScanOf(a) == seg' = seg /\ \A i \in DOMAIN AddrsOf[a] : <<a, i>> \in scan' <=> <<a, i>> \in scan

LEMMA PartGoesOn ==
    ASSUME Typed, ChainGoesOn, NEW a \in Account, Untouched(a), SameScanOf(a), NEW d \in Nat, TakesPart(a, d),
           seg.end <= Tip, seg.start - 1 <= Tip, seg.start >= 1
    PROVE  TakesPart(a, d)'
<1>1. ShieldedUpto(a, d)'
  BY UntouchedShielded, ShieldedGoesOn DEF TakesPart
<1>2. seg.start \in Nat /\ seg.end \in Nat
  BY RunNumbers
<1>3. ASSUME NEW i \in DOMAIN AddrsOf[a]
      PROVE  /\ ScannedTo(a, i)' = ScannedTo(a, i)
             /\ ScannedTo(a, i) \in Nat /\ ScannedTo(a, i) <= Tip
  BY <1>2 DEF SameScanOf, ScannedTo
<1>4. ASSUME NEW n \in TransparentOf(a), NEW i \in DOMAIN AddrsOf[a], AddrsOf[a][i] = AddrOf[n]
      PROVE  NoteFollows(n, Chain, ScannedTo(a, i))'
  <2>1. PICK h \in Nat : h = ScannedTo(a, i) /\ h = ScannedTo(a, i)'
    BY <1>3
  <2>2. NoteFollows(n, Chain, h)
    BY <1>4, <2>1 DEF TakesPart
  <2>3. NoteFollows(n, Chain, h)'
    BY <1>3, <2>1, <2>2, NoteGoesOn DEF Untouched, SameRowsOf, TransparentOf
  <2> QED
    BY <2>1, <2>3
<1>5. 0 \in PoolsOf[a] => height'[a][0] =
         IF \A i \in DOMAIN AddrsOf[a] : <<a, i>> \in scan' THEN seg'.start - 1 ELSE seg'.end
  BY DEF TakesPart, Untouched, SameRowsOf, SameScanOf
<1>6. Birth[a] < seg'.start
  BY DEF TakesPart, SameScanOf
<1> HIDE DEF ScannedTo
<1> QED
  BY <1>1, <1>4, <1>5, <1>6 DEF TakesPart, TransparentOf

-------------------------------------------------------------------------------
(* What an account has in each part of a run                               *)
LEMMA PoolKinds ==
    ASSUME NEW a \in Account
    PROVE  /\ PoolsOf[a] # {} /\ \A q \in PoolsOf[a] : q = 0 \/ q \in Shielded
           /\ \A n \in Note : Owner[n] = a => PoolOf[n] \in PoolsOf[a]
           /\ 0 \notin Shielded
BY Bounds, WarpSyncAssumption DEF Pools, Shielded

LEMMA EvenOn ==
    ASSUME Typed, NEW a \in Account, NEW h \in Nat, Even(a, h)
    PROVE  AccountOn(a) /\ SyncHeight(a) = h
<1>1. \A q \in PoolsOf[a] : height[a][q] = h
  BY PoolKinds DEF Even, ShieldedUpto, ShieldedAt
<1>2. SyncHeight(a) = h
  BY <1>1, PoolKinds, MinOfOne DEF SyncHeight
<1>3. h \in h..Tip /\ ShieldedUpto(a, h)
  <2>1. h <= Tip /\ Tip \in Int
    BY DEF Even, ShieldedUpto, Tip
  <2> QED
    BY <2>1 DEF Even
<1> QED
  BY <1>2, <1>3 DEF AccountOn, Even

(* An account without shielded pools.                                      *)
LEMMA NothingShielded ==
    ASSUME NEW a \in Account, PoolsOf[a] \cap Shielded = {}, NEW h \in Nat, Birth[a] <= h, h <= Tip,
           \A w \in WitnessesOf(a) : PoolOf[w.note] \in Shielded, Typed
    PROVE  ShieldedUpto(a, h) /\ PoolsOf[a] = {0}
<1>1. ShieldedOf(a) = {} /\ PoolsOf[a] = {0}
  BY PoolKinds DEF ShieldedOf
<1>2. WitnessesOf(a) = {}
  BY PoolKinds, RowNumbers DEF WitnessesOf
<1> QED
  BY <1>1, <1>2 DEF ShieldedUpto, ShieldedAt, Checkpoints

LEMMA PartOn ==
    ASSUME Typed, AddressesKnown, InSegment, NEW a \in Account, NEW d \in Nat, TakesPart(a, d),
           seg.start - 1 <= d, d <= seg.end, seg.end <= Tip, Tip \in Nat, scan # {} => d = seg.start - 1
    PROVE  AccountOn(a)
<1>1. /\ seg.start \in Nat /\ seg.end \in Nat /\ seg.start >= 2 /\ Birth[a] \in Nat
      /\ seg.start - 1 \in Nat
  <2>1. seg.start \in Nat /\ seg.end \in Nat /\ Birth[a] \in Nat
    BY RunNumbers, Bounds
  <2>2. seg.start >= 2
    BY DEF Typed, InFlight, InSegment
  <2> QED
    BY <2>1, <2>2
<1>2. PICK s \in Nat : s = seg.start - 1
  BY <1>1
<1>3. PICK e \in Nat : e = seg.end
  BY <1>1
<1>4. s <= d /\ d <= e /\ e <= Tip /\ Birth[a] <= s /\ (scan # {} => d = s)
  BY <1>1, <1>2, <1>3 DEF TakesPart
<1>5. \A n \in TransparentOf(a) : \E i \in DOMAIN AddrsOf[a] :
         AddrsOf[a][i] = AddrOf[n] /\ NoteFollows(n, Chain, ScannedTo(a, i))
  BY DEF AddressesKnown, TakesPart
<1>6. \A i \in DOMAIN AddrsOf[a] : ScannedTo(a, i) = IF <<a, i>> \in scan THEN s ELSE e
  BY <1>2, <1>3 DEF ScannedTo
<1>7. CASE PoolsOf[a] \cap Shielded # {}
  <2>1. \A q \in PoolsOf[a] \cap Shielded : height[a][q] = d
    BY DEF TakesPart, ShieldedUpto, ShieldedAt
  <2>2. 0 \in PoolsOf[a] => height[a][0] \in {s, e} /\ height[a][0] >= d
    <3>1. ASSUME \A i \in DOMAIN AddrsOf[a] : <<a, i>> \in scan, 0 \in PoolsOf[a] PROVE d = s
      <4>1. AddrsOf[a] # <<>> /\ AddrsOf[a] \in Seq({AddrOf[n] : n \in Note})
        BY <3>1, WarpSyncAssumption DEF AddressesKnown
      <4>2. 1 \in DOMAIN AddrsOf[a]
        BY <4>1
      <4> QED
        BY <1>4, <3>1, <4>2
    <3> QED
      BY <1>2, <1>3, <1>4, <3>1 DEF TakesPart
  <2>3. SyncHeight(a) = d
    <3>1. PICK q \in PoolsOf[a] : height[a][q] = d
      BY <1>7, <2>1
    <3>2. \A r \in PoolsOf[a] : height[a][r] \in Nat /\ d <= height[a][r]
      BY <2>1, <2>2, PoolKinds
    <3>3. PICK S : S = {height[a][r] : r \in PoolsOf[a]}
      OBVIOUS
    <3>4. S \in SUBSET Nat /\ d \in S /\ \A x \in S : d <= x
      BY <3>1, <3>2, <3>3
    <3>5. MinOf(S) \in S /\ MinOf(S) <= d
      BY <3>4, MinOfIsMin
    <3>6. MinOf(S) = d
      <4>1. PICK x : x = MinOf(S)
        OBVIOUS
      <4>2. x \in S /\ x <= d
        BY <3>5, <4>1
      <4>3. x \in Nat /\ d <= x
        BY <3>4, <4>2
      <4> QED
        BY <4>1, <4>2, <4>3
    <3> QED
      BY <3>3, <3>6 DEF SyncHeight
  <2>4. \A n \in TransparentOf(a) : \E k \in d..Tip : NoteFollows(n, Chain, k)
    <3> TAKE n \in TransparentOf(a)
    <3>1. PICK i \in DOMAIN AddrsOf[a] : NoteFollows(n, Chain, ScannedTo(a, i))
      BY <1>5
    <3>2. PICK k : k = ScannedTo(a, i)
      OBVIOUS
    <3>3. (k = s /\ d = s) \/ k = e
      BY <1>4, <1>6, <3>2
    <3>4. k \in d..Tip
      BY <1>4, <3>3
    <3> QED
      BY <3>1, <3>2, <3>4
  <2> QED
    BY <2>3, <2>4 DEF AccountOn, TakesPart
<1>8. CASE PoolsOf[a] \cap Shielded = {}
  <2>1. \A w \in WitnessesOf(a) : PoolOf[w.note] \in Shielded
    BY DEF TakesPart, ShieldedUpto, Checkpoints
  <2>2. PoolsOf[a] = {0}
    BY <1>8, PoolKinds
  <2>3. PICK j \in DOMAIN AddrsOf[a] : \A i \in DOMAIN AddrsOf[a] : i = j
    <3>1. AddrsOf[a] # <<>> /\ AddrsOf[a] \in Seq({AddrOf[n] : n \in Note})
      BY <2>2, WarpSyncAssumption DEF AddressesKnown
    <3>2. 1 \in DOMAIN AddrsOf[a]
      BY <3>1
    <3> QED
      BY <2>2, <3>2 DEF AddressesKnown
  <2>4. PICK h \in {s, e} : h = IF <<a, j>> \in scan THEN s ELSE e
    OBVIOUS
  <2>5. height[a][0] = h
    BY <1>2, <1>3, <2>2, <2>3, <2>4 DEF TakesPart
  <2>6. SyncHeight(a) = h
    <3>1. PoolsOf[a] # {} /\ h \in Nat /\ \A q \in PoolsOf[a] : height[a][q] = h
      BY <2>2, <2>5
    <3> QED
      BY <3>1, MinOfOne DEF SyncHeight
  <2>7. ShieldedUpto(a, h)
    <3>1. Birth[a] <= h /\ h <= Tip
      BY <1>1, <1>4
    <3> QED
      BY <1>8, <2>1, <3>1, NothingShielded
  <2>8. \A n \in TransparentOf(a) : \E k \in h..Tip : NoteFollows(n, Chain, k)
    <3> TAKE n \in TransparentOf(a)
    <3>1. NoteFollows(n, Chain, h)
      BY <1>5, <1>6, <2>3, <2>4
    <3>2. h \in h..Tip
      BY <1>4
    <3> QED
      BY <3>1, <3>2
  <2> QED
    BY <2>6, <2>7, <2>8 DEF AccountOn
<1> QED
  BY <1>7, <1>8

(* At the end of its segment everything is at one height.                  *)
LEMMA PartEnds ==
    ASSUME Typed, AddressesKnown, NEW a \in Account, TakesPart(a, seg.end), scan = {}
    PROVE  Even(a, seg.end)
<1>1. 0 \in PoolsOf[a] => height[a][0] = seg.end
  <2> SUFFICES ASSUME 0 \in PoolsOf[a] PROVE height[a][0] = seg.end
    OBVIOUS
  <2>1. AddrsOf[a] # <<>> /\ AddrsOf[a] \in Seq({AddrOf[n] : n \in Note})
    BY WarpSyncAssumption DEF AddressesKnown
  <2>2. 1 \in DOMAIN AddrsOf[a]
    BY <2>1
  <2> QED
    BY <2>2 DEF TakesPart
<1>2. \A n \in TransparentOf(a) : NoteFollows(n, Chain, seg.end)
  BY DEF TakesPart, AddressesKnown, ScannedTo
<1> QED
  BY <1>1, <1>2 DEF Even, TakesPart

-------------------------------------------------------------------------------
(* An account that is trimmed to a height that has all its witnesses, or   *)
(* to its birth, is at that height.                                        *)
MarksOf(a) == {SyncHeight(a)} \cup {w.height : w \in WitnessesOf(a)}

LEMMA AccountNote ==
    ASSUME Typed, TreeInv, NEW a \in Account, AccountOn(a), NEW n \in Note, Owner[n] = a
    PROVE  /\ \E k \in SyncHeight(a)..Tip : NoteFollows(n, Chain, k)
           /\ noted[n] # 0 => noted[n] > Birth[a]
<1>1. \E k \in SyncHeight(a)..Tip : NoteFollows(n, Chain, k)
  <2>1. CASE PoolOf[n] \in Shielded
    <3>1. NoteFollows(n, Chain, SyncHeight(a)) /\ SyncHeight(a) <= Tip
      BY <2>1 DEF AccountOn, ShieldedUpto, ShieldedOf
    <3>2. SyncHeight(a) \in SyncHeight(a)..Tip
      BY <3>1, SyncHeightType, ChainLength, Bounds
    <3> QED
      BY <3>1, <3>2
  <2>2. CASE PoolOf[n] = 0
    BY <2>2 DEF AccountOn, TransparentOf
  <2> QED
    BY <2>1, <2>2, PoolKinds
<1>2. noted[n] # 0 => noted[n] > Birth[a]
  BY <1>1, Bounds DEF NoteFollows
<1> QED
  BY <1>1, <1>2

LEMMA TrimEven ==
    ASSUME Typed, TreeInv, TreeOnce, UNCHANGED treeVars, NEW S \in SUBSET Account, NEW cut, NEW to,
           Trim(S, cut, to), NEW a \in S, AccountOn(a),
           NEW c \in Nat, to[a] = c, c \in MarksOf(a) \cup {Birth[a]},
           cut[a] = c \/ (cut[a] = 0 /\ c = Birth[a])
    PROVE  Even(a, c)'
<1>1. PICK p : p = Chain
  OBVIOUS
<1>2. /\ Chain' = p /\ Tip' = Tip /\ Tip = Len(p) /\ Tip \in Nat /\ UNCHANGED blocks /\ p \in Paths
      /\ OnceOn(p) /\ a \in Account
  BY <1>1, ChainLength DEF treeVars, Chain, Tip, PathOf, TreeOnce, Paths
<1>3. PICK h \in Nat : h = SyncHeight(a)
  BY SyncHeightType, Bounds
<1>4. /\ Birth[a] \in Nat /\ Birth[a] <= c /\ c <= h /\ h <= Tip
      /\ Checkpoints(a, h)
      /\ \A w \in WitnessesOf(a) : w.height \in (Birth[a] + 1)..h
  <2>1. Birth[a] <= h /\ h <= Tip /\ Checkpoints(a, h) /\ Birth[a] \in Nat
    BY <1>2, <1>3, Bounds DEF AccountOn, ShieldedUpto
  <2>2. \A w \in WitnessesOf(a) : w.height \in (Birth[a] + 1)..h
    BY <2>1 DEF Checkpoints
  <2> QED
    BY <1>3, <2>1, <2>2 DEF MarksOf
<1>5. ASSUME NEW n \in Note, Owner[n] = a
      PROVE  /\ noted'[n] = IF noted[n] > c THEN 0 ELSE noted[n]
             /\ spent'[n] = IF spent[n] > c THEN 0 ELSE spent[n]
             /\ NoteFollows(n, Chain, c)'
             /\ noted[n] # 0 => noted[n] > Birth[a]
             /\ noted[n] \in Nat /\ spent[n] \in Nat
  <2>1. PICK k \in h..Tip : NoteFollows(n, p, k)
    BY <1>1, <1>2, <1>3, <1>5, AccountNote
  <2>2. noted[n] # 0 => noted[n] > Birth[a]
    BY <1>2, <1>5, AccountNote
  <2>3. noted[n] \in Nat /\ spent[n] \in Nat /\ (spent[n] # 0 => noted[n] # 0 /\ spent[n] > noted[n])
    <3>1. noted[n] \in Nat /\ spent[n] \in Nat
      BY RunNumbers
    <3> QED
      BY <2>1, <3>1 DEF NoteFollows
  <2>4. /\ noted'[n] = IF noted[n] > cut[a] THEN 0 ELSE noted[n]
        /\ spent'[n] = IF spent[n] > cut[a] THEN 0 ELSE spent[n]
    BY <1>5 DEF Trim, TrimNotes, TrimSpends, Gone
  <2>5. /\ noted'[n] = IF noted[n] > c THEN 0 ELSE noted[n]
        /\ spent'[n] = IF spent[n] > c THEN 0 ELSE spent[n]
    BY <1>4, <2>2, <2>3, <2>4
  <2>6. k \in Nat /\ k <= Len(p) /\ c <= k
    BY <1>2, <1>4, <2>1
  <2>7. NoteFollows(n, p, c)'
    BY <1>2, <1>4, <1>5, <2>1, <2>3, <2>5, <2>6, TrimmedNote
  <2>8. NoteFollows(n, Chain, c)'
    BY <1>2, <2>7 DEF NoteFollows
  <2> QED
    BY <2>2, <2>3, <2>5, <2>8
<1>6. height'[a] = [q \in PoolsOf[a] |-> c]
  BY <1>2 DEF Trim
<1>7. WitnessesOf(a)' = {w \in WitnessesOf(a) : w.height <= cut[a]}
  <2>1. witnesses' = {w \in witnesses : ~Gone(S, cut, Owner[w.note], w.height)}
    BY DEF Trim, TrimWitnesses
  <2>2. \A w \in WitnessesOf(a) : Gone(S, cut, Owner[w.note], w.height) <=> ~(w.height <= cut[a])
    <3>1. \A w \in WitnessesOf(a) : Owner[w.note] = a /\ w.height \in Int
      BY <1>4 DEF WitnessesOf
    <3>2. cut[a] \in Int
      BY <1>4
    <3> QED
      BY <3>1, <3>2 DEF Gone
  <2> QED
    BY <2>1, <2>2 DEF WitnessesOf
<1>8. Checkpoints(a, c)'
  <2>1. ASSUME NEW w \in WitnessesOf(a)'
        PROVE  /\ PoolOf[w.note] \in Shielded /\ w.root = p[w.height] /\ w.height \in (Birth[a] + 1)..c
               /\ w \in WitnessesOf(a)
    <3>1. w \in WitnessesOf(a) /\ w.height <= cut[a]
      BY <1>7
    <3>2. PoolOf[w.note] \in Shielded /\ w.root = p[w.height] /\ w.height \in (Birth[a] + 1)..h
      BY <1>1, <1>4, <3>1 DEF Checkpoints
    <3> QED
      BY <1>4, <3>1, <3>2
  <2>2. ASSUME NEW k \in {c} \cup {w.height : w \in WitnessesOf(a)'}, NEW n \in ShieldedOf(a), LiveAt(n, k)'
        PROVE  \E w \in WitnessesOf(a)' : w.note = n /\ w.height = k
    <3>1. k \in Nat /\ k <= c /\ n \in Note /\ Owner[n] = a
      BY <1>4, <2>1 DEF ShieldedOf
    <3>2. LiveAt(n, k) /\ k > Birth[a]
      BY <1>4, <1>5, <2>2, <3>1 DEF LiveAt
    <3>3. k \in {h} \cup {w.height : w \in WitnessesOf(a)} /\ cut[a] = c
      <4>1. k # Birth[a]
        BY <1>4, <3>1, <3>2
      <4>2. cut[a] = c
        BY <1>4, <3>1, <3>2
      <4>3. k = c => c \in MarksOf(a)
        BY <4>1
      <4> QED
        BY <1>3, <2>1, <4>2, <4>3 DEF MarksOf
    <3>4. PICK w \in WitnessesOf(a) : w.note = n /\ w.height = k
      BY <1>4, <3>2, <3>3 DEF Checkpoints
    <3>5. w \in WitnessesOf(a)'
      BY <1>7, <3>1, <3>3, <3>4
    <3> QED
      BY <3>4, <3>5
  <2> HIDE DEF WitnessesOf, LiveAt
  <2> QED
    BY <1>2, <2>1, <2>2 DEF Checkpoints, ShieldedOf
<1>9. ShieldedUpto(a, c)'
  <2>1. \A n \in ShieldedOf(a) : NoteFollows(n, Chain, c)'
    BY <1>5 DEF ShieldedOf
  <2>2. ShieldedAt(a, c)'
    BY <1>6 DEF ShieldedAt
  <2> QED
    BY <1>2, <1>4, <1>8, <2>1, <2>2 DEF ShieldedUpto, ShieldedOf
<1> QED
  BY <1>5, <1>6, <1>9 DEF Even, TransparentOf

LEMMA TrimOthers ==
    ASSUME Typed, NEW S \in SUBSET Account, NEW cut, NEW to, Trim(S, cut, to), NEW a \in Account \ S
    PROVE  Untouched(a)
<1>1. SameRowsOf(a)
  BY TrimsOthersNot DEF Typed, TypeOK, DatabaseTypes
<1>2. WitnessesOf(a)' = WitnessesOf(a)
  BY DEF Trim, TrimWitnesses, Gone, WitnessesOf
<1> QED
  BY <1>1, <1>2 DEF Untouched

-------------------------------------------------------------------------------
(* The steps of a run.  First what they have in common.                    *)
LEMMA SharedFacts ==
    ASSUME SharedInv
    PROVE  /\ SpendsInv /\ RowsInv /\ Typed /\ TreeInv /\ TreeOnce /\ OneChain /\ OwnRun /\ RunRight
           /\ Tip \in Nat /\ Tip = Len(Chain) /\ Chain \in Paths
           /\ seg.start \in Nat /\ seg.end \in Nat /\ next \in Nat /\ Len(buf) \in Nat
           /\ InSegment => /\ seg.start >= 2 /\ seg.start <= seg.end /\ seg.end <= Tip
                           /\ todo # {} => seg.end + 1 \in todo
                           /\ pc # "scan" => scan = {}
                           /\ \A a \in chosen \ seg.accounts : WaitsFor(a)
                           /\ \E d \in (seg.start - 1)..seg.end : SegmentAt(d)
<1>1. SpendsInv /\ RowsInv /\ Typed /\ TreeInv
  BY DEF SharedInv, SpendsInv, RowsInv
<1>2. InSegment => seg.start >= 2 /\ seg.start <= seg.end
  BY <1>1 DEF Typed, InFlight, InSegment
<1> QED
  BY <1>1, <1>2, ChainLength, RunNumbers, RowNumbers DEF SharedInv, RunRight, SegmentRight

LEMMA NoSuchFault ==
    ASSUME SharedInv, NEW k \in {"stop", "cut", "scancut", "midrewind"}, Fault(k)
    PROVE  FALSE
BY DEF SharedInv, NoFaultLeft, Fault

LEMMA AccountsRest ==
    ASSUME SharedInv, ChainGoesOn, \A a \in Account : Untouched(a)
    PROVE  \A a \in Account : AccountOn(a)'
BY SharedFacts, AccountGoesOn DEF SharedInv

LEMMA SameTables ==
    ASSUME UNCHANGED <<height, noted, spent, witnesses>>
    PROVE  \A a \in Account : Untouched(a)
BY DEF Untouched, SameRowsOf, WitnessesOf

(* the accounts that wait for a segment                                    *)
LEMMA WaitGoesOn ==
    ASSUME Typed, ChainGoesOn, NEW a \in Account, Untouched(a), resume'[a] = resume[a], WaitsFor(a),
           resume[a] \in todo => resume[a] \in todo'
    PROVE  WaitsFor(a)'
<1>1. PICK h \in Heights : Even(a, h) /\ resume[a] = h + 1 /\ h + 1 \in todo
  BY DEF WaitsFor
<1>2. Even(a, h)'
  BY <1>1, EvenGoesOn, Bounds
<1> QED
  BY <1>1, <1>2 DEF WaitsFor

LEMMA GoGoesOn ==
    ASSUME Typed, ChainGoesOn, NEW a \in Account, Untouched(a), resume'[a] = resume[a], GoesOn(a), todo' = todo
    PROVE  GoesOn(a)'
<1>1. PICK h \in Heights : Even(a, h) /\ resume[a] = h /\ h + 1 \in todo /\ \A s \in todo : h < s
  BY DEF GoesOn
<1>2. Even(a, h)'
  BY <1>1, EvenGoesOn, Bounds
<1> QED
  BY <1>1, <1>2 DEF GoesOn

LEMMA EndedRight ==
    ASSUME pc' = "idle", todo' = {}
    PROVE  RunRight'
BY DEF RunRight, PlanRight, SegmentRight, InSegment

(* A step within a part of the run that touches no account.                *)
LEMMA RunRests ==
    ASSUME SharedInv, ChainGoesOn, UNCHANGED <<pc, chosen, target, resume, todo, seg, scan>>,
           \A a \in Account : Untouched(a),
           \A d \in (seg.start - 1)..seg.end : pc = "read" /\ StreamRight(d) => StreamRight(d)'
    PROVE  RunRight'
<1>1. Typed /\ RunRight /\ chosen \subseteq Account /\ seg.accounts \subseteq Account /\ Tip \in Nat /\ Tip' \in Nat
  BY SharedFacts, RunNumbers DEF ChainGoesOn
<1>2. /\ pc' # "idle" => target' <= Tip'
      /\ \A s \in todo' : s - 1 <= Tip'
  <2>1. \A s \in todo : s \in Nat /\ s - 1 <= Tip
    BY <1>1, RunNumbers DEF RunRight
  <2>2. target \in Nat
    BY <1>1, Bounds DEF Typed, TypeOK, RunTypes
  <2> QED
    BY <1>1, <2>1, <2>2 DEF RunRight, ChainGoesOn
<1>3. PlanRight'
  BY <1>1, WaitGoesOn, GoGoesOn DEF RunRight, PlanRight
<1>4. ASSUME InSegment PROVE SegmentRight'
  <2>1. /\ seg.end <= Tip /\ (todo # {} => seg.end + 1 \in todo) /\ (pc # "scan" => scan = {})
        /\ \A a \in chosen \ seg.accounts : WaitsFor(a)
        /\ seg.start >= 2 /\ seg.start \in Nat /\ seg.end \in Nat /\ seg.start <= seg.end
    BY <1>4, SharedFacts
  <2>2. PICK d \in (seg.start - 1)..seg.end : SegmentAt(d)
    BY <1>4, SharedFacts
  <2>3. \A a \in chosen \ seg.accounts : WaitsFor(a)'
    BY <1>1, <2>1, WaitGoesOn
  <2>4. \A a \in seg.accounts : TakesPart(a, d)'
    <3> TAKE a \in seg.accounts
    <3>1. d \in Nat /\ SameScanOf(a) /\ seg.start - 1 <= Tip /\ seg.start >= 1 /\ a \in Account
      BY <1>1, <2>1, <2>2 DEF SameScanOf
    <3> QED
      BY <1>1, <2>1, <2>2, <3>1, PartGoesOn DEF SegmentAt
  <2>5. pc = "read" => StreamRight(d)'
    BY <2>2 DEF SegmentAt
  <2>6. SegmentAt(d)'
    BY <2>2, <2>4, <2>5 DEF SegmentAt
  <2>7. seg.end <= Tip'
    BY <1>1, <2>1 DEF ChainGoesOn
  <2> QED
    BY <2>1, <2>2, <2>3, <2>6, <2>7 DEF SegmentRight
<1>5. InSegment' = InSegment
  BY DEF InSegment
<1> QED
  BY <1>2, <1>3, <1>4, <1>5 DEF RunRight, SegmentRight

(* what is in flight stays on a chain that goes on                         *)
LEMMA StreamGoesOn ==
    ASSUME SharedInv, ChainGoesOn, pc = "read", UNCHANGED <<readerVars, utxo, edge, noted, spent, seg>>,
           NEW d \in (seg.start - 1)..seg.end, StreamRight(d)
    PROVE  StreamRight(d)'
<1>1. /\ Typed /\ Tip \in Nat /\ Tip = Len(Chain) /\ Tip' = Len(Chain') /\ seg.start \in Nat /\ seg.end \in Nat
      /\ seg.start >= 2 /\ seg.end <= Tip /\ next \in Nat /\ Len(buf) \in Nat /\ Len(buf) + 2 <= next
      /\ next <= seg.end + 1 /\ d \in 1..Tip
  BY SharedFacts DEF InSegment, Typed, InFlight, StreamRight, Tip
<1>2. \A k \in 1..Tip : Chain'[k] = Chain[k] /\ Tip \in Nat /\ Tip' \in Nat /\ Tip <= Tip'
  BY DEF ChainGoesOn
<1>3. /\ UNCHANGED <<reading, next, buf, chan>> /\ \A k : Covered(k)' <=> Covered(k)
  BY DEF readerVars, Covered, Covers, Upto, IsChunk
<1>4. ASSUME NEW m, NEW i \in 1..Len(chan), m = chan[i]
      PROVE  /\ IsChunk(m) => ChunkFollows(m, Chain, d)'
             /\ m.kind = "header" => m.from <= Tip' /\ m.ids[1] = Chain'[m.from]
             /\ m.kind = "reorg" => ~reading /\ m.from = next - 1
  <2>1. /\ IsChunk(m) => ChunkFollows(m, Chain, d)
        /\ m.kind = "header" => m.from <= Tip /\ m.ids[1] = Chain[m.from]
        /\ m.kind = "reorg" => ~reading /\ m.from = next - 1
    BY <1>1, <1>4 DEF StreamRight, MessagesFollow
  <2>2. m.from \in Nat /\ Len(m.ids) \in Nat /\ (m.kind = "header" => m.from >= 1)
    <3>1. m \in Message /\ Fits(m, next - Len(buf)) /\ MaxHeight \in Nat
      BY <1>1, <1>4, RowNumbers, Bounds DEF Typed, InFlight, TypeOK, StreamTypes
    <3> QED
      BY <3>1, <1>1 DEF Message, Fits
  <2>3. ASSUME IsChunk(m) PROVE ChunkFollows(m, Chain, d)'
    <3>1. d < m.from /\ Upto(m) <= Tip /\ Upto(m) = m.from + Len(m.ids) - 1
      BY <1>1, <2>1, <2>3 DEF ChunkFollows, Upto
    <3>2. \A k \in 1..Len(m.ids) : m.from + k - 1 \in 1..Tip
      <4>1. m.from + Len(m.ids) - 1 <= Tip /\ m.from >= 1 /\ Tip \in Nat /\ d \in Nat
        BY <1>1, <2>2, <3>1
      <4> QED
        BY <2>2, <4>1
    <3>3. \A k \in 1..Len(m.ids) : m.ids[k] = Chain'[m.from + k - 1]
      BY <1>2, <2>1, <2>3, <3>2 DEF ChunkFollows
    <3>4. Upto(m) <= Len(Chain')
      BY <1>1, <1>2, <2>2, <3>1
    <3> HIDE DEF Covered
    <3> QED
      BY <1>3, <2>1, <2>3, <3>1, <3>3, <3>4 DEF ChunkFollows
  <2>4. m.kind = "header" => m.from <= Tip' /\ m.ids[1] = Chain'[m.from]
    BY <1>2, <2>1, <2>2
  <2> QED
    BY <2>1, <2>3, <2>4
<1>5. MessagesFollow(Chain, d)'
  BY <1>1, <1>3, <1>4 DEF MessagesFollow, ChunkFollows, IsChunk
<1>6. BufferFollows(Chain, d)'
  <2>1. BufferFollows(Chain, d)
    BY DEF StreamRight
  <2>2. \A k \in 1..Len(buf) : next - Len(buf) + k - 1 \in 1..Tip
    BY <1>1
  <2>3. \A k \in 1..Len(buf) : buf[k] = Chain'[next - Len(buf) + k - 1]
    BY <1>2, <2>1, <2>2 DEF BufferFollows
  <2> QED
    BY <1>3, <2>1, <2>3 DEF BufferFollows
<1>7. edge' = Chain'[d] /\ Chain'[d] = Chain[d]
  BY <1>1, <1>2 DEF StreamRight
<1>8. \A n \in Note : utxo'[n] = IF (Tracked(n) /\ Unspent(n))' THEN Chain'[d] ELSE 0
  BY <1>7 DEF StreamRight, Tracked, Unspent
<1> QED
  BY <1>1, <1>3, <1>5, <1>6, <1>7, <1>8 DEF StreamRight

LEMMA SameStreamShared ==
    ASSUME SharedInv, ChainGoesOn, UNCHANGED <<height, noted, spent, witnesses>>, UNCHANGED <<pc, runVars>>,
           UNCHANGED <<readerVars, utxo, edge>>
    PROVE  RunRight' /\ \A a \in Account : AccountOn(a)'
<1>1. UNCHANGED <<pc, chosen, target, resume, todo, seg, scan>>
  BY DEF runVars
<1>2. \A d \in (seg.start - 1)..seg.end : pc = "read" /\ StreamRight(d) => StreamRight(d)'
  BY <1>1, StreamGoesOn
<1> QED
  BY <1>1, <1>2, SameTables, RunRests, AccountsRest

(* The reader goes on from the last block it sent.                         *)
LEMMA ReadBlockShared ==
    ASSUME SharedInv, ChainGoesOn, NEW full \in BOOLEAN, ReadBlock(full)
    PROVE  RunRight' /\ \A a \in Account : AccountOn(a)'
<1>1. /\ Streaming /\ next' = next + 1
      /\ UNCHANGED <<treeVars, dbVars, pc, chosen, target, resume, todo, seg, scan, reading, utxo, edge>>
  BY DEF ReadBlock, runVars, writerVars
<1>2. ASSUME NEW d \in (seg.start - 1)..seg.end, StreamRight(d) PROVE StreamRight(d)'
  <2>1. /\ Typed /\ pc = "read" /\ reading /\ next \in Nat /\ next <= seg.end /\ next <= Tip
        /\ seg.start \in Nat /\ seg.end \in Nat /\ Tip = Len(Chain) /\ TreeInv /\ next >= 2
        /\ seg.start >= 2 /\ d \in Nat /\ next >= seg.start
    BY <1>2, <1>1, SharedFacts DEF Streaming, InSegment, Typed, InFlight, StreamRight
  <2>2. Chain[next] \in Nat
    BY <2>1, ChainLength
  <2>3. d < next /\ MessagesFollow(Chain, d) /\ BufferFollows(Chain, d)
    <3>1. BufferFollows(Chain, d) /\ MessagesFollow(Chain, d) /\ Len(buf) \in Nat
      BY <1>2, SharedFacts DEF StreamRight
    <3> QED
      BY <2>1, <3>1 DEF BufferFollows
  <2>4. PICK p : p = Chain
    OBVIOUS
  <2>5. MessagesFollow(p, d)' /\ BufferFollows(p, d)'
    BY <2>1, <2>2, <2>3, <2>4, BlockSent
  <2>6. \A i \in 1..Len(chan') : chan'[i].kind # "stop"
    BY <1>2, <2>1, <2>2, <2>3, BlockSent DEF StreamRight
  <2>7. Chain' = p
    BY <1>1, <2>4 DEF treeVars, Chain, PathOf
  <2>8. MessagesFollow(Chain, d)' /\ BufferFollows(Chain, d)'
    BY <2>5, <2>7 DEF MessagesFollow, ChunkFollows, BufferFollows
  <2>9. \A n \in Note : (Tracked(n) /\ Unspent(n))' <=> Tracked(n) /\ Unspent(n)
    BY <1>1 DEF Tracked, Unspent, dbVars
  <2>10. next' \in seg'.start..(seg'.end + 1) /\ reading'
    BY <1>1, <2>1
  <2> QED
    BY <1>2, <1>1, <2>4, <2>6, <2>7, <2>8, <2>9, <2>10 DEF StreamRight
<1>3. \A a \in Account : Untouched(a)
  BY <1>1, SameTables DEF dbVars
<1> QED
  BY <1>1, <1>2, <1>3, RunRests, AccountsRest

LEMMA EndOfStreamShared ==
    ASSUME SharedInv, ChainGoesOn, EndOfStream
    PROVE  RunRight' /\ \A a \in Account : AccountOn(a)'
<1>1. /\ pc = "read" /\ reading /\ ~Streaming /\ reading' = FALSE /\ buf' = <<>>
      /\ UNCHANGED <<treeVars, dbVars, pc, chosen, target, resume, todo, seg, scan, next, utxo, edge>>
  BY NoSuchFault DEF EndOfStream, runVars, writerVars
<1>2. ASSUME NEW d \in (seg.start - 1)..seg.end, StreamRight(d) PROVE StreamRight(d)'
  <2>1. /\ Typed /\ next \in Nat /\ next = seg.end + 1 /\ seg.end <= Tip /\ chan \in Seq(Message)
        /\ seg.start \in Nat /\ seg.end \in Nat /\ Tip = Len(Chain) /\ Tip \in Nat /\ d \in Nat /\ d < next
        /\ Len(buf) \in Nat /\ seg.start <= next
    <3>1. /\ Typed /\ next \in Nat /\ seg.end <= Tip /\ seg.start \in Nat /\ seg.end \in Nat /\ Tip = Len(Chain)
          /\ Tip \in Nat /\ seg.start >= 2 /\ Len(buf) \in Nat
      BY <1>1, SharedFacts DEF InSegment
    <3>2. next \in seg.start..(seg.end + 1) /\ ~(next <= seg.end /\ next <= Tip)
      BY <1>2, <1>1 DEF Streaming, StreamRight
    <3>3. chan \in Seq(Message)
      BY <3>1 DEF Typed, TypeOK, StreamTypes
    <3> QED
      BY <3>1, <3>2, <3>3
  <2>2. MessagesFollow(Chain, d) /\ BufferFollows(Chain, d)
    BY <1>2 DEF StreamRight
  <2>3. PICK p : p = Chain
    OBVIOUS
  <2>4. PICK msgs \in Seq(Message) :
          /\ Send(msgs)
          /\ \A i \in 1..Len(msgs) : msgs[i].kind = "chunk" /\ SentFollows(msgs[i], p, d)
          /\ buf # <<>> => \E i \in 1..Len(msgs) : Upto(msgs[i]) = next - 1
    <3>1. next - 1 <= Len(p)
      BY <2>1, <2>3
    <3> QED
      BY <2>1, <2>2, <2>3, <3>1, RestSent
  <2>5. MessagesFollow(p, d)'
    BY <1>1, <2>1, <2>2, <2>3, <2>4, SendMessages
  <2>6. \A k \in (d + 1)..(next - 1) : Covered(k)'
    <3>1. CASE buf = <<>>
      <4>1. \A k \in (d + 1)..(next - 1) : Covered(k)
        BY <2>1, <2>2, <3>1 DEF BufferFollows
      <4> QED
        BY <2>1, <2>4, <4>1, Appended
    <3>2. CASE buf # <<>>
      <4>1. PICK i \in 1..Len(msgs) : Upto(msgs[i]) = next - 1 /\ msgs[i].kind = "chunk"
        BY <2>4, <3>2
      <4>2. PICK j \in 1..Len(chan') : chan'[j] = msgs[i]
        BY <2>1, <2>4, <4>1, Appended
      <4> QED
        BY <2>5, <4>1, <4>2 DEF MessagesFollow, ChunkFollows, IsChunk
    <3> QED
      BY <3>1, <3>2
  <2>7. BufferFollows(p, d)'
    BY <1>1, <2>1, <2>6 DEF BufferFollows
  <2>8. \A i \in 1..Len(chan') : chan'[i].kind # "stop"
    BY <1>2, <2>1, <2>4, Appended DEF StreamRight
  <2>9. Chain' = p
    BY <1>1, <2>3 DEF treeVars, Chain, PathOf
  <2>10. MessagesFollow(Chain, d)' /\ BufferFollows(Chain, d)'
    BY <2>5, <2>7, <2>9 DEF MessagesFollow, ChunkFollows, BufferFollows
  <2>11. \A n \in Note : (Tracked(n) /\ Unspent(n))' <=> Tracked(n) /\ Unspent(n)
    BY <1>1 DEF Tracked, Unspent, dbVars
  <2>12. next' \in seg'.start..(seg'.end + 1) /\ next' = seg'.end + 1
    BY <1>1, <2>1
  <2> QED
    BY <1>2, <1>1, <2>3, <2>8, <2>9, <2>10, <2>11, <2>12 DEF StreamRight
<1>3. \A a \in Account : Untouched(a)
  BY <1>1, SameTables DEF dbVars
<1> QED
  BY <1>1, <1>2, <1>3, RunRests, AccountsRest

LEMMA HandleHeaderShared ==
    ASSUME SharedInv, ChainGoesOn, HandleHeader
    PROVE  RunRight' /\ \A a \in Account : AccountOn(a)'
<1>1. /\ pc = "read" /\ chan # <<>> /\ chan[1].kind = "header" /\ chan' = Tail(chan)
      /\ UNCHANGED <<treeVars, dbVars, pc, chosen, target, resume, todo, seg, scan,
                     reading, next, buf, utxo, edge>>
  BY SharedFacts, TailRows DEF HandleHeader, Arriving, runVars
<1>2. ASSUME NEW d \in (seg.start - 1)..seg.end, StreamRight(d) PROVE StreamRight(d)'
  <2>1. RowsInv /\ d \in Nat /\ next \in Nat /\ Len(buf) \in Nat
    <3>1. RowsInv /\ seg.start \in Nat /\ seg.start >= 2 /\ next \in Nat /\ Len(buf) \in Nat
      BY <1>1, SharedFacts DEF InSegment
    <3> QED
      BY <3>1
  <2>2. MessagesFollow(Chain, d) /\ BufferFollows(Chain, d)
    BY <1>2 DEF StreamRight
  <2>3. PICK p : p = Chain
    OBVIOUS
  <2>4. \A i \in 2..Len(chan) : IsChunk(chan[i]) => d < chan[i].from
    <3>1. \A i \in 2..Len(chan) : i \in 1..Len(chan)
      BY <2>1, RowNumbers DEF RowsInv
    <3> QED
      BY <2>2, <3>1 DEF MessagesFollow, ChunkFollows
  <2>5. MessagesFollow(p, d)' /\ \A k \in Nat : k > d /\ Covered(k) => Covered(k)'
    BY <1>1, <2>1, <2>2, <2>3, <2>4, TailMessages DEF IsChunk
  <2>6. \A k \in (d + 1)..(next - Len(buf) - 1) : k \in Nat /\ k > d
    BY <2>1
  <2>7. BufferFollows(p, d)'
    BY <1>1, <2>2, <2>3, <2>5, <2>6 DEF BufferFollows
  <2>8. \A i \in 1..Len(chan') : chan'[i].kind # "stop"
    <3>1. \A i \in 1..Len(chan') : i + 1 \in 2..Len(chan) /\ chan'[i] = chan[i + 1] /\ Len(chan) \in Nat
      BY <1>1, <2>1, TailRows, RowNumbers DEF RowsInv
    <3>2. \A i \in 1..Len(chan') : i + 1 \in 1..Len(chan)
      BY <3>1
    <3> QED
      BY <1>2, <3>1, <3>2 DEF StreamRight
  <2>9. Chain' = p
    BY <1>1, <2>3 DEF treeVars, Chain, PathOf
  <2>10. MessagesFollow(Chain, d)' /\ BufferFollows(Chain, d)'
    BY <2>5, <2>7, <2>9 DEF MessagesFollow, ChunkFollows, BufferFollows
  <2>11. \A n \in Note : (Tracked(n) /\ Unspent(n))' <=> Tracked(n) /\ Unspent(n)
    BY <1>1 DEF Tracked, Unspent, dbVars
  <2> QED
    BY <1>2, <1>1, <2>3, <2>8, <2>9, <2>10, <2>11 DEF StreamRight
<1>3. \A a \in Account : Untouched(a)
  BY <1>1, SameTables DEF dbVars
<1> QED
  BY <1>1, <1>2, <1>3, RunRests, AccountsRest

(* An account that is even is on the chain, before a step and after it.    *)
EvenIsOn == \A a \in Account : \A h \in Nat : Typed /\ Even(a, h) => AccountOn(a) /\ SyncHeight(a) = h

LEMMA EvenAlwaysOn == EvenIsOn
BY EvenOn DEF EvenIsOn

LEMMA EvenOnNext == EvenIsOn'
BY EvenAlwaysOn, PTL

(* The run ends, in order or not.                                          *)
LEMMA RunEndsShared ==
    ASSUME SharedInv, ChainGoesOn, pc' = "idle", todo' = {}, UNCHANGED dbVars
    PROVE  RunRight' /\ \A a \in Account : AccountOn(a)'
BY EndedRight, SameTables, AccountsRest DEF dbVars

(* The old checkpoints are dropped by whole heights, the last one stays.   *)
LEMMA StartSyncShared ==
    ASSUME SharedInv, ChainGoesOn, NEW S \in SUBSET Account, StartSync(S)
    PROVE  RunRight' /\ \A a \in Account : AccountOn(a)'
<1>1. /\ pc' = "recover" /\ target' = Tip /\ UNCHANGED <<treeVars, height, noted, spent, todo>>
      /\ Typed /\ RunRight /\ Tip \in Nat
  BY SharedFacts DEF StartSync
<1>2. RunRight'
  <2>1. Tip' = Tip
    BY <1>1 DEF treeVars, Tip, Chain, PathOf
  <2> QED
    BY <1>1, <2>1 DEF RunRight, PlanRight, SegmentRight, InSegment
<1>3. ASSUME NEW a \in Account PROVE AccountOn(a)'
  <2>1. PICK h \in Nat : h = SyncHeight(a) /\ h = SyncHeight(a)'
    <3>1. SyncHeight(a)' = SyncHeight(a)
      BY <1>1 DEF SyncHeight
    <3>2. SyncHeight(a) \in Nat
      BY <1>1, SyncHeightType, Bounds
    <3> QED
      BY <3>1, <3>2
  <2>2. ShieldedUpto(a, h) /\ Checkpoints(a, h) /\ \A n \in TransparentOf(a) : \E k \in h..Tip : NoteFollows(n, Chain, k)
    BY <2>1 DEF SharedInv, AccountOn, ShieldedUpto
  <2>3. PICK cutoff : \A w : w \in witnesses' <=> w \in witnesses /\ ~(Owner[w.note] \in S /\ Outdated(w, cutoff))
    BY DEF StartSync
  <2>4. PICK W : W = WitnessesOf(a)
    OBVIOUS
  <2>5. PICK W2 : W2 = WitnessesOf(a)'
    OBVIOUS
  <2>6. W2 \subseteq W
    BY <2>3, <2>4, <2>5 DEF WitnessesOf
  <2>7. \A w \in W : w.height \in Nat /\ w.height <= h /\ Owner[w.note] = a /\ w \in witnesses
    BY <1>1, <2>2, <2>4, RowNumbers DEF Checkpoints, WitnessesOf
  <2>8. \A w \in W : w.height = h => w \in W2
    <3> TAKE w \in W
    <3> HAVE w.height = h
    <3>1. \A k \in CheckpointsBelow(a, cutoff) : k <= h
      BY <2>4, <2>7 DEF CheckpointsBelow, WitnessesOf
    <3>2. CheckpointsBelow(a, cutoff) \subseteq Nat
      BY <1>1, RowNumbers DEF CheckpointsBelow
    <3>3. ~Outdated(w, cutoff)
      BY <2>7, <3>1, <3>2 DEF Outdated
    <3> QED
      BY <2>3, <2>5, <2>7, <3>3 DEF WitnessesOf
  <2>9. \A w \in W2, v \in W : v.height = w.height => v \in W2
    <3> TAKE w \in W2, v \in W
    <3> HAVE v.height = w.height
    <3>1. w \in witnesses' /\ Owner[w.note] = a /\ Owner[v.note] = a /\ v \in witnesses
      BY <2>5, <2>7 DEF WitnessesOf
    <3>2. Outdated(v, cutoff) <=> Outdated(w, cutoff)
      BY <3>1 DEF Outdated
    <3> QED
      BY <2>3, <2>5, <3>1, <3>2 DEF WitnessesOf
  <2>10. /\ Birth[a] <= h /\ h <= Tip /\ h <= Tip' /\ Birth[a] \in Nat /\ ShieldedAt(a, h)
         /\ \A n \in ShieldedOf(a) : NoteFollows(n, Chain, h)
    BY <1>1, <2>2, Bounds DEF ShieldedUpto, ChainGoesOn
  <2>11. Checkpoints(a, h)'
    <3>1. \A w \in W : /\ PoolOf[w.note] \in Shielded /\ w.root = Chain[w.height]
                       /\ w.height \in (Birth[a] + 1)..h
      BY <2>2, <2>4 DEF Checkpoints
    <3>2. \A k \in (Birth[a] + 1)..h : Chain'[k] = Chain[k]
      BY <2>10 DEF ChainGoesOn
    <3>3. \A w \in W2 : w.root = Chain'[w.height]
      BY <2>6, <3>1, <3>2
    <3>4. ASSUME NEW c \in {h} \cup {w.height : w \in W2}, NEW n \in ShieldedOf(a), LiveAt(n, c)'
          PROVE  \E w \in W2 : w.note = n /\ w.height = c
      <4>1. c \in {h} \cup {w.height : w \in W} /\ LiveAt(n, c)
        BY <1>1, <2>6, <3>4 DEF LiveAt
      <4>2. PICK w \in W : w.note = n /\ w.height = c
        BY <2>2, <2>4, <4>1 DEF Checkpoints
      <4>3. w \in W2
        BY <2>8, <2>9, <3>4, <4>2
      <4> QED
        BY <4>2, <4>3
    <3>5. ASSUME NEW c \in {h} \cup {w.height : w \in W2}, NEW n \in ShieldedOf(a)
          PROVE  LiveAt(n, c)' => \E w \in W2 : w.note = n /\ w.height = c
      BY <3>4
    <3> HIDE DEF WitnessesOf, LiveAt
    <3> QED
      BY <2>5, <2>6, <3>1, <3>3, <3>5 DEF Checkpoints
  <2>12. \A n \in ShieldedOf(a) : NoteFollows(n, Chain, h)'
    BY <1>1, <2>10, NoteGoesOn DEF ShieldedOf
  <2>13. ShieldedUpto(a, h)'
    BY <1>1, <2>10, <2>11, <2>12 DEF ShieldedUpto, ShieldedAt, ShieldedOf
  <2>14. ASSUME NEW n \in TransparentOf(a) PROVE \E k \in h..Tip' : NoteFollows(n, Chain, k)'
    <3>1. PICK k \in h..Tip : NoteFollows(n, Chain, k)
      BY <2>2
    <3>2. k \in Nat /\ k <= Tip /\ k \in h..Tip' /\ n \in Note
      BY DEF ChainGoesOn, TransparentOf
    <3> QED
      BY <1>1, <3>1, <3>2, NoteGoesOn
  <2> QED
    BY <2>1, <2>13, <2>14 DEF AccountOn, TransparentOf
<1> QED
  BY <1>2, <1>3

(* Every account of the run is even after the recovery.                    *)
LEMMA RecoverShared ==
    ASSUME SharedInv, ChainGoesOn, Typed', Recover
    PROVE  RunRight' /\ \A a \in Account : AccountOn(a)'
<1>1. /\ pc = "recover" /\ pc' = "plan" /\ UNCHANGED <<treeVars, chosen, target>>
      /\ resume' = [a \in Account |-> IF a \in chosen THEN SyncHeight(a) + 1 ELSE 0]
      /\ todo' = {SyncHeight(a) + 1 : a \in chosen}
      /\ Typed /\ TreeInv /\ TreeOnce /\ RunRight /\ Tip \in Nat /\ chosen \subseteq Account
  BY SharedFacts, RunNumbers DEF Recover
<1>2. PICK cut : cut = [a \in Account |-> SyncHeight(a)] /\ Trim(chosen, cut, cut)
  BY DEF Recover
<1>3. ASSUME NEW a \in chosen
      PROVE  /\ WaitsFor(a)' /\ AccountOn(a)'
             /\ SyncHeight(a) \in Nat /\ SyncHeight(a) <= Tip
  <2>1. PICK c \in Nat : c = SyncHeight(a) /\ c \in Heights
    BY <1>1, SyncHeightType, Bounds
  <2>2. cut[a] = c /\ c \in MarksOf(a) /\ AccountOn(a) /\ c <= Tip /\ a \in Account
    BY <1>1, <1>2, <2>1 DEF SharedInv, MarksOf, AccountOn, ShieldedUpto
  <2>3. Even(a, c)'
    BY <1>1, <1>2, <2>1, <2>2, TrimEven
  <2>4. resume'[a] = c + 1 /\ c + 1 \in todo'
    BY <1>1, <2>1, <2>2
  <2> QED
    BY <2>1, <2>2, <2>3, <2>4, EvenOnNext DEF WaitsFor, EvenIsOn
<1>4. ASSUME NEW a \in Account \ chosen PROVE AccountOn(a)'
  BY <1>1, <1>2, TrimOthers, AccountGoesOn DEF SharedInv
<1>5. RunRight'
  <2>1. Tip' = Tip /\ target \in Nat
    BY <1>1, Bounds DEF treeVars, Tip, Chain, PathOf, Typed, TypeOK, RunTypes
  <2>2. target' <= Tip' /\ \A s \in todo' : s - 1 <= Tip'
    BY <1>1, <1>3, <2>1 DEF RunRight
  <2> QED
    BY <1>1, <1>3, <2>2 DEF RunRight, PlanRight, SegmentRight, InSegment
<1> QED
  BY <1>3, <1>4, <1>5

(* A segment begins with the accounts that are at the block before it.     *)
LEMMA BeginSegmentShared ==
    ASSUME SharedInv, ChainGoesOn, BeginSegment
    PROVE  RunRight' /\ \A a \in Account : AccountOn(a)'
<1>1. /\ pc = "plan" /\ todo # {} /\ UNCHANGED dbVars /\ UNCHANGED treeVars
      /\ Typed /\ RunRight /\ Tip \in Nat /\ chosen \subseteq Account /\ todo \in SUBSET Nat
      /\ target \in Nat
  BY SharedFacts, RunNumbers, Bounds DEF BeginSegment, Typed, TypeOK, RunTypes
<1>2. CASE EndRun
  BY <1>1, <1>2, RunEndsShared DEF EndRun
<1>3. CASE ~EndRun
  <2>1. PICK start : start = MinOf(todo)
    OBVIOUS
  <2>2. PICK later : later = todo \ {start}
    OBVIOUS
  <2>3. start \in todo /\ start \in Nat /\ \A s \in todo : s \in Nat /\ start <= s
    BY <1>1, <2>1, MinOfIsMin
  <2>4. PICK accounts : accounts = {a \in chosen : resume[a] <= start}
    OBVIOUS
  <2>5. PICK end : end = SegmentEnd(later)
    OBVIOUS
  <2>6. /\ pc' = "scan" /\ seg' = [start |-> start, end |-> end, accounts |-> accounts]
        /\ todo' = later /\ scan' = {s \in accounts \X AddrIndexes : s[2] \in DOMAIN AddrsOf[s[1]]}
        /\ UNCHANGED <<chosen, target, resume>>
    BY <1>3, <2>1, <2>2, <2>4, <2>5 DEF BeginSegment
  <2>7. end \in Int /\ end <= Tip /\ (later # {} => end + 1 \in later) /\ start <= end
    <3>1. ~(start > end)
      BY <1>3, <2>1, <2>2, <2>4, <2>5 DEF BeginSegment
    <3>2. CASE later = {}
      BY <1>1, <2>3, <2>5, <3>1, <3>2 DEF SegmentEnd, RunRight
    <3>3. CASE later # {}
      <4>1. later \in SUBSET Nat
        BY <1>1, <2>2
      <4>2. PICK x : x = MinOf(later)
        OBVIOUS
      <4>3. x \in later /\ x \in Nat
        BY <3>3, <4>1, <4>2, MinOfIsMin
      <4>4. x - 1 <= Tip
        BY <1>1, <2>2, <4>3 DEF RunRight
      <4>5. end = x - 1
        BY <2>5, <3>3, <4>2 DEF SegmentEnd
      <4> QED
        BY <1>1, <2>3, <3>1, <4>3, <4>4, <4>5
    <3> QED
      BY <3>2, <3>3
  <2>8. \A a \in Account : Untouched(a)
    BY <1>1, SameTables DEF dbVars
  <2>9. ASSUME NEW a \in chosen \ accounts PROVE WaitsFor(a)'
    <3>1. a \in Account /\ a \in chosen /\ resume[a] \in Nat /\ ~(resume[a] <= start)
      BY <1>1, <2>4, RunNumbers
    <3>2. ~GoesOn(a)
      <4> SUFFICES ASSUME GoesOn(a) PROVE FALSE
        OBVIOUS
      <4>1. \A s \in todo : resume[a] < s
        BY DEF GoesOn
      <4> QED
        BY <2>3, <3>1, <4>1
    <3>3. WaitsFor(a)
      BY <1>1, <3>1, <3>2 DEF RunRight, PlanRight
    <3>4. resume[a] \in todo => resume[a] \in todo'
      BY <2>2, <2>3, <2>6, <3>1
    <3> QED
      BY <1>1, <2>6, <2>8, <3>1, <3>3, <3>4, WaitGoesOn
  <2>10. PICK d \in Nat : d = start - 1 /\ d >= 1
    <3>1. start >= 2
      BY <1>1, <2>3 DEF Typed, InFlight
    <3> QED
      BY <2>3, <3>1
  <2>11. ASSUME NEW a \in accounts PROVE TakesPart(a, d)'
    <3>1. a \in Account /\ a \in chosen /\ resume[a] \in Nat /\ resume[a] <= start
      BY <1>1, <2>4, RunNumbers
    <3>2. PICK h \in Heights : Even(a, h) /\ h + 1 \in todo /\ h < start
      <4>1. CASE WaitsFor(a)
        <5>1. PICK h \in Heights : Even(a, h) /\ resume[a] = h + 1 /\ h + 1 \in todo
          BY <4>1 DEF WaitsFor
        <5> QED
          BY <2>3, <3>1, <5>1, Bounds
      <4>2. CASE GoesOn(a)
        BY <2>3, <4>2 DEF GoesOn
      <4> QED
        BY <1>1, <3>1, <4>1, <4>2 DEF RunRight, PlanRight
    <3>3. h = d
      BY <2>3, <2>10, <3>2, Bounds
    <3>4. Even(a, d)'
      BY <1>1, <2>8, <3>1, <3>2, <3>3, EvenGoesOn
    <3>5. seg'.start = start /\ seg'.end = end
      BY <2>6
    <3>6. \A i \in DOMAIN AddrsOf[a] : <<a, i>> \in scan' /\ ScannedTo(a, i)' = d
      <4>1. \A i \in DOMAIN AddrsOf[a] : i \in AddrIndexes
        BY <3>1 DEF AddrIndexes
      <4>2. a \in accounts
        OBVIOUS
      <4>3. \A i \in DOMAIN AddrsOf[a] : <<a, i>> \in scan'
        BY <2>6, <4>1, <4>2
      <4> QED
        BY <2>10, <3>5, <4>3 DEF ScannedTo
    <3>7. Birth[a] < start
      BY <2>3, <2>10, <3>1, <3>4, Bounds DEF Even, ShieldedUpto
    <3> HIDE DEF ScannedTo
    <3>8. /\ ShieldedUpto(a, d)' /\ (0 \in PoolsOf[a] => height'[a][0] = d)
          /\ \A n \in TransparentOf(a) : NoteFollows(n, Chain, d)'
      BY <3>4 DEF Even, TransparentOf
    <3>9. \A n \in TransparentOf(a) : \A i \in DOMAIN AddrsOf[a] :
            AddrsOf[a][i] = AddrOf[n] => NoteFollows(n, Chain, ScannedTo(a, i))'
      <4> TAKE n \in TransparentOf(a)
      <4> TAKE i \in DOMAIN AddrsOf[a]
      <4>1. PICK k : k = ScannedTo(a, i)' /\ k = d
        BY <3>6
      <4> QED
        BY <3>8, <4>1
    <3>10. 0 \in PoolsOf[a] => height'[a][0] =
             IF \A i \in DOMAIN AddrsOf[a] : <<a, i>> \in scan' THEN seg'.start - 1 ELSE seg'.end
      BY <2>10, <3>5, <3>6, <3>8
    <3> QED
      BY <3>5, <3>7, <3>8, <3>9, <3>10 DEF TakesPart, TransparentOf
  <2>12. SegmentRight'
    <3>1. seg'.start = start /\ seg'.end = end /\ seg'.accounts = accounts
      BY <2>6
    <3>2. SegmentAt(d)'
      BY <2>6, <2>10, <2>11, <3>1 DEF SegmentAt
    <3>3. d \in (seg'.start - 1)..seg'.end
      BY <2>3, <2>7, <2>10, <3>1
    <3>4. Tip' = Tip
      BY <1>1 DEF treeVars, Tip, Chain, PathOf
    <3>5. \E e \in (seg'.start - 1)..seg'.end : SegmentAt(e)'
      BY <3>2, <3>3
    <3> QED
      BY <2>6, <2>7, <2>9, <3>1, <3>4, <3>5 DEF SegmentRight
  <2>13. RunRight'
    <3>1. Tip' = Tip
      BY <1>1 DEF treeVars, Tip, Chain, PathOf
    <3>2. target <= Tip /\ \A s \in todo' : s - 1 <= Tip
      BY <1>1, <2>2, <2>6 DEF RunRight
    <3> QED
      BY <2>6, <2>12, <3>1, <3>2 DEF RunRight, PlanRight
  <2> QED
    BY <2>8, <2>13, AccountsRest
<1> QED
  BY <1>2, <1>3

(* Within a segment, from one of its parts to the next one.                *)
LEMMA SegmentMoves ==
    ASSUME SharedInv, ChainGoesOn, InSegment, pc' \in {"open", "read", "times"}, scan = {},
           UNCHANGED <<chosen, target, resume, todo, seg, scan>>, \A a \in Account : Untouched(a),
           NEW d \in (seg.start - 1)..seg.end, \A a \in seg.accounts : TakesPart(a, d),
           pc' = "open" => d = seg.start - 1, pc' = "times" => d = seg.end,
           pc' = "read" => StreamRight(d)'
    PROVE  RunRight' /\ \A a \in Account : AccountOn(a)'
<1>1. /\ Typed /\ RunRight /\ chosen \subseteq Account /\ seg.accounts \subseteq Account /\ Tip \in Nat /\ Tip' \in Nat
      /\ Tip <= Tip' /\ seg.end <= Tip /\ (todo # {} => seg.end + 1 \in todo)
      /\ \A a \in chosen \ seg.accounts : WaitsFor(a)
      /\ seg.start >= 2 /\ seg.start \in Nat /\ seg.end \in Nat /\ seg.start <= seg.end
  BY SharedFacts, RunNumbers DEF ChainGoesOn
<1>2. target' <= Tip' /\ \A s \in todo' : s - 1 <= Tip'
  <2>1. \A s \in todo : s \in Nat /\ s - 1 <= Tip
    BY <1>1, RunNumbers DEF RunRight
  <2>2. target \in Nat /\ target <= Tip
    BY <1>1, Bounds DEF Typed, TypeOK, RunTypes, RunRight, InSegment
  <2> QED
    BY <1>1, <2>1, <2>2
<1>3. \A a \in chosen \ seg.accounts : WaitsFor(a)'
  BY <1>1, WaitGoesOn
<1>4. \A a \in seg.accounts : TakesPart(a, d)'
  <2> TAKE a \in seg.accounts
  <2>1. d \in Nat /\ SameScanOf(a) /\ seg.start - 1 <= Tip /\ seg.start >= 1 /\ a \in Account
    BY <1>1 DEF SameScanOf
  <2> QED
    BY <1>1, <2>1, PartGoesOn
<1>5. SegmentAt(d)'
  BY <1>4 DEF SegmentAt
<1>6. SegmentRight'
  <2>1. seg'.end <= Tip'
    BY <1>1
  <2> QED
    BY <1>1, <1>3, <1>5, <2>1 DEF SegmentRight
<1> QED
  BY <1>2, <1>6, AccountsRest DEF RunRight, PlanRight

LEMMA ScanDoneShared ==
    ASSUME SharedInv, ChainGoesOn, ScanDone
    PROVE  RunRight' /\ \A a \in Account : AccountOn(a)'
<1>1. /\ pc = "scan" /\ scan = {} /\ pc' = "open" /\ UNCHANGED dbVars /\ InSegment
      /\ UNCHANGED <<chosen, target, resume, todo, seg, scan>>
  BY DEF ScanDone, InSegment, runVars
<1>2. PICK d \in (seg.start - 1)..seg.end : SegmentAt(d)
  BY <1>1, SharedFacts
<1>3. d = seg.start - 1 /\ \A a \in seg.accounts : TakesPart(a, d)
  BY <1>1, <1>2 DEF SegmentAt
<1>4. \A a \in Account : Untouched(a)
  BY <1>1, SameTables DEF dbVars
<1> QED
  BY <1>1, <1>2, <1>3, <1>4, SegmentMoves

(* The witnesses the stream starts with lead to the block before it.       *)
LEMMA WitnessAt ==
    ASSUME Typed, NEW a \in Account, NEW h \in Nat, ShieldedUpto(a, h), NEW n \in ShieldedOf(a), Unspent(n)
    PROVE  RootAt(n, h) = Chain[h]
<1>1. LiveAt(n, h)
  <2>1. noted[n] \in Nat /\ noted[n] # 0 /\ spent[n] = 0 /\ NoteFollows(n, Chain, h)
    BY RowNumbers DEF ShieldedOf, Unspent, ShieldedUpto
  <2> QED
    BY <2>1, Bounds DEF NoteFollows, LiveAt
<1>2. PICK rows : rows = {w \in witnesses : w.note = n /\ w.height = h}
  OBVIOUS
<1>3. rows # {} /\ \A w \in rows : w.root = Chain[h]
  <2>1. Checkpoints(a, h) /\ Owner[n] = a
    BY DEF ShieldedUpto, ShieldedOf
  <2> QED
    BY <1>1, <1>2, <2>1 DEF Checkpoints, WitnessesOf
<1>4. (CHOOSE w \in rows : TRUE) \in rows
  BY <1>3
<1> QED
  BY <1>2, <1>3, <1>4 DEF RootAt

LEMMA OpenStreamShared ==
    ASSUME SharedInv, ChainGoesOn, OpenStream
    PROVE  RunRight' /\ \A a \in Account : AccountOn(a)'
<1>1. /\ pc = "open" /\ UNCHANGED dbVars /\ UNCHANGED treeVars /\ InSegment
      /\ UNCHANGED <<chosen, target, resume, todo, seg, scan>>
  BY DEF OpenStream, InSegment, runVars
<1>2. PICK d \in (seg.start - 1)..seg.end : SegmentAt(d)
  BY <1>1, SharedFacts
<1>3. d = seg.start - 1 /\ \A a \in seg.accounts : TakesPart(a, d)
  BY <1>1, <1>2 DEF SegmentAt
<1>4. \A a \in Account : Untouched(a)
  BY <1>1, SameTables DEF dbVars
<1>5. /\ Typed /\ seg.start \in Nat /\ seg.end \in Nat /\ seg.start >= 2 /\ seg.start <= seg.end /\ seg.end <= Tip
      /\ Tip \in Nat /\ scan = {} /\ seg.accounts \subseteq Account /\ d \in Nat /\ d >= 1 /\ d + 1 = seg.start
  BY <1>1, <1>3, SharedFacts, RunNumbers
<1>6. CASE \E a \in seg.accounts : PoolsOf[a] \cap Shielded # {}
  <2>1. /\ pc' = "read" /\ reading' = TRUE /\ next' = seg.start /\ edge' = Chain[seg.start - 1]
        /\ utxo' = [n \in Note |-> IF Tracked(n) /\ noted[n] # 0 /\ spent[n] = 0
                                   THEN RootAt(n, seg.start - 1) ELSE 0]
        /\ buf = <<>> /\ chan = <<>> /\ buf' = <<>> /\ chan' = <<>>
    BY <1>1, <1>5, <1>6 DEF OpenStream, Typed, InFlight
  <2>2. Len(buf') = 0 /\ Len(chan') = 0
    BY <2>1
  <2>3. Chain' = Chain
    BY <1>1 DEF treeVars, Chain, PathOf
  <2>4. MessagesFollow(Chain, d)'
    BY <2>2 DEF MessagesFollow
  <2>5. BufferFollows(Chain, d)'
    <3>1. d < next' - Len(buf') /\ (d + 1)..(next' - Len(buf') - 1) = {} /\ 1..Len(buf') = {}
      BY <1>5, <2>1, <2>2
    <3> QED
      BY <3>1 DEF BufferFollows
  <2>6. \A n \in Note : (Tracked(n) /\ Unspent(n))' <=> Tracked(n) /\ Unspent(n)
    BY <1>1 DEF Tracked, Unspent, dbVars
  <2>7. ASSUME NEW n \in Note, Tracked(n), Unspent(n) PROVE RootAt(n, d) = Chain[d]
    <3>1. Owner[n] \in Account /\ Owner[n] \in seg.accounts /\ n \in ShieldedOf(Owner[n])
      BY <1>5, <2>7 DEF Tracked, ShieldedOf
    <3>2. ShieldedUpto(Owner[n], d)
      BY <1>3, <3>1 DEF TakesPart
    <3> QED
      BY <1>5, <2>7, <3>1, <3>2, WitnessAt
  <2>8. \A n \in Note : utxo'[n] = IF Tracked(n) /\ Unspent(n) THEN Chain[d] ELSE 0
    BY <1>3, <2>1, <2>7 DEF Unspent
  <2>9. next' \in seg'.start..(seg'.end + 1)
    BY <1>1, <1>5, <2>1
  <2>10. StreamRight(d)'
    BY <1>3, <2>1, <2>2, <2>3, <2>4, <2>5, <2>6, <2>8, <2>9 DEF StreamRight
  <2> QED
    BY <1>1, <1>2, <1>3, <1>4, <1>5, <2>1, <2>10, SegmentMoves
<1>7. CASE \A a \in seg.accounts : PoolsOf[a] \cap Shielded = {}
  <2>1. pc' = "times"
    BY <1>7 DEF OpenStream
  <2>2. \A a \in seg.accounts : TakesPart(a, seg.end)
    <3> TAKE a \in seg.accounts
    <3>1. TakesPart(a, d) /\ a \in Account /\ PoolsOf[a] \cap Shielded = {} /\ Birth[a] \in Nat
      BY <1>3, <1>5, <1>7, Bounds
    <3>2. Birth[a] <= seg.end /\ \A w \in WitnessesOf(a) : PoolOf[w.note] \in Shielded
      BY <1>5, <3>1 DEF TakesPart, ShieldedUpto, Checkpoints
    <3>3. ShieldedUpto(a, seg.end)
      BY <1>5, <3>1, <3>2, NothingShielded
    <3> QED
      BY <3>1, <3>3 DEF TakesPart
  <2>3. seg.end \in (seg.start - 1)..seg.end
    BY <1>5
  <2> QED
    BY <1>1, <1>4, <1>5, <2>1, <2>2, <2>3, SegmentMoves
<1> QED
  BY <1>6, <1>7

(* The stream closes when everything up to the end of the segment is       *)
(* committed.                                                              *)
LEMMA CloseStreamShared ==
    ASSUME SharedInv, ChainGoesOn, CloseStream
    PROVE  RunRight' /\ \A a \in Account : AccountOn(a)'
<1>1. /\ pc = "read" /\ ~reading /\ pc' = "times" /\ InSegment
      /\ UNCHANGED <<chosen, target, resume, todo, seg, scan>>
  BY DEF CloseStream, InSegment, runVars
<1>2. PICK d \in (seg.start - 1)..seg.end : SegmentAt(d)
  BY <1>1, SharedFacts
<1>3. StreamRight(d) /\ \A a \in seg.accounts : TakesPart(a, d)
  BY <1>1, <1>2 DEF SegmentAt
<1>4. RowsInv /\ OneChain /\ scan = {} /\ seg.start \in Nat /\ seg.end \in Nat
  BY <1>1, SharedFacts
<1>5. ASSUME chan # <<>> PROVE Head(chan).kind \notin {"stop", "reorg"}
  <2>1. SentOnChain(Head(chan))
    BY <1>4, <1>5, TailOneChain
  <2>2. Head(chan) = chan[1] /\ 1 \in 1..Len(chan)
    BY <1>4, <1>5 DEF RowsInv, Typed, TypeOK, StreamTypes
  <2> QED
    BY <1>3, <2>1, <2>2 DEF SentOnChain, StreamRight
<1>6. chan = <<>> /\ UNCHANGED <<height, noted, spent, witnesses>>
  BY <1>5 DEF CloseStream, Arriving
<1>7. d = seg.end
  <2>1. next = seg.end + 1 /\ buf = <<>> /\ BufferFollows(Chain, d)
    BY <1>1, <1>3 DEF StreamRight
  <2>2. Len(buf) = 0 /\ Len(chan) = 0
    BY <1>6, <2>1
  <2>3. \A k : ~Covered(k)
    BY <2>2 DEF Covered
  <2>4. \A k \in (d + 1)..seg.end : FALSE
    <3>1. \A k \in (d + 1)..(next - Len(buf) - 1) : FALSE
      BY <2>1, <2>3 DEF BufferFollows
    <3>2. next - Len(buf) - 1 = seg.end
      BY <1>4, <2>1, <2>2
    <3> QED
      BY <3>1, <3>2
  <2> QED
    BY <1>4, <2>4
<1>8. \A a \in Account : Untouched(a)
  BY <1>6, SameTables
<1> QED
  BY <1>1, <1>2, <1>3, <1>4, <1>7, <1>8, SegmentMoves

LEMMA EndSegmentShared ==
    ASSUME SharedInv, AddressesKnown, ChainGoesOn, EndSegment
    PROVE  RunRight' /\ \A a \in Account : AccountOn(a)'
<1>1. /\ pc = "times" /\ UNCHANGED dbVars /\ UNCHANGED treeVars /\ InSegment
      /\ Typed /\ RunRight /\ Tip \in Nat /\ chosen \subseteq Account /\ seg.accounts \subseteq Account
      /\ seg.start \in Nat /\ seg.end \in Nat /\ seg.start >= 2 /\ seg.start <= seg.end /\ scan = {}
      /\ (todo # {} => seg.end + 1 \in todo) /\ \A a \in chosen \ seg.accounts : WaitsFor(a)
  <2>1. pc = "times" /\ UNCHANGED dbVars /\ UNCHANGED treeVars /\ InSegment
    BY DEF EndSegment, InSegment
  <2> QED
    BY <2>1, SharedFacts, RunNumbers
<1>2. CASE todo = {}
  <2>1. pc' = "idle" /\ todo' = {}
    BY <1>2 DEF EndSegment, EndRun
  <2> QED
    BY <1>1, <2>1, RunEndsShared
<1>3. CASE todo # {}
  <2>1. /\ pc' = "plan" /\ UNCHANGED <<chosen, target, todo, scan>>
        /\ resume' = [a \in Account |-> IF a \in seg.accounts THEN seg.end ELSE resume[a]]
    BY <1>3 DEF EndSegment
  <2>2. \A a \in Account : Untouched(a)
    BY <1>1, SameTables DEF dbVars
  <2>3. ASSUME NEW a \in chosen PROVE WaitsFor(a)' \/ GoesOn(a)'
    <3>1. CASE a \in seg.accounts
      <4>1. TakesPart(a, seg.end) /\ a \in Account
        BY <1>1, <3>1, SharedFacts DEF SegmentAt
      <4>2. Even(a, seg.end)
        BY <1>1, <4>1, PartEnds
      <4>3. PICK e \in Nat : e = seg.end
        BY <1>1
      <4>4. Even(a, e)'
        BY <1>1, <2>2, <4>1, <4>2, <4>3, EvenGoesOn
      <4>5. \A s \in todo : e < s
        BY <1>1, <4>3 DEF SharedInv, SpendsInv, Behind, BehindSegment
      <4>6. e \in Heights /\ resume'[a] = e /\ e + 1 \in todo'
        BY <1>1, <1>3, <2>1, <3>1, <4>1, <4>3 DEF Typed, TypeOK, RunTypes
      <4> QED
        BY <2>1, <4>4, <4>5, <4>6 DEF GoesOn
    <3>2. CASE a \notin seg.accounts
      <4>1. a \in Account /\ WaitsFor(a) /\ resume'[a] = resume[a]
        BY <1>1, <2>1, <3>2
      <4> QED
        BY <1>1, <2>1, <2>2, <4>1, WaitGoesOn
    <3> QED
      BY <3>1, <3>2
  <2>4. Tip' = Tip
    BY <1>1 DEF treeVars, Tip, Chain, PathOf
  <2>5. RunRight'
    BY <1>1, <2>1, <2>3, <2>4 DEF RunRight, PlanRight, SegmentRight, InSegment
  <2> QED
    BY <2>2, <2>5, AccountsRest
<1> QED
  BY <1>2, <1>3

(* Between runs the user rewinds an account or puts it back to its birth.  *)
LEMMA UserTrims ==
    ASSUME SharedInv, ChainGoesOn, Typed', UserFault, UNCHANGED <<treeVars, pc, target, todo>>,
           NEW a \in Account, NEW cut, NEW to, Trim({a}, cut, to),
           NEW c \in Nat, to[a] = c, c \in MarksOf(a) \cup {Birth[a]},
           cut[a] = c \/ (cut[a] = 0 /\ c = Birth[a])
    PROVE  RunRight' /\ \A b \in Account : AccountOn(b)'
<1>1. Typed /\ TreeInv /\ TreeOnce /\ RunRight /\ {a} \in SUBSET Account
  BY SharedFacts
<1>2. pc = "idle" /\ pc' = "idle"
  BY NoSuchFault DEF UserFault
<1>3. AccountOn(a)'
  <2>1. Even(a, c)'
    BY <1>1, TrimEven DEF SharedInv
  <2> QED
    BY <2>1, EvenOnNext DEF EvenIsOn
<1>4. ASSUME NEW b \in Account \ {a} PROVE AccountOn(b)'
  BY <1>1, TrimOthers, AccountGoesOn DEF SharedInv
<1>5. Tip' = Tip
  BY DEF treeVars, Tip, Chain, PathOf
<1> QED
  BY <1>1, <1>2, <1>3, <1>4, <1>5 DEF RunRight, PlanRight, SegmentRight, InSegment

LEMMA UserRewindShared ==
    ASSUME SharedInv, ChainGoesOn, Typed', NEW a \in Account, NEW f \in Heights, UserRewind(a, f)
    PROVE  RunRight' /\ \A b \in Account : AccountOn(b)'
<1>1. UserFault /\ UNCHANGED <<treeVars, pc, target, todo>> /\ Typed
  BY SharedFacts DEF UserRewind, runVars
<1>2. PICK cut : cut = [b \in Account |-> IF CheckpointsBelow(b, f) = {} THEN 0 ELSE MaxOf(CheckpointsBelow(b, f))]
  OBVIOUS
<1>3. PICK to : to = [b \in Account |-> IF CheckpointsBelow(b, f) = {} THEN Birth[b] ELSE cut[b]]
  OBVIOUS
<1>4. Trim({a}, cut, to)
  BY <1>2, <1>3 DEF UserRewind, Rewind
<1>5. CASE CheckpointsBelow(a, f) = {}
  <2>1. cut[a] = 0 /\ to[a] = Birth[a] /\ Birth[a] \in Nat
    BY <1>2, <1>3, <1>5, Bounds
  <2> QED
    BY <1>1, <1>4, <2>1, UserTrims
<1>6. CASE CheckpointsBelow(a, f) # {}
  <2>1. CheckpointsBelow(a, f) \in SUBSET (0..MaxHeight) /\ MaxHeight \in Nat
    BY <1>1, HeightsOfRows, Bounds DEF CheckpointsBelow
  <2>2. PICK c : c = MaxOf(CheckpointsBelow(a, f))
    OBVIOUS
  <2>3. c \in CheckpointsBelow(a, f) /\ c \in Nat
    <3>1. PICK S : S = CheckpointsBelow(a, f)
      OBVIOUS
    <3>2. S \in SUBSET (0..MaxHeight) /\ S # {} /\ MaxHeight \in Nat
      BY <1>6, <2>1, <3>1
    <3>3. MaxOf(S) \in S
      BY <3>2, MaxOfIsMax
    <3>4. c \in S
      BY <2>2, <3>1, <3>3
    <3> QED
      BY <3>1, <3>2, <3>4
  <2>4. c \in MarksOf(a)
    BY <2>3 DEF CheckpointsBelow, MarksOf, WitnessesOf
  <2>5. cut[a] = c /\ to[a] = c
    BY <1>2, <1>3, <1>6, <2>2
  <2> QED
    BY <1>1, <1>4, <2>3, <2>4, <2>5, UserTrims
<1> QED
  BY <1>5, <1>6

LEMMA UserResetShared ==
    ASSUME SharedInv, ChainGoesOn, Typed', NEW a \in Account, UserReset(a)
    PROVE  RunRight' /\ \A b \in Account : AccountOn(b)'
<1>1. UserFault /\ UNCHANGED <<treeVars, pc, target, todo>>
  BY DEF UserReset, runVars
<1>2. PICK cut : cut = [b \in Account |-> 0] /\ Trim({a}, cut, Birth)
  BY DEF UserReset
<1>3. cut[a] = 0 /\ Birth[a] \in Nat
  BY <1>2, Bounds
<1> QED
  BY <1>1, <1>2, <1>3, UserTrims

(* The accounts of the segment are on the chain.                           *)
SegmentIsOn ==
    AddressesKnown /\ Typed /\ Tip \in Nat /\ RunRight /\ InSegment => \A a \in seg.accounts : AccountOn(a)

LEMMA SegmentAlwaysOn == SegmentIsOn
<1> SUFFICES ASSUME AddressesKnown, Typed, Tip \in Nat, RunRight, InSegment, NEW a \in seg.accounts
             PROVE  AccountOn(a)
  BY DEF SegmentIsOn
<1>1. /\ a \in Account /\ seg.start \in Nat /\ seg.end \in Nat /\ seg.start >= 2 /\ seg.end <= Tip
      /\ (pc # "scan" => scan = {})
  BY RunNumbers DEF Typed, InFlight, InSegment, RunRight, SegmentRight
<1>2. PICK d \in (seg.start - 1)..seg.end : SegmentAt(d)
  BY DEF RunRight, SegmentRight
<1>3. d \in Nat /\ seg.start - 1 <= d /\ d <= seg.end
  BY <1>1
<1>4. TakesPart(a, d) /\ (scan # {} => d = seg.start - 1)
  BY <1>1, <1>2 DEF SegmentAt
<1> QED
  BY <1>1, <1>3, <1>4, PartOn

LEMMA SegmentOnNext == SegmentIsOn'
BY SegmentAlwaysOn, PTL

(* A chunk is written for the accounts of the segment and for no other.    *)
LEMMA ChunkFacts ==
    ASSUME SharedInv, Arriving("chunk"), NEW d \in (seg.start - 1)..seg.end, SegmentAt(d), NEW m, m = Head(chan)
    PROVE  /\ StreamRight(d) /\ InSegment /\ (\A a \in seg.accounts : TakesPart(a, d))
           /\ d \in Nat /\ d >= 1 /\ d <= Len(Chain) /\ MessagesFollow(Chain, d) /\ BufferFollows(Chain, d)
           /\ m = chan[1] /\ IsChunk(m) /\ m.from = d + 1
           /\ Upto(m) \in Nat /\ d < Upto(m) /\ Upto(m) <= seg.end /\ Upto(m) < next - Len(buf)
           /\ Last(m) = Chain[Upto(m)] /\ PrevHash(m.ids[1]) = Chain[d]
           /\ \A i \in 2..Len(chan) : IsChunk(chan[i]) => Upto(m) < chan[i].from
           /\ \A n \in Note : Tracked(n) =>
                /\ n \in Kept <=> Unspent(n)
                /\ NoteFollows(n, Chain, d) /\ Birth[Owner[n]] \in Nat /\ Birth[Owner[n]] <= d
           /\ \A n \in Kept : Tracked(n) /\ utxo[n] = Chain[d]
<1>1. /\ pc = "read" /\ InSegment /\ RowsInv /\ TreeInv /\ seg.start \in Nat /\ seg.start >= 2 /\ seg.end \in Nat
      /\ seg.end <= Tip /\ Tip = Len(Chain) /\ Chain \in Paths /\ next \in Nat /\ Len(buf) \in Nat /\ Tip \in Nat
      /\ Typed
  BY SharedFacts DEF Arriving, InSegment
<1>2. /\ StreamRight(d) /\ \A a \in seg.accounts : TakesPart(a, d)
  BY <1>1 DEF SegmentAt
<1>3. /\ d \in Nat /\ d >= 1 /\ d <= Tip /\ MessagesFollow(Chain, d) /\ BufferFollows(Chain, d)
      /\ next <= seg.end + 1
  BY <1>1, <1>2 DEF StreamRight
<1>4. PICK p \in Paths : p = Chain
  BY <1>1
<1>5. /\ m = chan[1] /\ IsChunk(m) /\ m.from = d + 1 /\ Len(m.ids) \in Nat /\ Len(m.ids) >= 1
      /\ Upto(m) = d + Len(m.ids) /\ Upto(m) \in 1..Len(p) /\ Upto(m) < next - Len(buf)
      /\ Last(m) = p[Upto(m)] /\ PrevHash(m.ids[1]) = p[d]
      /\ \A i \in 2..Len(chan) : IsChunk(chan[i]) => Upto(m) < chan[i].from
  BY <1>1, <1>3, <1>4, ChunkOnPath
<1>6. Upto(m) \in Nat /\ d < Upto(m) /\ Upto(m) <= seg.end
  <2>1. PICK u : u = Upto(m)
    OBVIOUS
  <2>2. u = d + Len(m.ids) /\ u < next - Len(buf)
    BY <1>5, <2>1
  <2>3. u \in Nat /\ d < u /\ u <= seg.end
    <3>1. PICK k \in Nat : k = Len(m.ids) /\ k >= 1
      BY <1>5
    <3>2. PICK j \in Nat : j = Len(buf)
      BY <1>1
    <3>3. PICK e \in Nat : e = seg.end
      BY <1>1
    <3>4. u = d + k /\ u < next - j /\ next <= e + 1 /\ next \in Nat /\ d \in Nat
      BY <1>1, <1>3, <2>2, <3>1, <3>2, <3>3
    <3> QED
      BY <3>1, <3>2, <3>3, <3>4
  <2> QED
    BY <2>1, <2>3
<1>7. Chain[d] # 0
  BY <1>1, <1>3, ChainLength
<1>8. \A n \in Note : (n \in Kept <=> Tracked(n) /\ Unspent(n)) /\ (n \in Kept => utxo[n] = Chain[d])
  BY <1>2, <1>7 DEF StreamRight, Kept
<1>9. ASSUME NEW n \in Note, Tracked(n)
      PROVE  NoteFollows(n, Chain, d) /\ Birth[Owner[n]] \in Nat /\ Birth[Owner[n]] <= d
  <2>1. Owner[n] \in seg.accounts /\ n \in ShieldedOf(Owner[n])
    BY <1>9 DEF Tracked, ShieldedOf
  <2>2. ShieldedUpto(Owner[n], d)
    BY <1>2, <2>1 DEF TakesPart
  <2> QED
    BY <2>1, <2>2, Bounds DEF ShieldedUpto
<1>10. \A n \in Kept : n \in Note
  BY DEF Kept
<1> QED
  BY <1>1, <1>2, <1>3, <1>4, <1>5, <1>6, <1>8, <1>9, <1>10

(* An output that the scan has found together with a spend is in the same  *)
(* block of the chain.                                                     *)
LEMMA RowsAtBlocks ==
    ASSUME SharedInv, AddressesKnown, Arriving("chunk"), NEW m, m = Head(chan),
           NEW d \in (seg.start - 1)..seg.end, SegmentAt(d), NEW n \in Note, Tracked(n)
    PROVE  RowAtBlock(m, n)
<1> SUFFICES ASSUME SpendsIn(m, n) # {}, NEW c \in Outs[n], noted[c] # 0
             PROVE  noted[c] = m.from + MinOf(SpendsIn(m, n)) - 1
  <2>1. Outs[n] = {} => RowAtBlock(m, n)
    BY TransactionRow DEF RowAtBlock
  <2>2. ASSUME NEW c \in Outs[n] PROVE (CHOOSE e \in Outs[n] : TRUE) = c /\ Outs[n] = {c}
    BY <2>2, WarpSyncAssumption
  <2> QED
    BY <2>1, <2>2 DEF RowAtBlock, TransactionHeight
<1>1. /\ c \in Note /\ PoolOf[c] = 0 /\ Owner[c] = Owner[n]
  BY WarpSyncAssumption
<1>2. PICK p \in Paths : p = Chain
  BY SharedFacts
<1>3. /\ SpendsInv /\ TreeOnce /\ TreeInv /\ Tip = Len(p) /\ Tip \in Nat /\ pc = "read" /\ scan = {}
      /\ seg.end \in Nat /\ seg.end <= Tip /\ JoinedBlocks
  BY <1>2, SharedFacts DEF Arriving, InSegment, SharedInv
<1>4. /\ d \in Nat /\ d >= 1 /\ d <= Len(p) /\ MessagesFollow(p, d) /\ NoteFollows(n, p, d)
      /\ Upto(m) <= seg.end /\ TakesPart(Owner[n], d) /\ Owner[n] \in Account /\ Upto(m) \in Nat
  BY <1>2, ChunkFacts, Bounds DEF Tracked
<1>5. PICK y : y = m.from + MinOf(SpendsIn(m, n)) - 1
  OBVIOUS
<1>6. y \in (d + 1)..Upto(m) /\ n \in blocks[p[y]].spends
  BY <1>3, <1>4, <1>5, NotesOfChunk
<1>7. noted[c] \in 1..Len(p) /\ c \in blocks[p[noted[c]]].mints
  <2>1. PICK i \in DOMAIN AddrsOf[Owner[n]] : AddrsOf[Owner[n]][i] = AddrOf[c]
    BY <1>1, <1>4 DEF AddressesKnown, TransparentOf
  <2>2. NoteFollows(c, p, seg.end)
    BY <1>1, <1>2, <1>3, <1>4, <2>1 DEF TakesPart, TransparentOf, ScannedTo
  <2>3. Birth[Owner[c]] \in Nat
    BY <1>1, <1>4, Bounds
  <2> QED
    BY <1>3, <2>2, <2>3 DEF NoteFollows
<1>8. n \in blocks[p[noted[c]]].spends
  <2>1. p[noted[c]] \in 1..Len(blocks)
    BY <1>2, <1>3, <1>7, ChainLength
  <2> QED
    BY <1>3, <1>7, <2>1 DEF JoinedBlocks
<1>9. y \in 1..Len(p)
  BY <1>3, <1>4, <1>6
<1>10. OnceOn(p)
  BY <1>2, <1>3 DEF TreeOnce, Paths
<1> QED
  BY <1>5, <1>6, <1>7, <1>8, <1>9, <1>10 DEF OnceOn

(* What the chunk writes for the notes of the segment.                     *)
LEMMA ChunkRowsShared ==
    ASSUME SharedInv, AddressesKnown, HandleChunk, NEW m, m = Head(chan),
           NEW d \in (seg.start - 1)..seg.end, SegmentAt(d), NEW u \in Nat, u = Upto(m), NEW p, p = Chain,
           NEW n \in Note, Tracked(n)
    PROVE  /\ NoteFollows(n, p, u)'
           /\ \A c \in Nat : c <= d /\ LiveAt(n, c)' => LiveAt(n, c)
           /\ LiveAt(n, u)' => n \in Found(m) \cup Kept
           /\ Unspent(n)' <=> n \in Found(m) \cup Kept /\ SpendsIn(m, n) = {}
<1>1. Arriving("chunk") /\ SpendsInv /\ TreeOnce /\ p \in Paths
  BY SharedFacts DEF HandleChunk
<1>2. /\ d \in Nat /\ d >= 1 /\ d <= Len(Chain) /\ MessagesFollow(Chain, d) /\ (n \in Kept <=> Unspent(n))
      /\ NoteFollows(n, Chain, d) /\ Birth[Owner[n]] \in Nat /\ Birth[Owner[n]] <= d
  BY <1>1, ChunkFacts
<1>3. d <= Len(p) /\ MessagesFollow(p, d) /\ NoteFollows(n, p, d)
  BY <1>2
<1>4. PICK b \in Nat : b = Birth[Owner[n]] /\ b <= d
  BY <1>2
<1>5. RowAtBlock(m, n)
  BY <1>1, RowsAtBlocks
<1> QED
  BY <1>1, <1>2, <1>3, <1>4, <1>5, NoteWritten

(* The tree and the witnesses are advanced to the last block of the chunk. *)
LEMMA ChunkRoots ==
    ASSUME SharedInv, HandleChunk, NEW m, m = Head(chan),
           NEW d \in (seg.start - 1)..seg.end, SegmentAt(d), NEW u \in Nat, u = Upto(m), NEW p, p = Chain
    PROVE  /\ edge' = p[u]
           /\ \A n \in Found(m) \cup Kept :
                n \in Note /\ Tracked(n) /\ Advance(m, IF n \in Found(m) THEN edge ELSE utxo[n]) = p[u]
<1>1. /\ Last(m) = p[u] /\ PrevHash(m.ids[1]) = p[d] /\ edge = p[d]
      /\ \A n \in Kept : Tracked(n) /\ utxo[n] = p[d]
  BY ChunkFacts DEF HandleChunk, StreamRight
<1>2. \A r : r = p[d] => Advance(m, r) = p[u]
  BY <1>1 DEF Advance
<1>3. edge' = Advance(m, edge)
  BY DEF HandleChunk
<1>4. \A n \in Found(m) : n \in Note /\ Tracked(n)
  BY DEF Found
<1>5. \A n \in Kept : n \in Note
  BY DEF Kept
<1> QED
  BY <1>1, <1>2, <1>3, <1>4, <1>5

(* An account of the segment after the chunk.                              *)
LEMMA ChunkPart ==
    ASSUME SharedInv, AddressesKnown, ChainGoesOn, HandleChunk, NEW m, m = Head(chan),
           NEW d \in (seg.start - 1)..seg.end, SegmentAt(d), NEW u \in Nat, u = Upto(m),
           NEW a \in seg.accounts
    PROVE  TakesPart(a, u)'
<1>1. /\ Arriving("chunk") /\ UNCHANGED <<seg, scan>> /\ UNCHANGED treeVars
      /\ Typed /\ a \in Account /\ Tip \in Nat /\ seg.start \in Nat /\ seg.end \in Nat /\ seg.start >= 2
  <2>1. Arriving("chunk") /\ UNCHANGED <<seg, scan>> /\ UNCHANGED treeVars /\ InSegment
    BY DEF HandleChunk, runVars, Arriving, InSegment
  <2> QED
    BY <2>1, SharedFacts, RunNumbers
<1>2. /\ TakesPart(a, d) /\ d \in Nat /\ d >= 1 /\ d < u /\ u <= seg.end /\ seg.end <= Tip /\ scan = {}
      /\ \A n \in Kept : Tracked(n)
  BY <1>1, ChunkFacts, SharedFacts DEF HandleChunk, InSegment, Arriving
<1>3. PICK p : p = Chain
  OBVIOUS
<1>4. Chain' = p /\ Tip' = Tip
  BY <1>1, <1>3 DEF treeVars, Tip, Chain, PathOf
<1>5. PICK live : live = Found(m) \cup Kept
  OBVIOUS
<1>6. /\ \A n \in live : n \in Note /\ Tracked(n)
      /\ witnesses' = witnesses \cup {[note |-> n, height |-> u, root |-> p[u]] : n \in live}
  <2>1. \A n \in live : n \in Note /\ Tracked(n) /\ Advance(m, IF n \in Found(m) THEN edge ELSE utxo[n]) = p[u]
    BY <1>3, <1>5, ChunkRoots
  <2>2. witnesses' = witnesses \cup
          {[note |-> n, height |-> u, root |-> Advance(m, IF n \in Found(m) THEN edge ELSE utxo[n])] : n \in live}
    BY <1>5 DEF HandleChunk
  <2> QED
    BY <2>1, <2>2
<1>7. /\ ShieldedUpto(a, d) /\ Checkpoints(a, d) /\ Birth[a] \in Nat /\ Birth[a] <= d
  BY <1>1, <1>2, Bounds DEF TakesPart, ShieldedUpto
<1>8. ASSUME NEW n \in ShieldedOf(a)
      PROVE  /\ NoteFollows(n, p, u)'
             /\ \A c \in Nat : c <= d /\ LiveAt(n, c)' => LiveAt(n, c)
             /\ LiveAt(n, u)' => n \in live
  <2>1. n \in Note /\ Tracked(n)
    BY DEF ShieldedOf, Tracked
  <2> QED
    BY <1>3, <1>5, <2>1, ChunkRowsShared
<1>9. \A q \in PoolsOf[a] : height'[a][q] = IF q \in Shielded THEN u ELSE height[a][q]
  BY <1>1 DEF HandleChunk, Moves
<1>10. Checkpoints(a, u)'
  <2>1. PICK W : W = WitnessesOf(a)
    OBVIOUS
  <2>2. PICK W2 : W2 = WitnessesOf(a)'
    OBVIOUS
  <2>3. \A w \in W2 : w \in W \/ \E n \in live : w = [note |-> n, height |-> u, root |-> p[u]]
    BY <1>6, <2>1, <2>2 DEF WitnessesOf
  <2>4. W \subseteq W2 /\ \A n \in live : Owner[n] = a => [note |-> n, height |-> u, root |-> p[u]] \in W2
    BY <1>6, <2>1, <2>2 DEF WitnessesOf
  <2>5. \A w \in W : /\ PoolOf[w.note] \in Shielded /\ w.root = p[w.height]
                     /\ w.height \in (Birth[a] + 1)..d
    BY <1>3, <1>7, <2>1 DEF Checkpoints
  <2>6. \A w \in W2 : /\ PoolOf[w.note] \in Shielded /\ w.root = p[w.height]
                      /\ w.height \in (Birth[a] + 1)..u
    <3> TAKE w \in W2
    <3>1. CASE w \in W
      BY <1>2, <1>7, <2>5, <3>1
    <3>2. CASE \E n \in live : w = [note |-> n, height |-> u, root |-> p[u]]
      <4>1. PICK n \in live : w = [note |-> n, height |-> u, root |-> p[u]]
        BY <3>2
      <4>2. PoolOf[n] \in Shielded
        BY <1>6 DEF Tracked
      <4>3. u \in (Birth[a] + 1)..u
        BY <1>2, <1>7
      <4> QED
        BY <4>1, <4>2, <4>3
    <3> QED
      BY <2>3, <3>1, <3>2
  <2>7. ASSUME NEW c \in {u} \cup {w.height : w \in W2}, NEW n \in ShieldedOf(a), LiveAt(n, c)'
        PROVE  \E w \in W2 : w.note = n /\ w.height = c
    <3>1. CASE c = u
      <4>1. n \in live /\ Owner[n] = a
        BY <1>8, <2>7, <3>1 DEF ShieldedOf
      <4> QED
        BY <2>4, <3>1, <4>1
    <3>2. CASE c # u
      <4>1. PICK w \in W2 : w.height = c
        BY <3>2
      <4>2. w \in W
        BY <2>3, <3>2, <4>1
      <4>3. c \in Nat /\ c <= d
        BY <1>7, <2>5, <4>1, <4>2
      <4>4. LiveAt(n, c)
        BY <1>8, <2>7, <4>3
      <4>5. c \in {v.height : v \in WitnessesOf(a)}
        BY <2>1, <4>1, <4>2
      <4>6. \E v \in W : v.note = n /\ v.height = c
        BY <1>7, <2>1, <4>4, <4>5 DEF Checkpoints
      <4> QED
        BY <2>4, <4>6
    <3> QED
      BY <3>1, <3>2
  <2>8. ASSUME NEW c \in {u} \cup {w.height : w \in W2}, NEW n \in ShieldedOf(a)
        PROVE  LiveAt(n, c)' => \E w \in W2 : w.note = n /\ w.height = c
    BY <2>7
  <2> HIDE DEF WitnessesOf, LiveAt
  <2> QED
    BY <1>4, <2>2, <2>6, <2>8 DEF Checkpoints
<1>11. ShieldedUpto(a, u)'
  <2>1. Birth[a] <= u /\ u <= Tip'
    BY <1>1, <1>2, <1>4, <1>7
  <2>2. \A n \in ShieldedOf(a) : NoteFollows(n, Chain, u)'
    BY <1>4, <1>8 DEF NoteFollows
  <2> QED
    BY <1>9, <1>10, <2>1, <2>2 DEF ShieldedUpto, ShieldedAt, ShieldedOf
<1>12. 0 \in PoolsOf[a] => height'[a][0] = height[a][0]
  BY <1>9, PoolKinds, <1>1
<1>13. \A n \in TransparentOf(a) : noted'[n] = noted[n] /\ spent'[n] = spent[n] /\ n \in Note
  <2> TAKE n \in TransparentOf(a)
  <2>1. n \in Note /\ n \notin live
    BY <1>1, <1>6, PoolKinds DEF TransparentOf, Tracked
  <2> QED
    BY <1>5, <2>1 DEF HandleChunk
<1>14. ASSUME NEW n \in TransparentOf(a), NEW i \in DOMAIN AddrsOf[a], AddrsOf[a][i] = AddrOf[n]
      PROVE  NoteFollows(n, Chain, ScannedTo(a, i))'
  <2>1. PICK h \in Nat : h = seg.end /\ h <= Tip
    BY <1>1, <1>2
  <2>2. ScannedTo(a, i) = h /\ ScannedTo(a, i)' = h
    BY <1>1, <1>2, <2>1 DEF ScannedTo
  <2>3. NoteFollows(n, Chain, h)
    BY <1>2, <1>14, <2>2 DEF TakesPart
  <2>4. NoteFollows(n, Chain, h)'
    BY <1>1, <1>13, <2>1, <2>3, NoteGoesOn
  <2> QED
    BY <2>2, <2>4
<1> HIDE DEF ScannedTo
<1>15. /\ Birth[a] < seg'.start
       /\ 0 \in PoolsOf[a] => height'[a][0] =
            IF \A i \in DOMAIN AddrsOf[a] : <<a, i>> \in scan' THEN seg'.start - 1 ELSE seg'.end
  BY <1>1, <1>2, <1>12 DEF TakesPart
<1> QED
  BY <1>11, <1>14, <1>15 DEF TakesPart, TransparentOf

(* What is in flight after the chunk.                                      *)
LEMMA ChunkStream ==
    ASSUME SharedInv, AddressesKnown, ChainGoesOn, HandleChunk, NEW m, m = Head(chan),
           NEW d \in (seg.start - 1)..seg.end, SegmentAt(d), NEW u \in Nat, u = Upto(m)
    PROVE  StreamRight(u)'
<1>1. /\ Arriving("chunk") /\ UNCHANGED <<seg, reading, next, buf>> /\ UNCHANGED treeVars
      /\ chan # <<>> /\ chan' = Tail(chan) /\ RowsInv /\ next \in Nat /\ Len(buf) \in Nat
  BY SharedFacts DEF HandleChunk, runVars, Arriving
<1>2. PICK p : p = Chain
  OBVIOUS
<1>3. Chain' = p
  BY <1>1, <1>2 DEF treeVars, Chain, PathOf
<1>4. /\ StreamRight(d) /\ d \in Nat /\ d < u /\ MessagesFollow(p, d) /\ BufferFollows(p, d)
      /\ m = chan[1] /\ u < next - Len(buf)
      /\ \A i \in 2..Len(chan) : IsChunk(chan[i]) => u < chan[i].from
      /\ \A n \in Note : Tracked(n) => (n \in Kept <=> Unspent(n))
  BY <1>1, <1>2, ChunkFacts
<1>5. MessagesFollow(p, u)' /\ \A k \in Nat : k > u /\ Covered(k) => Covered(k)'
  <2>1. d <= u /\ Upto(chan[1]) <= u
    BY <1>4
  <2> QED
    BY <1>1, <1>4, <2>1, TailMessages
<1>6. BufferFollows(p, u)'
  <2>1. \A k \in (u + 1)..(next - Len(buf) - 1) : k \in Nat /\ k > u /\ k \in (d + 1)..(next - Len(buf) - 1)
    BY <1>1, <1>4
  <2> QED
    BY <1>1, <1>4, <1>5, <2>1 DEF BufferFollows
<1>7. MessagesFollow(Chain, u)' /\ BufferFollows(Chain, u)'
  BY <1>3, <1>5, <1>6 DEF MessagesFollow, ChunkFollows, BufferFollows
<1>8. \A i \in 1..Len(chan') : chan'[i].kind # "stop"
  <2>1. \A i \in 1..Len(chan') : i + 1 \in 2..Len(chan) /\ chan'[i] = chan[i + 1] /\ Len(chan) \in Nat
    BY <1>1, TailRows, RowNumbers DEF RowsInv
  <2>2. \A i \in 1..Len(chan') : i + 1 \in 1..Len(chan)
    BY <2>1
  <2> QED
    BY <1>4, <2>1, <2>2 DEF StreamRight
<1>9. edge' = p[u]
  BY <1>2, ChunkRoots
<1>10. ASSUME NEW n \in Note
       PROVE  utxo'[n] = IF (Tracked(n) /\ Unspent(n))' THEN p[u] ELSE 0
  <2>1. Tracked(n)' <=> Tracked(n)
    BY <1>1 DEF Tracked
  <2>2. n \in Found(m) \cup Kept => Tracked(n) /\ Advance(m, IF n \in Found(m) THEN edge ELSE utxo[n]) = p[u]
    BY <1>2, ChunkRoots
  <2>3. utxo'[n] = IF n \in Found(m) \cup Kept /\ SpendsIn(m, n) = {}
                   THEN Advance(m, IF n \in Found(m) THEN edge ELSE utxo[n]) ELSE 0
    BY DEF HandleChunk
  <2>4. Tracked(n) => (Unspent(n)' <=> n \in Found(m) \cup Kept /\ SpendsIn(m, n) = {})
    BY <1>2, ChunkRowsShared
  <2> HIDE DEF Unspent, Tracked
  <2> QED
    BY <2>1, <2>2, <2>3, <2>4
<1>11. next' \in seg'.start..(seg'.end + 1) /\ (~reading' => next' = seg'.end + 1 /\ buf' = <<>>)
  BY <1>1, <1>4 DEF StreamRight
<1> QED
  BY <1>3, <1>7, <1>8, <1>9, <1>10, <1>11 DEF StreamRight

LEMMA HandleChunkShared ==
    ASSUME SharedInv, AddressesKnown, ChainGoesOn, Typed', HandleChunk
    PROVE  RunRight' /\ \A a \in Account : AccountOn(a)'
<1>1. /\ pc = "read" /\ pc' = "read" /\ InSegment /\ InSegment' /\ UNCHANGED treeVars /\ Arriving("chunk")
      /\ UNCHANGED <<chosen, target, resume, todo, seg, scan>>
      /\ Typed /\ OwnRun /\ RunRight /\ Tip \in Nat /\ chosen \subseteq Account /\ seg.accounts \subseteq Account
  <2>1. /\ pc = "read" /\ pc' = "read" /\ InSegment /\ InSegment' /\ UNCHANGED treeVars /\ Arriving("chunk")
        /\ UNCHANGED <<chosen, target, resume, todo, seg, scan>>
    BY DEF HandleChunk, Arriving, InSegment, runVars
  <2> QED
    BY <2>1, SharedFacts, RunNumbers
<1>2. PICK d \in (seg.start - 1)..seg.end : SegmentAt(d)
  BY <1>1, SharedFacts
<1>3. PICK m : m = Head(chan)
  OBVIOUS
<1>4. /\ Upto(m) \in Nat /\ d < Upto(m) /\ Upto(m) <= seg.end /\ d \in Nat
      /\ \A n \in Kept : Tracked(n)
  BY <1>1, <1>2, <1>3, ChunkFacts
<1>5. PICK u \in Nat : u = Upto(m) /\ d < u /\ u <= seg.end
  BY <1>4
<1>6. SegmentAt(u)'
  <2>1. StreamRight(u)' /\ \A a \in seg.accounts : TakesPart(a, u)'
    BY <1>2, <1>3, <1>5, ChunkStream, ChunkPart
  <2> QED
    BY <1>1, <2>1 DEF SegmentAt
<1>7. ASSUME NEW a \in Account \ seg.accounts PROVE Untouched(a)
  <2>1. SameRowsOf(a)
    BY <1>1, ChunkOfOthersNot
  <2>2. \A n \in Found(m) \cup Kept : Owner[n] # a
    BY <1>4 DEF Found, Tracked
  <2>3. WitnessesOf(a)' = WitnessesOf(a)
    <3>1. \A w \in witnesses' : w \in witnesses \/ w.note \in Found(m) \cup Kept
      BY <1>3 DEF HandleChunk
    <3>2. witnesses \subseteq witnesses'
      BY DEF HandleChunk
    <3> QED
      BY <2>2, <3>1, <3>2 DEF WitnessesOf
  <2> QED
    BY <2>1, <2>3 DEF Untouched
<1>8. Tip' = Tip
  BY <1>1 DEF treeVars, Tip, Chain, PathOf
<1>9. RunRight'
  <2>1. seg.start \in Nat /\ seg.end \in Nat /\ u \in (seg.start - 1)..seg.end /\ scan = {}
        /\ seg.end <= Tip /\ (todo # {} => seg.end + 1 \in todo) /\ \A a \in chosen \ seg.accounts : WaitsFor(a)
    BY <1>1, <1>2, <1>4, <1>5, SharedFacts
  <2>2. \A a \in chosen \ seg.accounts : WaitsFor(a)'
    BY <1>1, <1>7, <2>1, WaitGoesOn
  <2>3. SegmentRight'
    BY <1>1, <1>6, <1>8, <2>1, <2>2 DEF SegmentRight
  <2> QED
    BY <1>1, <1>8, <2>3 DEF RunRight, PlanRight
<1>10. \A a \in seg.accounts : AccountOn(a)'
  BY <1>1, <1>8, <1>9, SegmentOnNext DEF SegmentIsOn
<1>11. \A a \in Account \ seg.accounts : AccountOn(a)'
  BY <1>1, <1>7, AccountGoesOn DEF SharedInv
<1> QED
  BY <1>9, <1>10, <1>11

(* A note of an address that was scanned, from the block before the        *)
(* segment to its end.                                                     *)
LEMMA ScannedNote ==
    ASSUME TreeInv, UNCHANGED blocks, NEW p \in Paths, NEW n \in Note, noted[n] \in Nat, spent[n] \in Nat,
           NEW s \in Nat, NEW e \in Nat, s <= e, e <= Len(p), NoteFollows(n, p, s),
           NEW b \in Nat, b = Birth[Owner[n]], b <= s,
           NEW M, M = {k \in (s + 1)..e : n \in blocks[p[k]].mints},
           NEW X, X = {k \in (s + 1)..e : n \in blocks[p[k]].spends},
           noted'[n] = IF noted[n] = 0 /\ M # {} THEN MinOf(M) ELSE noted[n],
           spent'[n] = IF noted'[n] # 0 /\ spent[n] = 0 /\ X # {} THEN MinOf(X) ELSE spent[n]
    PROVE  NoteFollows(n, p, e)'
<1>1. Len(p) \in Nat
  BY PathFacts
<1>2. PICK x : x = MinOf(M)
  OBVIOUS
<1>3. PICK y : y = MinOf(X)
  OBVIOUS
<1>4. M # {} => x \in (s + 1)..e /\ x \in Nat /\ n \in blocks[p[x]].mints
  <2>1. M \in SUBSET Nat
    OBVIOUS
  <2>2. M # {} => x \in M
    BY <1>2, <2>1, MinOfIsMin
  <2> QED
    BY <2>2
<1>5. X # {} => y \in (s + 1)..e /\ y \in Nat /\ n \in blocks[p[y]].spends
  <2>1. X \in SUBSET Nat
    OBVIOUS
  <2>2. X # {} => y \in X
    BY <1>3, <2>1, MinOfIsMin
  <2> QED
    BY <2>2
<1>6. /\ noted[n] # 0 => noted[n] \in (b + 1)..s /\ n \in blocks[p[noted[n]]].mints
      /\ noted[n] = 0 => spent[n] = 0 /\ \A k \in (b + 1)..s : n \notin blocks[p[k]].mints
      /\ spent[n] # 0 => spent[n] \in (noted[n] + 1)..s /\ n \in blocks[p[spent[n]]].spends
      /\ noted[n] # 0 /\ spent[n] = 0 => \A k \in (noted[n] + 1)..s : n \notin blocks[p[k]].spends
  BY DEF NoteFollows
<1>7. PICK no \in Nat : no = noted'[n]
  BY <1>2, <1>4
<1>8. PICK sp \in Nat : sp = spent'[n]
  BY <1>3, <1>5
<1>9. no = (IF noted[n] = 0 /\ M # {} THEN x ELSE noted[n]) /\ sp = (IF no # 0 /\ spent[n] = 0 /\ X # {} THEN y ELSE spent[n])
  BY <1>2, <1>3, <1>7, <1>8
<1>10. no # 0 => no \in (b + 1)..e /\ n \in blocks[p[no]].mints
  BY <1>4, <1>6, <1>9
<1>11. no = 0 => sp = 0 /\ \A k \in (b + 1)..e : n \notin blocks[p[k]].mints
  <2> SUFFICES ASSUME no = 0 PROVE sp = 0 /\ \A k \in (b + 1)..e : n \notin blocks[p[k]].mints
    OBVIOUS
  <2>1. noted[n] = 0 /\ M = {}
    BY <1>4, <1>9
  <2>2. \A k \in (s + 1)..e : n \notin blocks[p[k]].mints
    BY <2>1
  <2>3. \A k \in (b + 1)..e : k \in (b + 1)..s \/ k \in (s + 1)..e
    OBVIOUS
  <2> QED
    BY <1>6, <1>9, <2>1, <2>2, <2>3
<1>12. sp # 0 => sp \in (no + 1)..e /\ n \in blocks[p[sp]].spends
  <2>1. CASE spent[n] # 0
    BY <1>6, <1>9, <2>1
  <2>2. CASE spent[n] = 0 /\ sp # 0
    <3>1. no # 0 /\ sp = y /\ X # {}
      BY <1>9, <2>2
    <3>2. no < y
      <4>1. PICK id \in 1..Len(blocks) : p = PathOf(id)
        BY DEF Paths
      <4>2. no \in 1..Len(p) /\ y \in 1..Len(p)
        BY <1>1, <1>5, <1>10, <3>1
      <4> QED
        BY <1>5, <1>10, <3>1, <4>1, <4>2 DEF TreeInv, SpentAfterMint
    <3> QED
      BY <1>5, <3>1, <3>2
  <2> QED
    BY <1>9, <2>1, <2>2
<1>13. no # 0 /\ sp = 0 => \A k \in (no + 1)..e : n \notin blocks[p[k]].spends
  <2> SUFFICES ASSUME no # 0, sp = 0 PROVE \A k \in (no + 1)..e : n \notin blocks[p[k]].spends
    OBVIOUS
  <2>1. spent[n] = 0 /\ X = {}
    BY <1>5, <1>9
  <2>2. \A k \in (s + 1)..e : n \notin blocks[p[k]].spends
    BY <2>1
  <2>3. CASE noted[n] = 0
    <3>1. no >= s + 1
      BY <1>4, <1>9, <2>3
    <3>2. \A k \in (no + 1)..e : k \in (s + 1)..e
      BY <3>1
    <3> QED
      BY <2>2, <3>2
  <2>4. CASE noted[n] # 0
    <3>1. no = noted[n] /\ \A k \in (no + 1)..s : n \notin blocks[p[k]].spends
      BY <1>6, <1>9, <2>1, <2>4
    <3>2. \A k \in (no + 1)..e : k \in (no + 1)..s \/ k \in (s + 1)..e
      OBVIOUS
    <3> QED
      BY <2>2, <3>1, <3>2
  <2> QED
    BY <2>3, <2>4
<1> QED
  BY <1>7, <1>8, <1>10, <1>11, <1>12, <1>13 DEF NoteFollows

LEMMA ScanAddressShared ==
    ASSUME SharedInv, AddressesKnown, ChainGoesOn, Typed', NEW a \in Account, NEW i \in AddrIndexes,
           NEW upto \in Heights, ScanAddress(a, i, upto)
    PROVE  RunRight' /\ \A b \in Account : AccountOn(b)'
<1>1. /\ pc = "scan" /\ pc' = "scan" /\ InSegment /\ InSegment' /\ UNCHANGED treeVars /\ <<a, i>> \in scan
      /\ UNCHANGED <<chosen, target, resume, todo, seg, witnesses>> /\ scan' = scan \ {<<a, i>>}
  BY DEF ScanAddress, InSegment
<1>2. /\ Typed /\ TreeInv /\ RunRight /\ Tip \in Nat /\ Tip = Len(Chain) /\ Chain \in Paths
      /\ chosen \subseteq Account /\ seg.accounts \subseteq Account
      /\ seg.start \in Nat /\ seg.end \in Nat /\ seg.start >= 2 /\ seg.start <= seg.end /\ seg.end <= Tip
      /\ (todo # {} => seg.end + 1 \in todo) /\ \A b \in chosen \ seg.accounts : WaitsFor(b)
  BY <1>1, SharedFacts, RunNumbers
<1>3. PICK d \in Nat : d = seg.start - 1 /\ d + 1 = seg.start /\ d <= seg.end /\ \A b \in seg.accounts : TakesPart(b, d)
  <2>1. PICK d \in (seg.start - 1)..seg.end : SegmentAt(d)
    BY <1>1, SharedFacts
  <2> QED
    BY <1>1, <1>2, <2>1 DEF SegmentAt
<1>4. a \in seg.accounts /\ i \in DOMAIN AddrsOf[a]
  BY <1>1 DEF SharedInv, SpendsInv, Behind, BehindScan
<1>5. upto = seg.end
  <2>1. upto = (IF seg.end < Tip THEN seg.end ELSE Tip)
    BY NoSuchFault DEF ScanAddress
  <2> QED
    BY <1>2, <2>1
<1>6. Tip' = Tip /\ Chain' = Chain /\ UNCHANGED blocks
  BY <1>1 DEF treeVars, Tip, Chain, PathOf
<1>7. ASSUME NEW b \in Account, b # a PROVE Untouched(b) /\ SameScanOf(b)
  <2>1. SameRowsOf(b)
    BY <1>2, <1>7, ScansOthersNot
  <2>2. SameScanOf(b)
    BY <1>1, <1>7 DEF SameScanOf
  <2> QED
    BY <1>1, <2>1, <2>2 DEF Untouched, WitnessesOf
<1>8. PICK mine : mine = {n \in Note : PoolOf[n] = 0 /\ AddrOf[n] = AddrsOf[a][i] /\ Owner[n] = a}
  OBVIOUS
<1>9. PICK e \in Nat : e = seg.end
  BY <1>2
<1>10. /\ \A n \in Note : n \notin mine => noted'[n] = noted[n] /\ spent'[n] = spent[n]
       /\ \A n \in mine :
            LET M == {k \in (d + 1)..e : n \in blocks[Chain[k]].mints}
                X == {k \in (d + 1)..e : n \in blocks[Chain[k]].spends}
            IN  /\ noted'[n] = IF noted[n] = 0 /\ M # {} THEN MinOf(M) ELSE noted[n]
                /\ spent'[n] = IF noted'[n] # 0 /\ spent[n] = 0 /\ X # {} THEN MinOf(X) ELSE spent[n]
       /\ height' = IF 0 \in PoolsOf[a] THEN [height EXCEPT ![a][0] = e] ELSE height
  <2>1. ScanOne(a, i, e)
    BY <1>5, <1>9 DEF ScanAddress
  <2>2. seg.start..e = (d + 1)..e
    BY <1>3
  <2> QED
    BY <1>8, <1>9, <2>1, <2>2 DEF ScanOne
<1>11. SameShieldedOf(a)
  <2>1. \A n \in ShieldedOf(a) : n \in Note /\ n \notin mine
    BY <1>8, PoolKinds DEF ShieldedOf
  <2>2. \A q \in PoolsOf[a] \cap Shielded : q # 0
    BY PoolKinds
  <2>3. DOMAIN height = Account /\ height[a] \in [PoolsOf[a] -> Heights]
    BY <1>2 DEF Typed, TypeOK, DatabaseTypes
  <2>4. \A q \in PoolsOf[a] \cap Shielded : height'[a][q] = height[a][q]
    BY <1>10, <2>2, <2>3
  <2> QED
    BY <1>1, <1>10, <2>1, <2>4 DEF SameShieldedOf, WitnessesOf
<1>12. 0 \in PoolsOf[a] => height'[a][0] = e
  <2>1. DOMAIN height = Account /\ height[a] \in [PoolsOf[a] -> Heights]
    BY <1>2 DEF Typed, TypeOK, DatabaseTypes
  <2> QED
    BY <1>10, <2>1
<1>13. TakesPart(a, d) /\ Birth[a] \in Nat /\ Birth[a] <= d /\ e <= Tip
  BY <1>2, <1>3, <1>4, <1>9, Bounds DEF TakesPart
<1>14. ShieldedUpto(a, d)'
  BY <1>2, <1>11, <1>13, ShieldedGoesOn DEF TakesPart
<1>15. ASSUME NEW n \in TransparentOf(a), NEW j \in DOMAIN AddrsOf[a], AddrsOf[a][j] = AddrOf[n]
       PROVE  NoteFollows(n, Chain, ScannedTo(a, j))'
  <2>1. n \in Note /\ noted[n] \in Nat /\ spent[n] \in Nat /\ Owner[n] = a /\ PoolOf[n] = 0
    BY <1>2, RunNumbers DEF TransparentOf
  <2>2. CASE j = i
    <3>1. n \in mine
      BY <1>8, <1>15, <2>1, <2>2
    <3>2. PICK p \in Paths : p = Chain
      BY <1>2
    <3>3. PICK M : M = {k \in (d + 1)..e : n \in blocks[p[k]].mints}
      OBVIOUS
    <3>4. PICK X : X = {k \in (d + 1)..e : n \in blocks[p[k]].spends}
      OBVIOUS
    <3>5. /\ noted'[n] = IF noted[n] = 0 /\ M # {} THEN MinOf(M) ELSE noted[n]
          /\ spent'[n] = IF noted'[n] # 0 /\ spent[n] = 0 /\ X # {} THEN MinOf(X) ELSE spent[n]
      BY <1>10, <3>1, <3>2, <3>3, <3>4
    <3>6. NoteFollows(n, p, d)
      <4>1. ScannedTo(a, i) = d
        BY <1>1, <1>3 DEF ScannedTo
      <4> QED
        BY <1>13, <1>15, <2>2, <3>2, <4>1 DEF TakesPart
    <3>7. d <= e /\ e <= Len(p) /\ Birth[a] = Birth[Owner[n]]
      BY <1>2, <1>3, <1>9, <1>13, <2>1, <3>2
    <3>8. NoteFollows(n, p, e)'
      <4>1. PICK b \in Nat : b = Birth[Owner[n]] /\ b <= d
        BY <1>13, <3>7
      <4> QED
        BY <1>2, <1>6, <2>1, <3>3, <3>4, <3>5, <3>6, <3>7, <4>1, ScannedNote
    <3>9. ScannedTo(a, i)' = e
      BY <1>1, <1>9 DEF ScannedTo
    <3>10. p = Chain'
      BY <1>6, <3>2
    <3> QED
      BY <2>2, <3>8, <3>9, <3>10 DEF NoteFollows
  <2>3. CASE j # i
    <3>1. n \notin mine
      BY <1>4, <1>8, <1>15, <2>3, WarpSyncAssumption
    <3>2. PICK h : h = ScannedTo(a, j) /\ h = ScannedTo(a, j)'
      BY <1>1, <2>3 DEF ScannedTo
    <3>3. h \in Nat /\ h <= Tip
      BY <1>2, <1>3, <3>2 DEF ScannedTo
    <3>4. NoteFollows(n, Chain, h)
      BY <1>13, <1>15, <3>2 DEF TakesPart
    <3>5. NoteFollows(n, Chain, h)'
      BY <1>2, <1>10, <2>1, <3>1, <3>3, <3>4, NoteGoesOn
    <3> QED
      BY <3>2, <3>5
  <2> QED
    BY <2>2, <2>3
<1>16. TakesPart(a, d)'
  <2>1. Birth[a] < seg'.start
    BY <1>1, <1>3, <1>13
  <2>2. 0 \in PoolsOf[a] => height'[a][0] =
          IF \A j \in DOMAIN AddrsOf[a] : <<a, j>> \in scan' THEN seg'.start - 1 ELSE seg'.end
    BY <1>1, <1>4, <1>9, <1>12
  <2> HIDE DEF ScannedTo
  <2> QED
    BY <1>14, <1>15, <2>1, <2>2 DEF TakesPart, TransparentOf
<1>17. ASSUME NEW b \in seg.accounts PROVE TakesPart(b, d)'
  <2>1. b \in Account /\ seg.start - 1 <= Tip /\ seg.start >= 1
    BY <1>2
  <2> QED
    BY <1>2, <1>3, <1>7, <1>16, <2>1, PartGoesOn
<1>18. SegmentAt(d)'
  BY <1>1, <1>3, <1>17 DEF SegmentAt
<1>19. ASSUME NEW b \in chosen \ seg.accounts PROVE WaitsFor(b)'
  BY <1>1, <1>2, <1>4, <1>7, WaitGoesOn
<1>20. RunRight'
  <2>1. d \in (seg.start - 1)..seg.end
    BY <1>2, <1>3
  <2>2. SegmentRight'
    BY <1>1, <1>2, <1>6, <1>18, <1>19, <2>1 DEF SegmentRight
  <2> QED
    BY <1>1, <1>2, <1>6, <2>2 DEF RunRight, PlanRight
<1>21. \A b \in seg.accounts : AccountOn(b)'
  BY <1>1, <1>2, <1>6, <1>20, SegmentOnNext DEF SegmentIsOn
<1>22. \A b \in Account \ seg.accounts : AccountOn(b)'
  BY <1>2, <1>4, <1>7, AccountGoesOn DEF SharedInv
<1> QED
  BY <1>20, <1>21, <1>22

-------------------------------------------------------------------------------
(* The invariant of several accounts, and what they show.                  *)
LEMMA StepShared ==
    ASSUME SharedInv, Undisturbed, AddressesKnown, [Next]_vars
    PROVE  SharedInv'
<1>1. /\ SpendsInv /\ TreeOnce /\ OneChain /\ OwnRun /\ Typed /\ TreeInv
  BY SharedFacts
<1>2. SpendsInv' /\ OneChain' /\ OwnRun' /\ Typed' /\ ChainGoesOn
  BY <1>1, StepSpends, StepOneChain, StepOwnRun, StepTyped, StepGoesOn
<1>3. NoFaultLeft'
  <2>1. {"stop", "cut", "scancut", "midrewind"} \subseteq FaultKinds
    BY DEF FaultKinds
  <2> QED
    BY <1>1, <2>1, FaultsOnlyEnd DEF SharedInv, NoFaultLeft
<1>4. TreeOnce'
  <2>1. CASE NodeStep
    <3>1. CASE \E mints, spends \in SUBSET Note : Mine(mints, spends)
      BY <1>1, <3>1, MineOnce DEF TreeInv
    <3>2. CASE \E fork \in Heights : Orphan(fork)
      BY <1>1, <3>2, SameBlocksOnce DEF Orphan
    <3> QED
      BY <2>1, <3>1, <3>2 DEF NodeStep
  <2>2. CASE UNCHANGED treeVars
    BY <1>1, <2>2, SameBlocksOnce DEF treeVars
  <2> QED
    BY <2>1, <2>2, OnlyNode
<1>5. RunRight' /\ \A a \in Account : AccountOn(a)'
  <2>1. CASE NodeStep \/ UNCHANGED vars
    <3>1. UNCHANGED <<dbVars, pc, runVars, readerVars, writerVars>>
      BY <2>1 DEF NodeStep, vars
    <3> QED
      BY <1>2, <3>1, SameStreamShared DEF dbVars, writerVars
  <2>2. CASE \E S \in SUBSET Account : StartSync(S)
    BY <1>2, <2>2, StartSyncShared
  <2>3. CASE Begin
    <3>1. CASE RequestFails
      <4>1. pc' = "idle" /\ todo' = {} /\ UNCHANGED dbVars
        BY <3>1 DEF RequestFails, EndRun
      <4> QED
        BY <1>2, <4>1, RunEndsShared
    <3> QED
      BY <1>2, <2>3, <3>1, RecoverShared, BeginSegmentShared, ScanDoneShared, OpenStreamShared DEF Begin
  <2>4. CASE Scan
    BY <1>2, <2>4, ScanAddressShared DEF Scan
  <2>5. CASE Reader
    <3>1. ~DetectReorg
      BY <1>1, AlwaysLinked DEF DetectReorg
    <3> QED
      BY <1>2, <2>5, <3>1, ReadBlockShared, EndOfStreamShared DEF Reader
  <2>6. CASE Writer
    <3>1. CASE FailChunk
      <4>1. pc' = "idle" /\ todo' = {} /\ UNCHANGED dbVars
        BY <3>1 DEF FailChunk, EndRun
      <4> QED
        BY <1>2, <4>1, RunEndsShared
    <3> QED
      BY <1>2, <2>6, <3>1, HandleChunkShared, HandleHeaderShared, CloseStreamShared DEF Writer
  <2>7. CASE Times
    <3>1. ASSUME NEW h \in Heights, FetchTime(h) PROVE RunRight' /\ \A a \in Account : AccountOn(a)'
      BY <1>2, <3>1, SameStreamShared DEF FetchTime, writerVars
    <3> QED
      BY <1>2, <2>7, <3>1, EndSegmentShared DEF Times
  <2>8. CASE StopReader
    BY <2>8, NoSuchFault DEF StopReader
  <2>9. CASE Abort
    <3>1. pc' = "idle" /\ todo' = {} /\ UNCHANGED dbVars
      BY <2>9 DEF Abort, EndRun
    <3> QED
      BY <1>2, <3>1, RunEndsShared
  <2>10. CASE \E a \in Account, h \in Heights : UserRewind(a, h)
    BY <1>2, <2>10, UserRewindShared
  <2>11. CASE \E a \in Account : UserReset(a)
    BY <1>2, <2>11, UserResetShared
  <2> QED
    BY <2>1, <2>2, <2>3, <2>4, <2>5, <2>6, <2>7, <2>8, <2>9, <2>10, <2>11 DEF Next, Synchronize
<1>6. JoinedBlocks'
  <2>1. CASE NodeStep
    <3>1. CASE UNCHANGED blocks
      BY <3>1 DEF SharedInv, JoinedBlocks
    <3>2. ASSUME NEW mints \in SUBSET Note, NEW spends \in SUBSET Note, Mine(mints, spends),
                 \A n \in Note : \A c \in Outs[n] : c \in mints <=> n \in spends
          PROVE  JoinedBlocks'
      <4>1. PICK l \in Nat : l = Len(blocks)
        BY <1>1 DEF TreeInv, TreeTypeOK
      <4>2. /\ Len(blocks') = l + 1 /\ \A id \in 1..l : blocks'[id] = blocks[id]
            /\ blocks'[l + 1].mints = mints /\ blocks'[l + 1].spends = spends
        BY <1>1, <3>2, <4>1, MinedBlock DEF TreeInv
      <4>3. \A id \in 1..Len(blocks') : id \in 1..l \/ id = l + 1
        BY <4>1, <4>2
      <4> QED
        BY <3>2, <4>1, <4>2, <4>3 DEF SharedInv, JoinedBlocks
    <3> QED
      BY <2>1, <3>1, <3>2 DEF NodeStep, Orphan
  <2>2. CASE UNCHANGED treeVars
    BY <2>2 DEF SharedInv, JoinedBlocks, treeVars
  <2> QED
    BY <2>1, <2>2, OnlyNode
<1> QED
  BY <1>2, <1>3, <1>4, <1>5, <1>6 DEF SharedInv

LEMMA InitShared ==
    ASSUME Undisturbed, Init
    PROVE  SharedInv
<1>1. SpendsInv /\ TreeOnce /\ OneChain /\ OwnRun /\ Typed /\ TreeInv
  BY InitSpends, TreeInitOnce, InitOneChain, InitOwnRun DEF Init, SpendsInv, RowsInv, Undisturbed
<1>2. NoFaultLeft
  BY DEF Init, NoFaultLeft, Undisturbed
<1>3. Tip = InitHeight /\ InitHeight \in Nat /\ InitHeight <= MaxHeight /\ MaxHeight \in Nat
  <2>1. /\ InitHeight \in Nat /\ InitHeight >= 1 /\ InitHeight <= MaxHeight /\ MaxHeight \in Nat
        /\ blocks = [i \in 1..InitHeight |-> [path |-> [k \in 1..i |-> k], mints |-> {}, spends |-> {}]]
        /\ best = InitHeight
    BY BlockTreeAssumption DEF Init, TreeInit
  <2>2. Chain = [k \in 1..InitHeight |-> k]
    BY <2>1 DEF Chain, PathOf
  <2> QED
    BY <2>1, <2>2 DEF Tip
<1>4. ASSUME NEW a \in Account PROVE AccountOn(a)
  <2>1. PICK b \in Nat : b = Birth[a] /\ b <= Tip
    BY <1>3, BlockTreeAssumption
  <2>2. \A n \in Note : noted[n] = 0 /\ spent[n] = 0
    BY DEF Init
  <2>3. witnesses = {} /\ \A q \in PoolsOf[a] : height[a][q] = b
    BY <2>1 DEF Init
  <2>4. \A n \in Note : Owner[n] = a => NoteFollows(n, Chain, b)
    BY <2>1, <2>2 DEF NoteFollows
  <2>5. ShieldedUpto(a, b)
    <3>1. WitnessesOf(a) = {} /\ \A n \in Note : \A c : ~LiveAt(n, c)
      BY <2>2, <2>3 DEF WitnessesOf, LiveAt
    <3>2. Checkpoints(a, b)
      BY <3>1 DEF Checkpoints, ShieldedOf
    <3> QED
      BY <2>1, <2>3, <2>4, <3>2 DEF ShieldedUpto, ShieldedAt, ShieldedOf
  <2>6. Even(a, b)
    BY <2>3, <2>4, <2>5 DEF Even, TransparentOf
  <2> QED
    BY <1>1, <2>6, EvenOn
<1>5. RunRight
  BY DEF Init, RunRight, PlanRight, SegmentRight, InSegment
<1>6. JoinedBlocks
  <2>1. /\ InitHeight \in Nat
        /\ blocks = [i \in 1..InitHeight |-> [path |-> [k \in 1..i |-> k], mints |-> {}, spends |-> {}]]
    BY <1>3 DEF Init, TreeInit
  <2>2. \A id \in 1..Len(blocks) : blocks[id].mints = {} /\ blocks[id].spends = {}
    BY <2>1
  <2> QED
    BY <2>2 DEF JoinedBlocks
<1> QED
  BY <1>1, <1>2, <1>4, <1>5, <1>6 DEF SharedInv

LEMMA AlwaysShared == ASSUME Undisturbed, AddressesKnown PROVE Spec => []SharedInv
<1>1. Init => SharedInv
  BY InitShared
<1>2. SharedInv /\ [Next]_vars => SharedInv'
  BY StepShared
<1> QED
  BY <1>1, <1>2, PTL DEF Spec

(* An account shows the chain up to its height.                            *)
LEMMA SharedShown ==
    ASSUME SharedInv, NEW a \in Account
    PROVE  /\ SyncHeight(a) \in 1..Tip
           /\ Chain[SyncHeight(a)] \in Promise!Positions(a, View(a))
<1>1. Typed /\ TreeInv /\ TreeOnce /\ AccountOn(a) /\ Chain \in Paths /\ Tip = Len(Chain)
  BY SharedFacts DEF SharedInv
<1>2. PICK h \in 1..Len(Chain) : h = SyncHeight(a) /\ Birth[a] <= h
  BY <1>1, SyncHeightType, Bounds DEF AccountOn, ShieldedUpto
<1>3. \A n \in Note : noted[n] \in Nat /\ spent[n] \in Nat
  BY <1>1, RunNumbers
<1>4. \A n \in Note : Owner[n] = a => \E k \in h..Len(Chain) : RowFollows(n, noted[n], spent[n], Chain, k)
  <2>1. \A n \in Note : Owner[n] = a => \E k \in h..Tip : NoteFollows(n, Chain, k)
    BY <1>1, <1>2, AccountNote
  <2>2. \A n \in Note : \A k : NoteFollows(n, Chain, k) => RowFollows(n, noted[n], spent[n], Chain, k)
    BY DEF NoteFollows, RowFollows
  <2> QED
    BY <1>1, <2>1, <2>2
<1>5. View(a) = Shown(a, noted, spent, h)
  BY <1>2 DEF View, Shown
<1>6. Chain[h] \in Promise!Positions(a, Shown(a, noted, spent, h))
  BY <1>1, <1>2, <1>3, <1>4, ContentsShown
<1> QED
  BY <1>1, <1>2, <1>5, <1>6

(* The rows of an account, before a step and after it.                     *)
RowsAreShared ==
    SharedInv => \A a \in Account :
        /\ SyncHeight(a) \in 1..Tip /\ Birth[a] <= SyncHeight(a)
        /\ \A n \in Note : noted[n] \in Nat /\ spent[n] \in Nat
        /\ \A n \in Note : Owner[n] = a => \E k \in SyncHeight(a)..Tip : NoteFollows(n, Chain, k)

LEMMA RowsAlwaysShared == RowsAreShared
<1> SUFFICES ASSUME SharedInv, NEW a \in Account
             PROVE  /\ SyncHeight(a) \in 1..Tip /\ Birth[a] <= SyncHeight(a)
                    /\ \A n \in Note : noted[n] \in Nat /\ spent[n] \in Nat
                    /\ \A n \in Note : Owner[n] = a => \E k \in SyncHeight(a)..Tip : NoteFollows(n, Chain, k)
  BY DEF RowsAreShared
<1>1. Typed /\ TreeInv /\ AccountOn(a)
  BY SharedFacts DEF SharedInv
<1>2. SyncHeight(a) \in 1..Tip /\ Birth[a] <= SyncHeight(a)
  BY SharedShown, <1>1 DEF AccountOn, ShieldedUpto
<1> QED
  BY <1>1, <1>2, AccountNote, RunNumbers

LEMMA RowsSharedNext == RowsAreShared'
BY RowsAlwaysShared, PTL

LEMMA SharedMoves ==
    ASSUME SharedInv, SharedInv', UNCHANGED treeVars, NEW a \in Account
    PROVE  \E i \in Promise!Positions(a, Views[a]), j \in Promise!Positions(a, Views'[a]) :
              Promise!SameBranch(i, j)
<1>1. TreeInv /\ TreeOnce /\ Chain \in Paths /\ Tip = Len(Chain)
  BY SharedFacts
<1>2. PICK p \in Paths : p = Chain /\ Tip = Len(p)
  BY <1>1
<1>3. PICK h \in 1..Len(p) : p[h] \in Promise!Positions(a, View(a))
  BY <1>2, SharedShown
<1>4. Chain' = p /\ Tip' = Len(p) /\ UNCHANGED blocks
  BY <1>2 DEF treeVars, Chain, Tip, PathOf
<1>5. /\ SyncHeight(a)' \in 1..Len(p) /\ Birth[a] <= SyncHeight(a)'
      /\ \A n \in Note : noted'[n] \in Nat /\ spent'[n] \in Nat
      /\ \A n \in Note : Owner[n] = a => \E k \in SyncHeight(a)'..Len(p) : NoteFollows(n, Chain, k)'
  BY <1>4, RowsSharedNext DEF RowsAreShared
<1>6. PICK g \in 1..Len(p) : g = SyncHeight(a)' /\ Birth[a] <= g
  BY <1>5
<1>7. \A n \in Note : Owner[n] = a => \E k \in g..Len(p) : RowFollows(n, noted'[n], spent'[n], p, k)
  <2>1. \A n \in Note : \A k : NoteFollows(n, Chain, k)' => RowFollows(n, noted'[n], spent'[n], p, k)
    BY <1>4 DEF NoteFollows, RowFollows
  <2> QED
    BY <1>5, <1>6, <2>1
<1>8. View(a)' = Shown(a, noted', spent', g)
  BY <1>6 DEF View, Shown
<1>9. p[g] \in Promise!Positions(a, View(a)')
  <2>1. PICK N : N = noted'
    OBVIOUS
  <2>2. PICK S : S = spent'
    OBVIOUS
  <2>3. p[g] \in Promise!Positions(a, Shown(a, N, S, g))
    BY <1>1, <1>5, <1>6, <1>7, <2>1, <2>2, ContentsShown
  <2> QED
    BY <1>8, <2>1, <2>2, <2>3
<1>10. Promise!SameBranch(p[h], p[g])
  BY <1>1, OfOnePath
<1>11. Views[a] = View(a) /\ Views'[a] = View(a)'
  BY DEF Views
<1> QED
  BY <1>3, <1>9, <1>10, <1>11

LEMMA StepMapsShared ==
    ASSUME SharedInv, SharedInv', [Next]_vars
    PROVE  [Promise!ViewNext]_(Promise!viewVars)
<1>1. CASE NodeStep
  BY <1>1, NodeStepMaps
<1>2. CASE UNCHANGED treeVars
  <2>1. \A a \in Account : \E i \in Promise!Positions(a, Views[a]), j \in Promise!Positions(a, Views'[a]) :
           Promise!SameBranch(i, j)
    BY <1>2, SharedMoves
  <2>2. DOMAIN Views' = Account
    BY DEF Views
  <2>3. UNCHANGED Promise!treeVars
    BY <1>2 DEF treeVars, Promise!treeVars
  <2> QED
    BY <2>1, <2>2, <2>3 DEF Promise!Move, Promise!ViewNext
<1> QED
  BY <1>1, <1>2, OnlyNode

LEMMA InitMapsShared ==
    ASSUME Init
    PROVE  Promise!ViewInit
<1>1. TreeInv /\ TreeOnce
  BY InitSpends, TreeInitOnce DEF Init, SpendsInv
<1>2. ASSUME NEW a \in Account PROVE View(a) = Promise!Contents(a, Birth[a])
  <2>1. PICK h : h = Birth[a]
    OBVIOUS
  <2>2. PICK p : p = PathOf(h)
    OBVIOUS
  <2>3. h \in 1..InitHeight /\ InitHeight \in Nat /\ h \in Nat
    BY <2>1, BlockTreeAssumption
  <2>4. p = [k \in 1..h |-> k] /\ h \in 1..Len(blocks)
    BY <2>2, <2>3 DEF PathOf, Init, TreeInit
  <2>5. p \in Paths /\ Len(p) = h /\ h \in 1..Len(p) /\ p[h] = h /\ h \in h..Len(p)
    <3>1. p \in Paths
      BY <2>2, <2>4 DEF Paths
    <3>2. Len(p) = h /\ h \in 1..h
      BY <2>3, <2>4
    <3> QED
      BY <2>3, <2>4, <3>1, <3>2
  <2>6. \A n \in Note : noted[n] = 0 /\ spent[n] = 0
    BY DEF Init
  <2>7. \A n \in Note : Owner[n] = a => RowFollows(n, noted[n], spent[n], p, h)
    BY <2>1, <2>3, <2>6 DEF RowFollows
  <2>8. SyncHeight(a) = h
    <3>1. PoolsOf[a] # {} /\ \A q \in PoolsOf[a] : height[a][q] = h
      BY <2>1, Bounds DEF Init
    <3> QED
      BY <2>3, <3>1, MinOfOne DEF SyncHeight
  <2>9. View(a) = Shown(a, noted, spent, h)
    BY <2>8 DEF View, Shown
  <2>10. Promise!Contents(a, p[h]) = Shown(a, noted, spent, h)
    BY <1>1, <2>1, <2>5, <2>6, <2>7, ContentsShown
  <2> QED
    BY <2>1, <2>5, <2>9, <2>10
<1>3. Promise!TreeInit
  BY DEF Init, TreeInit, Promise!TreeInit
<1> QED
  BY <1>2, <1>3 DEF Promise!ViewInit, Views

(* Several accounts, with any pools, at different heights: when the node   *)
(* abandons no block, no stream is cut short, and nobody cancels a run or  *)
(* rewinds during one, each of them shows what the chain contains up to    *)
(* its height and only moves along it, through the segments of a run, the  *)
(* scans of the addresses, and runs that are lost between two commits.     *)
THEOREM SharedKeepsPromise ==
    ASSUME Undisturbed, AddressesKnown
    PROVE  Spec => ImplementsPromise
<1>1. Init => Promise!ViewInit
  BY InitMapsShared
<1>2. SharedInv /\ SharedInv' /\ [Next]_vars => [Promise!ViewNext]_(Promise!viewVars)
  BY StepMapsShared
<1>3. Spec => []SharedInv
  BY AlwaysShared
<1> QED
  BY <1>1, <1>2, <1>3, PTL DEF Spec, ImplementsPromise, Promise!ViewSpec

(* Neither the accounts that are synchronized together nor the segments    *)
(* before make the rows of a chunk collide with those in the tables.       *)
THEOREM SharedChunksFit ==
    ASSUME Undisturbed, AddressesKnown
    PROVE  Spec => []ChunksFit
<1>1. SharedInv => ChunksFit
  <2> SUFFICES ASSUME SharedInv, Arriving("chunk") PROVE ~ChunkFails(Head(chan))
    BY DEF ChunksFit
  <2>1. PICK m : m = Head(chan)
    OBVIOUS
  <2>2. /\ SpendsInv /\ TreeOnce /\ Chain \in Paths /\ seg.start \in Nat /\ seg.end \in Nat /\ seg.start >= 2
        /\ \E d \in (seg.start - 1)..seg.end : SegmentAt(d)
    <3>1. InSegment
      BY DEF Arriving, InSegment
    <3> QED
      BY <3>1, SharedFacts
  <2>3. PICK d \in (seg.start - 1)..seg.end : SegmentAt(d)
    BY <2>2
  <2>4. /\ d \in Nat /\ d >= 1 /\ d <= Len(Chain) /\ MessagesFollow(Chain, d)
        /\ Upto(m) \in Nat /\ d < Upto(m)
        /\ \A n \in Note : Tracked(n) => (n \in Kept <=> Unspent(n)) /\ NoteFollows(n, Chain, d)
        /\ \A n \in Kept : Tracked(n)
        /\ \A a \in seg.accounts : TakesPart(a, d)
    BY <2>1, <2>3, ChunkFacts
  <2>5. \A n \in Found(m) \cup Kept : n \in Note /\ Tracked(n)
    BY <2>4 DEF Found, Kept
  <2>6. ASSUME NEW n \in Found(m) PROVE noted[n] = 0 /\ spent[n] = 0
    BY <2>1, <2>2, <2>4, <2>5, NotesOfChunk
  <2>7. ASSUME NEW n \in Kept PROVE noted[n] # 0 /\ spent[n] = 0
    BY <2>4, <2>5 DEF Unspent
  <2>8. ASSUME NEW w \in witnesses, w.note \in Found(m) \cup Kept PROVE w.height # Upto(m)
    <3>1. PICK a : a = Owner[w.note]
      OBVIOUS
    <3>2. a \in seg.accounts /\ w \in WitnessesOf(a)
      BY <2>5, <2>8, <3>1 DEF Tracked, WitnessesOf
    <3>3. Checkpoints(a, d)
      BY <2>4, <3>2 DEF TakesPart, ShieldedUpto
    <3>4. w.height <= d /\ w.height \in Int
      <4>1. w.height \in (Birth[a] + 1)..d
        BY <3>2, <3>3 DEF Checkpoints
      <4> QED
        BY <4>1
    <3> QED
      BY <2>4, <3>4
  <2> QED
    BY <2>1, <2>6, <2>7, <2>8 DEF ChunkFails
<1> QED
  BY <1>1, AlwaysShared, PTL

(* The witness of an unspent note leads to the block its account stands on,*)
(* and all its shielded pools are at that height.                          *)
LEMMA SharedWitness ==
    ASSUME SharedInv, NEW n \in Note, PoolOf[n] \in Shielded, Unspent(n)
    PROVE  /\ height[Owner[n]][PoolOf[n]] = SyncHeight(Owner[n])
           /\ RootAt(n, SyncHeight(Owner[n])) = Chain[SyncHeight(Owner[n])]
<1>1. PICK a \in Account : a = Owner[n]
  BY Bounds
<1>2. PICK h \in Nat : h = SyncHeight(a) /\ ShieldedUpto(a, h)
  BY SharedFacts, SyncHeightType, Bounds DEF SharedInv, AccountOn
<1>3. n \in ShieldedOf(a) /\ PoolOf[n] \in PoolsOf[a] \cap Shielded
  BY <1>1, PoolKinds DEF ShieldedOf
<1>4. RootAt(n, h) = Chain[h]
  BY <1>2, <1>3, WitnessAt, SharedFacts
<1>5. height[a][PoolOf[n]] = h
  BY <1>2, <1>3 DEF ShieldedUpto, ShieldedAt
<1> QED
  BY <1>1, <1>2, <1>4, <1>5

(* Each unspent note of a shielded pool of any account has a witness at    *)
(* the height of its pool, also when the shielded pools and the addresses  *)
(* of its account are at different heights in the middle of a run.         *)
THEOREM SharedHaveWitness ==
    ASSUME Undisturbed, AddressesKnown
    PROVE  Spec => []NotesHaveWitness
<1>1. SharedInv => NotesHaveWitness
  <2> SUFFICES ASSUME SharedInv, NEW n \in Note, PoolOf[n] \in Shielded, Unspent(n)
               PROVE  RootAt(n, height[Owner[n]][PoolOf[n]]) # 0
    BY DEF NotesHaveWitness
  <2>1. Owner[n] \in Account
    BY Bounds
  <2>2. SyncHeight(Owner[n]) \in 1..Tip
    BY <2>1, SharedShown
  <2>3. Chain[SyncHeight(Owner[n])] # 0
    BY <2>2, SharedFacts, ChainLength
  <2> QED
    BY <2>3, SharedWitness
<1> QED
  BY <1>1, AlwaysShared, PTL

(* The inputs of a transaction of any of the accounts agree on their       *)
(* anchor, and it is the tree of the block the account stands on.          *)
THEOREM SharedWitnessesAgree ==
    ASSUME Undisturbed, AddressesKnown
    PROVE  Spec => []WitnessesUsable
<1>1. SharedInv => WitnessesUsable
  <2> SUFFICES ASSUME SharedInv, NEW n \in Note, PoolOf[n] \in Shielded, Unspent(n)
               PROVE  RootAt(n, SyncHeight(Owner[n])) \in Promise!Positions(Owner[n], View(Owner[n]))
    BY DEF WitnessesUsable
  <2>1. Owner[n] \in Account
    BY Bounds
  <2> QED
    BY <2>1, SharedShown, SharedWitness
<1> QED
  BY <1>1, AlwaysShared, PTL
=============================================================================
