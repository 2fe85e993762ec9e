----------------------------- MODULE CacheProofs -----------------------------
(***************************************************************************)
(* Theorems about AddressCache, for any block tree, any number of Sync     *)
(* objects and of requests: what a request caches of an output is buried   *)
(* under Safe blocks for good, and a request with the cache answers as one *)
(* that ignores it, while no reorganisation goes that deep.                *)
(*                                                                         *)
(* As in SyncHeightProofs every caller allows reorganisations.  The        *)
(* theorems on what is cached speak of transactions that no two blocks     *)
(* hold: of others setBlockNotMain may delete the entry that the block of  *)
(* the main chain has written.                                             *)
(***************************************************************************)
EXTENDS AddressCache, SyncHeightProofs

\* No two blocks hold the output's transaction, or one that spends it.
NotShared ==
    \A t \in Spenders \cup {Out} : \A a, b \in Block : t \in TxOf[a] /\ t \in TxOf[b] => a = b

-----------------------------------------------------------------------------
(* The inductive invariant *)

Buried(t) == HeightOf(t) >= 0 /\ top - HeightOf(t) + 1 >= Safe

\* The condition under which that is so of what was read.
Settled == NotShared /\ ~deep

\* What a value says is confirmed is buried.
Supported(v) ==
    /\ v.conf => Buried(Out)
    /\ v.spent # Null => Buried(v.spent)

\* An entry of the transaction index is none at all or names a stored block.
TxKnown ==
    \A t \in Tx : IF txBlock[t].blk = Null THEN txBlock[t].ht = -1
                                           ELSE txBlock[t].blk \in Stored

\* No stored block is above the greatest height of a tip.
TopOK ==
    /\ top \in Heights
    /\ \A b \in Stored : Depth[b] <= top

\* What a request has counted was true when it read it, and remains so.
RequestOK(r) ==
    /\ r \in Requests
    /\ r.tip <= top /\ r.confs <= top + 1 /\ r.sconfs <= top + 1
    /\ Settled => /\ r.cached.conf => Buried(Out)
                  /\ r.confs >= Safe => Buried(Out)
                  /\ r.sconfs >= Safe /\ r.put.spent # Null => Buried(r.put.spent)
                  /\ r.pc \in {"putConf", "putScript"} => Supported(r.put)

EntryOK ==
    /\ entry \in [Times -> Values \cup {NoKey}]
    /\ deep \in BOOLEAN
    /\ Settled => \A k \in Times : entry[k] # NoKey => Supported(entry[k])

RequestsOK ==
    /\ req \in [Clients -> Requests]
    /\ \A c \in Clients : RequestOK(req[c])

CacheInv == HInv /\ TxKnown /\ TopOK /\ EntryOK /\ RequestsOK

LEMMA CacheNames ==
    /\ Out \in Tx /\ Spenders \subseteq Tx /\ Out \notin Spenders
    /\ Null \notin Spenders /\ Out # Null
    /\ Safe \in Nat /\ Safe >= 1
    /\ Plain \in Values /\ Plain # NoKey /\ ~Plain.conf /\ Plain.spent = Null
    /\ NoKey \notin Values
<1>1. /\ Out \in Tx /\ Spenders \subseteq Tx /\ Out \notin Spenders
      /\ Null \notin Spenders /\ Out # Null /\ Safe \in Nat /\ Safe >= 1
  BY CacheConstants
<1>2. Plain \in Values /\ ~Plain.conf /\ Plain.spent = Null
  BY DEF Plain, Values
<1>3. NoKey.spent = Out
  BY DEF NoKey, Plain
<1>4. \A v \in Values : v.spent \in Spenders \cup {Null}
  BY DEF Values
<1>5. Plain # NoKey /\ NoKey \notin Values
  BY <1>1, <1>2, <1>3, <1>4
<1>. QED BY <1>1, <1>2, <1>5

-----------------------------------------------------------------------------
(* Steps that do not touch the blocks *)

\* A transaction that is announced, or a tip that is read.
LEMMA QuietHInv ==
    ASSUME HInv, UNCHANGED <<prev, next, height, txBlock, tip, up, callVars, delayed>>,
           savedTx \subseteq savedTx', savedTx' \subseteq Tx,
           cachedTip' \in {tip, cachedTip}, cachedTip # NoTip => cachedTip' # NoTip
    PROVE  HInv'
<1>1. IndexOK' /\ Grows /\ Stored' = Stored
  BY QuietIndex DEF HInv
<1>2. Inv'
  <2>1. DbOK'
    BY DbUnchanged DEF HInv, Inv, SyncTypeOK, DbOK, BlockDbTypeOK
  <2>. QED BY <2>1 DEF callVars, HInv, Inv, SyncTypeOK, DbOK, Shape
<1>3. Placed'
  <2>1. ASSUME NEW r \in Syncs
        PROVE  PlacedOf(pc'[r], frame'[r], Stored', savedTx', tip', cachedTip')
    <3>1. pc'[r] = pc[r] /\ frame'[r] = frame[r]
      BY DEF callVars
    <3>2. PlacedOf(pc[r], frame[r], Stored, savedTx, tip, cachedTip)
      BY DEF HInv, Placed
    <3>3. PlacedOf(pc[r], frame[r], Stored', savedTx', tip', cachedTip')
      BY <1>1, <3>2, PlacedGrows DEF Grows
    <3>. QED BY <3>1, <3>3
  <2>. QED BY <2>1 DEF Placed
<1>4. Waiting'
  BY <1>1 DEF HInv, Waiting, Grows
<1>. QED BY <1>1, <1>2, <1>3, <1>4 DEF HInv

\* What such a step leaves alone.
LEMMA QuietCache ==
    ASSUME CacheInv, HInv', UNCHANGED <<prev, height, txBlock, top, deep>>
    PROVE  /\ TxKnown' /\ TopOK'
           /\ \A t : Buried(t)' = Buried(t)
           /\ \A v : Supported(v)' = Supported(v)
           /\ \A r : RequestOK(r)' = RequestOK(r)
<1>1. Stored' = Stored
  BY DEF Stored, Has
<1>2. \A t : Buried(t)' = Buried(t)
  BY DEF Buried, HeightOf
<1>3. \A v : Supported(v)' = Supported(v)
  BY <1>2 DEF Supported
<1>. QED BY <1>1, <1>2, <1>3 DEF CacheInv, Settled, TxKnown, TopOK, RequestOK

LEMMA StoreTxInv == ASSUME CacheInv, NEW t \in Announced, StoreTx(t) PROVE CacheInv'
<1>1. t \in Tx /\ savedTx' = savedTx \cup {t}
      /\ UNCHANGED <<prev, next, height, txBlock, tip, cachedTip, up, callVars, delayed, req, top, deep>>
  BY CacheConstants DEF StoreTx
<1>2. HInv'
  <2>1. savedTx \subseteq Tx
    BY DEF CacheInv, HInv, Inv, SyncTypeOK, BlockDbTypeOK
  <2>. QED BY <1>1, <2>1, QuietHInv DEF CacheInv
<1>3. /\ TxKnown' /\ TopOK'
      /\ \A v : Supported(v)' = Supported(v)
      /\ \A r : RequestOK(r)' = RequestOK(r)
  BY <1>1, <1>2, QuietCache
<1>4. RequestsOK'
  BY <1>1, <1>3 DEF CacheInv, RequestsOK
<1>5. EntryOK'
  <2>1. entry' = entry \/ \E k \in Times : entry' = [entry EXCEPT ![k] = Plain]
    BY DEF StoreTx, PutEntry
  <2>2. Supported(Plain)
    BY CacheNames DEF Supported
  <2>. QED BY <1>1, <1>3, <2>1, <2>2, CacheNames DEF CacheInv, Settled, EntryOK
<1>. QED BY <1>2, <1>3, <1>4, <1>5 DEF CacheInv

-----------------------------------------------------------------------------
(* The steps of the synchronisers *)

LEMMA StoreKinds ==
    ASSUME Modes = {TRUE}, HInv, NEW s \in Syncs, Store(s)
    PROVE  HInv' /\ (UNCHANGED <<prev, height, txBlock, cachedTip>> \/ Step(s))
<1>1. ASSUME NEW c \in Calls, Submit(s, c) \/ Retry(s, c)
      PROVE  HInv' /\ UNCHANGED <<prev, height, txBlock, cachedTip>>
  BY <1>1, CallHInv DEF Submit, Call, Retry, dbVars
<1>2. CASE Step(s)
  BY <1>2, StepHInv
<1>. QED BY <1>1, <1>2 DEF Store

\* A batch writes the height of one stored block and with it the entries of its
\* transactions, or removes them.
LEMMA StoreWrites ==
    ASSUME HInv, NEW s \in Syncs, Step(s)
    PROVE  \/ UNCHANGED <<height, txBlock>>
           \/ \E b \in Block : /\ b \in Stored \/ prev'[b] # Null
                               /\ \/ SetTxs(b, [blk |-> b, ht |-> height'[b]])
                                  \/ SetTxs(b, NoBlock) /\ height'[b] = -1
<1>. DEFINE f == frame[s]
<1>1. /\ f \in Frames /\ ShapeOf(pc[s], f)
      /\ PlacedOf(pc[s], f, Stored, savedTx, tip, cachedTip)
      /\ BlockDbTypeOK
  BY OwnPlace
<1>2. \A b \in Block, h \in Heights : height' = [height EXCEPT ![b] = h] => height'[b] = h
  BY <1>1 DEF BlockDbTypeOK, Hash
<1>3. CASE AddBlock(s)
  <2>1. f.blk \in Block /\ f.height \in Heights /\ AddBlockScript(f.blk, f.height)
    BY <1>1, <1>3 DEF AddBlock, At, ShapeOf, Frames
  <2>2. prev'[f.blk] = ParentOf[f.blk] /\ ParentOf[f.blk] # Null
    BY <1>1, <2>1, ParentFacts DEF AddBlockScript, BlockDbTypeOK, Hash
  <2>3. height'[f.blk] = f.height /\ SetTxs(f.blk, [blk |-> f.blk, ht |-> f.height])
    BY <1>2, <2>1 DEF AddBlockScript
  <2>. QED BY <2>1, <2>2, <2>3
<1>4. CASE Connect(s)
  <2>. DEFINE b == Head(f.branch)
  <2>1. CASE UNCHANGED <<height, txBlock>>
    BY <2>1
  <2>2. CASE b \in Block /\ SetBlockMain(b, f.height)
    <3>1. b \in Stored
      <4>1. f.branch \in Seq(Hash) /\ f.branch # <<>> /\ PathOf(f.branch, NewPrev(f), Stored)
        BY <1>1, <1>4 DEF Connect, At, ShapeOf, PlacedOf, Frames
      <4>2. Len(f.branch) \in Nat /\ Len(f.branch) >= 1 /\ b = f.branch[1]
        BY <4>1, HeadIsFirst
      <4>3. f.branch[1] \in Stored \/ f.branch[1] = Zero
        BY <4>1, <4>2 DEF PathOf
      <4>. QED BY <2>2, <4>2, <4>3, Names
    <3>2. f.height \in Heights
      BY <1>1 DEF Frames
    <3>3. height'[b] = f.height /\ SetTxs(b, [blk |-> b, ht |-> f.height])
      BY <1>2, <2>2, <3>2 DEF SetBlockMain
    <3>. QED BY <2>2, <3>1, <3>3
  <2>. QED BY <1>4, <2>1, <2>2 DEF Connect
<1>5. CASE Orphan(s)
  <2>1. CASE UNCHANGED <<height, txBlock>>
    BY <2>1
  <2>2. CASE SetBlockNotMain(f.from)
    <3>1. f.from \in Stored /\ f.from \in Block
      BY <1>1, <1>5, Names DEF Orphan, At, ShapeOf, PlacedOf
    <3>2. -1 \in Heights
      BY DEF Heights
    <3>3. height'[f.from] = -1 /\ SetTxs(f.from, NoBlock)
      BY <1>2, <2>2, <3>1, <3>2 DEF SetBlockNotMain
    <3>. QED BY <3>1, <3>3
  <2>. QED BY <1>5, <2>1, <2>2 DEF Orphan
<1>. QED BY <1>3, <1>4, <1>5
     DEF Step, HasPrev, GetTip, GetNext, ReorgHeight, BackPrev, BackHeight, YNext, SetYNext,
         OrphanNext, AddTxs, StoreTip, LinkPrev, dbVars

LEMMA StoreGrows ==
    ASSUME Modes = {TRUE}, HInv, NEW s \in Syncs, Store(s)
    PROVE  \/ Stored' = Stored
           \/ \E b \in Block : /\ Stored' = Stored \cup {b}
                               /\ cachedTip' = [hash |-> b, height |-> Depth[b]]
<1>1. CASE UNCHANGED prev
  BY <1>1 DEF Stored, Has
<1>2. CASE AddBlock(s)
  <2>. DEFINE f == frame[s]
  <2>1. /\ f \in Frames /\ ShapeOf(pc[s], f)
        /\ PlacedOf(pc[s], f, Stored, savedTx, tip, cachedTip)
        /\ BlockDbTypeOK
    BY OwnPlace
  <2>2. f.blk \in Block /\ f.allow /\ f.height = Depth[f.blk]
    BY <1>2, <2>1 DEF AddBlock, At, ShapeOf, PlacedOf, HeightKnown
  <2>3. /\ prev' = [prev EXCEPT ![f.blk] = ParentOf[f.blk]]
        /\ cachedTip' = [hash |-> f.blk, height |-> Depth[f.blk]]
    BY <1>2, <2>2 DEF AddBlock, AddBlockScript, CacheTip
  <2>4. Stored' = Stored \cup {f.blk}
    <3>1. \A x \in Block : prev'[x] = IF x = f.blk THEN ParentOf[f.blk] ELSE prev[x]
      BY <2>1, <2>2, <2>3 DEF BlockDbTypeOK, Hash
    <3>. QED BY <2>2, <3>1, ParentFacts DEF Stored, Has
  <2>. QED BY <2>2, <2>3, <2>4
<1>. QED BY <1>1, <1>2, StoreKinds
     DEF Step, HasPrev, GetTip, GetNext, ReorgHeight, BackPrev, BackHeight, Connect, YNext,
         SetYNext, Orphan, OrphanNext, AddTxs, StoreTip, LinkPrev, dbVars

LEMMA StoreTop ==
    ASSUME Modes = {TRUE}, CacheInv, NEW s \in Syncs, Store(s)
    PROVE  HInv' /\ TopOK' /\ top <= top' /\ top \in Int /\ top' \in Int /\ Stored \subseteq Stored'
<1>1. HInv'
  BY StoreKinds DEF CacheInv
<1>2. top' = IF cachedTip'.height > top THEN cachedTip'.height ELSE top
  BY DEF Store
<1>3. top \in Heights /\ cachedTip'.height \in Heights
  BY <1>1 DEF CacheInv, TopOK, HInv, Inv, SyncTypeOK, BlockDbTypeOK, TipVal, NoTip, Heights
<1>4. top \in Int /\ cachedTip'.height \in Int
  BY <1>3 DEF Heights
<1>5. top' \in Heights /\ top' >= top /\ top' >= cachedTip'.height /\ top' \in Int
  BY <1>2, <1>3, <1>4
<1>6. \A b \in Stored : Depth[b] \in Int /\ Depth[b] <= top
  BY BlockTree DEF CacheInv, TopOK, Stored
<1>7. CASE Stored' = Stored
  <2>1. \A b \in Stored : Depth[b] <= top'
    BY <1>4, <1>5, <1>6
  <2>. QED BY <1>1, <1>4, <1>5, <1>7, <2>1 DEF TopOK
<1>8. ASSUME NEW b \in Block, Stored' = Stored \cup {b},
             cachedTip' = [hash |-> b, height |-> Depth[b]]
      PROVE  TopOK'
  <2>1. Depth[b] <= top'
    BY <1>4, <1>5, <1>8
  <2>2. \A x \in Stored : Depth[x] <= top'
    BY <1>4, <1>5, <1>6
  <2>. QED BY <1>5, <1>8, <2>1, <2>2 DEF TopOK
<1>. QED BY <1>1, <1>4, <1>5, <1>7, <1>8, StoreGrows DEF CacheInv

LEMMA StoreTxKnown ==
    ASSUME Modes = {TRUE}, CacheInv, NEW s \in Syncs, Store(s)
    PROVE  TxKnown'
<1>1. HInv' /\ Stored \subseteq Stored'
  BY StoreTop
<1>2. CASE UNCHANGED txBlock
  BY <1>1, <1>2 DEF CacheInv, TxKnown
<1>3. ASSUME NEW b \in Block, b \in Stored \/ prev'[b] # Null, NEW e,
             e = [blk |-> b, ht |-> height'[b]] \/ e = NoBlock, SetTxs(b, e)
      PROVE  TxKnown'
  <2>1. b \in Stored' /\ b # Null
    BY <1>1, <1>3, Names DEF Stored, Has
  <2>2. \A t \in Tx : txBlock'[t] = IF t \in TxOf[b] THEN e ELSE txBlock[t]
    BY <1>3 DEF SetTxs
  <2>3. e.blk = b \/ (e.blk = Null /\ e.ht = -1)
    BY <1>3 DEF NoBlock
  <2>. QED BY <1>1, <2>1, <2>2, <2>3 DEF CacheInv, TxKnown
<1>. QED BY <1>2, <1>3, StoreKinds, StoreWrites DEF CacheInv

\* What is buried remains so, as long as no block with Safe confirmations leaves
\* the main chain: a batch changes the entry of a transaction only for the one
\* block that holds it, and gives that its depth again or takes it off.
LEMMA StaysBuried ==
    ASSUME Modes = {TRUE}, CacheInv, NEW s \in Syncs, Store(s), Settled',
           NEW t \in Spenders \cup {Out}, Buried(t)
    PROVE  Buried(t)'
<1>1. /\ HInv' /\ top <= top' /\ top \in Int /\ top' \in Int
  BY StoreTop
<1>2. t \in Tx /\ txBlock[t].ht >= 0
  BY CacheNames DEF Buried, HeightOf
<1>3. PICK b \in Block :
      /\ b \in Stored /\ t \in TxOf[b] /\ txBlock[t].ht = height[b]
      /\ height[b] = Depth[b] /\ Depth[b] \in Nat
  <2>. DEFINE b == txBlock[t].blk
  <2>1. b # Null
    BY <1>2 DEF CacheInv, TxKnown
  <2>2. b \in Stored /\ b \in Block /\ t \in TxOf[b] /\ txBlock[t].ht = height[b]
    BY <1>2, <2>1 DEF CacheInv, TxKnown, HInv, Inv, TxOwned
  <2>3. Has(b) /\ height[b] \in {-1, Depth[b]}
    BY <2>2 DEF CacheInv, HInv, IndexOK, HeightsOK, HeightIsDepth, Stored
  <2>. QED BY <1>2, <2>2, <2>3, BlockTree
<1>4. height'[b] = Depth[b]
  <2>1. height'[b] >= 0
    <3>1. Buries(b)
      BY <1>2, <1>3 DEF Buried, Buries, HeightOf
    <3>2. ~(height'[b] < 0)
      BY <1>3, <3>1 DEF Store, Settled
    <3>3. height'[b] \in Int
      BY <1>1, <1>3 DEF HInv, Inv, SyncTypeOK, BlockDbTypeOK, Heights, Hash
    <3>. QED BY <3>2, <3>3
  <2>2. b \in Stored'
    BY <1>3, StoreTop
  <2>3. Has(b)' /\ height'[b] \in {-1, Depth[b]}
    <3>1. HeightIsDepth'
      BY <1>1 DEF HInv, IndexOK, HeightsOK
    <3>. QED BY <1>3, <2>2, <3>1 DEF HeightIsDepth, Stored, Has
  <2>. QED BY <1>3, <2>1, <2>3
<1>5. txBlock'[t].ht = Depth[b]
  <2>1. CASE UNCHANGED txBlock
    BY <1>3, <2>1
  <2>2. ASSUME NEW a \in Block, NEW e, SetTxs(a, e),
               e = [blk |-> a, ht |-> height'[a]] \/ (e = NoBlock /\ height'[a] = -1)
        PROVE  txBlock'[t].ht = Depth[b]
    <3>1. txBlock'[t] = IF t \in TxOf[a] THEN e ELSE txBlock[t]
      BY <1>2, <2>2 DEF SetTxs
    <3>2. CASE t \in TxOf[a]
      <4>1. a = b
        BY <1>3, <3>2 DEF NotShared, Settled
      <4>2. height'[a] # -1
        BY <1>3, <1>4, <4>1
      <4>. QED BY <1>4, <2>2, <3>1, <3>2, <4>1, <4>2
    <3>3. CASE t \notin TxOf[a]
      BY <1>3, <3>1, <3>3
    <3>. QED BY <3>2, <3>3
  <2>. QED BY <2>1, <2>2, StoreKinds, StoreWrites DEF CacheInv
<1>6. txBlock[t].ht = Depth[b] /\ top - Depth[b] + 1 >= Safe
  BY <1>3 DEF Buried, HeightOf
<1>7. top' - Depth[b] + 1 >= Safe
  BY <1>1, <1>3, <1>6, CacheNames
<1>. QED BY <1>3, <1>5, <1>7 DEF Buried, HeightOf

LEMMA StoreInv ==
    ASSUME Modes = {TRUE}, CacheInv, NEW s \in Syncs, Store(s)
    PROVE  CacheInv'
<1>1. HInv' /\ TxKnown' /\ TopOK' /\ top <= top' /\ top \in Int /\ top' \in Int
  BY StoreTop, StoreTxKnown
<1>2. /\ deep' \in BOOLEAN /\ (Settled' => Settled) /\ req' = req
      /\ entry' = entry \/ \E k \in Times : entry' = [entry EXCEPT ![k] = Plain]
  BY DEF Store, Settled, PutEntry, CacheInv, EntryOK
<1>3. ASSUME Settled'
      PROVE  /\ \A t \in Spenders \cup {Out} : Buried(t) => Buried(t)'
             /\ \A v \in Values : Supported(v) => Supported(v)'
  <2>1. \A t \in Spenders \cup {Out} : Buried(t) => Buried(t)'
    BY <1>3, StaysBuried
  <2>2. \A v \in Values : v.spent \in Spenders \cup {Null}
    BY DEF Values
  <2>. QED BY <2>1, <2>2 DEF Supported
<1>4. EntryOK'
  <2>1. entry' \in [Times -> Values \cup {NoKey}]
    BY <1>2, CacheNames DEF CacheInv, EntryOK
  <2>2. ASSUME Settled', NEW k \in Times, entry'[k] # NoKey PROVE Supported(entry[k])'
    <3>1. PICK v \in Values : v = entry'[k]
      BY <2>1, <2>2
    <3>2. Supported(v)
      <4>1. Supported(Plain)
        BY CacheNames DEF Supported
      <4>2. v = Plain \/ v = entry[k]
        BY <1>2, <3>1 DEF CacheInv, EntryOK
      <4>. QED BY <1>2, <2>2, <3>1, <4>1, <4>2 DEF CacheInv, EntryOK
    <3>3. Supported(v)'
      BY <1>3, <2>2, <3>2
    <3>. QED BY <3>1, <3>3 DEF Supported, Buried, HeightOf
  <2>. QED BY <1>2, <2>1, <2>2 DEF EntryOK
<1>5. ASSUME NEW c \in Clients PROVE RequestOK(req[c])'
  <2>1. PICK r \in Requests : r = req[c] /\ RequestOK(r)
    BY DEF CacheInv, RequestsOK
  <2>2. r.tip \in Int /\ r.confs \in Int /\ r.sconfs \in Int /\ r.put \in Values
    BY <2>1 DEF Requests, Heights
  <2>3. r.put.spent \in Spenders \cup {Null}
    BY <2>2 DEF Values
  <2>4. r.tip <= top' /\ r.confs <= top' + 1 /\ r.sconfs <= top' + 1
    BY <1>1, <2>1, <2>2 DEF RequestOK
  <2>5. ASSUME Settled'
        PROVE  /\ r.cached.conf => Buried(Out)'
               /\ r.confs >= Safe => Buried(Out)'
               /\ r.sconfs >= Safe /\ r.put.spent # Null => Buried(r.put.spent)'
               /\ r.pc \in {"putConf", "putScript"} => Supported(r.put)'
    BY <1>2, <1>3, <2>1, <2>2, <2>3, <2>5 DEF RequestOK
  <2>6. RequestOK(r)'
    BY <2>1, <2>4, <2>5 DEF RequestOK
  <2>7. req'[c] = r
    BY <1>2, <2>1
  <2>. QED BY <2>6, <2>7 DEF RequestOK, Supported, Buried, HeightOf
<1>6. RequestsOK'
  BY <1>2, <1>5 DEF CacheInv, RequestsOK
<1>. QED BY <1>1, <1>4, <1>6 DEF CacheInv

-----------------------------------------------------------------------------
(* The steps of a request *)

LEMMA FreeOK == ASSUME TopOK PROVE RequestOK(Free)
<1>1. top \in Int /\ top >= -1
  BY DEF TopOK, Heights
<1>2. /\ Free \in Requests /\ Free.pc = "free" /\ Free.key = -1 /\ Free.tip = -1
      /\ Free.confs = 0 /\ Free.sconfs = 0 /\ Free.cached = Plain /\ Free.put = Plain
  BY CacheNames DEF Free, Requests, Heights
<1>. QED BY <1>1, <1>2, CacheNames DEF RequestOK

LEMMA ScriptOK ==
    ASSUME TopOK, NEW r \in Requests, Settled => Supported(r.put), NEW q \in Script(r)
    PROVE  RequestOK(q)
<1>1. CASE q = Free
  BY <1>1, FreeOK
<1>2. CASE q = [Free EXCEPT !.pc = "putScript", !.key = r.key, !.put = [r.put EXCEPT !.script = TRUE]]
  <2>. DEFINE v == [r.put EXCEPT !.script = TRUE]
  <2>1. v \in Values /\ v.conf = r.put.conf /\ v.spent = r.put.spent
    BY DEF Requests, Values
  <2>. HIDE DEF v
  <2>2. /\ Free \in Requests /\ Free.tip = -1 /\ Free.confs = 0 /\ Free.sconfs = 0
        /\ Free.cached = Plain
    BY FreeOK DEF RequestOK, Free
  <2>3. /\ q \in Requests /\ q.pc = "putScript" /\ q.put = v
        /\ q.tip = -1 /\ q.confs = 0 /\ q.sconfs = 0 /\ q.cached = Plain
    BY <1>2, <2>1, <2>2 DEF Requests, v
  <2>4. Settled => Supported(v)
    BY <2>1 DEF Supported
  <2>5. top \in Int /\ top >= -1
    BY DEF TopOK, Heights
  <2>. QED BY <2>3, <2>4, <2>5, CacheNames DEF RequestOK
<1>. QED BY <1>1, <1>2 DEF Script

LEMMA DecideOK ==
    ASSUME TopOK, NEW r, RequestOK(r), NEW q \in Decide(r)
    PROVE  RequestOK(q)
<1>1. r \in Requests /\ top \in Int /\ top >= -1
  BY DEF RequestOK, TopOK, Heights
<1>2. CASE r.confs >= Safe
  <2>. DEFINE w == IF r.sconfs >= Safe THEN r.put.spent ELSE Null
              v == [conf |-> TRUE, script |-> FALSE, spent |-> w]
  <2>1. w \in Spenders \cup {Null}
    BY <1>1 DEF Requests, Values
  <2>2. v \in Values /\ v.spent = w
    BY <2>1 DEF Values
  <2>3. Settled => Supported(v)
    BY <1>2, <2>2 DEF Supported, RequestOK
  <2>. HIDE DEF v
  <2>4. q = [r EXCEPT !.pc = "putConf", !.left = {}, !.tip = -1, !.confs = 0, !.sconfs = 0, !.put = v]
    BY <1>2 DEF Decide, v
  <2>5. /\ q \in Requests /\ q.pc = "putConf" /\ q.put = v /\ q.tip = -1
        /\ q.confs = 0 /\ q.sconfs = 0 /\ q.cached = r.cached
    <3>1. q = [pc |-> "putConf", key |-> r.key, cached |-> r.cached, tries |-> r.tries,
               left |-> {}, tip |-> -1, confs |-> 0, sconfs |-> 0, put |-> v]
      BY <1>1, <2>4 DEF Requests
    <3>2. -1 \in Heights
      BY DEF Heights
    <3>. QED BY <1>1, <2>2, <3>1, <3>2 DEF Requests
  <2>. QED BY <1>1, <2>3, <2>5, CacheNames DEF RequestOK
<1>3. CASE ~(r.confs >= Safe)
  <2>. DEFINE v == [Plain EXCEPT !.conf = r.cached.conf]
              p == [r EXCEPT !.put = v]
  <2>1. v \in Values /\ v.conf = r.cached.conf /\ v.spent = Null
    BY <1>1, CacheNames DEF Plain, Requests, Values
  <2>2. Settled => Supported(v)
    BY <2>1 DEF Supported, RequestOK
  <2>. HIDE DEF v
  <2>3. p \in Requests /\ p.put = v
    BY <1>1, <2>1 DEF Requests
  <2>4. q \in Script(p)
    BY <1>3 DEF Decide, v
  <2>. QED BY <2>2, <2>3, <2>4, ScriptOK
<1>. QED BY <1>2, <1>3

LEMMA SpentOK ==
    ASSUME TopOK, NEW r, RequestOK(r), r.pc \notin {"putConf", "putScript"}, NEW q \in Spent(r)
    PROVE  RequestOK(q)
<1>1. CASE r.tries = {}
  BY <1>1, DecideOK DEF Spent
<1>2. CASE r.tries # {}
  <2>1. q = [r EXCEPT !.pc = "spentBlock", !.left = r.tries] /\ r \in Requests
    BY <1>2 DEF Spent, RequestOK
  <2>2. /\ q \in Requests /\ q.pc = "spentBlock" /\ q.put = r.put /\ q.tip = r.tip
        /\ q.confs = r.confs /\ q.sconfs = r.sconfs /\ q.cached = r.cached
    BY <2>1 DEF Requests
  <2>. QED BY <2>2 DEF RequestOK
<1>. QED BY <1>1, <1>2

LEMMA WithTipOK ==
    ASSUME TopOK, NEW r, RequestOK(r), r.pc \notin {"putConf", "putScript"},
           NEW h \in Heights, h <= top, NEW q \in WithTip(r, h)
    PROVE  RequestOK(q)
<1>. DEFINE p == [r EXCEPT !.tip = h]
<1>1. /\ p \in Requests /\ p.pc = r.pc /\ p.put = r.put /\ p.tip = h
      /\ p.confs = r.confs /\ p.sconfs = r.sconfs /\ p.cached = r.cached
  BY DEF RequestOK, Requests
<1>2. RequestOK(p)
  BY <1>1 DEF RequestOK
<1>3. CASE r.cached.conf
  BY <1>1, <1>2, <1>3, SpentOK DEF WithTip
<1>4. CASE ~r.cached.conf
  <2>1. q = [r EXCEPT !.pc = "block", !.tip = h] /\ r \in Requests
    BY <1>4 DEF WithTip, RequestOK
  <2>2. /\ q \in Requests /\ q.pc = "block" /\ q.put = r.put /\ q.tip = h
        /\ q.confs = r.confs /\ q.sconfs = r.sconfs /\ q.cached = r.cached
    BY <2>1 DEF Requests
  <2>. QED BY <2>2 DEF RequestOK
<1>. QED BY <1>3, <1>4

\* The step of one request, that leaves the blocks alone and the entry too or puts
\* a value there.
LEMMA RequestStep ==
    ASSUME CacheInv, HInv', UNCHANGED <<prev, height, txBlock, top, deep>>,
           NEW c \in Clients, NEW q, RequestOK(q), Put(c, q),
           NEW v \in Values, Settled => Supported(v), NEW k,
           entry' = entry \/ entry' = [entry EXCEPT ![k] = v]
    PROVE  CacheInv'
<1>1. /\ TxKnown' /\ TopOK'
      /\ \A w : Supported(w)' = Supported(w)
      /\ \A r : RequestOK(r)' = RequestOK(r)
  BY QuietCache
<1>2. q \in Requests /\ req \in [Clients -> Requests] /\ req' = [req EXCEPT ![c] = q]
  BY DEF RequestOK, CacheInv, RequestsOK, Put
<1>3. ASSUME NEW d \in Clients PROVE RequestOK(req[d])'
  <2>1. req'[d] = IF d = c THEN q ELSE req[d]
    BY <1>2
  <2>2. RequestOK(req'[d])
    BY <2>1 DEF CacheInv, RequestsOK
  <2>3. PICK r : r = req'[d]
    OBVIOUS
  <2>4. RequestOK(r)'
    BY <1>1, <2>2, <2>3
  <2>. QED BY <2>3, <2>4 DEF RequestOK, Supported, Buried, HeightOf
<1>4. EntryOK'
  <2>1. entry' \in [Times -> Values \cup {NoKey}] /\ deep' \in BOOLEAN
    BY DEF CacheInv, EntryOK
  <2>2. ASSUME Settled', NEW j \in Times, entry'[j] # NoKey PROVE Supported(entry[j])'
    <3>1. PICK w : w = entry'[j]
      OBVIOUS
    <3>2. w = v \/ w = entry[j]
      BY <3>1 DEF CacheInv, EntryOK
    <3>3. Supported(w)
      BY <2>2, <3>1, <3>2 DEF CacheInv, Settled, EntryOK
    <3>4. Supported(w)'
      BY <1>1, <3>3
    <3>. QED BY <3>1, <3>4 DEF Supported, Buried, HeightOf
  <2>. QED BY <2>1, <2>2 DEF EntryOK
<1>5. RequestsOK'
  BY <1>2, <1>3 DEF RequestsOK
<1>. QED BY <1>1, <1>4, <1>5 DEF CacheInv

LEMMA UpdateInv ==
    ASSUME CacheInv, NEW c \in Clients, Update(c)
    PROVE  CacheInv'
<1>. DEFINE r == req[c]
<1>1. RequestOK(r) /\ r \in Requests /\ TopOK /\ HInv /\ TxKnown /\ EntryOK
  BY DEF CacheInv, RequestsOK
<1>2. /\ top \in Int /\ top >= -1 /\ tip.height \in Heights /\ cachedTip.height \in Heights
      /\ tip.height <= top /\ cachedTip.height <= top
  <2>1. top \in Int /\ top >= -1 /\ tip \in TipVal /\ cachedTip \in TipVal
    BY <1>1 DEF TopOK, Heights, HInv, Inv, SyncTypeOK, BlockDbTypeOK
  <2>2. /\ tip # NoTip => tip.height = Depth[tip.hash] /\ tip.hash \in Stored
        /\ cachedTip # NoTip => cachedTip.height = Depth[cachedTip.hash] /\ cachedTip.hash \in Stored
    BY <1>1 DEF HInv, IndexOK, TipOK
  <2>. QED BY <1>1, <2>1, <2>2 DEF TipVal, NoTip, TopOK, Heights
<1>3. \A t \in Tx : HeightOf(t) \in Heights
  BY <1>1 DEF HeightOf, HInv, Inv, SyncTypeOK, BlockDbTypeOK, TxEntry
<1>4. ASSUME UNCHANGED vars PROVE HInv' /\ UNCHANGED <<prev, height, txBlock>>
  <2>1. savedTx \subseteq Tx
    BY <1>1 DEF HInv, Inv, SyncTypeOK, BlockDbTypeOK
  <2>. QED BY <1>1, <1>4, <2>1, QuietHInv DEF vars, callVars
<1>5. Plain \in Values /\ Supported(Plain)
  BY CacheNames DEF Supported
<1>6. ASSUME NEW q, RequestOK(q), Put(c, q), UNCHANGED <<vars, entry, top, deep>>
      PROVE  CacheInv'
  BY <1>4, <1>5, <1>6, RequestStep
<1>7. CASE Read(c)
  <2>1. PICK k \in Times, ignoreCache \in BOOLEAN :
           LET v == IF ignoreCache \/ ~entry[k].conf THEN Plain ELSE entry[k]
           IN  /\ IsFirst(k)
               /\ v.spent = Null
               /\ Put(c, [Free EXCEPT !.pc = "spents", !.key = k, !.cached = v])
    BY <1>7 DEF Read
  <2>. DEFINE v == IF ignoreCache \/ ~entry[k].conf THEN Plain ELSE entry[k]
              q == [Free EXCEPT !.pc = "spents", !.key = k, !.cached = v]
  <2>2. v \in Values /\ (Settled => Supported(v))
    BY <1>1, <1>5, <2>1 DEF EntryOK, IsFirst
  <2>. HIDE DEF v
  <2>3. /\ Free \in Requests /\ Free.tip = -1 /\ Free.confs = 0 /\ Free.sconfs = 0 /\ Free.put = Plain
    BY <1>1, FreeOK DEF RequestOK, Free
  <2>4. /\ q \in Requests /\ q.pc = "spents" /\ q.cached = v /\ q.tip = -1
        /\ q.confs = 0 /\ q.sconfs = 0
    BY <2>2, <2>3 DEF Requests
  <2>. HIDE DEF q
  <2>5. RequestOK(q)
    BY <1>2, <2>2, <2>4, CacheNames DEF RequestOK, Supported
  <2>. QED BY <1>6, <1>7, <2>1, <2>5 DEF Read, v, q
<1>8. CASE Spents(c)
  <2>. DEFINE p == [r EXCEPT !.tries = Spenders \cap savedTx]
  <2>1. /\ p \in Requests /\ p.pc = "spents" /\ p.put = r.put /\ p.tip = r.tip
        /\ p.confs = r.confs /\ p.sconfs = r.sconfs /\ p.cached = r.cached
    BY <1>1, <1>8 DEF Spents, Waits, Requests
  <2>2. RequestOK(p)
    BY <1>1, <2>1 DEF RequestOK
  <2>3. CASE cachedTip = NoTip
    <3>. DEFINE q == [p EXCEPT !.pc = "getTip"]
    <3>1. Put(c, q)
      BY <1>8, <2>3 DEF Spents
    <3>. HIDE DEF p
    <3>2. /\ q \in Requests /\ q.pc = "getTip" /\ q.put = p.put /\ q.tip = p.tip
          /\ q.confs = p.confs /\ q.sconfs = p.sconfs /\ q.cached = p.cached
      BY <2>1 DEF Requests
    <3>. HIDE DEF q
    <3>3. RequestOK(q)
      BY <2>2, <3>2 DEF RequestOK
    <3>. QED BY <1>6, <1>8, <3>1, <3>3 DEF Spents
  <2>4. CASE cachedTip # NoTip
    <3>1. PICK q \in WithTip(p, cachedTip.height) : Put(c, q)
      BY <1>8, <2>4 DEF Spents
    <3>. HIDE DEF p
    <3>2. RequestOK(q)
      BY <1>1, <1>2, <2>1, <2>2, <3>1, WithTipOK
    <3>. QED BY <1>6, <1>8, <3>1, <3>2 DEF Spents
  <2>. QED BY <2>3, <2>4
<1>9. CASE ReadTip(c)
  <2>1. PICK q \in WithTip(r, tip.height) : Put(c, q)
    BY <1>9 DEF ReadTip
  <2>2. r.pc = "getTip"
    BY <1>9 DEF ReadTip, Waits
  <2>3. RequestOK(q)
    BY <1>1, <1>2, <2>1, <2>2, WithTipOK
  <2>4. HInv' /\ UNCHANGED <<prev, height, txBlock>>
    <3>1. savedTx \subseteq Tx
      BY <1>1 DEF HInv, Inv, SyncTypeOK, BlockDbTypeOK
    <3>2. /\ UNCHANGED <<dbVars, up, callVars, delayed>>
          /\ cachedTip' \in {tip, cachedTip} /\ (cachedTip # NoTip => cachedTip' # NoTip)
      BY <1>9 DEF ReadTip, NoTip
    <3>. QED BY <1>1, <3>1, <3>2, QuietHInv DEF dbVars
  <2>5. UNCHANGED <<entry, top, deep>>
    BY <1>9 DEF ReadTip
  <2>. QED BY <1>5, <2>1, <2>3, <2>4, <2>5, RequestStep
<1>10. CASE TxBlock(c)
  <2>. DEFINE h == HeightOf(Out)
  <2>0. h \in Heights /\ r.pc = "block"
    BY <1>3, <1>10, CacheNames DEF TxBlock, Waits
  <2>1. CASE h >= 0
    <3>. DEFINE p == [r EXCEPT !.confs = r.tip - h + 1]
    <3>1. PICK q \in Spent(p) : Put(c, q)
      BY <1>10, <2>1 DEF TxBlock
    <3>2. r.tip \in Int /\ h \in Int /\ r.tip - h + 1 \in Int /\ r.tip <= top
      BY <1>1, <2>0 DEF Requests, Heights, RequestOK
    <3>3. /\ p \in Requests /\ p.pc = "block" /\ p.put = r.put /\ p.tip = r.tip
          /\ p.confs = r.tip - h + 1 /\ p.sconfs = r.sconfs /\ p.cached = r.cached
      BY <1>1, <2>0, <3>2 DEF Requests
    <3>. HIDE DEF p
    <3>4. p.confs <= top + 1 /\ (p.confs >= Safe => Buried(Out))
      <4>1. p.confs >= Safe => top - h + 1 >= Safe
        BY <1>2, <3>2, <3>3, CacheNames
      <4>. QED BY <1>2, <2>1, <3>2, <3>3, <4>1 DEF Buried
    <3>5. RequestOK(p)
      BY <1>1, <3>3, <3>4 DEF RequestOK
    <3>6. RequestOK(q)
      BY <1>1, <3>1, <3>3, <3>5, SpentOK
    <3>. QED BY <1>6, <1>10, <3>1, <3>6 DEF TxBlock
  <2>2. CASE ~(h >= 0)
    <3>1. PICK q \in Decide(r) : Put(c, q)
      BY <1>10, <2>2 DEF TxBlock
    <3>2. RequestOK(q)
      BY <1>1, <3>1, DecideOK
    <3>. QED BY <1>6, <1>10, <3>1, <3>2 DEF TxBlock
  <2>. QED BY <2>1, <2>2
<1>11. CASE SpentBlock(c)
  <2>1. PICK t \in r.left :
          LET h == HeightOf(t)
              p == [r EXCEPT !.left = @ \ {t}]
              f == IF h >= 0 THEN [p EXCEPT !.put.spent = t, !.sconfs = p.tip - h + 1] ELSE p
          IN  \E q \in IF f.left = {} THEN Decide(f) ELSE {f} : Put(c, q)
    BY <1>11 DEF SpentBlock
  <2>. DEFINE h == HeightOf(t)
              p == [r EXCEPT !.left = @ \ {t}]
              f == IF h >= 0 THEN [p EXCEPT !.put.spent = t, !.sconfs = p.tip - h + 1] ELSE p
  <2>2. t \in Spenders /\ t \in Tx /\ h \in Heights /\ r.pc = "spentBlock"
    BY <1>1, <1>3, <1>11, CacheNames DEF Requests, SpentBlock, Waits
  <2>3. /\ p \in Requests /\ p.pc = "spentBlock" /\ p.put = r.put /\ p.tip = r.tip
        /\ p.confs = r.confs /\ p.sconfs = r.sconfs /\ p.cached = r.cached
    BY <1>1, <2>2 DEF Requests
  <2>4. PICK q \in IF f.left = {} THEN Decide(f) ELSE {f} : Put(c, q)
    BY <2>1
  <2>. HIDE DEF p
  <2>5. RequestOK(p)
    BY <1>1, <2>2, <2>3 DEF RequestOK
  <2>6. RequestOK(f)
    <3>1. CASE ~(h >= 0)
      BY <2>5, <3>1
    <3>2. CASE h >= 0
      <4>. DEFINE v == [p.put EXCEPT !.spent = t]
                  n == p.tip - h + 1
      <4>1. f = [p EXCEPT !.put = v, !.sconfs = n]
        BY <2>3, <3>2 DEF Requests
      <4>2. v \in Values /\ v.spent = t
        BY <2>2, <2>3 DEF Requests, Values
      <4>3. p.tip \in Int /\ h \in Int /\ n \in Int /\ p.tip <= top
        BY <2>2, <2>3, <2>5 DEF Requests, Heights, RequestOK
      <4>4. n <= top + 1 /\ (n >= Safe => Buried(t))
        <5>1. n >= Safe => top - h + 1 >= Safe
          BY <1>2, <4>3, CacheNames
        <5>. QED BY <1>2, <3>2, <4>3, <5>1 DEF Buried
      <4>. HIDE DEF f, v, n
      <4>5. /\ f \in Requests /\ f.pc = "spentBlock" /\ f.put = v /\ f.tip = p.tip
            /\ f.confs = p.confs /\ f.sconfs = n /\ f.cached = p.cached
        BY <2>3, <4>1, <4>2, <4>3 DEF Requests
      <4>. QED BY <2>5, <4>2, <4>4, <4>5 DEF RequestOK
    <3>. QED BY <3>1, <3>2
  <2>. HIDE DEF f
  <2>7. RequestOK(q)
    BY <1>1, <2>4, <2>6, DecideOK
  <2>. QED BY <1>6, <1>11, <2>4, <2>7 DEF SpentBlock
<1>12. CASE PutConf(c)
  <2>1. PICK q \in Script(r) : Put(c, q)
    BY <1>12 DEF PutConf
  <2>2. r.pc = "putConf" /\ entry' = [entry EXCEPT ![r.key] = r.put] /\ UNCHANGED <<vars, top, deep>>
    BY <1>12 DEF PutConf, Waits
  <2>3. r.put \in Values /\ (Settled => Supported(r.put))
    BY <1>1, <2>2 DEF Requests, RequestOK
  <2>4. RequestOK(q)
    BY <1>1, <2>1, <2>3, ScriptOK
  <2>. HIDE DEF r
  <2>. QED BY <1>4, <2>1, <2>2, <2>3, <2>4, RequestStep
<1>13. CASE PutScript(c)
  <2>1. /\ r.pc = "putScript" /\ Put(c, Free) /\ UNCHANGED <<vars, top, deep>>
        /\ entry' = [entry EXCEPT ![r.key] = r.put]
    BY <1>13 DEF PutScript, Waits
  <2>2. r.put \in Values /\ (Settled => Supported(r.put))
    BY <1>1, <2>1 DEF Requests, RequestOK
  <2>3. RequestOK(Free)
    BY <1>1, FreeOK
  <2>. HIDE DEF r
  <2>. QED BY <1>4, <2>1, <2>2, <2>3, RequestStep
<1>. QED BY <1>7, <1>8, <1>9, <1>10, <1>11, <1>12, <1>13 DEF Update

LEMMA CacheInitInv == CacheInit => CacheInv
<1>. SUFFICES ASSUME CacheInit PROVE CacheInv
  OBVIOUS
<1>1. HInv
  BY InitHInv DEF CacheInit
<1>2. Stored = {}
  BY DEF CacheInit, Init, BlockDbInit, Stored, Has, Hash
<1>3. TxKnown
  BY DEF CacheInit, Init, BlockDbInit, TxKnown, NoBlock
<1>4. TopOK
  BY <1>2 DEF CacheInit, TopOK, Heights
<1>5. EntryOK
  BY DEF CacheInit, EntryOK
<1>6. RequestsOK
  <2>1. Free \in Requests /\ RequestOK(Free)
    BY <1>4, FreeOK DEF RequestOK
  <2>2. \A c \in Clients : req[c] = Free
    BY DEF CacheInit
  <2>. QED BY <2>1, <2>2 DEF CacheInit, RequestsOK
<1>. QED BY <1>1, <1>3, <1>4, <1>5, <1>6 DEF CacheInv

LEMMA CacheNextInv ==
    ASSUME Modes = {TRUE}
    PROVE  CacheInv /\ [CacheNext]_cacheVars => CacheInv'
<1>. SUFFICES ASSUME CacheInv, [CacheNext]_cacheVars PROVE CacheInv'
  OBVIOUS
<1>1. CASE UNCHANGED cacheVars
  <2>1. HInv'
    <3>1. savedTx \subseteq Tx
      BY DEF CacheInv, HInv, Inv, SyncTypeOK, BlockDbTypeOK
    <3>. QED BY <1>1, <3>1, QuietHInv DEF CacheInv, cacheVars, vars, callVars
  <2>2. UNCHANGED <<prev, height, txBlock, top, deep, entry, req>>
    BY <1>1 DEF cacheVars, vars
  <2>3. TxKnown' /\ TopOK'
    BY <2>1, <2>2, QuietCache
  <2>4. EntryOK' /\ RequestsOK'
    BY <2>2 DEF CacheInv, Settled, EntryOK, RequestsOK, RequestOK, Supported, Buried, HeightOf
  <2>. QED BY <2>1, <2>3, <2>4 DEF CacheInv
<1>. QED BY <1>1, StoreTxInv, StoreInv, UpdateInv DEF CacheNext

LEMMA CacheInvariance ==
    ASSUME Modes = {TRUE}
    PROVE  CacheSpec => []CacheInv
<1>1. CacheInit => CacheInv
  BY CacheInitInv
<1>2. CacheInv /\ [CacheNext]_cacheVars => CacheInv'
  BY CacheNextInv
<1>. QED BY <1>1, <1>2, PTL DEF CacheSpec

-----------------------------------------------------------------------------
(* The theorems *)

\* Whatever is stored and rearranged between its reads, no request counts more
\* confirmations of a transaction than there are blocks, and an entry is a value
\* or none.
THEOREM CacheTypes ==
    ASSUME Modes = {TRUE}
    PROVE  CacheSpec => []CacheTypeOK
<1>1. CacheInv => CacheTypeOK
  BY DEF CacheInv, EntryOK, RequestsOK, RequestOK, TopOK, CacheTypeOK
<1>. QED BY <1>1, CacheInvariance, PTL

\* What cacheConfirmations writes of an output is in the main chain under Safe
\* blocks, with the tip, the heights and the attempts read at different times and
\* any number of requests overwriting each other, until a block that deep leaves.
THEOREM CachedForGood ==
    ASSUME Modes = {TRUE}, NotShared
    PROVE  CacheSpec => []CachedIsBuried
<1>1. CacheInv => CachedIsBuried
  BY DEF CacheInv, EntryOK, Settled, Supported, Buried, CachedIsBuried
<1>. QED BY <1>1, CacheInvariance, PTL

\* A request that uses the cache gives the balances of one that ignores it, at any
\* moment of a reorganisation that is not as deep as Safe: what the entry says is
\* confirmed is on the main chain at or under the tip, and the transaction that
\* spends the output there is among the attempts.
THEOREM CacheIsTransparent ==
    ASSUME Modes = {TRUE}, NotShared
    PROVE  CacheSpec => []CacheAgrees
<1>1. CacheInv => CacheAgrees
  <2>. SUFFICES ASSUME CacheInv, ~deep, TipNow.height > top - Safe,
                       NEW k \in Times, IsFirst(k), entry[k].conf
                PROVE  Answer(entry[k]) = Answer(Plain)
    BY DEF CacheAgrees
  <2>. DEFINE v == entry[k]
              InChain(t) == HeightOf(t) >= 0 /\ TipNow.height >= HeightOf(t)
              Tries == Spenders \cap savedTx
  <2>1. v \in Values /\ Supported(v) /\ v.spent \in Spenders \cup {Null}
    BY DEF CacheInv, EntryOK, Settled, IsFirst, Values
  <2>2. top \in Int /\ TipNow.height \in Int /\ \A t \in Tx : HeightOf(t) \in Int
    <3>1. top \in Heights /\ tip \in TipVal /\ cachedTip \in TipVal /\ txBlock \in [Tx -> TxEntry]
      BY DEF CacheInv, TopOK, HInv, Inv, SyncTypeOK, BlockDbTypeOK
    <3>. QED BY <3>1 DEF TipNow, TipVal, NoTip, Heights, HeightOf, TxEntry
  <2>3. ASSUME NEW t \in Spenders \cup {Out}, Buried(t) PROVE InChain(t)
    BY <2>2, <2>3, CacheNames DEF Buried
  <2>4. ASSUME v.spent # Null PROVE v.spent \in Tries /\ InChain(v.spent)
    <3>. DEFINE t == v.spent
    <3>1. t \in Spenders /\ t \in Tx /\ t # GenesisTx /\ Buried(t)
      BY <2>1, <2>4, CacheConstants DEF Supported
    <3>2. txBlock[t].blk \in Stored /\ t \in TxOf[txBlock[t].blk]
      BY <3>1 DEF CacheInv, TxKnown, HInv, Inv, TxOwned, Buried, HeightOf
    <3>3. t \in savedTx
      BY <3>1, <3>2 DEF CacheInv, HInv, IndexOK, Complete
    <3>. QED BY <2>3, <3>1, <3>3
  <2>5. InChain(Out)
    BY <2>1, <2>3 DEF Supported
  <2>6. Plain.spent = Null
    BY CacheNames
  <2>. HIDE DEF v, InChain, Tries
  <2>7. Answer(v) = Totals(TRUE, v.spent # Null \/ Tries # {},
                           v.spent # Null \/ \E t \in Tries : InChain(t))
    BY DEF Answer, v, InChain, Tries
  <2>8. Answer(Plain) = Totals(TRUE, Tries # {}, \E t \in Tries : InChain(t))
    BY <2>5, <2>6 DEF Answer, InChain, Tries
  <2>9. (v.spent # Null \/ Tries # {} <=> Tries # {})
        /\ (v.spent # Null \/ (\E t \in Tries : InChain(t)) <=> \E t \in Tries : InChain(t))
    BY <2>4
  <2>. QED BY <2>7, <2>8, <2>9 DEF v
<1>. QED BY <1>1, CacheInvariance, PTL
=============================================================================
