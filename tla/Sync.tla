-------------------------------- MODULE Sync --------------------------------
(***************************************************************************)
(* lib/Sync.js: storeTipBlock and the reorganisation it runs.  Every       *)
(* object of the class (HistoricSync makes one, PeerSync another) has its  *)
(* own storingBlock lock and cachedLastHash; all of them write the one     *)
(* BlockDb of the process.                                                 *)
(*                                                                         *)
(* An action is one asynchronous step: the LevelDB operation or the RPC    *)
(* call a callback was waiting for, and what that callback then does up to *)
(* the next such call.  pc names the operation that is awaited; "idle" is  *)
(* storingBlock = 0.  frame holds the variables of the closures.           *)
(***************************************************************************)
EXTENDS BlockDb

CONSTANTS
    Syncs,      \* the Sync objects of the process
    Modes,      \* the values of allowReorgs that callers pass
    Resend,     \* may a caller pass a stored block other than the tip?
    MaxDelayed, \* calls that may wait for one lock (a bound of the model)
    RpcFault,   \* may an RPC call to bitcoind fail?
    CanCrash    \* may the process be killed and started again?

ASSUME SyncConstants ==
    /\ Modes \subseteq BOOLEAN
    /\ Resend \in BOOLEAN
    /\ MaxDelayed \in Nat
    /\ RpcFault \in BOOLEAN
    /\ CanCrash \in BOOLEAN

VARIABLES
    up,         \* FALSE once an exception has ended the process
    pc,         \* what each object waits for
    frame,      \* its closure's variables
    lastHash,   \* this.cachedLastHash
    delayed     \* the calls a setTimeout will make again

callVars == <<pc, frame, lastHash>>
vars == <<prev, next, height, txBlock, tip, cachedTip, savedTx,
          up, pc, frame, lastHash, delayed>>

Points == {"idle", "has", "getTip", "getNext", "reorgHeight",
           "backPrev", "backHeight", "connect", "yNext", "setYNext",
           "orphan", "orphanNext", "addTxs", "addBlock", "putTip", "setNext"}

Calls == [blk : Block, allow : Modes]

\* blk, allow: the arguments of storeTipBlock
\* height:     what the new block (or the next one to connect) is to get
\* from:       oldNext, then orphanizeFrom, then hashInterator of _setBranchOrphan
\* iter, last, branch: hashInterator, lastHash and branch of
\*             setBranchConnectedBackwards; at its end iter is yHash
Frames == [blk : Block \cup {Null}, allow : BOOLEAN, height : Heights,
           from : Block \cup {Null}, iter : Hash, last : Hash,
           branch : Seq(Hash)]

NoFrame == [blk |-> Null, allow |-> FALSE, height |-> -1,
            from |-> Null, iter |-> Null, last |-> Null, branch |-> <<>>]

NewPrev(f) == ParentOf[f.blk]

\* Every variable has its type.  In particular no hash but a block's is ever
\* put as a tip or a next pointer, although the backward walk may step onto
\* the zero hash and off the tree.
SyncTypeOK ==
    /\ BlockDbTypeOK
    /\ up \in BOOLEAN
    /\ pc \in [Syncs -> Points]
    /\ frame \in [Syncs -> Frames]
    /\ lastHash \in [Syncs -> Block \cup {Null}]
    /\ delayed \in [Syncs -> SUBSET Calls]

\* What a new process has in memory.
VolatileInit ==
    /\ up = TRUE
    /\ pc = [s \in Syncs |-> "idle"]
    /\ frame = [s \in Syncs |-> NoFrame]
    /\ lastHash = [s \in Syncs |-> Null]
    /\ delayed = [s \in Syncs |-> {}]

Init == BlockDbInit /\ VolatileInit

-----------------------------------------------------------------------------
(* Control *)

At(s, point) == up /\ pc[s] = point

Goto(s, point, f) ==
    /\ pc' = [pc EXCEPT ![s] = point]
    /\ frame' = [frame EXCEPT ![s] = f]

\* The final callback: the lock is released.
Return(s) == Goto(s, "idle", NoFrame)

\* An exception in a callback has no handler: node ends.
Throw == up' = FALSE /\ UNCHANGED <<pc, frame>>

\* The step that calls bDb.add.
StartAdd(s, f) ==
    /\ Goto(s, "addTxs", f)
    /\ lastHash' = [lastHash EXCEPT ![s] = f.blk]

\* What getTip's callback does with the tip it is given.
TipRead(s, f, t) ==
    IF t.hash # Null /\ NewPrev(f) # t.hash
    THEN Goto(s, "getNext", f) /\ UNCHANGED lastHash
    ELSE StartAdd(s, [f EXCEPT !.height = t.height + 1])

\* getTip answers at once when it has cachedTip.
CallGetTip(s, f) ==
    IF cachedTip.hash # Null
    THEN TipRead(s, f, cachedTip)
    ELSE Goto(s, "getTip", f) /\ UNCHANGED lastHash

\* storeTipBlock with the lock free.
Enter(s, c) ==
    LET f == [NoFrame EXCEPT !.blk = c.blk, !.allow = c.allow]
    IN  \/ ~c.allow /\ StartAdd(s, f)
        \/ c.allow /\ NewPrev(f) = lastHash[s] /\ CallGetTip(s, f)
        \/ c.allow /\ NewPrev(f) # lastHash[s] /\ Goto(s, "has", f) /\ UNCHANGED lastHash

-----------------------------------------------------------------------------
(* storeTipBlock *)

\* The tip that getTip would return.
TipNow == IF cachedTip # NoTip THEN cachedTip ELSE tip

\* The blocks that callers allowing reorganisations may pass: Genesis into an
\* empty index (HistoricSync.updateStartBlock), then new blocks, the tip again (which
\* is where a sync resumes) and, under Resend, any other stored block.
MayArrive(b) ==
    IF TipNow = NoTip
    THEN b = Genesis
    ELSE Resend \/ b = TipNow.hash \/ ~Has(b)

\* storeTipBlock is called: it takes the lock, or sets a timer to try again.
Call(s, c) ==
    /\ up
    /\ \/ /\ pc[s] = "idle"
          /\ Enter(s, c)
          /\ UNCHANGED delayed
       \/ /\ pc[s] # "idle"
          /\ Cardinality(delayed[s] \cup {c}) <= MaxDelayed
          /\ delayed' = [delayed EXCEPT ![s] = @ \cup {c}]
          /\ UNCHANGED callVars
    /\ UNCHANGED <<dbVars, cachedTip, up>>

\* Some caller has a block.
Submit(s, c) ==
    /\ c.allow => MayArrive(c.blk)
    /\ Call(s, c)

\* A timer of the delayed branch fires with the lock free.  (One that finds
\* the lock taken sets the timer again, which changes nothing.)
Retry(s, c) ==
    /\ At(s, "idle")
    /\ c \in delayed[s]
    /\ delayed' = [delayed EXCEPT ![s] = @ \ {c}]
    /\ Enter(s, c)
    /\ UNCHANGED <<dbVars, cachedTip, up>>

HasPrev(s) ==
    /\ At(s, "has")
    /\ LET f == frame[s]
       IN  IF Has(NewPrev(f)) \/ NewPrev(f) = Zero
           THEN CallGetTip(s, f)
           ELSE Return(s) /\ UNCHANGED lastHash       \* NEED_SYNC
    /\ UNCHANGED <<dbVars, cachedTip, up, delayed>>

\* getTip from the database; it overwrites cachedTip with what it read.
GetTip(s) ==
    /\ At(s, "getTip")
    /\ TipRead(s, frame[s], tip)
    /\ cachedTip' = IF tip.hash = Null THEN cachedTip ELSE tip
    /\ UNCHANGED <<dbVars, up, delayed>>

GetNext(s) ==
    /\ At(s, "getNext")
    /\ Goto(s, "reorgHeight", [frame[s] EXCEPT !.from = next[NewPrev(frame[s])]])
    /\ UNCHANGED <<dbVars, cachedTip, up, lastHash, delayed>>

-----------------------------------------------------------------------------
(* processReorg and setBranchConnectedBackwards *)

\* The first iteration of the backward walk from hash h.
StartBack(s, f, h) ==
    Goto(s, "backPrev", [f EXCEPT !.from = Null, !.iter = h, !.branch = <<h>>])

\* Mutant: the child of newPrev gets newPrev's own height.
ReorgHeightOffByOne(s) ==
    /\ At(s, "reorgHeight")
    /\ LET f == frame[s]
           h == height[NewPrev(f)]
       IN  \/ h = 0 /\ Throw
           \/ h < 0 /\ StartBack(s, f, NewPrev(f)) /\ UNCHANGED up
           \/ /\ h > 0 /\ f.from # Null
              /\ Goto(s, "orphan", [f EXCEPT !.height = h])
              /\ UNCHANGED up
           \/ h > 0 /\ f.from = Null /\ StartBack(s, f, NewPrev(f)) /\ UNCHANGED up
    /\ UNCHANGED <<dbVars, cachedTip, lastHash, delayed>>

\* Mutant: the branch to orphan starts at newPrev instead of its next.
ReorgHeightFromPrev(s) ==
    /\ At(s, "reorgHeight")
    /\ LET f == frame[s]
           h == height[NewPrev(f)]
       IN  \/ h = 0 /\ Throw
           \/ h < 0 /\ StartBack(s, f, NewPrev(f)) /\ UNCHANGED up
           \/ /\ h > 0
              /\ Goto(s, "orphan", [f EXCEPT !.height = h + 1, !.from = NewPrev(f)])
              /\ UNCHANGED up
    /\ UNCHANGED <<dbVars, cachedTip, lastHash, delayed>>

\* Case 3 throws; Case 1 needs newPrev on the main chain and a next block;
\* what is left is Case 2.
ReorgHeight(s) ==
    /\ At(s, "reorgHeight")
    /\ LET f == frame[s]
           h == height[NewPrev(f)]
       IN  \/ h = 0 /\ Throw
           \/ h < 0 /\ StartBack(s, f, NewPrev(f)) /\ UNCHANGED up
           \/ /\ h > 0 /\ f.from # Null
              /\ Goto(s, "orphan", [f EXCEPT !.height = h + 1])
              /\ UNCHANGED up
           \/ h > 0 /\ f.from = Null /\ StartBack(s, f, NewPrev(f)) /\ UNCHANGED up
    /\ UNCHANGED <<dbVars, cachedTip, lastHash, delayed>>

BackPrev(s) ==
    /\ At(s, "backPrev")
    /\ Goto(s, "backHeight",
            [frame[s] EXCEPT !.last = frame[s].iter, !.iter = prev[frame[s].iter]])
    /\ UNCHANGED <<dbVars, cachedTip, up, lastHash, delayed>>

\* The walk goes on while it is on a block that is not on the main chain.
BackHeight(s) ==
    /\ At(s, "backHeight")
    /\ LET f == frame[s]
       IN  IF f.iter # Null /\ height[f.iter] <= 0
           THEN Goto(s, "backPrev", [f EXCEPT !.branch = <<f.iter>> \o @])
           ELSE Goto(s, "connect", [f EXCEPT !.height = height[f.iter] + 1])
    /\ UNCHANGED <<dbVars, cachedTip, up, lastHash, delayed>>

\* setBlockMain on the first of branch; without block info from RPC it throws.
Connect(s) ==
    /\ At(s, "connect")
    /\ LET f == frame[s]
           b == Head(f.branch)
       IN  \/ /\ b \in Block
              /\ SetBlockMain(b, f.height)
              /\ Goto(s, IF Len(f.branch) = 1 THEN "yNext" ELSE "connect",
                      [f EXCEPT !.height = @ + 1, !.branch = Tail(@)])
              /\ UNCHANGED up
           \/ /\ b \notin Block \/ RpcFault
              /\ Throw
              /\ UNCHANGED <<height, txBlock>>
    /\ UNCHANGED <<prev, next, tip, savedTx, cachedTip, lastHash, delayed>>

YNext(s) ==
    /\ At(s, "yNext")
    /\ Goto(s, "setYNext", [frame[s] EXCEPT !.from = next[frame[s].iter]])
    /\ UNCHANGED <<dbVars, cachedTip, up, lastHash, delayed>>

\* Mutant: the new block is linked to Y instead of its branch.
SetYNextToNew(s) ==
    /\ At(s, "setYNext")
    /\ LET f == frame[s]
       IN  /\ SetNext(f.iter, f.blk)
           /\ IF f.from = Null
              THEN StartAdd(s, f)
              ELSE Goto(s, "orphan", f) /\ UNCHANGED lastHash
    /\ UNCHANGED <<prev, height, txBlock, tip, savedTx, cachedTip, up, delayed>>

\* setNext(yHash, newYHashNext); the old branch is orphaned when there is one.
SetYNext(s) ==
    /\ At(s, "setYNext")
    /\ LET f == frame[s]
       IN  /\ SetNext(f.iter, f.last)
           /\ IF f.from = Null
              THEN StartAdd(s, f)
              ELSE Goto(s, "orphan", f) /\ UNCHANGED lastHash
    /\ UNCHANGED <<prev, height, txBlock, tip, savedTx, cachedTip, up, delayed>>

\* _setBranchOrphan: one block of the old branch, then its next.
Orphan(s) ==
    /\ At(s, "orphan")
    /\ \/ /\ SetBlockNotMain(frame[s].from)
          /\ Goto(s, "orphanNext", frame[s])
          /\ UNCHANGED up
       \/ /\ RpcFault
          /\ Throw
          /\ UNCHANGED <<height, txBlock>>
    /\ UNCHANGED <<prev, next, tip, savedTx, cachedTip, lastHash, delayed>>

\* Mutant: only the first block of the old branch is orphaned.
OrphanNextOnce(s) ==
    /\ At(s, "orphanNext")
    /\ StartAdd(s, frame[s])
    /\ UNCHANGED <<dbVars, cachedTip, up, delayed>>

\* Mutant: hashInterator is not advanced.
OrphanNextStuck(s) ==
    /\ At(s, "orphanNext")
    /\ Goto(s, "orphan", frame[s])
    /\ UNCHANGED <<dbVars, cachedTip, up, lastHash, delayed>>

\* ... getNext of it; bDb.add follows when there is none.
OrphanNext(s) ==
    /\ At(s, "orphanNext")
    /\ LET n == next[frame[s].from]
           f == [frame[s] EXCEPT !.from = n]
       IN  IF n = Null
           THEN StartAdd(s, f)
           ELSE Goto(s, "orphan", f) /\ UNCHANGED lastHash
    /\ UNCHANGED <<dbVars, cachedTip, up, delayed>>

-----------------------------------------------------------------------------
(* bDb.add, setTip, setNext *)

\* txDb.addMany asks bitcoind for every transaction before it writes any.
AddTxs(s) ==
    /\ At(s, "addTxs")
    /\ LET f == frame[s]
       IN  \/ AddTxsScript(f.blk) /\ Goto(s, "addBlock", f)
           \/ /\ RpcFault /\ TxOf[f.blk] \ {GenesisTx} # {}
              /\ Return(s)
              /\ UNCHANGED savedTx
    /\ UNCHANGED <<prev, next, height, txBlock, tip, cachedTip, up, lastHash, delayed>>

AddBlock(s) ==
    /\ At(s, "addBlock")
    /\ LET f == frame[s]
       IN  /\ AddBlockScript(f.blk, f.height)
           /\ IF f.allow
              THEN CacheTip(f.blk, f.height) /\ Goto(s, "putTip", f)
              ELSE UNCHANGED cachedTip /\ Goto(s, "setNext", f)
    /\ UNCHANGED <<next, tip, savedTx, up, lastHash, delayed>>

StoreTip(s) ==
    /\ At(s, "putTip")
    /\ PutTip(frame[s].blk, frame[s].height)
    /\ Goto(s, "setNext", frame[s])
    /\ UNCHANGED <<prev, next, height, txBlock, savedTx, cachedTip, up, lastHash, delayed>>

\* Mutant: the arguments of setNext are swapped.
LinkPrevSwapped(s) ==
    /\ At(s, "setNext")
    /\ SetNext(frame[s].blk, NewPrev(frame[s]))
    /\ Return(s)
    /\ UNCHANGED <<prev, height, txBlock, tip, savedTx, cachedTip, up, lastHash, delayed>>

\* setNext(newPrev, b.hash), and the final callback.
LinkPrev(s) ==
    /\ At(s, "setNext")
    /\ SetNext(NewPrev(frame[s]), frame[s].blk)
    /\ Return(s)
    /\ UNCHANGED <<prev, height, txBlock, tip, savedTx, cachedTip, up, lastHash, delayed>>

-----------------------------------------------------------------------------
\* The process ends at any point, and is started again.
Restart ==
    /\ CanCrash
    /\ up' = TRUE
    /\ pc' = [s \in Syncs |-> "idle"]
    /\ frame' = [s \in Syncs |-> NoFrame]
    /\ lastHash' = [s \in Syncs |-> Null]
    /\ delayed' = [s \in Syncs |-> {}]
    /\ cachedTip' = NoTip
    /\ UNCHANGED dbVars

\* The steps of a call that has the lock.
Step(s) ==
    \/ HasPrev(s) \/ GetTip(s) \/ GetNext(s) \/ ReorgHeight(s)
    \/ BackPrev(s) \/ BackHeight(s) \/ Connect(s) \/ YNext(s) \/ SetYNext(s)
    \/ Orphan(s) \/ OrphanNext(s)
    \/ AddTxs(s) \/ AddBlock(s) \/ StoreTip(s) \/ LinkPrev(s)

Next ==
    \/ \E s \in Syncs, c \in Calls : Submit(s, c) \/ Retry(s, c)
    \/ \E s \in Syncs : Step(s)
    \/ Restart

Spec == Init /\ [][Next]_vars

\* LevelDB and bitcoind answer every request, with a result or an error.
FairSpec == Spec /\ \A s \in Syncs : WF_vars(Step(s))

-----------------------------------------------------------------------------
(* Properties of every interleaving, crash and RPC failure *)

\* A next pointer leads from a block to one of its children, so the walk of
\* _setBranchOrphan climbs one tree and ends.  (bne-null, which
\* processReorg writes when the backward walk falls off the tree, is no
\* block's pointer.)
NextIsChild ==
    \A h \in Hash \ {Null} : next[h] # Null => ParentOf[next[h]] = h

\* As long as every caller allows reorganisations, a stored block has its
\* depth as height or is off the main chain, and no other block has a
\* height: oldHeight + 1, height(newPrev) + 1 and heightIter of storeTipBlock,
\* processReorg and setBranchConnectedBackwards agree, even when another
\* object or a crash left the index half rearranged.
HeightIsDepth ==
    \A b \in Block : height[b] \in IF Has(b) THEN {-1, Depth[b]} ELSE {0}

\* What the durable tip names can be served: the block and all its ancestors
\* are stored, with their transactions, and its height is right.  The tip is
\* put after the block's batch, and that after the transactions' batch.
TipIsComplete ==
    tip # NoTip =>
        /\ tip.height = Depth[tip.hash]
        /\ \A b \in Branch[tip.hash] : Has(b) /\ TxOf[b] \ {GenesisTx} \subseteq savedTx

\* getBlockForTx never disagrees with getHeight, in the middle of a
\* reorganisation or after a crash: a transaction's entry names a block that
\* holds it and the height that block has now.  _changeBlockHeight and add
\* write both in one batch.
TxIndexAgrees ==
    \A t \in Tx : LET e == txBlock[t]
                  IN  e.blk # Null => t \in TxOf[e.blk] /\ e.ht = height[e.blk]

-----------------------------------------------------------------------------
(* Properties of an index at rest *)

AtRest == up /\ \A s \in Syncs : pc[s] = "idle"

BestBranch == IF tip.hash = Null THEN {} ELSE Branch[tip.hash]

\* When no call is running the main chain is the tip's branch, and the next
\* pointers lead along it (cases 0, 1 and 2 of storeTipBlock's comment).
MainChainAtRest ==
    AtRest => /\ Main = BestBranch
              /\ \A b \in Main \ {tip.hash} : next[b] \in Main

\* "ONLY FOR BEST BRANCH CHAIN" (BlockDb.js:10): when no call is running every
\* entry of the transaction index names a block of the tip's branch.
TxIndexOnlyBest ==
    AtRest => \A t \in Tx : txBlock[t].blk # Null => txBlock[t].blk \in BestBranch

\* ... and every transaction of a block of that branch has an entry.
TxIndexComplete ==
    AtRest => \A b \in BestBranch : \A t \in TxOf[b] : txBlock[t].blk # Null

\* The same of the transactions that only one block holds.
UnsharedTxIndexed ==
    AtRest => \A b \in BestBranch : \A t \in TxOf[b] :
                 (\A c \in Block \ {b} : t \notin TxOf[c]) => txBlock[t].blk = b

-----------------------------------------------------------------------------
(* Liveness *)

\* A call that has the lock gives it back, or ends the process: neither the
\* backward walk nor the orphaning walk can go on for ever.
StoreReturns == \A s \in Syncs : pc[s] # "idle" ~> (pc[s] = "idle" \/ ~up)
=============================================================================
