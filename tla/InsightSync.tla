---------------------------- MODULE InsightSync ----------------------------
(***************************************************************************)
(* The synchronisation of the running program: insight.js starts           *)
(* lib/HistoricSync.js and lib/PeerSync.js, and each has a Sync object of  *)
(* its own over the one BlockDb.                                           *)
(*                                                                         *)
(*  - bitcoind has a best block, answers RPC calls and announces a new     *)
(*    best block to PeerSync (a new best may be several blocks ahead, or   *)
(*    on another branch: blocks in between are then not announced);        *)
(*  - HistoricSync checks the stored tip against bitcoind, goes back to    *)
(*    the main chain, and then stores block after block, by RPC;           *)
(*  - PeerSync stores what is announced.  It passes allowReorgs = FALSE    *)
(*    until the first historic sync has called back, and starts another    *)
(*    one when a block's parent is missing.                                *)
(*                                                                         *)
(* The files of bitcoind (prepareFileSync) are not read here: it is the    *)
(* program without dataDir, or with forceRPC.                              *)
(***************************************************************************)
EXTENDS Sync

CONSTANTS
    Historic, Peer, \* the two Sync objects
    Drift,          \* how far the tip's height may be from bitcoind's (6)
    Calm,           \* do blocks and restarts come only while insight rests?
    MaxWire         \* announcements under way (a bound of the model)

ASSUME InsightConstants ==
    /\ Syncs = {Historic, Peer}
    /\ Historic # Peer
    /\ Modes = BOOLEAN
    /\ Drift \in Nat
    /\ Calm \in BOOLEAN
    /\ MaxWire \in Nat

VARIABLES
    best,           \* bitcoind's best block
    wire,           \* block messages that PeerSync has not handled
    allowReorgs,    \* peerSync.allowReorgs
    hist            \* the HistoricSync object

appVars == <<vars, best, wire, allowReorgs, hist>>

Statuses == {"starting", "syncing", "finished", "error"}

\* pc:     what the sync waits for; "off" when none is running
\* boot:   was it started by insight.js (or by handleBlock)?
\* count:  blockChainHeight;  height: the tip's height
\* cur:    tip of updateStartBlock, then currentRpcHash
\* old:    oldtip
\* seen:   what blockInfo says of tip: on bitcoind's main chain or not
Hists == [pc : {"off", "network", "count", "getTip", "tipInfo", "notMain", "getBlock", "store"},
          status : Statuses, boot : BOOLEAN, count : Nat, height : Heights,
          cur : Block \cup {Null}, old : Block \cup {Null},
          seen : {"unknown", "stale", "main"}]

Started(boot) == [pc |-> "network", status |-> "starting", boot |-> boot, count |-> 0,
                  height |-> 0, cur |-> Null, old |-> Null, seen |-> "unknown"]

\* Every variable has its type: the block that updateStartBlock takes off the
\* main chain and the one that storeTipBlock is given are never undefined.
InsightTypeOK ==
    /\ SyncTypeOK
    /\ best \in Block
    /\ wire \in Seq(Block)
    /\ allowReorgs \in BOOLEAN
    /\ hist \in Hists

InsightInit ==
    /\ Init
    /\ best \in Block
    /\ wire = <<>>
    /\ allowReorgs = FALSE
    /\ hist = Started(TRUE)

\* Nothing is under way in the program.
Rest ==
    /\ up
    /\ hist.pc = "off"
    /\ wire = <<>>
    /\ \A s \in Syncs : pc[s] = "idle" /\ delayed[s] = {}

-----------------------------------------------------------------------------
(* bitcoind *)

\* It finds a longer branch.
NewBest(b) ==
    /\ Depth[b] > Depth[best]
    /\ Calm => Rest \/ ~up
    /\ best' = b
    /\ IF up
       THEN Len(wire) < MaxWire /\ wire' = Append(wire, b)
       ELSE UNCHANGED wire
    /\ UNCHANGED <<vars, allowReorgs, hist>>

\* nextblockhash: only a block of the main chain has one.
NextBlockHash(b) ==
    IF \E c \in Branch[best] : ParentOf[c] = b
    THEN CHOOSE c \in Branch[best] : ParentOf[c] = b
    ELSE Null

-----------------------------------------------------------------------------
(* HistoricSync *)

HistAt(point) == up /\ hist.pc = point

\* The end of the loop of start(), whose callback insight.js waits for.
\* (setError of a block's error calls back, too.)
EndSync(status) ==
    /\ hist' = [Started(hist.boot) EXCEPT !.pc = "off", !.status = status]
    /\ allowReorgs' = (allowReorgs \/ hist.boot)

\* Mutant: start() forgets to look at status.
StartUnchecked(boot) == hist' = Started(boot)

\* start(): refused while another sync is running.
Start(boot) ==
    IF hist.status \in {"starting", "syncing"}
    THEN UNCHANGED hist
    ELSE hist' = Started(boot)

\* The steps after updateStartBlock: status is "syncing", b the first to get.
Begin(b) == hist' = [hist EXCEPT !.pc = "getBlock", !.status = "syncing",
                                 !.cur = b, !.old = Null, !.seen = "unknown"]

\* The tip that updateStartBlock got.
TipFound(count, t) ==
    IF t.hash = Null
    THEN hist' = [hist EXCEPT !.pc = "getBlock", !.status = "syncing",
                              !.count = count, !.cur = Genesis]
    ELSE hist' = [hist EXCEPT !.pc = "tipInfo", !.count = count,
                              !.cur = t.hash, !.height = t.height]

\* checkNetworkSettings.  An error ends in prepareToSync, which sets the status
\* and does not call back.
CheckNetwork ==
    /\ HistAt("network")
    /\ \/ hist' = [hist EXCEPT !.pc = "count"]
       \/ RpcFault /\ hist' = [hist EXCEPT !.pc = "off", !.status = "error"]
    /\ UNCHANGED <<vars, best, wire, allowReorgs>>

\* updateBlockChainHeight reads the result of a failed call and throws.
CountBlocks ==
    /\ HistAt("count")
    /\ \/ /\ IF cachedTip.hash # Null
             THEN TipFound(Depth[best], cachedTip)
             ELSE hist' = [hist EXCEPT !.pc = "getTip", !.count = Depth[best]]
          /\ UNCHANGED up
       \/ RpcFault /\ up' = FALSE /\ UNCHANGED hist
    /\ UNCHANGED <<dbVars, cachedTip, callVars, delayed, best, wire, allowReorgs>>

ReadTip ==
    /\ HistAt("getTip")
    /\ TipFound(hist.count, tip)
    /\ cachedTip' = IF tip.hash = Null THEN cachedTip ELSE tip
    /\ UNCHANGED <<dbVars, up, callVars, delayed, best, wire, allowReorgs>>

\* Mutant: the sync goes on from the tip, whatever bitcoind says of it.
TestTipTrusting(h) == Begin(h.cur) /\ UNCHANGED up

\* The test of updateStartBlock's loop, for the block h.cur.  The tip may be too
\* far from its own height (process.exit) or gone (throw).
TestTip(h) ==
    LET d == h.height - Depth[h.cur]
    IN  \/ /\ h.cur = Null \/ (h.seen # "unknown" /\ (d > Drift \/ d < -Drift))
           /\ up' = FALSE /\ hist' = h
        \/ /\ h.cur # Null /\ h.seen # "unknown" /\ d <= Drift /\ d >= -Drift
           /\ IF h.seen = "main" \/ h.count = Depth[h.cur]
              THEN Begin(h.cur)
              ELSE hist' = [h EXCEPT !.pc = "tipInfo", !.old = h.cur, !.cur = ParentOf[h.cur]]
           /\ UNCHANGED up
        \/ /\ h.cur # Null /\ h.seen = "unknown"
           /\ hist' = [h EXCEPT !.pc = "tipInfo", !.old = h.cur, !.cur = Null]
           /\ UNCHANGED up

\* fromHashWithInfo(tip); a failed call leaves blockInfo empty.
TipInfo ==
    /\ HistAt("tipInfo")
    /\ \E seen \in {"unknown", "stale", "main"} :
          /\ seen = "unknown" => RpcFault \/ hist.cur = Null
          /\ seen # "unknown" => hist.cur # Null /\ (seen = "main" <=> hist.cur \in Branch[best])
          /\ LET h == [hist EXCEPT !.seen = seen]
             IN  IF h.old = Null
                 THEN TestTip(h)
                 ELSE hist' = [h EXCEPT !.pc = "notMain"] /\ UNCHANGED up
    /\ UNCHANGED <<dbVars, cachedTip, callVars, delayed, best, wire, allowReorgs>>

\* setBlockNotMain(oldtip), which throws when it cannot get the block.
TipNotMain ==
    /\ HistAt("notMain")
    /\ \/ SetBlockNotMain(hist.old) /\ TestTip(hist)
       \/ RpcFault /\ up' = FALSE /\ UNCHANGED <<height, txBlock, hist>>
    /\ UNCHANGED <<prev, next, tip, savedTx, cachedTip, callVars, delayed,
                   best, wire, allowReorgs>>

\* getBlockFromRPC, and the call of storeTipBlock or the end of the loop.
GetBlock ==
    /\ HistAt("getBlock")
    /\ \/ /\ hist.cur = Null
          /\ EndSync("finished")
          /\ UNCHANGED vars
       \/ /\ hist.cur # Null
          /\ Call(Historic, [blk |-> hist.cur, allow |-> TRUE])
          /\ hist' = [hist EXCEPT !.pc = "store", !.cur = NextBlockHash(hist.cur)]
          /\ UNCHANGED allowReorgs
       \/ /\ hist.cur # Null /\ RpcFault
          /\ EndSync("error")
          /\ UNCHANGED vars
    /\ UNCHANGED <<best, wire>>

-----------------------------------------------------------------------------
(* storeTipBlock calls back *)

Returned(s) == pc[s] # "idle" /\ pc'[s] = "idle"

\* The point that storeTipBlock left tells its result: NEED_SYNC from "has", an
\* RPC error from "addTxs", success from "setNext".
HistoricStep ==
    /\ Step(Historic)
    /\ IF Returned(Historic)
       THEN IF pc[Historic] = "setNext"
            THEN hist' = [hist EXCEPT !.pc = "getBlock"] /\ UNCHANGED allowReorgs
            ELSE EndSync("error")
       ELSE UNCHANGED <<hist, allowReorgs>>
    /\ UNCHANGED <<best, wire>>

\* Mutant: handleBlock only logs the error.
PeerStepNoSync == Step(Peer) /\ UNCHANGED <<best, wire, allowReorgs, hist>>

\* handleBlock's callback.
PeerStep ==
    /\ Step(Peer)
    /\ IF Returned(Peer) /\ pc[Peer] = "has"
       THEN Start(FALSE)
       ELSE UNCHANGED hist
    /\ UNCHANGED <<best, wire, allowReorgs>>

-----------------------------------------------------------------------------
(* PeerSync *)

\* handleBlock: the block is passed with the value that allowReorgs has now.
HandleBlock ==
    /\ wire # <<>>
    /\ Call(Peer, [blk |-> Head(wire), allow |-> allowReorgs])
    /\ wire' = Tail(wire)
    /\ UNCHANGED <<best, allowReorgs, hist>>

\* A delayed storeTipBlock tries again.
RetryBlock(s, c) ==
    /\ Retry(s, c)
    /\ UNCHANGED <<best, wire, allowReorgs, hist>>

-----------------------------------------------------------------------------

\* The process ends and is started again; bitcoind goes on in between.
RestartInsight ==
    /\ Restart
    /\ Calm => Rest \/ ~up
    /\ best' \in {b \in Block : b = best \/ Depth[b] > Depth[best]}
    /\ wire' = <<>>
    /\ allowReorgs' = FALSE
    /\ hist' = Started(TRUE)

HistoricOwn ==
    CheckNetwork \/ CountBlocks \/ ReadTip \/ TipInfo \/ TipNotMain \/ GetBlock \/ HistoricStep

PeerOwn == HandleBlock \/ PeerStep \/ \E s \in Syncs, c \in Calls : RetryBlock(s, c)

InsightNext ==
    \/ \E b \in Block : NewBest(b)
    \/ HistoricOwn
    \/ PeerOwn
    \/ RestartInsight

InsightSpec == InsightInit /\ [][InsightNext]_appVars

\* bitcoind and LevelDB answer, and node runs every callback and timer in turn.
FairInsightSpec == InsightSpec /\ WF_appVars(HistoricOwn) /\ WF_appVars(PeerOwn)

-----------------------------------------------------------------------------
(* Properties *)

\* At most one historic sync is running: HistoricSync never calls
\* storeTipBlock while its Sync object is storing a block, although the sync
\* may be started by insight.js and by every block without a parent.
HistoricIsAlone ==
    /\ delayed[Historic] = {}
    /\ up => (hist.pc = "store" <=> pc[Historic] # "idle")

\* When the program rests after a sync, its tip is bitcoind's best block and its
\* main chain that block's branch.
CaughtUp ==
    Rest /\ hist.status = "finished" => tip.hash = best /\ Main = Branch[best]

\* bitcoind's best block becomes the tip, unless another best block comes
\* first or the process ends.
Follows == \A b \in Block : best = b ~> (tip.hash = b \/ best # b \/ ~up)

\* A sync ends, or the process does, unless it is restarted again and again.
SyncEnds ==
    <>[][~RestartInsight]_appVars => (hist.pc # "off" ~> (hist.pc = "off" \/ ~up))

\* "the sync process can be safely interrupted": a program that was restarted
\* and has finished its sync shows the tip's branch as the main chain.
SafelyInterrupted == Rest /\ hist.status = "finished" => Main = BestBranch

\* A sync ends with a status, never with an exception.
NoException == up
=============================================================================
