--------------------------- MODULE InsightProofs ---------------------------
(***************************************************************************)
(* Theorems about the whole program, InsightSync and FileSync, for every   *)
(* block tree: the two synchronisers, new blocks at bitcoind, RPC          *)
(* failures, kills.  What SyncProofs shows of a step of Sync is used as it *)
(* stands; here it is shown that only one historic sync runs, and that its *)
(* walk back from a stale tip stays in the tree.                           *)
(*                                                                         *)
(* The second part is about the syncs that read bitcoind's files, however  *)
(* many and however long: what lies on the disk before the place where the *)
(* reader starts is stored, and so is what lies before the tip.            *)
(***************************************************************************)
EXTENDS FileSync, SyncRestProofs

-----------------------------------------------------------------------------
(* The inductive invariant *)

AppTypeOK ==
    /\ best \in Block
    /\ wire \in Seq(Block)
    /\ allowReorgs \in BOOLEAN
    /\ hist \in Hists

\* start() looks at the status to see that a sync is running.
RunningIsShown == hist.pc # "off" => hist.status \in {"starting", "syncing"}

\* The block that is about to leave the main chain is one, and Genesis has not
\* been found to be stale.
WalkOK ==
    hist.pc = "notMain" => /\ hist.old \in Block
                           /\ hist.cur = Genesis => hist.seen # "stale"

\* The part that speaks of HistoricSync.
HistOK == AppTypeOK /\ RunningIsShown /\ WalkOK

AppInv == Inv /\ HistOK /\ HistoricIsAlone

LEMMA NextBlockHashType ==
    ASSUME best \in Block, NEW b \in Block
    PROVE  NextBlockHash(b) \in Block \cup {Null}
  BY Branches DEF NextBlockHash

-----------------------------------------------------------------------------
(* The lock of a Sync object *)

\* With the lock taken a step of Enter never returns at once.
LEMMA EnterTakesLock ==
    ASSUME SyncTypeOK, NEW s \in Syncs, NEW c \in Calls, Enter(s, c)
    PROVE  /\ pc'[s] # "idle"
           /\ \A r \in Syncs \ {s} : pc'[r] = pc[r]
<1>1. ASSUME NEW p, NEW f, Goto(s, p, f), p # "idle"
      PROVE  pc'[s] # "idle" /\ \A r \in Syncs \ {s} : pc'[r] = pc[r]
  BY <1>1 DEF Goto, SyncTypeOK
<1>2. ASSUME NEW f, StartAdd(s, f)
      PROVE  pc'[s] # "idle" /\ \A r \in Syncs \ {s} : pc'[r] = pc[r]
  BY <1>1, <1>2 DEF StartAdd
<1>3. ASSUME NEW f, CallGetTip(s, f)
      PROVE  pc'[s] # "idle" /\ \A r \in Syncs \ {s} : pc'[r] = pc[r]
  BY <1>1, <1>2, <1>3 DEF CallGetTip, TipRead
<1>. QED BY <1>1, <1>2, <1>3 DEF Enter

\* A call leaves the other object's lock and waiting calls alone.
LEMMA CallLocks ==
    ASSUME Inv, NEW s \in Syncs, NEW c \in Calls, Call(s, c) \/ Retry(s, c)
    PROVE  /\ \A r \in Syncs \ {s} : pc'[r] = pc[r] /\ delayed'[r] = delayed[r]
           /\ Call(s, c) /\ pc[s] = "idle" => pc'[s] # "idle" /\ UNCHANGED delayed
           /\ UNCHANGED up
<1>1. CASE Enter(s, c)
  BY <1>1, EnterTakesLock DEF Call, Retry, Inv, SyncTypeOK
<1>2. CASE Call(s, c) /\ pc[s] # "idle"
  BY <1>2 DEF Call, callVars, Inv, SyncTypeOK
<1>. QED BY <1>1, <1>2 DEF Call, Retry

\* A step of a call leaves the other object's lock alone; it begins with the
\* lock taken, in a process that is up.
LEMMA StepLocks ==
    ASSUME Inv, NEW s \in Syncs, Step(s)
    PROVE  /\ up /\ pc[s] # "idle"
           /\ \A r \in Syncs \ {s} : pc'[r] = pc[r]
<1>1. up /\ pc[s] # "idle"
  BY DEF Step, At, HasPrev, GetTip, GetNext, ReorgHeight, BackPrev, BackHeight, Connect,
         YNext, SetYNext, Orphan, OrphanNext, AddTxs, AddBlock, StoreTip, LinkPrev
<1>2. ASSUME NEW p, NEW f, Goto(s, p, f)
      PROVE  \A r \in Syncs \ {s} : pc'[r] = pc[r]
  BY <1>2 DEF Goto, Inv, SyncTypeOK
<1>3. (\E p, f : Goto(s, p, f)) \/ UNCHANGED pc
  <2>1. ASSUME NEW f, StartAdd(s, f) \/ CallGetTip(s, f) \/ (\E t : TipRead(s, f, t))
        PROVE  \E p, g : Goto(s, p, g)
    BY <2>1 DEF StartAdd, CallGetTip, TipRead
  <2>2. CASE \/ HasPrev(s) \/ GetTip(s) \/ GetNext(s) \/ YNext(s) \/ SetYNext(s)
             \/ OrphanNext(s)
    BY <2>1, <2>2 DEF HasPrev, GetTip, GetNext, YNext, SetYNext, OrphanNext, Return
  <2>3. CASE \/ ReorgHeight(s) \/ BackPrev(s) \/ BackHeight(s) \/ Connect(s) \/ Orphan(s)
    BY <2>3 DEF ReorgHeight, BackPrev, BackHeight, Connect, Orphan, StartBack, Throw
  <2>4. CASE AddTxs(s) \/ AddBlock(s) \/ StoreTip(s) \/ LinkPrev(s)
    BY <2>4 DEF AddTxs, AddBlock, StoreTip, LinkPrev, Return
  <2>. QED BY <2>2, <2>3, <2>4 DEF Step
<1>. QED BY <1>1, <1>2, <1>3

-----------------------------------------------------------------------------
(* Steps of bitcoind, of a restart, and of Sync *)

\* Nothing but hist and up may change besides what Inv does not mention.
LEMMA OutsideSync ==
    ASSUME Inv, UNCHANGED <<dbVars, cachedTip, callVars, delayed>>, up' \in BOOLEAN
    PROVE  Inv'
<1>1. DbOK'
  BY DbUnchanged DEF dbVars, Inv, SyncTypeOK, DbOK, BlockDbTypeOK
<1>. QED BY <1>1 DEF callVars, DbOK, Inv, SyncTypeOK, Shape

LEMMA StepInv ==
    ASSUME Inv, NEW s \in Syncs, Step(s)
    PROVE  Inv'
<1>1. up' \in BOOLEAN /\ UNCHANGED delayed
  BY StepFlags
<1>2. CallsOK' /\ DbOK'
  BY StepCalls, StepDb
<1>. QED BY <1>1, <1>2 DEF DbOK, CallsOK, Inv, SyncTypeOK

LEMMA StartedIsHist ==
    ASSUME NEW b \in BOOLEAN
    PROVE  /\ Started(b) \in Hists
           /\ Started(b).pc = "network" /\ Started(b).status = "starting"
  BY DEF Started, Hists, Statuses, Heights

LEMMA StartOK ==
    ASSUME HistOK, Start(FALSE), UNCHANGED <<best, allowReorgs>>, wire' \in Seq(Block)
    PROVE  /\ HistOK'
           /\ hist' = hist \/ (hist.pc = "off" /\ hist'.pc = "network")
<1>1. CASE UNCHANGED hist
  BY <1>1 DEF HistOK, AppTypeOK, RunningIsShown, WalkOK
<1>2. CASE hist' = Started(FALSE) /\ hist.status \notin {"starting", "syncing"}
  BY <1>2, StartedIsHist DEF HistOK, AppTypeOK, RunningIsShown, WalkOK
<1>. QED BY <1>1, <1>2 DEF Start

LEMMA EndSyncOK ==
    ASSUME HistOK, NEW status \in Statuses, EndSync(status), UNCHANGED <<best, wire>>
    PROVE  HistOK' /\ hist'.pc = "off"
<1>1. hist.boot \in BOOLEAN
  BY DEF HistOK, AppTypeOK, Hists
<1>2. hist' \in Hists /\ hist'.pc = "off"
  BY <1>1, StartedIsHist DEF EndSync, Hists
<1>3. allowReorgs' \in BOOLEAN
  BY <1>1 DEF EndSync, HistOK, AppTypeOK
<1>. QED BY <1>2, <1>3 DEF HistOK, AppTypeOK, RunningIsShown, WalkOK

LEMMA TheSyncs == Historic \in Syncs /\ Peer \in Syncs /\ Historic # Peer /\ Calls = [blk : Block, allow : BOOLEAN]
  BY InsightConstants DEF Calls

LEMMA BitcoindInv ==
    ASSUME AppInv, NEW b \in Block, NewBest(b)
    PROVE  AppInv'
<1>1. Inv'
  BY OutsideSync DEF AppInv, NewBest, vars, callVars, dbVars, Inv, SyncTypeOK
<1>2. wire' \in Seq(Block)
  BY DEF NewBest, AppInv, HistOK, AppTypeOK
<1>3. HistOK' /\ HistoricIsAlone'
  BY <1>2 DEF AppInv, NewBest, vars, HistOK, AppTypeOK, RunningIsShown, WalkOK, HistoricIsAlone
<1>. QED BY <1>1, <1>3 DEF AppInv

LEMMA RestartInv ==
    ASSUME AppInv, RestartInsight
    PROVE  AppInv'
<1>1. Inv'
  BY NextInv DEF AppInv, RestartInsight, Next
<1>2. HistOK'
  <2>1. best' \in Block /\ wire' = <<>> /\ allowReorgs' = FALSE /\ hist' = Started(TRUE)
    BY DEF RestartInsight
  <2>2. hist' \in Hists /\ hist'.pc = "network" /\ hist'.status = "starting"
    BY <2>1, StartedIsHist
  <2>3. AppTypeOK'
    BY <2>1, <2>2, EmptySeq DEF AppTypeOK
  <2>. QED BY <2>2, <2>3 DEF HistOK, RunningIsShown, WalkOK
<1>3. HistoricIsAlone'
  BY StartedIsHist, TheSyncs DEF RestartInsight, Restart, HistoricIsAlone
<1>. QED BY <1>1, <1>2, <1>3 DEF AppInv

\* The state of a sync that goes on while its Sync object stores a block.
LEMMA HistoricStepInv ==
    ASSUME AppInv, HistoricStep
    PROVE  AppInv'
<1>1. Inv' /\ UNCHANGED delayed
  BY StepInv, StepFlags, TheSyncs DEF AppInv, HistoricStep
<1>2. hist.pc = "store"
  BY StepLocks, TheSyncs DEF AppInv, HistoricStep, HistoricIsAlone
<1>3. CASE Returned(Historic) /\ pc[Historic] = "setNext"
  <2>1. hist' = [hist EXCEPT !.pc = "getBlock"] /\ UNCHANGED <<best, wire, allowReorgs>>
    BY <1>3 DEF HistoricStep
  <2>2. hist' \in Hists /\ hist'.pc = "getBlock" /\ hist'.status = hist.status
    BY <2>1 DEF AppInv, HistOK, AppTypeOK, Hists
  <2>3. HistOK'
    BY <1>2, <2>1, <2>2 DEF AppInv, HistOK, AppTypeOK, RunningIsShown, WalkOK
  <2>4. HistoricIsAlone'
    BY <1>1, <1>3, <2>2 DEF AppInv, HistoricIsAlone, Returned
  <2>. QED BY <1>1, <2>3, <2>4 DEF AppInv
<1>4. CASE Returned(Historic) /\ pc[Historic] # "setNext"
  <2>1. EndSync("error") /\ UNCHANGED <<best, wire>>
    BY <1>4 DEF HistoricStep
  <2>2. HistOK' /\ hist'.pc = "off"
    BY <2>1, EndSyncOK DEF AppInv, Statuses
  <2>3. HistoricIsAlone'
    BY <1>1, <1>4, <2>2 DEF AppInv, HistoricIsAlone, Returned
  <2>. QED BY <1>1, <2>2, <2>3 DEF AppInv
<1>5. CASE ~Returned(Historic)
  <2>1. UNCHANGED <<hist, best, wire, allowReorgs>>
    BY <1>5 DEF HistoricStep
  <2>2. pc'[Historic] # "idle"
    BY <1>5, StepLocks, TheSyncs DEF Returned, AppInv, HistoricStep
  <2>3. HistOK' /\ HistoricIsAlone'
    BY <1>1, <1>2, <2>1, <2>2
       DEF AppInv, HistOK, AppTypeOK, RunningIsShown, WalkOK, HistoricIsAlone
  <2>. QED BY <1>1, <2>3 DEF AppInv
<1>. QED BY <1>3, <1>4, <1>5

LEMMA PeerStepInv ==
    ASSUME AppInv, PeerStep
    PROVE  AppInv'
<1>1. Inv' /\ UNCHANGED delayed
  BY StepInv, StepFlags, TheSyncs DEF AppInv, PeerStep
<1>2. up /\ pc'[Historic] = pc[Historic]
  BY StepLocks, TheSyncs DEF AppInv, PeerStep
<1>3. HistOK' /\ (hist' = hist \/ (hist.pc = "off" /\ hist'.pc = "network"))
  <2>1. CASE Start(FALSE)
    BY <2>1, StartOK DEF AppInv, PeerStep, HistOK, AppTypeOK
  <2>2. CASE UNCHANGED hist
    BY <2>2 DEF AppInv, PeerStep, HistOK, AppTypeOK, RunningIsShown, WalkOK
  <2>. QED BY <2>1, <2>2 DEF PeerStep
<1>4. HistoricIsAlone'
  BY <1>1, <1>2, <1>3 DEF AppInv, HistoricIsAlone
<1>. QED BY <1>1, <1>3, <1>4 DEF AppInv

\* Blocks for the Sync object of PeerSync: announced ones, and those that waited.
LEMMA PeerCallInv ==
    ASSUME AppInv, HandleBlock \/ (\E s \in Syncs, c \in Calls : RetryBlock(s, c))
    PROVE  AppInv'
<1>1. PICK c \in Calls : Call(Peer, c) \/ Retry(Peer, c)
  <2>1. CASE HandleBlock
    <3>1. Head(wire) \in Block /\ allowReorgs \in BOOLEAN
      BY <2>1 DEF HandleBlock, AppInv, HistOK, AppTypeOK
    <3>. QED BY <2>1, <3>1, TheSyncs DEF HandleBlock
  <2>2. CASE \E s \in Syncs, c \in Calls : RetryBlock(s, c)
    BY <2>2, InsightConstants DEF RetryBlock, Retry, AppInv, HistoricIsAlone
  <2>. QED BY <2>1, <2>2
<1>2. Inv'
  BY <1>1, CallStep, TheSyncs DEF AppInv
<1>3. /\ pc'[Historic] = pc[Historic]
      /\ delayed'[Historic] = delayed[Historic]
      /\ UNCHANGED up
  BY <1>1, CallLocks, TheSyncs DEF AppInv
<1>4. wire' \in Seq(Block) /\ UNCHANGED <<best, allowReorgs, hist>>
  BY DEF HandleBlock, RetryBlock, AppInv, HistOK, AppTypeOK
<1>. QED BY <1>2, <1>3, <1>4
         DEF AppInv, HistOK, AppTypeOK, RunningIsShown, WalkOK, HistoricIsAlone

-----------------------------------------------------------------------------
(* Steps of HistoricSync *)

\* A step of HistoricSync that calls no storeTipBlock: it goes to another point
\* before "store", or ends the process.
LEMMA HistMoves ==
    ASSUME AppInv, Inv', HistOK', hist.pc # "store", up,
           UNCHANGED <<pc, delayed>>, hist'.pc # "store" \/ ~up'
    PROVE  AppInv'
  BY DEF AppInv, HistoricIsAlone

\* Where the sync may go, with b the block to get first.
LEMMA BeginOK ==
    ASSUME NEW h \in Hists, NEW b \in Block,
           hist' = [h EXCEPT !.pc = "getBlock", !.status = "syncing",
                             !.cur = b, !.old = Null, !.seen = "unknown"]
    PROVE  hist' \in Hists /\ hist'.pc = "getBlock" /\ hist'.status = "syncing"
  BY DEF Hists, Statuses

LEMMA TipFoundOK ==
    ASSUME HistOK, hist.pc # "off", NEW n \in Nat, NEW t \in TipVal, TipFound(n, t),
           UNCHANGED <<best, wire, allowReorgs>>
    PROVE  HistOK' /\ hist'.pc \in {"getBlock", "tipInfo"}
<1>1. CASE t.hash = Null
  <2>1. hist' = [hist EXCEPT !.pc = "getBlock", !.status = "syncing",
                             !.count = n, !.cur = Genesis]
    BY <1>1 DEF TipFound
  <2>2. hist' \in Hists /\ hist'.pc = "getBlock" /\ hist'.status = "syncing"
    BY <2>1, Names DEF HistOK, AppTypeOK, Hists, Statuses
  <2>. QED BY <2>2 DEF HistOK, AppTypeOK, RunningIsShown, WalkOK
<1>2. CASE t.hash # Null
  <2>1. hist' = [hist EXCEPT !.pc = "tipInfo", !.count = n,
                             !.cur = t.hash, !.height = t.height]
    BY <1>2 DEF TipFound
  <2>2. t.hash \in Block /\ t.height \in Heights
    BY <1>2 DEF TipVal, NoTip
  <2>3. hist' \in Hists /\ hist'.pc = "tipInfo" /\ hist'.status = hist.status
    BY <2>1, <2>2 DEF HistOK, AppTypeOK, Hists
  <2>. QED BY <2>3 DEF HistOK, AppTypeOK, RunningIsShown, WalkOK
<1>. QED BY <1>1, <1>2

\* The walk back never steps below Genesis.
LEMMA TestTipOK ==
    ASSUME HistOK, hist.pc # "off", NEW h \in Hists, h.pc = hist.pc, h.status = hist.status,
           hist.pc \in {"tipInfo", "notMain"},
           h.cur = Genesis => h.seen # "stale",
           TestTip(h), up, UNCHANGED <<best, wire, allowReorgs>>,
           hist.pc = "notMain" => h.old \in Block
    PROVE  HistOK' /\ up' \in BOOLEAN /\ hist'.pc # "store"
<1>1. h.status \in {"starting", "syncing"}
  BY DEF HistOK, RunningIsShown
<1>2. UNCHANGED <<best, wire, allowReorgs>> /\ AppTypeOK
  BY DEF HistOK
<1>3. CASE up' = FALSE /\ hist' = h
  BY <1>1, <1>2, <1>3 DEF HistOK, AppTypeOK, RunningIsShown, WalkOK
<1>4. CASE Begin(h.cur) /\ h.cur # Null /\ UNCHANGED up
  <2>1. h.cur \in Block
    BY <1>4 DEF Hists
  <2>2. hist' \in Hists /\ hist'.pc = "getBlock" /\ hist'.status = "syncing"
    BY <1>2, <1>4, <2>1, BeginOK DEF Begin, AppTypeOK
  <2>. QED BY <1>2, <1>4, <2>2 DEF HistOK, AppTypeOK, RunningIsShown, WalkOK
<1>5. ASSUME NEW c \in Block \cup {Null},
             hist' = [h EXCEPT !.pc = "tipInfo", !.old = h.cur, !.cur = c], UNCHANGED up
      PROVE  HistOK' /\ up' \in BOOLEAN /\ hist'.pc # "store"
  <2>1. hist' \in Hists /\ hist'.pc = "tipInfo" /\ hist'.status = h.status
    BY <1>5 DEF Hists
  <2>. QED BY <1>1, <1>2, <1>5, <2>1 DEF HistOK, AppTypeOK, RunningIsShown, WalkOK
<1>6. CASE /\ h.cur # Null /\ h.seen \notin {"unknown", "main"}
           /\ hist' = [h EXCEPT !.pc = "tipInfo", !.old = h.cur, !.cur = ParentOf[h.cur]]
           /\ UNCHANGED up
  <2>1. h.cur \in Block \ {Genesis}
    BY <1>6 DEF Hists
  <2>2. ParentOf[h.cur] \in Block
    BY <2>1, BlockTree
  <2>. QED BY <1>5, <1>6, <2>2
<1>7. CASE /\ hist' = [h EXCEPT !.pc = "tipInfo", !.old = h.cur, !.cur = Null]
           /\ UNCHANGED up
  BY <1>5, <1>7
<1>. QED BY <1>3, <1>4, <1>6, <1>7 DEF TestTip

LEMMA CheckNetworkInv ==
    ASSUME AppInv, CheckNetwork
    PROVE  AppInv'
<1>1. up /\ hist.pc = "network" /\ UNCHANGED <<vars, best, wire, allowReorgs>>
  BY DEF CheckNetwork, HistAt
<1>2. Inv'
  BY <1>1, OutsideSync DEF AppInv, vars, dbVars, callVars, Inv, SyncTypeOK
<1>3. /\ hist' \in Hists
      /\ \/ hist'.pc = "count" /\ hist'.status = hist.status
         \/ hist'.pc = "off"
  BY DEF CheckNetwork, AppInv, HistOK, AppTypeOK, Hists, Statuses
<1>4. HistOK'
  BY <1>1, <1>3 DEF AppInv, HistOK, AppTypeOK, RunningIsShown, WalkOK
<1>. QED BY <1>1, <1>2, <1>3, <1>4, HistMoves DEF vars

\* The two steps that get the tip, from memory or from the database.
LEMMA TipReadInv ==
    ASSUME AppInv, CountBlocks \/ ReadTip
    PROVE  AppInv'
<1>1. /\ up /\ hist.pc \in {"count", "getTip"}
      /\ UNCHANGED <<dbVars, callVars, delayed, best, wire, allowReorgs>>
      /\ up' \in BOOLEAN
  BY DEF CountBlocks, ReadTip, HistAt, AppInv, Inv, SyncTypeOK
<1>2. Depth[best] \in Nat /\ hist.count \in Nat /\ tip \in TipVal /\ cachedTip \in TipVal
  BY BlockTree DEF AppInv, HistOK, AppTypeOK, Hists, Inv, SyncTypeOK, BlockDbTypeOK
<1>3. cachedTip' \in TipVal
  BY <1>2 DEF CountBlocks, ReadTip
<1>4. Inv'
  <2>1. DbOK'
    BY <1>1, <1>2, <1>3, DbUnchanged
       DEF dbVars, AppInv, Inv, SyncTypeOK, DbOK, BlockDbTypeOK
  <2>. QED BY <1>1, <2>1 DEF callVars, DbOK, AppInv, Inv, SyncTypeOK, Shape
<1>5. HistOK' /\ (hist'.pc # "store" \/ ~up')
  <2>1. CASE \E n \in Nat, t \in TipVal : TipFound(n, t)
    BY <1>1, <2>1, TipFoundOK DEF AppInv
  <2>2. CASE hist' = [hist EXCEPT !.pc = "getTip", !.count = Depth[best]]
    <3>1. hist' \in Hists /\ hist'.pc = "getTip" /\ hist'.status = hist.status
      BY <1>2, <2>2 DEF AppInv, HistOK, AppTypeOK, Hists
    <3>. QED BY <1>1, <3>1 DEF AppInv, HistOK, AppTypeOK, RunningIsShown, WalkOK
  <2>3. CASE UNCHANGED hist
    BY <1>1, <2>3 DEF AppInv, HistOK, AppTypeOK, RunningIsShown, WalkOK
  <2>. QED BY <1>2, <2>1, <2>2, <2>3 DEF CountBlocks, ReadTip
<1>. QED BY <1>1, <1>4, <1>5, HistMoves DEF callVars

LEMMA TipInfoInv ==
    ASSUME AppInv, TipInfo
    PROVE  AppInv'
<1>1. /\ up /\ hist.pc = "tipInfo" /\ HistOK
      /\ UNCHANGED <<dbVars, cachedTip, callVars, delayed, best, wire, allowReorgs>>
  BY DEF TipInfo, HistAt, AppInv
<1>2. PICK seen \in {"unknown", "stale", "main"} :
        /\ seen # "unknown" => hist.cur # Null /\ (seen = "main" <=> hist.cur \in Branch[best])
        /\ LET h == [hist EXCEPT !.seen = seen]
           IN  IF h.old = Null
               THEN TestTip(h)
               ELSE hist' = [h EXCEPT !.pc = "notMain"] /\ UNCHANGED up
  BY DEF TipInfo
<1>. DEFINE h == [hist EXCEPT !.seen = seen]
<1>3. /\ h \in Hists /\ h.pc = hist.pc /\ h.status = hist.status
      /\ h.cur = hist.cur /\ h.old = hist.old /\ h.seen = seen
  BY <1>1 DEF HistOK, AppTypeOK, Hists
<1>4. h.cur = Genesis => h.seen # "stale"
  BY <1>1, <1>2, <1>3, GenesisBelow DEF HistOK, AppTypeOK
<1>5. HistOK' /\ up' \in BOOLEAN /\ hist'.pc # "store"
  <2>1. CASE h.old = Null /\ TestTip(h)
    <3>. HIDE DEF h
    <3>. QED BY <1>1, <1>3, <1>4, <2>1, TestTipOK
  <2>2. CASE h.old # Null /\ hist' = [h EXCEPT !.pc = "notMain"] /\ UNCHANGED up
    <3>. HIDE DEF h
    <3>1. /\ hist' \in Hists /\ hist'.pc = "notMain" /\ hist'.status = hist.status
          /\ hist'.cur = h.cur /\ hist'.seen = h.seen /\ hist'.old \in Block
      BY <1>3, <2>2 DEF Hists
    <3>. QED BY <1>1, <1>4, <2>2, <3>1 DEF HistOK, AppTypeOK, RunningIsShown, WalkOK
  <2>. QED BY <1>2, <2>1, <2>2
<1>6. Inv'
  BY <1>1, <1>5, OutsideSync DEF AppInv
<1>. QED BY <1>1, <1>5, <1>6, HistMoves DEF callVars

\* Only a block leaves the main chain.
LEMMA TipNotMainInv ==
    ASSUME AppInv, TipNotMain
    PROVE  AppInv'
<1>1. /\ up /\ hist.pc = "notMain" /\ HistOK /\ Inv
      /\ UNCHANGED <<prev, next, tip, savedTx, cachedTip, callVars, delayed>>
      /\ UNCHANGED <<best, wire, allowReorgs>>
  BY DEF TipNotMain, HistAt, AppInv
<1>2. hist.old \in Block /\ (hist.cur = Genesis => hist.seen # "stale")
  BY <1>1 DEF HistOK, WalkOK
<1>3. CASE SetBlockNotMain(hist.old) /\ TestTip(hist)
  <2>1. HistOK' /\ up' \in BOOLEAN /\ hist'.pc # "store"
    BY <1>1, <1>2, <1>3, TestTipOK DEF HistOK, AppTypeOK
  <2>2. /\ height' \in [Hash -> Heights]
        /\ txBlock' \in [Tx -> TxEntry]
        /\ TxOwned'
    <3>1. -1 \in Heights /\ NoBlock \in {[blk |-> hist.old, ht |-> -1], NoBlock}
      BY DEF Heights
    <3>. QED BY <1>1, <1>2, <1>3, <3>1, BatchOK DEF SetBlockNotMain, Inv, SyncTypeOK
  <2>3. Inv'
    BY <1>1, <2>1, <2>2
       DEF callVars, Inv, SyncTypeOK, BlockDbTypeOK, Shape, PrevIsParent, NextIsChild
  <2>. QED BY <1>1, <2>1, <2>3, HistMoves DEF callVars
<1>4. CASE up' = FALSE /\ UNCHANGED <<height, txBlock, hist>>
  <2>1. Inv'
    BY <1>1, <1>4, OutsideSync DEF dbVars
  <2>2. HistOK'
    BY <1>1, <1>4 DEF HistOK, AppTypeOK, RunningIsShown, WalkOK
  <2>. QED BY <1>1, <1>4, <2>1, <2>2, HistMoves DEF callVars
<1>. QED BY <1>3, <1>4 DEF TipNotMain

\* The lock is free when the sync calls storeTipBlock, so the call takes it.
LEMMA StoreCallInv ==
    ASSUME AppInv, up, hist.pc = "getBlock", NEW b \in Block, NEW n \in Block \cup {Null},
           Call(Historic, [blk |-> b, allow |-> TRUE]),
           hist' = [hist EXCEPT !.pc = "store", !.cur = n],
           UNCHANGED <<best, wire, allowReorgs>>
    PROVE  AppInv' /\ pc[Historic] = "idle" /\ hist'.pc = "store"
<1>. DEFINE c == [blk |-> b, allow |-> TRUE]
<1>1. HistOK /\ Inv /\ c \in Calls /\ pc[Historic] = "idle"
  BY TheSyncs DEF AppInv, HistoricIsAlone
<1>. HIDE DEF c
<1>2. Call(Historic, c)
  BY DEF c
<1>3. Inv' /\ pc'[Historic] # "idle" /\ UNCHANGED <<up, delayed>>
  BY <1>1, <1>2, CallStep, CallLocks, TheSyncs
<1>4. hist' \in Hists /\ hist'.pc = "store" /\ hist'.status = hist.status
  BY <1>1 DEF HistOK, AppTypeOK, Hists
<1>5. HistOK'
  BY <1>1, <1>4 DEF HistOK, AppTypeOK, RunningIsShown, WalkOK
<1>6. HistoricIsAlone'
  BY <1>3, <1>4 DEF AppInv, HistoricIsAlone
<1>. QED BY <1>1, <1>3, <1>4, <1>5, <1>6 DEF AppInv

LEMMA EndSyncInv ==
    ASSUME AppInv, up, hist.pc = "getBlock", NEW status \in Statuses, EndSync(status),
           UNCHANGED <<vars, best, wire>>
    PROVE  AppInv' /\ hist'.pc = "off"
<1>1. HistOK' /\ hist'.pc = "off"
  BY EndSyncOK DEF AppInv
<1>2. Inv'
  BY OutsideSync DEF AppInv, vars, dbVars, callVars, Inv, SyncTypeOK
<1>. QED BY <1>1, <1>2, HistMoves DEF vars

LEMMA GetBlockInv ==
    ASSUME AppInv, GetBlock
    PROVE  AppInv'
<1>1. up /\ hist.pc = "getBlock" /\ HistOK /\ UNCHANGED <<best, wire>>
  BY DEF GetBlock, HistAt, AppInv
<1>2. CASE /\ hist.cur # Null
           /\ Call(Historic, [blk |-> hist.cur, allow |-> TRUE])
           /\ hist' = [hist EXCEPT !.pc = "store", !.cur = NextBlockHash(hist.cur)]
           /\ UNCHANGED allowReorgs
  <2>1. hist.cur \in Block /\ NextBlockHash(hist.cur) \in Block \cup {Null}
    BY <1>1, <1>2, NextBlockHashType DEF HistOK, AppTypeOK, Hists
  <2>. QED BY <1>1, <1>2, <2>1, StoreCallInv
<1>3. CASE (EndSync("finished") \/ EndSync("error")) /\ UNCHANGED vars
  BY <1>1, <1>3, EndSyncInv DEF Statuses
<1>. QED BY <1>2, <1>3 DEF GetBlock

-----------------------------------------------------------------------------
(* The theorems *)

LEMMA AppInitInv == InsightInit => AppInv
<1>. SUFFICES ASSUME InsightInit PROVE AppInv
  OBVIOUS
<1>1. Inv
  BY InitInv DEF InsightInit
<1>2. best \in Block /\ wire = <<>> /\ allowReorgs = FALSE /\ hist = Started(TRUE)
  BY DEF InsightInit
<1>3. hist \in Hists /\ hist.pc = "network" /\ hist.status = "starting"
  BY <1>2, StartedIsHist
<1>4. HistOK
  BY <1>2, <1>3, EmptySeq DEF HistOK, AppTypeOK, RunningIsShown, WalkOK
<1>5. HistoricIsAlone
  BY <1>3, TheSyncs DEF InsightInit, Init, VolatileInit, HistoricIsAlone
<1>. QED BY <1>1, <1>4, <1>5 DEF AppInv

LEMMA AppNextInv == AppInv /\ [InsightNext]_appVars => AppInv'
<1>. SUFFICES ASSUME AppInv, [InsightNext]_appVars PROVE AppInv'
  OBVIOUS
<1>1. CASE \E b \in Block : NewBest(b)
  BY <1>1, BitcoindInv
<1>2. CASE HistoricOwn
  BY <1>2, CheckNetworkInv, TipReadInv, TipInfoInv, TipNotMainInv, GetBlockInv,
     HistoricStepInv DEF HistoricOwn
<1>3. CASE PeerOwn
  BY <1>3, PeerCallInv, PeerStepInv DEF PeerOwn
<1>4. CASE RestartInsight
  BY <1>4, RestartInv
<1>5. CASE UNCHANGED appVars
  <2>1. Inv'
    BY <1>5, OutsideSync DEF AppInv, appVars, vars, dbVars, callVars, Inv, SyncTypeOK
  <2>. QED BY <1>5, <2>1 DEF AppInv, appVars, vars, HistOK, AppTypeOK, RunningIsShown,
                              WalkOK, HistoricIsAlone
<1>. QED BY <1>1, <1>2, <1>3, <1>4, <1>5 DEF InsightNext

THEOREM AppInvariance == InsightSpec => []AppInv
  BY AppInitInv, AppNextInv, PTL DEF InsightSpec

\* The historic sync never calls storeTipBlock while its Sync object is storing
\* a block, so no call of its waits for the lock: the one look at status in
\* start() is enough, whoever starts it, whichever errors and restarts occur.
THEOREM OneHistoricSync == InsightSpec => []HistoricIsAlone
<1>1. AppInv => HistoricIsAlone
  BY DEF AppInv
<1>. QED BY <1>1, AppInvariance, PTL

\* Every variable of the program keeps its type: the block that
\* updateStartBlock takes off the main chain is a block of the tree, although
\* the tip may vanish from bitcoind and its best block change under the walk,
\* and the walk stops at Genesis at the latest.
THEOREM WholeProgramTypes == InsightSpec => []InsightTypeOK
<1>1. AppInv => InsightTypeOK
  BY DEF AppInv, Inv, HistOK, AppTypeOK, InsightTypeOK
<1>. QED BY <1>1, AppInvariance, PTL

\* In the whole program, with calls that do not allow reorganisations mixed
\* with calls that do, the entry of a transaction names a block that holds it
\* and that block's present height.
THEOREM WholeProgramTxIndex == InsightSpec => []TxIndexAgrees
<1>1. AppInv => TxIndexAgrees
  BY DEF AppInv, Inv, TxOwned, TxIndexAgrees
<1>. QED BY <1>1, AppInvariance, PTL

\* ... and next pointers lead from blocks to their children.
THEOREM WholeProgramNextPointers == InsightSpec => []NextIsChild
<1>1. AppInv => NextIsChild
  BY DEF AppInv, Inv
<1>. QED BY <1>1, AppInvariance, PTL

-----------------------------------------------------------------------------
(* The blocks of a branch by their depth *)

LEMMA SameDepth ==
    ASSUME NEW b \in Block, NEW c \in Branch[b], NEW e \in Branch[b], Depth[c] = Depth[e]
    PROVE  c = e
<1>. SUFFICES ASSUME NEW x \in Branch[b], NEW y \in Branch[b], x \in Branch[y],
                     Depth[x] = Depth[y], x # y
              PROVE  FALSE
  BY BranchOrder
<1>1. y \in Block
  BY BranchWithin
<1>. QED BY <1>1, BranchDepth

LEMMA DepthOnBranch ==
    ASSUME NEW b \in Block, NEW d \in 0..Depth[b]
    PROVE  /\ AtDepth(b, d) \in Branch[b] /\ AtDepth(b, d) \in Block
           /\ Depth[AtDepth(b, d)] = d
<1>. DEFINE S == {y \in Block : \A e \in 0..Depth[y] : \E c \in Branch[y] : Depth[c] = e}
<1>1. Genesis \in S
  <2>1. Genesis \in Branch[Genesis] /\ Depth[Genesis] = 0 /\ Genesis \in Block
    BY Names, Branches, BlockTree
  <2>. QED BY <2>1
<1>2. ASSUME NEW y \in Block \ {Genesis}, ParentOf[y] \in S PROVE y \in S
  <2>1. Branch[y] = Branch[ParentOf[y]] \cup {y}
    BY Branches
  <2>2. Depth[y] = Depth[ParentOf[y]] + 1 /\ Depth[ParentOf[y]] \in Nat
    BY <1>2, BlockTree
  <2>3. ASSUME NEW e \in 0..Depth[y] PROVE \E c \in Branch[y] : Depth[c] = e
    <3>1. CASE e = Depth[y]
      BY <2>1, <3>1
    <3>2. CASE e # Depth[y]
      <4>1. e \in 0..Depth[ParentOf[y]]
        BY <2>2, <3>2
      <4>. QED BY <1>2, <2>1, <4>1
    <3>. QED BY <3>1, <3>2
  <2>. QED BY <2>3
<1>. HIDE DEF S
<1>3. \A y \in Block : y \in S
  BY <1>1, <1>2, EveryBlock
<1>4. \E c \in Branch[b] : Depth[c] = d
  BY <1>3 DEF S
<1>5. AtDepth(b, d) \in Branch[b] /\ Depth[AtDepth(b, d)] = d
  BY <1>4 DEF AtDepth
<1>. QED BY <1>5, BranchWithin

LEMMA IsAtDepth ==
    ASSUME NEW b \in Block, NEW c \in Branch[b]
    PROVE  Depth[c] \in 0..Depth[b] /\ AtDepth(b, Depth[c]) = c
<1>1. Depth[c] \in 0..Depth[b]
  BY BranchDepth
<1>. QED BY <1>1, DepthOnBranch, SameDepth

LEMMA ParentAtDepth ==
    ASSUME NEW b \in Block, NEW d \in 1..Depth[b]
    PROVE  AtDepth(b, d) # Genesis /\ ParentOf[AtDepth(b, d)] = AtDepth(b, d - 1)
<1>. DEFINE c == AtDepth(b, d)
<1>1. Depth[b] \in Nat
  BY BlockTree
<1>2. d \in 0..Depth[b] /\ d - 1 \in 0..Depth[b]
  BY <1>1
<1>3. c \in Branch[b] /\ c \in Block /\ Depth[c] = d
  BY <1>2, DepthOnBranch
<1>. HIDE DEF c
<1>4. c # Genesis
  BY <1>3, BlockTree
<1>5. ParentOf[c] \in Branch[b] /\ Depth[c] = Depth[ParentOf[c]] + 1 /\ Depth[ParentOf[c]] \in Nat
  BY <1>3, <1>4, ParentWithin, BlockTree
<1>6. Depth[ParentOf[c]] = d - 1
  BY <1>3, <1>5
<1>7. AtDepth(b, d - 1) = ParentOf[c]
  BY <1>5, <1>6, IsAtDepth
<1>. QED BY <1>4, <1>7 DEF c

-----------------------------------------------------------------------------
(* bitcoind's files *)

IsFiles(files) == files \in Seq(Seq(Block) \ {<<>>}) /\ files # <<>>

\* Every old block keeps its place, and the others come behind all of those.
Grown ==
    /\ Len(disk) <= Len(disk')
    /\ \A k \in 1..Len(disk) :
         /\ k < Len(disk) => disk'[k] = disk[k]
         /\ Len(disk[k]) <= Len(disk'[k])
         /\ \A l \in 1..Len(disk[k]) : disk'[k][l] = disk[k][l]

LEMMA FilesFacts ==
    ASSUME NEW files, IsFiles(files)
    PROVE  /\ Len(files) \in Nat /\ Len(files) > 0 /\ DOMAIN files = 1..Len(files)
           /\ \A k \in 1..Len(files) :
                /\ files[k] \in Seq(Block) /\ Len(files[k]) \in Nat /\ Len(files[k]) > 0
                /\ DOMAIN files[k] = 1..Len(files[k])
                /\ \A l \in 1..Len(files[k]) : files[k][l] \in Block
<1>1. Len(files) \in Nat /\ Len(files) > 0 /\ DOMAIN files = 1..Len(files)
  BY DEF IsFiles
<1>2. ASSUME NEW k \in 1..Len(files)
      PROVE  /\ files[k] \in Seq(Block) /\ Len(files[k]) \in Nat /\ Len(files[k]) > 0
             /\ DOMAIN files[k] = 1..Len(files[k])
             /\ \A l \in 1..Len(files[k]) : files[k][l] \in Block
  <2>1. files[k] \in Seq(Block) \ {<<>>}
    BY DEF IsFiles
  <2>. QED BY <2>1
<1>. QED BY <1>1, <1>2

LEMMA BlocksAre ==
    ASSUME NEW files, IsFiles(files), NEW b
    PROVE  /\ b \in Blocks(files) <=> \E k \in 1..Len(files) : \E l \in 1..Len(files[k]) : files[k][l] = b
           /\ b \in Blocks(files) => b \in Block
<1>1. b \in Blocks(files) <=> \E k \in DOMAIN files : \E l \in DOMAIN files[k] : files[k][l] = b
  BY DEF Blocks, ToSet
<1>. QED BY <1>1, FilesFacts

\* The files after a write: where each block came to lie.
AppendedTo(W, k, N, L, q) ==
    /\ IsFiles(disk')
    /\ Len(disk') = IF k = N THEN L ELSE L + 1
    /\ \A x \in 1..(L - 1) : disk'[x] = disk[x]
    /\ Len(disk'[L]) = q + k
    /\ \A y \in 1..(q + k) : disk'[L][y] = IF y <= q THEN disk[L][y] ELSE W[y - q]
    /\ k # N => /\ Len(disk'[L + 1]) = N - k
                /\ \A y \in 1..(N - k) : disk'[L + 1][y] = W[k + y]

LEMMA Appended ==
    ASSUME IsFiles(disk), NEW W \in Seq(Block), NEW k \in 0..Len(W),
           disk' = IF k = Len(W)
                   THEN [disk EXCEPT ![Len(disk)] = @ \o SubSeq(W, 1, k)]
                   ELSE Append([disk EXCEPT ![Len(disk)] = @ \o SubSeq(W, 1, k)],
                               SubSeq(W, k + 1, Len(W)))
    PROVE  AppendedTo(W, k, Len(W), Len(disk), Len(disk[Len(disk)]))
<1>. DEFINE N == Len(W)
            L == Len(disk)
            q == Len(disk[L])
            S1 == SubSeq(W, 1, k)
            S2 == SubSeq(W, k + 1, N)
            last == disk[L] \o S1
            full == [disk EXCEPT ![L] = last]
<1>0. disk' = IF k = N THEN full ELSE Append(full, S2)
  OBVIOUS
<1>. HIDE DEF N, L, q, S1, S2, last, full
<1>1. /\ L \in Nat /\ L > 0 /\ q \in Nat /\ q > 0 /\ disk[L] \in Seq(Block) /\ L \in 1..L
      /\ DOMAIN disk = 1..L
  BY FilesFacts DEF L, q
<1>2. W \in Seq(Block) /\ Len(W) = N /\ N \in Nat /\ k \in 0..N
  BY DEF N
<1>3. S1 \in Seq(Block) /\ Len(S1) = k /\ \A y \in 1..k : S1[y] = W[y]
  <2>1. 1 \in 1..(Len(W) + 1) /\ k \in 0..Len(W)
    BY <1>2
  <2>. QED BY <1>2, <2>1, SubSeqProperties DEF S1
<1>4. k # N => S2 \in Seq(Block) /\ Len(S2) = N - k /\ \A y \in 1..(N - k) : S2[y] = W[k + y]
  <2>1. k # N => k + 1 \in 1..(Len(W) + 1) /\ N \in k..Len(W) /\ N \in (k + 1 - 1)..Len(W)
    BY <1>2
  <2>2. k # N => /\ S2 \in Seq(Block)
                 /\ Len(S2) = IF k + 1 <= N THEN N - (k + 1) + 1 ELSE 0
                 /\ \A y \in 1..(N - (k + 1) + 1) : S2[y] = W[k + 1 + y - 1]
    BY <1>2, <2>1, SubSeqProperties DEF S2
  <2>3. ASSUME k # N, NEW y \in 1..(N - k) PROVE S2[y] = W[k + y]
    <3>1. y \in 1..(N - (k + 1) + 1) /\ k + 1 + y - 1 = k + y
      BY <1>2
    <3>. QED BY <2>2, <2>3, <3>1
  <2>4. k # N => Len(S2) = N - k
    BY <1>2, <2>2
  <2>. QED BY <2>2, <2>3, <2>4
<1>5. /\ last \in Seq(Block) /\ last # <<>> /\ Len(last) = q + k
      /\ \A y \in 1..(q + k) : last[y] = IF y <= q THEN disk[L][y] ELSE W[y - q]
  <2>1. last \in Seq(Block) /\ Len(last) = q + k
    BY <1>1, <1>3, ConcatProperties DEF last, q
  <2>2. \A y \in 1..(q + k) : last[y] = IF y <= q THEN disk[L][y] ELSE S1[y - q]
    BY <1>1, <1>2, <1>3, ConcatProperties DEF last, q
  <2>. QED BY <1>1, <1>2, <1>3, <2>1, <2>2
<1>6. /\ full \in Seq(Seq(Block) \ {<<>>}) /\ Len(full) = L /\ full[L] = last
      /\ \A x \in 1..(L - 1) : full[x] = disk[x]
  <2>1. disk \in [1..L -> Seq(Block) \ {<<>>}]
    BY <1>1 DEF IsFiles
  <2>2. full \in [1..L -> Seq(Block) \ {<<>>}] /\ full[L] = last
    BY ONLY <1>1, <1>5, <2>1 DEF full
  <2>3. \A x \in 1..(L - 1) : full[x] = disk[x]
    BY ONLY <1>1, <2>1 DEF full
  <2>. QED BY ONLY <1>1, <2>2, <2>3
<1>8. CASE k = N
  <2>1. disk' = full
    BY <1>0, <1>8
  <2>2. IsFiles(disk') /\ Len(disk') = L
    BY ONLY <1>1, <1>6, <2>1, EmptySeq DEF IsFiles
  <2>3. \A x \in 1..(L - 1) : disk'[x] = disk[x]
    BY <1>6, <2>1
  <2>4. disk'[L] = last
    BY <1>6, <2>1
  <2>5. AppendedTo(W, k, N, L, q)
    BY <1>1, <1>5, <1>8, <2>2, <2>3, <2>4 DEF AppendedTo
  <2>. QED BY <2>5 DEF N, L, q
<1>9. CASE k # N
  <2>1. S2 \in Seq(Block) \ {<<>>}
    <3>1. S2 \in Seq(Block) /\ Len(S2) > 0
      BY <1>2, <1>4, <1>9
    <3>. QED BY <3>1, EmptySeq
  <2>2. disk' = Append(full, S2)
    BY <1>0, <1>9
  <2>3. /\ disk' \in Seq(Seq(Block) \ {<<>>}) /\ Len(disk') = Len(full) + 1
        /\ \A x \in 1..Len(full) : disk'[x] = full[x]
        /\ disk'[Len(full) + 1] = S2
    BY ONLY <1>6, <2>1, <2>2, AppendProperties
  <2>4. IsFiles(disk') /\ Len(disk') = L + 1 /\ disk'[L + 1] = S2
    BY ONLY <1>1, <1>6, <2>3, EmptySeq DEF IsFiles
  <2>5. ASSUME NEW x \in 1..(L - 1) PROVE disk'[x] = disk[x]
    <3>1. x \in 1..L
      BY <1>1
    <3>. QED BY <1>6, <2>3, <3>1
  <2>6. disk'[L] = last
    BY <1>1, <1>6, <2>3
  <2>7. AppendedTo(W, k, N, L, q)
    BY <1>1, <1>4, <1>5, <1>9, <2>4, <2>5, <2>6 DEF AppendedTo
  <2>. QED BY <2>7 DEF N, L, q
<1>. QED BY <1>8, <1>9

LEMMA WriteFiles ==
    ASSUME IsDisk(disk), NEW b \in Block, Write(b)
    PROVE  IsDisk(disk') /\ Grown /\ Blocks(disk') = Blocks(disk) \cup Branch[b]
<1>0. PICK m \in 0..Depth[b] :
        /\ \A d \in 0..Depth[b] : AtDepth(b, d) \in Blocks(disk) <=> d <= m
        /\ LET W == [i \in 1..(Depth[b] - m) |-> AtDepth(b, m + i)]
           IN  \E k \in 0..(Depth[b] - m) :
                 LET full == [disk EXCEPT ![Len(disk)] = @ \o SubSeq(W, 1, k)]
                 IN  disk' = IF k = Depth[b] - m
                             THEN full
                             ELSE Append(full, SubSeq(W, k + 1, Depth[b] - m))
  BY DEF Write
<1>1. PICK k \in 0..(Depth[b] - m) :
        /\ \A d \in 0..Depth[b] : AtDepth(b, d) \in Blocks(disk) <=> d <= m
        /\ LET W == [i \in 1..(Depth[b] - m) |-> AtDepth(b, m + i)]
               full == [disk EXCEPT ![Len(disk)] = @ \o SubSeq(W, 1, k)]
           IN  disk' = IF k = Depth[b] - m THEN full ELSE Append(full, SubSeq(W, k + 1, Depth[b] - m))
  BY <1>0
<1>. DEFINE N == Depth[b] - m
            W == [i \in 1..N |-> AtDepth(b, m + i)]
            L == Len(disk)
            q == Len(disk[L])
<1>2. Depth[b] \in Nat /\ m \in Nat /\ N \in Nat /\ k \in 0..N
  BY <1>1, BlockTree
<1>3. ASSUME NEW i \in 1..N
      PROVE  /\ W[i] = AtDepth(b, m + i) /\ W[i] \in Branch[b] /\ W[i] \in Block
             /\ W[i] \notin Blocks(disk) /\ Depth[W[i]] = m + i
             /\ ParentOf[W[i]] = AtDepth(b, m + i - 1)
  <2>1. m + i \in 0..Depth[b] /\ m + i \in 1..Depth[b] /\ ~(m + i <= m)
    BY <1>2
  <2>2. W[i] = AtDepth(b, m + i)
    OBVIOUS
  <2>. QED BY <1>1, <2>1, <2>2, DepthOnBranch, ParentAtDepth
<1>4. W \in [1..N -> Block]
  BY <1>3
<1>5. IsFiles(disk) /\ disk[1][1] = Genesis
  BY DEF IsDisk, IsFiles
<1>a. \A x \in 1..L : \A y \in 1..Len(disk[x]) :
        disk[x][y] = Genesis \/ \E u \in 1..L : \E v \in 1..Len(disk[u]) :
            Behind(u, v, x, y) /\ disk[u][v] = ParentOf[disk[x][y]]
  BY DEF IsDisk
<1>b. \A x \in 1..L : \A y \in 1..Len(disk[x]) : \A u \in 1..L : \A v \in 1..Len(disk[u]) :
        disk[u][v] = disk[x][y] => u = x /\ v = y
  BY DEF IsDisk
<1>c. \A c : c \in Blocks(disk) <=> \E x \in 1..L : \E y \in 1..Len(disk[x]) : disk[x][y] = c
  BY <1>5, BlocksAre
<1>. HIDE DEF N, W, L, q
<1>6. /\ L \in Nat /\ L > 0 /\ q \in Nat /\ q > 0
      /\ \A x \in 1..L : Len(disk[x]) \in Nat /\ Len(disk[x]) > 0
  BY <1>5, FilesFacts DEF L, q
<1>7. /\ IsFiles(disk')
      /\ Len(disk') = IF k = N THEN L ELSE L + 1
      /\ \A x \in 1..(L - 1) : disk'[x] = disk[x]
      /\ Len(disk'[L]) = q + k
      /\ \A y \in 1..(q + k) : disk'[L][y] = IF y <= q THEN disk[L][y] ELSE W[y - q]
      /\ k # N => /\ Len(disk'[L + 1]) = N - k
                  /\ \A y \in 1..(N - k) : disk'[L + 1][y] = W[k + y]
  <2>1. W \in Seq(Block) /\ Len(W) = N /\ k \in 0..Len(W)
    BY <1>2, <1>4
  <2>2. disk' = IF k = Len(W)
                THEN [disk EXCEPT ![Len(disk)] = @ \o SubSeq(W, 1, k)]
                ELSE Append([disk EXCEPT ![Len(disk)] = @ \o SubSeq(W, 1, k)],
                            SubSeq(W, k + 1, Len(W)))
    <3>1. disk' = IF k = N
                  THEN [disk EXCEPT ![Len(disk)] = @ \o SubSeq(W, 1, k)]
                  ELSE Append([disk EXCEPT ![Len(disk)] = @ \o SubSeq(W, 1, k)],
                              SubSeq(W, k + 1, N))
      BY <1>1 DEF N, W
    <3>. QED BY <2>1, <3>1
  <2>3. AppendedTo(W, k, Len(W), Len(disk), Len(disk[Len(disk)]))
    BY <1>5, <2>1, <2>2, Appended
  <2>4. AppendedTo(W, k, N, L, q)
    BY <2>1, <2>3 DEF L, q
  <2>. QED BY <2>4 DEF AppendedTo
<1>. DEFINE New(x, y) == x > L \/ (x = L /\ y > q)
            Idx(x, y) == IF x = L THEN y - q ELSE k + y
<1>8. ASSUME NEW x \in 1..Len(disk'), NEW y \in 1..Len(disk'[x])
      PROVE  /\ New(x, y) => /\ Idx(x, y) \in 1..N /\ disk'[x][y] = W[Idx(x, y)]
                             /\ x = L => Idx(x, y) <= k
                             /\ x # L => x = L + 1 /\ Idx(x, y) > k
             /\ ~New(x, y) => x \in 1..L /\ y \in 1..Len(disk[x]) /\ disk'[x][y] = disk[x][y]
  <2>1. CASE x = L
    <3>1. y \in 1..(q + k)
      BY <1>7, <2>1
    <3>2. Len(disk[x]) = q
      BY <2>1 DEF q
    <3>3. CASE y <= q
      <4>1. y \in 1..q /\ disk'[L][y] = disk[L][y]
        BY <1>6, <1>7, <3>1, <3>3
      <4>2. ~New(x, y)
        BY <1>6, <2>1, <3>1, <3>3
      <4>. QED BY <1>6, <2>1, <3>2, <4>1, <4>2
    <3>4. CASE y > q
      <4>1. y - q \in 1..k /\ y - q \in 1..N /\ disk'[L][y] = W[y - q]
        BY <1>2, <1>6, <1>7, <3>1, <3>4
      <4>2. New(x, y) /\ Idx(x, y) = y - q
        BY <2>1, <3>4
      <4>. QED BY <1>2, <2>1, <4>1, <4>2
    <3>. QED BY <1>6, <3>1, <3>3, <3>4
  <2>2. CASE x < L
    BY <1>6, <1>7, <2>2
  <2>3. CASE x > L
    <3>1. x = L + 1 /\ k # N /\ y \in 1..(N - k)
      BY <1>2, <1>6, <1>7, <2>3
    <3>. QED BY <1>2, <1>6, <1>7, <2>3, <3>1
  <2>. QED BY <1>6, <1>7, <2>1, <2>2, <2>3
<1>9. ASSUME NEW x \in 1..L, NEW y \in 1..Len(disk[x])
      PROVE  x \in 1..Len(disk') /\ y \in 1..Len(disk'[x]) /\ disk'[x][y] = disk[x][y] /\ ~New(x, y)
  <2>1. CASE x = L
    <3>1. y \in 1..q /\ q \in Nat
      BY <1>6, <2>1 DEF q
    <3>. QED BY <1>2, <1>6, <1>7, <2>1, <3>1
  <2>2. CASE x # L
    BY <1>6, <1>7, <2>2
  <2>. QED BY <2>1, <2>2
<1>10. ASSUME NEW i \in 1..N
       PROVE  \E x \in 1..Len(disk') : \E y \in 1..Len(disk'[x]) :
                 New(x, y) /\ Idx(x, y) = i /\ disk'[x][y] = W[i]
  <2>1. CASE i <= k
    <3>1. L \in 1..Len(disk') /\ q + i \in 1..Len(disk'[L])
      BY <1>2, <1>6, <1>7, <2>1
    <3>2. disk'[L][q + i] = W[i]
      BY <1>2, <1>6, <1>7, <2>1
    <3>. QED BY <1>6, <3>1, <3>2
  <2>2. CASE i > k
    <3>1. L + 1 \in 1..Len(disk') /\ i - k \in 1..Len(disk'[L + 1])
      BY <1>2, <1>6, <1>7, <2>2
    <3>2. disk'[L + 1][i - k] = W[k + (i - k)] /\ k + (i - k) = i
      BY <1>2, <1>6, <1>7, <2>2
    <3>3. New(L + 1, i - k) /\ Idx(L + 1, i - k) = i
      BY <1>6, <3>2
    <3>. QED BY <3>1, <3>2, <3>3
  <2>. QED BY <1>2, <2>1, <2>2
<1>11. /\ \A x \in 1..Len(disk') : Len(disk'[x]) \in Nat /\ Len(disk'[x]) > 0
       /\ Len(disk') \in Nat
  BY <1>7, FilesFacts
<1>. HIDE DEF New, Idx
<1>12. ASSUME NEW x \in 1..Len(disk'), NEW y \in 1..Len(disk'[x]),
              NEW u \in 1..Len(disk'), NEW v \in 1..Len(disk'[u])
       PROVE  /\ ~New(x, y) /\ New(u, v) => Behind(x, y, u, v)
              /\ New(x, y) /\ New(u, v) /\ Idx(x, y) < Idx(u, v) => Behind(x, y, u, v)
              /\ New(x, y) /\ New(u, v) /\ Idx(x, y) = Idx(u, v) => x = u /\ y = v
  <2>1. /\ New(x, y) => (x = L => Idx(x, y) <= k) /\ (x # L => x = L + 1 /\ Idx(x, y) > k)
        /\ New(u, v) => (u = L => Idx(u, v) <= k) /\ (u # L => u = L + 1 /\ Idx(u, v) > k)
        /\ New(x, y) => Idx(x, y) \in 1..N
        /\ New(u, v) => Idx(u, v) \in 1..N
    BY <1>8
  <2>. QED BY <1>2, <1>6, <1>11, <2>1 DEF New, Idx, Behind
<1>13. IsDisk(disk')
  <2>1. disk'[1][1] = Genesis
    <3>1. 1 \in 1..L /\ 1 \in 1..Len(disk[1])
      BY <1>6
    <3>. QED BY <1>5, <1>9, <3>1
  <2>2. ASSUME NEW x \in 1..Len(disk'), NEW y \in 1..Len(disk'[x])
        PROVE  disk'[x][y] = Genesis \/ \E u \in 1..Len(disk') : \E v \in 1..Len(disk'[u]) :
                   Behind(u, v, x, y) /\ disk'[u][v] = ParentOf[disk'[x][y]]
    <3>1. CASE ~New(x, y)
      <4>1. x \in 1..L /\ y \in 1..Len(disk[x]) /\ disk'[x][y] = disk[x][y]
        BY <1>8, <3>1
      <4>2. disk[x][y] = Genesis \/ \E u \in 1..L : \E v \in 1..Len(disk[u]) :
                   Behind(u, v, x, y) /\ disk[u][v] = ParentOf[disk[x][y]]
        BY <1>a, <4>1
      <4>. QED BY <1>9, <4>1, <4>2
    <3>2. CASE New(x, y)
      <4>. DEFINE i == Idx(x, y)
      <4>1. i \in 1..N /\ disk'[x][y] = W[i]
        BY <1>8, <3>2
      <4>. HIDE DEF i
      <4>2. ParentOf[W[i]] = AtDepth(b, m + i - 1)
        BY <1>3, <4>1
      <4>3. CASE i = 1
        <5>1. m \in 0..Depth[b] /\ m <= m /\ m + i - 1 = m
          BY <1>1, <1>2, <4>3
        <5>2. ParentOf[W[i]] \in Blocks(disk)
          BY <1>1, <4>2, <5>1
        <5>3a. PICK u \in 1..L : \E v \in 1..Len(disk[u]) : disk[u][v] = ParentOf[W[i]]
          BY <1>c, <5>2
        <5>3. PICK v \in 1..Len(disk[u]) : disk[u][v] = ParentOf[W[i]]
          BY <5>3a
        <5>4. /\ u \in 1..Len(disk') /\ v \in 1..Len(disk'[u]) /\ disk'[u][v] = ParentOf[W[i]]
              /\ ~New(u, v)
          BY <1>9, <5>3
        <5>5. Behind(u, v, x, y)
          BY <1>12, <3>2, <5>4
        <5>. QED BY <4>1, <5>4, <5>5
      <4>4. CASE i # 1
        <5>1. i - 1 \in 1..N /\ m + (i - 1) = m + i - 1 /\ i - 1 < i
          BY <1>2, <4>1, <4>4
        <5>2. W[i - 1] = ParentOf[W[i]]
          BY <1>3, <4>2, <5>1
        <5>3a. PICK u \in 1..Len(disk') : \E v \in 1..Len(disk'[u]) :
                New(u, v) /\ Idx(u, v) = i - 1 /\ disk'[u][v] = W[i - 1]
          BY <1>10, <5>1
        <5>3. PICK v \in 1..Len(disk'[u]) :
                New(u, v) /\ Idx(u, v) = i - 1 /\ disk'[u][v] = W[i - 1]
          BY <5>3a
        <5>. QED BY <1>12, <3>2, <4>1, <5>1, <5>2, <5>3 DEF i
      <4>. QED BY <4>3, <4>4
    <3>. QED BY <3>1, <3>2
  <2>3. ASSUME NEW x \in 1..Len(disk'), NEW y \in 1..Len(disk'[x]),
               NEW u \in 1..Len(disk'), NEW v \in 1..Len(disk'[u]), disk'[u][v] = disk'[x][y]
        PROVE  u = x /\ v = y
    <3>1. CASE ~New(x, y) /\ ~New(u, v)
      <4>1. /\ x \in 1..L /\ y \in 1..Len(disk[x]) /\ disk'[x][y] = disk[x][y]
            /\ u \in 1..L /\ v \in 1..Len(disk[u]) /\ disk'[u][v] = disk[u][v]
        BY <1>8, <3>1
      <4>. QED BY <1>b, <2>3, <4>1
    <3>2. ASSUME NEW r \in 1..Len(disk'), NEW s \in 1..Len(disk'[r]), ~New(r, s),
                 NEW i \in 1..N, disk'[r][s] = W[i]
          PROVE  FALSE
      <4>1. r \in 1..L /\ s \in 1..Len(disk[r]) /\ disk[r][s] = W[i]
        BY <1>8, <3>2
      <4>2. W[i] \in Blocks(disk)
        BY <1>c, <4>1
      <4>. QED BY <1>3, <4>2
    <3>3. CASE New(x, y) /\ New(u, v)
      <4>1. /\ Idx(x, y) \in 1..N /\ disk'[x][y] = W[Idx(x, y)]
            /\ Idx(u, v) \in 1..N /\ disk'[u][v] = W[Idx(u, v)]
        BY <1>8, <3>3
      <4>2. m + Idx(x, y) = m + Idx(u, v)
        BY <1>3, <2>3, <4>1
      <4>3. Idx(x, y) = Idx(u, v)
        BY <1>2, <4>1, <4>2
      <4>. QED BY <1>12, <3>3, <4>3
    <3>4. CASE New(x, y) /\ ~New(u, v)
      BY <1>8, <2>3, <3>2, <3>4
    <3>5. CASE ~New(x, y) /\ New(u, v)
      BY <1>8, <2>3, <3>2, <3>5
    <3>. QED BY <3>1, <3>3, <3>4, <3>5
  <2>4. \A i \in 1..Len(disk') : \A j \in 1..Len(disk'[i]) :
        \A x \in 1..Len(disk') : \A y \in 1..Len(disk'[x]) :
           disk'[x][y] = disk'[i][j] => x = i /\ y = j
    BY <2>3
  <2>5. \A i \in 1..Len(disk') : \A j \in 1..Len(disk'[i]) :
           disk'[i][j] = Genesis \/ \E x \in 1..Len(disk') : \E y \in 1..Len(disk'[x]) :
               Behind(x, y, i, j) /\ disk'[x][y] = ParentOf[disk'[i][j]]
    BY <2>2
  <2>6. IsFiles(disk')
    BY <1>7
  <2>. QED BY ONLY <2>1, <2>4, <2>5, <2>6 DEF IsDisk, IsFiles
<1>14. Grown
  <2>1. L <= Len(disk')
    BY <1>2, <1>6, <1>7
  <2>2. ASSUME NEW x \in 1..L
        PROVE  /\ x < L => disk'[x] = disk[x]
               /\ Len(disk[x]) <= Len(disk'[x])
               /\ \A y \in 1..Len(disk[x]) : disk'[x][y] = disk[x][y]
    <3>1. x < L => disk'[x] = disk[x]
      <4>1. x < L => x \in 1..(L - 1)
        BY <1>6
      <4>. QED BY <1>7, <4>1
    <3>2. x = L => Len(disk[x]) <= Len(disk'[x])
      BY <1>2, <1>6, <1>7 DEF q
    <3>3. Len(disk[x]) <= Len(disk'[x])
      BY <1>6, <3>1, <3>2
    <3>. QED BY <1>9, <3>1, <3>3
  <2>. QED BY <2>1, <2>2 DEF Grown, L
<1>15. Blocks(disk') = Blocks(disk) \cup Branch[b]
  <2>1. ASSUME NEW c \in Blocks(disk') PROVE c \in Blocks(disk) \cup Branch[b]
    <3>1a. PICK x \in 1..Len(disk') : \E y \in 1..Len(disk'[x]) : disk'[x][y] = c
      BY <1>7, <2>1, BlocksAre
    <3>1. PICK y \in 1..Len(disk'[x]) : disk'[x][y] = c
      BY <3>1a
    <3>2. CASE New(x, y)
      BY <1>3, <1>8, <3>1, <3>2
    <3>3. CASE ~New(x, y)
      BY <1>8, <1>c, <3>1, <3>3
    <3>. QED BY <3>2, <3>3
  <2>2. ASSUME NEW c \in Blocks(disk) PROVE c \in Blocks(disk')
    <3>1a. PICK x \in 1..L : \E y \in 1..Len(disk[x]) : disk[x][y] = c
      BY <1>c, <2>2
    <3>1. PICK y \in 1..Len(disk[x]) : disk[x][y] = c
      BY <3>1a
    <3>. QED BY <1>7, <1>9, <3>1, BlocksAre
  <2>3. ASSUME NEW c \in Branch[b] PROVE c \in Blocks(disk')
    <3>. DEFINE d == Depth[c]
    <3>1. d \in 0..Depth[b] /\ AtDepth(b, d) = c
      BY <2>3, IsAtDepth
    <3>. HIDE DEF d
    <3>2. CASE d <= m
      BY <1>1, <2>2, <3>1, <3>2
    <3>3. CASE d > m
      <4>1. d - m \in 1..N /\ m + (d - m) = d
        BY <1>2, <3>1, <3>3 DEF N
      <4>2. W[d - m] = c
        BY <1>3, <3>1, <4>1
      <4>3a. PICK x \in 1..Len(disk') : \E y \in 1..Len(disk'[x]) : disk'[x][y] = W[d - m]
        BY <1>10, <4>1
      <4>3. PICK y \in 1..Len(disk'[x]) : disk'[x][y] = W[d - m]
        BY <4>3a
      <4>. QED BY <1>7, <4>2, <4>3, BlocksAre
    <3>. QED BY <1>2, <3>1, <3>2, <3>3
  <2>. QED BY <2>1, <2>2, <2>3
<1>. QED BY <1>13, <1>14, <1>15

-----------------------------------------------------------------------------
(* The reader *)

\* What a reader is and stays, whatever it reads.
IsReader(f) == f \in Files /\ NoFile <= f.at /\ f.at < f.n /\ f.n <= Len(disk)

LEMMA LoadedType ==
    ASSUME IsFiles(disk), NEW f, IsReader(f), f.at # NoFile
    PROVE  /\ f.at + 1 \in 1..Len(disk)
           /\ Loaded(f) \in Seq(Block)
           /\ f.buf = Unread => Loaded(f) = disk[f.at + 1]
           /\ f.buf # Unread => Loaded(f) = f.buf
<1>1. f.at + 1 \in 1..Len(disk)
  BY FilesFacts DEF IsReader, Files, NoFile
<1>2. disk[f.at + 1] \in Seq(Block)
  BY <1>1, FilesFacts
<1>. QED BY <1>1, <1>2 DEF IsReader, Files, Loaded

Moved(f, a, b) == [f EXCEPT !.at = a, !.buf = b]

StageNames == {"todo", "seek", "seekPut", "go", "goPut"}

Held(f, t, b) == [f EXCEPT !.stage = t, !.got = b]

\* f and g are readers of the same files.
SameReader(f, g) == g.made = f.made /\ g.n = f.n /\ g.goal = f.goal /\ g.saved = f.saved

LEMMA MovedReader ==
    ASSUME NEW f \in Files, NEW a \in Int, NEW b \in Seq(Block) \cup {Unread}
    PROVE  /\ Moved(f, a, b) \in Files /\ Moved(f, a, b).at = a /\ Moved(f, a, b).buf = b
           /\ Moved(f, a, b).got = f.got /\ Moved(f, a, b).stage = f.stage
           /\ SameReader(f, Moved(f, a, b))
<1>1. Moved(f, a, b) \in Files
  BY DEF Files, Moved
<1>. QED BY <1>1 DEF Files, Moved, SameReader

LEMMA HeldBlock ==
    ASSUME NEW f \in Files, NEW t \in StageNames, NEW b \in Block \cup {Null}
    PROVE  /\ Held(f, t, b) \in Files /\ Held(f, t, b).stage = t /\ Held(f, t, b).got = b
           /\ Held(f, t, b).at = f.at /\ Held(f, t, b).buf = f.buf
           /\ SameReader(f, Held(f, t, b))
<1>1. Held(f, t, b) \in Files
  BY DEF Files, Held, StageNames
<1>. QED BY <1>1 DEF Files, Held, SameReader

\* What getNextBlock gives: a block b (or none, at the end) and the reader g.
Gives(f, b, g) ==
    /\ IsReader(g)
    /\ b \in Block \cup {Null}
    /\ (b = Null) <=> (g.at = NoFile)
    /\ SameReader(f, g) /\ g.stage = f.stage

LEMMA NextOfTypes ==
    ASSUME IsFiles(disk), NEW f, IsReader(f)
    PROVE  Gives(f, NextOf(f).blk, NextOf(f).file)
<1>1. f \in Files /\ f.at \in Int /\ f.n \in Nat /\ f.at >= -1 /\ f.at < f.n /\ f.n <= Len(disk)
  BY DEF IsReader, Files, NoFile
<1>2. CASE f.at = NoFile
  BY <1>2 DEF NextOf, IsReader, Gives, SameReader
<1>3. CASE f.at # NoFile /\ Loaded(f) # <<>>
  <2>. DEFINE g == [f EXCEPT !.buf = Tail(Loaded(f))]
  <2>1. Head(Loaded(f)) \in Block /\ Tail(Loaded(f)) \in Seq(Block)
    BY <1>3, LoadedType
  <2>2. NextOf(f) = [blk |-> Head(Loaded(f)), file |-> g]
    BY <1>3 DEF NextOf
  <2>3. /\ g \in Files /\ g.at = f.at
        /\ SameReader(f, g) /\ g.stage = f.stage
    BY <1>1, <2>1 DEF Files, SameReader
  <2>. HIDE DEF g
  <2>4. Gives(f, Head(Loaded(f)), g)
    BY <1>1, <1>3, <2>1, <2>3, Names DEF IsReader, Gives, SameReader, NoFile
  <2>. QED BY <2>2, <2>4
<1>4. CASE f.at # NoFile /\ Loaded(f) = <<>> /\ f.at < f.n - 1
  <2>. DEFINE g == [f EXCEPT !.at = @ + 1, !.buf = Tail(disk[f.at + 2])]
  <2>1. f.at + 2 \in 1..Len(disk) /\ Len(disk) \in Nat
    BY <1>1, <1>4, FilesFacts DEF NoFile
  <2>2. disk[f.at + 2] \in Seq(Block) /\ Len(disk[f.at + 2]) > 0
    BY <2>1, FilesFacts
  <2>3. Head(disk[f.at + 2]) \in Block /\ Tail(disk[f.at + 2]) \in Seq(Block)
    BY <2>2
  <2>4. NextOf(f) = [blk |-> Head(disk[f.at + 2]), file |-> g]
    BY <1>4 DEF NextOf
  <2>5. /\ g \in Files /\ g.at = f.at + 1
        /\ SameReader(f, g) /\ g.stage = f.stage
    <3>1. /\ f.at + 1 \in Int /\ g = Moved(f, f.at + 1, Tail(disk[f.at + 2]))
          /\ Tail(disk[f.at + 2]) \in Seq(Block) \cup {Unread}
      BY <1>1, <2>3 DEF Moved
    <3>. HIDE DEF g
    <3>. QED BY <1>1, <2>3, <3>1, MovedReader
  <2>. HIDE DEF g
  <2>6. Gives(f, Head(disk[f.at + 2]), g)
    BY <1>1, <1>4, <2>3, <2>5, Names DEF IsReader, Gives, SameReader, NoFile
  <2>. QED BY <2>4, <2>6
<1>5. CASE f.at # NoFile /\ Loaded(f) = <<>> /\ ~(f.at < f.n - 1)
  <2>. DEFINE g == [f EXCEPT !.at = NoFile, !.buf = Unread]
  <2>1. NextOf(f) = [blk |-> Null, file |-> g]
    BY <1>5 DEF NextOf
  <2>2. /\ g \in Files /\ g.at = NoFile
        /\ SameReader(f, g) /\ g.stage = f.stage
    <3>1. NoFile \in Int /\ g = Moved(f, NoFile, Unread)
      BY DEF NoFile, Moved
    <3>. HIDE DEF g
    <3>. QED BY <1>1, <3>1, MovedReader
  <2>. HIDE DEF g
  <2>3. Gives(f, Null, g)
    BY <1>1, <1>5, <2>2 DEF IsReader, Gives, SameReader, NoFile
  <2>. QED BY <2>1, <2>3
<1>. QED BY <1>2, <1>3, <1>4, <1>5

-----------------------------------------------------------------------------
(* Types *)

DiskOK ==
    /\ IsDisk(disk)
    /\ best \in Blocks(disk)
    /\ \A b \in Blocks(disk) : Depth[b] <= Depth[best]

\* An unmade reader is at no file.
FileOK ==
    /\ IsReader(file) \/ file.made = FALSE
    /\ file \in Files
    /\ lastFile \in NoFile..(Len(disk) - 1)
    /\ skipped \in BOOLEAN

StageOK ==
    /\ hist.pc \notin {"getBlock", "store"} => file.stage = "todo"
    /\ hist.pc = "store" => file.stage = "go"
    /\ file.stage \in {"seek", "seekPut", "goPut"} => file.made
    /\ file.stage \in {"seekPut", "goPut"} => file.got \in Block /\ file.at # NoFile

BaseInv == AppInv /\ DiskOK /\ FileOK /\ StageOK

LEMMA DiskFacts ==
    ASSUME IsDisk(disk)
    PROVE  IsFiles(disk) /\ Len(disk) \in Nat /\ Len(disk) > 0
  BY FilesFacts DEF IsDisk, IsFiles

LEMMA SameDisk ==
    ASSUME IsDisk(disk), UNCHANGED disk
    PROVE  Grown
  BY DiskFacts, FilesFacts DEF Grown

\* A longer branch is written: the disk grows and stays one.
LEMMA DiskGrows ==
    ASSUME DiskOK, NEW b \in Block, Depth[b] > Depth[best], best' = b, Write(b)
    PROVE  DiskOK' /\ Grown /\ Blocks(disk) \subseteq Blocks(disk)'
<1>1. IsDisk(disk') /\ Grown /\ Blocks(disk') = Blocks(disk) \cup Branch[b]
  BY WriteFiles DEF DiskOK
<1>2. b \in Branch[b] /\ \A c \in Branch[b] : Depth[c] <= Depth[b]
  BY Branches, BranchDepth, BlockTree
<1>3. best \in Block /\ \A c \in Blocks(disk) : c \in Block /\ Depth[c] <= Depth[b]
  BY DiskFacts, BlocksAre, BlockTree DEF DiskOK
<1>. QED BY <1>1, <1>2, <1>3 DEF DiskOK

LEMMA GrownFileOK ==
    ASSUME FileOK, IsDisk(disk), IsDisk(disk'), Grown, UNCHANGED <<file, lastFile>>, skipped' \in BOOLEAN
    PROVE  FileOK'
<1>1. Len(disk) \in Nat /\ Len(disk') \in Nat /\ Len(disk) <= Len(disk')
  BY DiskFacts DEF Grown, IsDisk
<1>2. IsReader(file) => IsReader(file)'
  BY <1>1 DEF IsReader, Files
<1>. QED BY <1>1, <1>2 DEF FileOK, NoFile

LEMMA MineBase ==
    ASSUME BaseInv, NEW b \in Block, Mine(b)
    PROVE  BaseInv' /\ Grown
<1>1. NewBest(b) /\ Write(b) /\ UNCHANGED <<lastFile, file, skipped, hist>>
  BY DEF Mine, NewBest
<1>2. AppInv'
  BY <1>1, BitcoindInv DEF BaseInv
<1>3. DiskOK' /\ Grown
  BY <1>1, DiskGrows DEF BaseInv, NewBest
<1>4. FileOK'
  BY <1>1, <1>3, GrownFileOK DEF BaseInv, DiskOK, FileOK
<1>5. StageOK'
  BY <1>1 DEF BaseInv, StageOK
<1>. QED BY <1>2, <1>3, <1>4, <1>5 DEF BaseInv

LEMMA NotMadeIs == /\ NotMade \in Files /\ NotMade.made = FALSE /\ NotMade.stage = "todo"
                   /\ NotMade.at = NoFile
  BY EmptySeq DEF NotMade, Files, NoFile

LEMMA RestartBase ==
    ASSUME BaseInv, RestartFiles
    PROVE  BaseInv' /\ Grown
<1>1. RestartInsight /\ file' = NotMade /\ UNCHANGED <<lastFile, skipped>>
  BY DEF RestartFiles
<1>2. AppInv' /\ hist'.pc = "network"
  BY <1>1, RestartInv, StartedIsHist DEF BaseInv, RestartInsight
<1>3. DiskOK' /\ Grown
  <2>1. CASE best' = best
    <3>1. UNCHANGED <<best, disk>>
      BY <2>1 DEF RestartFiles
    <3>. QED BY <3>1, SameDisk DEF BaseInv, DiskOK
  <2>2. CASE best' # best
    <3>1. Write(best') /\ best' \in Block /\ Depth[best'] > Depth[best]
      BY <2>2 DEF RestartFiles, RestartInsight
    <3>. QED BY <3>1, DiskGrows DEF BaseInv
  <2>. QED BY <2>1, <2>2
<1>4. Len(disk) \in Nat /\ Len(disk') \in Nat /\ Len(disk) <= Len(disk')
  BY <1>3, DiskFacts DEF Grown, DiskOK, IsDisk, BaseInv
<1>5. FileOK'
  BY <1>1, <1>4, NotMadeIs DEF FileOK, BaseInv, NoFile
<1>6. StageOK'
  BY <1>1, <1>2, NotMadeIs DEF StageOK
<1>. QED BY <1>2, <1>3, <1>5, <1>6 DEF BaseInv

\* The steps that leave the disk and bitcoind alone.
LEMMA SameFiles ==
    ASSUME BaseInv, AppInv', UNCHANGED <<best, disk>>, lastFile' \in NoFile..(Len(disk) - 1),
           skipped' \in BOOLEAN, file' \in Files, IsReader(file)' \/ file'.made = FALSE, StageOK'
    PROVE  BaseInv' /\ Grown
<1>1. DiskOK' /\ Grown
  BY SameDisk DEF BaseInv, DiskOK
<1>2. FileOK'
  BY DEF FileOK
<1>. QED BY <1>1, <1>2 DEF BaseInv

LEMMA PrepareBase ==
    ASSUME BaseInv, PrepareFiles
    PROVE  BaseInv' /\ Grown
<1>1. hist.pc = "getBlock" /\ UNCHANGED <<appVars, disk, lastFile, skipped>>
  BY DEF PrepareFiles, FileAt, HistAt
<1>2. AppInv' /\ hist' = hist
  BY <1>1, AppNextInv DEF BaseInv, appVars
<1>3. file' \in Files /\ (IsReader(file)' \/ file'.made = FALSE)
  <2>1. CASE ByRpc
    <3>1. file' = [file EXCEPT !.stage = "go"]
      BY <2>1 DEF PrepareFiles
    <3>. QED BY <1>1, <3>1 DEF BaseInv, FileOK, IsReader, Files
  <2>2. CASE ~ByRpc
    <3>1. file' = [NotMade EXCEPT !.made = TRUE,
                                  !.stage = IF hist.cur = Genesis THEN "go" ELSE "seek",
                                  !.at = IF lastFile = NoFile THEN 0 ELSE lastFile,
                                  !.n = Len(disk), !.saved = file.saved,
                                  !.goal = Branch[best]]
      BY <2>2 DEF PrepareFiles
    <3>2. Len(disk) \in Nat /\ Len(disk) > 0 /\ best \in Block
      BY DiskFacts DEF BaseInv, DiskOK, AppInv, HistOK, AppTypeOK
    <3>3. Branch[best] \in SUBSET Block
      BY <3>2, Branches
    <3>4. file' \in Files
      <4>1. (IF lastFile = NoFile THEN 0 ELSE lastFile) \in Int /\ Len(disk) \in Nat /\ file.saved \in Int
        BY <3>2 DEF BaseInv, FileOK, Files, NoFile
      <4>2. (IF hist.cur = Genesis THEN "go" ELSE "seek") \in {"go", "seek"}
        OBVIOUS
      <4>. QED BY <3>1, <3>3, <4>1, <4>2, NotMadeIs DEF Files
    <3>5. /\ file'.at = IF lastFile = NoFile THEN 0 ELSE lastFile
          /\ file'.n = Len(disk)
      BY <3>1, NotMadeIs DEF Files
    <3>6. IsReader(file)'
      BY <1>1, <3>2, <3>4, <3>5 DEF BaseInv, FileOK, IsReader, NoFile
    <3>. QED BY <3>4, <3>6
  <2>. QED BY <2>1, <2>2
<1>4. StageOK'
  <2>1. hist'.pc = "getBlock"
    BY <1>1, <1>2
  <2>2. file'.stage \in {"go", "seek"} /\ (file'.stage = "seek" => file'.made)
    BY NotMadeIs DEF PrepareFiles, BaseInv, FileOK, Files
  <2>. QED BY <2>1, <2>2 DEF StageOK
<1>. QED BY <1>1, <1>2, <1>3, <1>4, SameFiles DEF BaseInv, FileOK, appVars

\* A block goes to the seeking loop, or waits for the put.
LEMMA SeekBase ==
    ASSUME BaseInv, hist.pc = "getBlock", up, NEW f, f \in Files, f.made, IsReader(f),
           UNCHANGED <<appVars, disk, skipped>>, lastFile' \in NoFile..(Len(disk) - 1),
           NEW g \in {"seek", "seekPut", "go", "goPut"}, NEW b \in Block \cup {Null},
           file' = [f EXCEPT !.stage = g, !.got = b],
           g \in {"seekPut", "goPut"} => b \in Block /\ f.at # NoFile
    PROVE  BaseInv' /\ Grown
<1>1. AppInv' /\ hist' = hist
  BY AppNextInv DEF BaseInv, appVars
<1>2. /\ file' \in Files /\ file'.stage = g /\ file'.got = b /\ file'.at = f.at
      /\ SameReader(f, file')
  <2>1. file' = Held(f, g, b)
    BY DEF Held
  <2>2. f \in Files /\ g \in StageNames /\ b \in Block \cup {Null}
    BY DEF StageNames
  <2>. QED BY ONLY <2>1, <2>2, HeldBlock
<1>3. IsReader(file)'
  BY <1>2 DEF IsReader, SameReader
<1>4. StageOK'
  BY <1>1, <1>2 DEF StageOK, SameReader
<1>. QED BY <1>1, <1>2, <1>3, <1>4, SameFiles DEF BaseInv, FileOK, appVars

LEMMA StoreBase ==
    ASSUME BaseInv, hist.pc = "getBlock", up, NEW f, f \in Files, f.made, IsReader(f),
           NEW b \in Block, StoreRead(b, f),
           UNCHANGED <<best, wire, allowReorgs, disk, skipped>>,
           lastFile' \in NoFile..(Len(disk) - 1)
    PROVE  /\ BaseInv' /\ Grown /\ pc[Historic] = "idle" /\ hist'.pc = "store"
           /\ Call(Historic, [blk |-> b, allow |-> TRUE]) /\ hist' = [hist EXCEPT !.pc = "store"]
<1>1. Call(Historic, [blk |-> b, allow |-> TRUE]) /\ hist' = [hist EXCEPT !.pc = "store"]
  BY DEF StoreRead
<1>2. hist' = [hist EXCEPT !.pc = "store", !.cur = hist.cur] /\ hist.cur \in Block \cup {Null}
  BY <1>1 DEF BaseInv, AppInv, HistOK, AppTypeOK, Hists
<1>3. AppInv' /\ pc[Historic] = "idle" /\ hist'.pc = "store"
  BY <1>1, <1>2, StoreCallInv DEF BaseInv
<1>4. file' \in Files /\ file'.stage = "go" /\ file'.at = f.at /\ SameReader(f, file')
  <2>1. file' = Held(f, "go", Null)
    BY DEF StoreRead, Held
  <2>2. f \in Files /\ "go" \in StageNames /\ Null \in Block \cup {Null}
    BY DEF StageNames
  <2>. QED BY ONLY <2>1, <2>2, HeldBlock
<1>5. IsReader(file)'
  BY <1>4 DEF IsReader, SameReader
<1>6. StageOK'
  BY <1>3, <1>4 DEF StageOK, SameReader
<1>. QED BY <1>1, <1>3, <1>4, <1>5, <1>6, SameFiles DEF BaseInv, FileOK

\* The last block of a file, or of all, is behind: a sync ends.
LEMMA SeekFileBase ==
    ASSUME BaseInv, SeekFile
    PROVE  BaseInv' /\ Grown
<1>. DEFINE b == NextOf(file).blk
            f == NextOf(file).file
<1>1. /\ up /\ hist.pc = "getBlock" /\ file.stage = "seek" /\ file.made /\ IsReader(file)
      /\ UNCHANGED <<best, wire, allowReorgs, disk, lastFile, skipped>>
  BY DEF SeekFile, FileAt, HistAt, BaseInv, StageOK, FileOK
<1>2. Gives(file, b, f) /\ f \in Files /\ IsReader(f)
  BY <1>1, NextOfTypes, DiskFacts DEF BaseInv, DiskOK, Gives, IsReader
<1>3. \/ /\ b = Null
         /\ hist' = [hist EXCEPT !.pc = "off", !.status = "error"]
         /\ file' = [f EXCEPT !.stage = "todo"]
         /\ UNCHANGED vars
      \/ b # Null /\ SeekUntil(b, f)
      \/ b # Null /\ file' = [f EXCEPT !.stage = "seekPut", !.got = b] /\ UNCHANGED <<vars, hist>>
  BY DEF SeekFile
<1>. HIDE DEF b, f
<1>4. f.made /\ b \in Block \cup {Null} /\ (b # Null => f.at # NoFile)
  BY <1>1, <1>2 DEF Gives, SameReader
<1>5. lastFile' \in NoFile..(Len(disk) - 1)
  BY <1>1 DEF BaseInv, FileOK
<1>6. CASE /\ hist' = [hist EXCEPT !.pc = "off", !.status = "error"]
           /\ file' = [f EXCEPT !.stage = "todo"]
           /\ UNCHANGED vars
  <2>1. HistOK' /\ hist'.pc = "off"
    BY <1>1, <1>6 DEF BaseInv, AppInv, HistOK, AppTypeOK, RunningIsShown, WalkOK, Hists, Statuses
  <2>2. Inv'
    BY <1>6, OutsideSync DEF BaseInv, AppInv, vars, dbVars, callVars, Inv, SyncTypeOK
  <2>3. AppInv'
    BY <1>1, <1>6, <2>1, <2>2, HistMoves DEF vars, BaseInv
  <2>4. file' \in Files /\ file'.stage = "todo" /\ file'.at = f.at /\ file'.n = f.n
    BY <1>2, <1>6 DEF Files
  <2>5. IsReader(file)'
    BY <1>1, <1>2, <2>4 DEF IsReader
  <2>6. StageOK'
    BY <2>1, <2>4 DEF StageOK
  <2>. QED BY <1>1, <1>5, <2>3, <2>4, <2>5, <2>6, SameFiles DEF BaseInv, FileOK
<1>7. CASE b # Null /\ SeekUntil(b, f)
  <2>1. UNCHANGED appVars
    BY <1>1, <1>7 DEF SeekUntil, appVars
  <2>2. file' = [f EXCEPT !.stage = IF b = hist.cur THEN "go" ELSE "seek", !.got = Null]
    BY <1>7 DEF SeekUntil
  <2>3. (IF b = hist.cur THEN "go" ELSE "seek") \in {"seek", "seekPut", "go", "goPut"} \ {"seekPut", "goPut"}
    OBVIOUS
  <2>. QED BY <1>1, <1>2, <1>4, <1>5, <2>1, <2>2, <2>3, SeekBase
<1>8. CASE b # Null /\ file' = [f EXCEPT !.stage = "seekPut", !.got = b] /\ UNCHANGED <<vars, hist>>
  <2>1. UNCHANGED appVars
    BY <1>1, <1>8 DEF appVars
  <2>. QED BY <1>1, <1>2, <1>4, <1>5, <1>8, <2>1, SeekBase
<1>. QED BY <1>3, <1>6, <1>7, <1>8

LEMMA ReadFileBase ==
    ASSUME BaseInv, ReadFile
    PROVE  BaseInv' /\ Grown
<1>. DEFINE b == NextOf(file).blk
            f == NextOf(file).file
<1>1. /\ up /\ hist.pc = "getBlock" /\ file.made /\ IsReader(file)
      /\ UNCHANGED <<best, wire, disk, lastFile, skipped>>
  BY DEF ReadFile, FileAt, HistAt, BaseInv, StageOK, FileOK
<1>2. Gives(file, b, f) /\ f \in Files /\ IsReader(f)
  BY <1>1, NextOfTypes, DiskFacts DEF BaseInv, DiskOK, Gives, IsReader
<1>3. \/ /\ b = Null
         /\ EndSync("finished")
         /\ file' = [f EXCEPT !.stage = "todo"]
         /\ UNCHANGED vars
      \/ b # Null /\ StoreRead(b, f) /\ UNCHANGED allowReorgs
      \/ /\ b # Null /\ file' = [f EXCEPT !.stage = "goPut", !.got = b]
         /\ UNCHANGED <<vars, hist, allowReorgs>>
  BY DEF ReadFile
<1>. HIDE DEF b, f
<1>4. f.made /\ b \in Block \cup {Null} /\ (b # Null => f.at # NoFile)
  BY <1>1, <1>2 DEF Gives, SameReader
<1>5. lastFile' \in NoFile..(Len(disk) - 1)
  BY <1>1 DEF BaseInv, FileOK
<1>6. CASE EndSync("finished") /\ file' = [f EXCEPT !.stage = "todo"] /\ UNCHANGED vars
  <2>1. AppInv' /\ hist'.pc = "off"
    BY <1>1, <1>6, EndSyncInv DEF BaseInv, Statuses
  <2>2. file' \in Files /\ file'.stage = "todo" /\ file'.at = f.at /\ file'.n = f.n
    BY <1>2, <1>6 DEF Files
  <2>3. IsReader(file)'
    BY <1>1, <1>2, <2>2 DEF IsReader
  <2>4. StageOK'
    BY <2>1, <2>2 DEF StageOK
  <2>. QED BY <1>1, <1>5, <2>1, <2>2, <2>3, <2>4, SameFiles DEF BaseInv, FileOK
<1>7. CASE b # Null /\ StoreRead(b, f) /\ UNCHANGED allowReorgs
  BY <1>1, <1>2, <1>4, <1>5, <1>7, StoreBase
<1>8. CASE /\ b # Null /\ file' = [f EXCEPT !.stage = "goPut", !.got = b]
           /\ UNCHANGED <<vars, hist, allowReorgs>>
  <2>1. UNCHANGED appVars
    BY <1>1, <1>8 DEF appVars
  <2>. QED BY <1>1, <1>2, <1>4, <1>5, <1>8, <2>1, SeekBase
<1>. QED BY <1>3, <1>6, <1>7, <1>8

LEMMA SaveIndexBase ==
    ASSUME BaseInv, SaveIndex
    PROVE  BaseInv' /\ Grown
<1>. DEFINE f == [file EXCEPT !.saved = file.at]
            b == file.got
<1>1. \/ FileAt("seekPut") /\ SeekUntil(b, f)
      \/ FileAt("goPut") /\ StoreRead(b, f)
  BY DEF SaveIndex
<1>2. /\ up /\ hist.pc = "getBlock" /\ file.made /\ IsReader(file) /\ file.at # NoFile /\ b \in Block
      /\ UNCHANGED <<best, wire, allowReorgs, disk, skipped>> /\ lastFile' = file.at
  BY <1>1 DEF SaveIndex, FileAt, HistAt, BaseInv, StageOK, FileOK
<1>3. /\ f \in Files /\ f.made = file.made /\ f.at = file.at /\ f.n = file.n
  BY DEF BaseInv, FileOK, Files
<1>. HIDE DEF b, f
<1>4. IsReader(f) /\ f.made
  BY <1>2, <1>3 DEF IsReader
<1>5. lastFile' \in NoFile..(Len(disk) - 1)
  BY <1>2, DiskFacts DEF IsReader, NoFile, Files, BaseInv, DiskOK
<1>6. CASE SeekUntil(b, f)
  <2>1. UNCHANGED appVars
    BY <1>2, <1>6 DEF SeekUntil, appVars
  <2>2. file' = [f EXCEPT !.stage = IF b = hist.cur THEN "go" ELSE "seek", !.got = Null]
    BY <1>6 DEF SeekUntil
  <2>3. (IF b = hist.cur THEN "go" ELSE "seek") \in {"seek", "seekPut", "go", "goPut"} \ {"seekPut", "goPut"}
    OBVIOUS
  <2>. QED BY <1>2, <1>3, <1>4, <1>5, <2>1, <2>2, <2>3, SeekBase
<1>7. CASE StoreRead(b, f)
  BY <1>2, <1>3, <1>4, <1>5, <1>7, StoreBase
<1>. QED BY <1>1, <1>6, <1>7

\* Where the steps before the loop of start() lead.
LEMMA NotToStore ==
    ASSUME AppInv, CheckNetwork \/ CountBlocks \/ ReadTip \/ TipInfo \/ TipNotMain
    PROVE  /\ hist.pc \notin {"getBlock", "store"} /\ hist'.pc # "store"
           /\ UNCHANGED <<best, callVars, tip, prev>>
<1>1. hist \in Hists /\ Hists = Hists
  BY DEF AppInv, HistOK, AppTypeOK
<1>2. CASE CheckNetwork
  BY <1>1, <1>2 DEF CheckNetwork, HistAt, Hists, vars, callVars
<1>3. CASE CountBlocks \/ ReadTip
  BY <1>1, <1>3 DEF CountBlocks, ReadTip, TipFound, HistAt, Hists, dbVars
<1>4. ASSUME NEW h \in Hists, h.pc # "store", TestTip(h) PROVE hist'.pc # "store"
  <2>1. \/ hist' = h
        \/ Begin(h.cur)
        \/ hist' = [h EXCEPT !.pc = "tipInfo", !.old = h.cur, !.cur = ParentOf[h.cur]]
        \/ hist' = [h EXCEPT !.pc = "tipInfo", !.old = h.cur, !.cur = Null]
    BY <1>4 DEF TestTip
  <2>2. CASE hist' = h
    BY <1>4, <2>2
  <2>3. CASE Begin(h.cur)
    BY <1>1, <2>3 DEF Begin, Hists
  <2>4. ASSUME NEW c, hist' = [h EXCEPT !.pc = "tipInfo", !.old = h.cur, !.cur = c]
        PROVE  hist'.pc # "store"
    BY <2>4 DEF Hists
  <2>. QED BY <2>1, <2>2, <2>3, <2>4
<1>5. CASE TipInfo
  <2>1. PICK seen \in {"unknown", "stale", "main"} :
            LET h == [hist EXCEPT !.seen = seen]
            IN  IF h.old = Null THEN TestTip(h) ELSE hist' = [h EXCEPT !.pc = "notMain"] /\ UNCHANGED up
    BY <1>5 DEF TipInfo
  <2>. DEFINE h == [hist EXCEPT !.seen = seen]
  <2>2. hist.pc = "tipInfo" /\ h \in Hists /\ h.pc = hist.pc /\ h.old = hist.old
    BY <1>1, <1>5 DEF TipInfo, HistAt, Hists
  <2>3. hist'.pc # "store"
    <3>1. CASE hist.old = Null
      <4>1. TestTip(h)
        BY <2>1, <2>2, <3>1
      <4>. HIDE DEF h
      <4>. QED BY <1>4, <2>2, <4>1
    <3>2. CASE hist.old # Null
      BY <1>1, <2>1, <2>2, <3>2 DEF Hists
    <3>. QED BY <3>1, <3>2
  <2>. QED BY <1>5, <2>2, <2>3 DEF TipInfo, dbVars
<1>6. CASE TipNotMain
  <2>1. hist.pc = "tipInfo" \/ hist.pc = "notMain"
    BY <1>6 DEF TipNotMain, HistAt
  <2>2. hist'.pc # "store"
    BY <1>1, <1>4, <1>6, <2>1 DEF TipNotMain
  <2>. QED BY <1>6, <2>1, <2>2 DEF TipNotMain
<1>. QED BY <1>2, <1>3, <1>5, <1>6

\* A sync that is storing goes on, goes back to its loop, or ends.
LEMMA StepLeads ==
    ASSUME AppInv, HistoricStep
    PROVE  /\ hist.pc = "store" /\ UNCHANGED best
           /\ hist'.pc \in {"off", "getBlock", "store"}
<1>1. hist.pc = "store" /\ hist \in Hists
  BY StepLocks, TheSyncs DEF AppInv, HistoricStep, HistoricIsAlone, HistOK, AppTypeOK
<1>2. hist'.pc = "off" \/ hist' = hist \/ hist' = [hist EXCEPT !.pc = "getBlock"]
  <2>1. EndSync("error") => hist'.pc = "off"
    BY <1>1, EndSyncOK DEF EndSync, Started, Hists
  <2>. QED BY <2>1 DEF HistoricStep
<1>. QED BY <1>1, <1>2 DEF HistoricStep, Hists

LEMMA WithoutBase ==
    ASSUME BaseInv, WithoutFiles
    PROVE  BaseInv' /\ Grown
<1>1. AppInv' /\ UNCHANGED best
  <2>1. AppInv'
    BY CheckNetworkInv, TipReadInv, TipInfoInv, TipNotMainInv, GetBlockInv, HistoricStepInv
       DEF WithoutFiles, BaseInv
  <2>. QED BY <2>1, NotToStore, StepLeads DEF WithoutFiles, BaseInv, GetBlock
<1>2. /\ file' \in Files /\ SameReader(file, file') /\ file'.at = file.at /\ file'.got = file.got
      /\ file'.stage = IF hist'.pc = "off" THEN "todo" ELSE file.stage
  BY DEF WithoutFiles, BaseInv, FileOK, SameReader, Files
<1>3. UNCHANGED <<disk, lastFile>> /\ skipped' \in BOOLEAN
  BY DEF WithoutFiles, NoteSkipped, BaseInv, FileOK
<1>4. IsReader(file)' \/ file'.made = FALSE
  BY <1>2, <1>3 DEF IsReader, SameReader, BaseInv, FileOK
<1>5. StageOK'
  <2>1. CASE CheckNetwork \/ CountBlocks \/ ReadTip \/ TipInfo \/ TipNotMain
    BY <1>2, <2>1, NotToStore DEF BaseInv, StageOK
  <2>2. CASE HistoricStep
    BY <1>2, <2>2, StepLeads DEF BaseInv, StageOK
  <2>3. CASE FileAt("go") /\ ~file.made /\ GetBlock
    <3>1. hist.pc = "getBlock" /\ file.stage = "go" /\ hist \in Hists
      BY <2>3 DEF FileAt, HistAt, BaseInv, AppInv, HistOK, AppTypeOK
    <3>2. hist'.pc \in {"off", "store"}
      BY <2>3, <3>1 DEF GetBlock, EndSync, Started, Hists
    <3>. QED BY <1>2, <3>1, <3>2 DEF StageOK
  <2>. QED BY <2>1, <2>2, <2>3 DEF WithoutFiles
<1>. QED BY <1>1, <1>2, <1>3, <1>4, <1>5, SameFiles DEF BaseInv, FileOK

LEMMA PeersBase ==
    ASSUME BaseInv, FromPeers
    PROVE  BaseInv' /\ Grown
<1>1. AppInv'
  BY PeerCallInv, PeerStepInv DEF FromPeers, PeerOwn, BaseInv
<1>2. UNCHANGED <<best, disk, lastFile, file>> /\ skipped' \in BOOLEAN
  BY DEF FromPeers, PeerOwn, HandleBlock, PeerStep, RetryBlock, NoteSkipped, BaseInv, FileOK
<1>3. hist' = hist \/ (hist.pc = "off" /\ hist'.pc = "network")
  BY StartedIsHist DEF FromPeers, PeerOwn, HandleBlock, PeerStep, RetryBlock, Start, BaseInv, AppInv, HistOK, RunningIsShown
<1>4. StageOK'
  BY <1>2, <1>3 DEF BaseInv, StageOK
<1>. QED BY <1>1, <1>2, <1>4, SameFiles DEF BaseInv, FileOK, IsReader

LEMMA BaseInit == FileInit => BaseInv
<1>. SUFFICES ASSUME FileInit PROVE BaseInv
  OBVIOUS
<1>1. IsDisk(disk) /\ IsFiles(disk) /\ Len(disk) \in Nat /\ Len(disk) > 0
  BY FileConstants, DiskFacts DEF FileInit
<1>2. best \in Blocks(disk) /\ best \in Block
  BY <1>1, BlocksAre DEF FileInit
<1>3. AppInv
  BY <1>2, AppInitInv DEF FileInit, InsightInit
<1>4. DiskOK
  BY <1>1, <1>2 DEF FileInit, DiskOK
<1>5. FileOK
  <2>1. file = NotMade /\ lastFile = NoFile /\ skipped = FALSE
    BY DEF FileInit
  <2>2. NoFile \in NoFile..(Len(disk) - 1)
    BY <1>1 DEF NoFile
  <2>. QED BY <2>1, <2>2, NotMadeIs DEF FileOK
<1>6. StageOK
  BY NotMadeIs, StartedIsHist DEF FileInit, StageOK
<1>. QED BY <1>3, <1>4, <1>5, <1>6 DEF BaseInv

LEMMA BaseStutter ==
    ASSUME BaseInv, UNCHANGED fileVars
    PROVE  BaseInv' /\ Grown
<1>1. AppInv' /\ hist' = hist /\ best' = best
  BY AppNextInv DEF BaseInv, appVars, fileVars
<1>2. UNCHANGED <<disk, lastFile, file, skipped>>
  BY DEF fileVars
<1>3. StageOK'
  BY <1>1, <1>2 DEF BaseInv, StageOK
<1>. QED BY <1>1, <1>2, <1>3, SameFiles DEF BaseInv, FileOK, IsReader

LEMMA BaseNext == BaseInv /\ [FileNext]_fileVars => BaseInv' /\ Grown
<1>. SUFFICES ASSUME BaseInv, [FileNext]_fileVars PROVE BaseInv' /\ Grown
  OBVIOUS
<1>1. CASE \E b \in Block : Mine(b)
  BY <1>1, MineBase
<1>2. CASE FromFiles
  BY <1>2, PrepareBase, SeekFileBase, ReadFileBase, SaveIndexBase, WithoutBase DEF FromFiles
<1>3. CASE FromPeers
  BY <1>3, PeersBase
<1>4. CASE RestartFiles
  BY <1>4, RestartBase
<1>5. CASE UNCHANGED fileVars
  BY <1>5, BaseStutter
<1>. QED BY <1>1, <1>2, <1>3, <1>4, <1>5 DEF FileNext

LEMMA BaseInvariance == FileSpec => []BaseInv
<1>1. BaseInv /\ [FileNext]_fileVars => BaseInv'
  BY BaseNext
<1>. QED BY <1>1, BaseInit, PTL DEF FileSpec

\* With bitcoind's files, too, every variable keeps its type: what getNextBlock
\* gives is a block or the end, a block that waits for the put is one, and the
\* saved number is that of a file, although bitcoind appends to its last file
\* and starts others between any two reads and while the program is down.
THEOREM FilesTypes == FileSpec => []FileTypeOK
<1>1. BaseInv => FileTypeOK
  BY DiskFacts DEF BaseInv, AppInv, Inv, HistOK, AppTypeOK, InsightTypeOK, FileTypeOK, DiskOK, FileOK,
                   IsReader, IsFiles
<1>. QED BY <1>1, BaseInvariance, PTL

-----------------------------------------------------------------------------
(* What a step of storeTipBlock does to the tip and to its own call *)

\* From these points on a call allows reorganisations, or has the block stored.
AllowFrom(s) == pc[s] \notin {"idle", "addTxs", "addBlock", "setNext"} => frame[s].allow
StoredFrom(s) == pc[s] \in {"putTip", "setNext"} => Has(frame[s].blk)

OthersKept(s) == \A r \in Syncs \ {s} : pc'[r] = pc[r] /\ frame'[r] = frame[r]

\* The call of s is at one of the points P, for block b.
GoesTo(s, P, b, a) ==
    /\ OthersKept(s)
    /\ pc'[s] \in P
    /\ frame'[s].blk = b
    /\ frame'[s].allow = a

LEMMA GotoMoves ==
    ASSUME Inv, NEW s \in Syncs, NEW p, NEW f, Goto(s, p, f)
    PROVE  OthersKept(s) /\ pc'[s] = p /\ frame'[s] = f
  BY DEF Goto, Inv, SyncTypeOK, OthersKept

LEMMA TipReadMoves ==
    ASSUME Inv, NEW s \in Syncs, NEW f \in Frames, NEW t, TipRead(s, f, t)
    PROVE  GoesTo(s, {"getNext", "addTxs"}, f.blk, f.allow)
<1>1. CASE Goto(s, "getNext", f)
  BY <1>1, GotoMoves DEF GoesTo
<1>2. CASE StartAdd(s, [f EXCEPT !.height = t.height + 1])
  <2>. DEFINE g == [f EXCEPT !.height = t.height + 1]
  <2>1. Goto(s, "addTxs", g)
    BY <1>2 DEF StartAdd
  <2>2. g.blk = f.blk /\ g.allow = f.allow
    BY DEF Frames
  <2>. HIDE DEF g
  <2>. QED BY <2>1, <2>2, GotoMoves DEF GoesTo
<1>. QED BY <1>1, <1>2 DEF TipRead

LEMMA CallGetTipMoves ==
    ASSUME Inv, NEW s \in Syncs, NEW f \in Frames, CallGetTip(s, f)
    PROVE  GoesTo(s, {"getTip", "getNext", "addTxs"}, f.blk, f.allow)
<1>1. CASE TipRead(s, f, cachedTip)
  BY <1>1, TipReadMoves DEF GoesTo
<1>2. CASE Goto(s, "getTip", f)
  BY <1>2, GotoMoves DEF GoesTo
<1>. QED BY <1>1, <1>2 DEF CallGetTip

LEMMA EnterMoves ==
    ASSUME Inv, NEW s \in Syncs, NEW c \in Calls, Enter(s, c)
    PROVE  /\ GoesTo(s, {"has", "getTip", "getNext", "addTxs"}, c.blk, c.allow)
           /\ pc'[s] # "addTxs" => c.allow
<1>. DEFINE f == [NoFrame EXCEPT !.blk = c.blk, !.allow = c.allow]
<1>1. f \in Frames /\ f.blk = c.blk /\ f.allow = c.allow
  <2>1. c.blk \in Block /\ c.allow \in BOOLEAN
    BY SyncConstants DEF Calls
  <2>. QED BY <2>1, NoFrameIsFrame DEF Frames, NoFrame
<1>2. \/ ~c.allow /\ StartAdd(s, f)
      \/ c.allow /\ CallGetTip(s, f)
      \/ c.allow /\ Goto(s, "has", f)
  BY DEF Enter
<1>. HIDE DEF f
<1>3. CASE ~c.allow /\ StartAdd(s, f)
  BY <1>1, <1>3, GotoMoves DEF StartAdd, GoesTo
<1>4. CASE c.allow /\ CallGetTip(s, f)
  BY <1>1, <1>4, CallGetTipMoves DEF GoesTo
<1>5. CASE c.allow /\ Goto(s, "has", f)
  BY <1>1, <1>5, GotoMoves DEF GoesTo
<1>. QED BY <1>2, <1>3, <1>4, <1>5

\* A call that is made or made again: nothing of the index changes.
LEMMA CallMoves ==
    ASSUME Inv, NEW s \in Syncs, NEW c \in Calls, Call(s, c) \/ Retry(s, c)
    PROVE  /\ UNCHANGED <<dbVars, cachedTip, up>> /\ OthersKept(s)
           /\ \A r \in Syncs \ {s} : delayed'[r] = delayed[r]
           /\ delayed'[s] \subseteq delayed[s] \cup {c}
           /\ \/ UNCHANGED <<pc, frame>>
              \/ /\ pc[s] = "idle"
                 /\ GoesTo(s, {"has", "getTip", "getNext", "addTxs"}, c.blk, c.allow)
                 /\ pc'[s] # "addTxs" => c.allow
<1>1. /\ UNCHANGED <<dbVars, cachedTip, up>>
      /\ \A r \in Syncs \ {s} : delayed'[r] = delayed[r]
      /\ delayed'[s] \subseteq delayed[s] \cup {c}
  BY DEF Call, Retry, Inv, SyncTypeOK
<1>2. CASE pc[s] = "idle" /\ Enter(s, c)
  BY <1>1, <1>2, EnterMoves DEF GoesTo
<1>3. CASE UNCHANGED <<pc, frame>>
  BY <1>1, <1>3 DEF OthersKept
<1>. QED BY <1>1, <1>2, <1>3 DEF Call, Retry, At, callVars

Moved1(s) ==
    /\ OthersKept(s)
    /\ \/ pc'[s] = "idle" /\ frame'[s] = NoFrame
       \/ pc'[s] # "idle" /\ frame'[s].blk = frame[s].blk /\ frame'[s].allow = frame[s].allow

\* The steps before bDb.add.
LEMMA ReorgMoves ==
    ASSUME Inv, NEW s \in Syncs,
           \/ HasPrev(s) \/ GetTip(s) \/ GetNext(s) \/ ReorgHeight(s) \/ BackPrev(s)
           \/ BackHeight(s) \/ Connect(s) \/ YNext(s) \/ SetYNext(s) \/ Orphan(s) \/ OrphanNext(s)
    PROVE  /\ Moved1(s) /\ UNCHANGED <<prev, tip>>
           /\ pc[s] \notin {"idle", "addTxs", "addBlock", "putTip", "setNext"}
           /\ pc'[s] \notin {"addBlock", "putTip", "setNext"}
           /\ cachedTip' = cachedTip \/ (cachedTip' = tip /\ pc[s] = "getTip")
           /\ pc'[s] = "idle" => pc[s] = "has" /\ ~Has(NewPrev(frame[s])) /\ NewPrev(frame[s]) # Zero
<1>. DEFINE f == frame[s]
<1>1. f \in Frames
  BY OwnFrame DEF Inv
<1>. DEFINE Later == {"getTip", "getNext", "reorgHeight", "backPrev", "backHeight", "connect",
                      "yNext", "setYNext", "orphan", "orphanNext", "addTxs"}
<1>2. ASSUME NEW p \in Later, NEW g, Goto(s, p, g), g.blk = f.blk, g.allow = f.allow
      PROVE  Moved1(s) /\ pc'[s] \notin {"addBlock", "putTip", "setNext", "idle"}
  <2>1. OthersKept(s) /\ pc'[s] = p /\ frame'[s] = g
    BY <1>2, GotoMoves
  <2>. QED BY <1>2, <2>1 DEF Moved1
<1>3. ASSUME NEW P, P \subseteq Later, GoesTo(s, P, f.blk, f.allow)
      PROVE  Moved1(s) /\ pc'[s] \notin {"addBlock", "putTip", "setNext", "idle"}
  BY <1>3 DEF GoesTo, Moved1
<1>4. ASSUME NEW g, StartAdd(s, g), g.blk = f.blk, g.allow = f.allow
      PROVE  Moved1(s) /\ pc'[s] \notin {"addBlock", "putTip", "setNext", "idle"}
  <2>1. Goto(s, "addTxs", g)
    BY <1>4 DEF StartAdd
  <2>. QED BY <1>2, <1>4, <2>1
<1>5. ASSUME Throw, pc[s] \notin {"idle", "addTxs", "addBlock", "putTip", "setNext"}
      PROVE  Moved1(s) /\ pc'[s] \notin {"addBlock", "putTip", "setNext", "idle"}
  BY <1>5 DEF Throw, Moved1, OthersKept
<1>6. CASE HasPrev(s)
  <2>1. pc[s] = "has" /\ UNCHANGED <<prev, tip, cachedTip>>
    BY <1>6 DEF HasPrev, At, dbVars
  <2>2. CASE CallGetTip(s, f)
    <3>1. GoesTo(s, {"getTip", "getNext", "addTxs"}, f.blk, f.allow)
      BY <1>1, <2>2, CallGetTipMoves
    <3>. QED BY <1>3, <2>1, <3>1
  <2>3. CASE ~(Has(NewPrev(f)) \/ NewPrev(f) = Zero) /\ Return(s)
    <3>1. OthersKept(s) /\ pc'[s] = "idle" /\ frame'[s] = NoFrame
      BY <2>3, GotoMoves DEF Return
    <3>. QED BY <2>1, <2>3, <3>1 DEF Moved1
  <2>. QED BY <1>6, <2>2, <2>3 DEF HasPrev
<1>7. CASE GetTip(s)
  <2>1. pc[s] = "getTip" /\ UNCHANGED <<prev, tip>> /\ cachedTip' \in {cachedTip, tip}
        /\ TipRead(s, f, tip)
    BY <1>7 DEF GetTip, At, dbVars
  <2>2. GoesTo(s, {"getNext", "addTxs"}, f.blk, f.allow)
    BY <1>1, <2>1, TipReadMoves
  <2>. QED BY <1>3, <2>1, <2>2
<1>8. CASE GetNext(s) \/ BackPrev(s) \/ YNext(s)
  <2>1. pc[s] \in {"getNext", "backPrev", "yNext"} /\ UNCHANGED <<prev, tip, cachedTip>>
    BY <1>8 DEF GetNext, BackPrev, YNext, At, dbVars
  <2>2. CASE GetNext(s)
    <3>. DEFINE g == [f EXCEPT !.from = next[NewPrev(f)]]
    <3>1. Goto(s, "reorgHeight", g)
      BY <2>2 DEF GetNext
    <3>2. g.blk = f.blk /\ g.allow = f.allow
      BY <1>1 DEF Frames
    <3>. HIDE DEF g
    <3>. QED BY <1>2, <2>1, <3>1, <3>2
  <2>3. CASE BackPrev(s)
    <3>. DEFINE g == [f EXCEPT !.last = f.iter, !.iter = prev[f.iter]]
    <3>1. Goto(s, "backHeight", g)
      BY <2>3 DEF BackPrev
    <3>2. g.blk = f.blk /\ g.allow = f.allow
      BY <1>1 DEF Frames
    <3>. HIDE DEF g
    <3>. QED BY <1>2, <2>1, <3>1, <3>2
  <2>4. CASE YNext(s)
    <3>. DEFINE g == [f EXCEPT !.from = next[f.iter]]
    <3>1. Goto(s, "setYNext", g)
      BY <2>4 DEF YNext
    <3>2. g.blk = f.blk /\ g.allow = f.allow
      BY <1>1 DEF Frames
    <3>. HIDE DEF g
    <3>. QED BY <1>2, <2>1, <3>1, <3>2
  <2>. QED BY <1>8, <2>2, <2>3, <2>4
<1>9. CASE ReorgHeight(s)
  <2>1. pc[s] = "reorgHeight" /\ UNCHANGED <<prev, tip, cachedTip>>
    BY <1>9 DEF ReorgHeight, At, dbVars
  <2>2. CASE Throw
    BY <1>5, <2>1, <2>2
  <2>3. CASE StartBack(s, f, NewPrev(f))
    <3>. DEFINE g == [f EXCEPT !.from = Null, !.iter = NewPrev(f), !.branch = <<NewPrev(f)>>]
    <3>1. Goto(s, "backPrev", g)
      BY <2>3 DEF StartBack
    <3>2. g.blk = f.blk /\ g.allow = f.allow
      BY <1>1 DEF Frames
    <3>. HIDE DEF g
    <3>. QED BY <1>2, <2>1, <3>1, <3>2
  <2>4. CASE \E h : Goto(s, "orphan", [f EXCEPT !.height = h])
    <3>. PICK h : Goto(s, "orphan", [f EXCEPT !.height = h])
      BY <2>4
    <3>. DEFINE g == [f EXCEPT !.height = h]
    <3>2. g.blk = f.blk /\ g.allow = f.allow
      BY <1>1 DEF Frames
    <3>3. Goto(s, "orphan", g)
      OBVIOUS
    <3>. HIDE DEF g
    <3>. QED BY <1>2, <2>1, <3>2, <3>3
  <2>. QED BY <1>9, <2>2, <2>3, <2>4 DEF ReorgHeight
<1>10. CASE BackHeight(s)
  <2>1. pc[s] = "backHeight" /\ UNCHANGED <<prev, tip, cachedTip>>
    BY <1>10 DEF BackHeight, At, dbVars
  <2>2. CASE \E x : Goto(s, "backPrev", [f EXCEPT !.branch = x])
    <3>. PICK x : Goto(s, "backPrev", [f EXCEPT !.branch = x])
      BY <2>2
    <3>. DEFINE g == [f EXCEPT !.branch = x]
    <3>2. g.blk = f.blk /\ g.allow = f.allow
      BY <1>1 DEF Frames
    <3>3. Goto(s, "backPrev", g)
      OBVIOUS
    <3>. HIDE DEF g
    <3>. QED BY <1>2, <2>1, <3>2, <3>3
  <2>3. CASE \E h : Goto(s, "connect", [f EXCEPT !.height = h])
    <3>. PICK h : Goto(s, "connect", [f EXCEPT !.height = h])
      BY <2>3
    <3>. DEFINE g == [f EXCEPT !.height = h]
    <3>2. g.blk = f.blk /\ g.allow = f.allow
      BY <1>1 DEF Frames
    <3>3. Goto(s, "connect", g)
      OBVIOUS
    <3>. HIDE DEF g
    <3>. QED BY <1>2, <2>1, <3>2, <3>3
  <2>. QED BY <1>10, <2>2, <2>3 DEF BackHeight
<1>11. CASE Connect(s)
  <2>1. pc[s] = "connect" /\ UNCHANGED <<prev, tip, cachedTip>>
    BY <1>11 DEF Connect, At
  <2>2. CASE Throw
    BY <1>5, <2>1, <2>2
  <2>3. CASE Goto(s, IF Len(f.branch) = 1 THEN "yNext" ELSE "connect",
                  [f EXCEPT !.height = @ + 1, !.branch = Tail(@)])
    <3>. DEFINE g == [f EXCEPT !.height = @ + 1, !.branch = Tail(@)]
                p == IF Len(f.branch) = 1 THEN "yNext" ELSE "connect"
    <3>1. Goto(s, p, g) /\ p \in Later
      BY <2>3
    <3>2. g.blk = f.blk /\ g.allow = f.allow
      BY <1>1 DEF Frames
    <3>. HIDE DEF g, p
    <3>. QED BY <1>2, <2>1, <3>1, <3>2
  <2>. QED BY <1>11, <2>2, <2>3 DEF Connect
<1>12. CASE SetYNext(s)
  <2>1. pc[s] = "setYNext" /\ UNCHANGED <<prev, tip, cachedTip>>
    BY <1>12 DEF SetYNext, At
  <2>. QED BY <1>2, <1>4, <1>12, <2>1 DEF SetYNext
<1>13. CASE Orphan(s)
  <2>1. pc[s] = "orphan" /\ UNCHANGED <<prev, tip, cachedTip>>
    BY <1>13 DEF Orphan, At
  <2>. QED BY <1>2, <1>5, <1>13, <2>1 DEF Orphan
<1>14. CASE OrphanNext(s)
  <2>1. pc[s] = "orphanNext" /\ UNCHANGED <<prev, tip, cachedTip>>
    BY <1>14 DEF OrphanNext, At, dbVars
  <2>. DEFINE g == [f EXCEPT !.from = next[f.from]]
  <2>2. StartAdd(s, g) \/ Goto(s, "orphan", g)
    BY <1>14 DEF OrphanNext
  <2>3. g.blk = f.blk /\ g.allow = f.allow
    BY <1>1 DEF Frames
  <2>. HIDE DEF g
  <2>. QED BY <1>2, <1>4, <2>1, <2>2, <2>3
<1>. QED BY <1>6, <1>7, <1>8, <1>9, <1>10, <1>11, <1>12, <1>13, <1>14

LEMMA AddMoves ==
    ASSUME Inv, NEW s \in Syncs, AddTxs(s) \/ AddBlock(s) \/ StoreTip(s) \/ LinkPrev(s)
    PROVE  /\ Moved1(s)
           /\ \A b \in Block : Has(b) => Has(b)'
           /\ tip' = tip \/ (pc[s] = "putTip" /\ pc'[s] = "setNext" /\ tip'.hash = frame[s].blk)
           /\ cachedTip' = cachedTip \/ frame[s].allow
           /\ AllowFrom(s) => AllowFrom(s)'
           /\ StoredFrom(s) => StoredFrom(s)'
           /\ pc'[s] = "idle" => pc[s] = "setNext" \/ RpcFault
<1>. DEFINE f == frame[s]
<1>1. f \in Frames /\ ShapeOf(pc[s], f)
  BY OwnFrame DEF Inv
<1>2. ASSUME NEW p, Goto(s, p, f), p # "idle"
      PROVE  Moved1(s) /\ pc'[s] = p /\ frame'[s] = f
  BY <1>2, GotoMoves DEF Moved1
<1>3. ASSUME Return(s)
      PROVE  Moved1(s) /\ pc'[s] = "idle" /\ frame'[s] = NoFrame
  BY <1>3, GotoMoves DEF Moved1, Return
<1>4. CASE AddTxs(s)
  <2>1. UNCHANGED <<prev, tip, cachedTip>> /\ pc[s] = "addTxs"
    BY <1>4 DEF AddTxs, At
  <2>2. Goto(s, "addBlock", f) \/ (Return(s) /\ RpcFault)
    BY <1>4 DEF AddTxs
  <2>. QED BY <1>2, <1>3, <2>1, <2>2 DEF Has, AllowFrom, StoredFrom
<1>5. CASE AddBlock(s)
  <2>1. /\ UNCHANGED tip /\ pc[s] = "addBlock" /\ prev' = [prev EXCEPT ![f.blk] = ParentOf[f.blk]]
        /\ \/ f.allow /\ Goto(s, "putTip", f)
           \/ ~f.allow /\ UNCHANGED cachedTip /\ Goto(s, "setNext", f)
    BY <1>5 DEF AddBlock, At, AddBlockScript
  <2>2. f.blk \in Block /\ ParentOf[f.blk] # Null /\ prev \in [Hash -> Block \cup {Zero, Null}]
    BY <1>1, <2>1, BlockTree, Names DEF ShapeOf, Inv, SyncTypeOK, BlockDbTypeOK
  <2>3. \A b \in Block : Has(b) => Has(b)'
    BY <2>1, <2>2 DEF Has, Hash
  <2>4. prev'[f.blk] # Null
    BY <2>1, <2>2 DEF Has, Hash
  <2>5. frame'[s] = f /\ Moved1(s) /\ pc'[s] \in {"putTip", "setNext"} /\ (pc'[s] = "putTip" => f.allow)
    BY <1>2, <2>1
  <2>6. StoredFrom(s)'
    BY <2>4, <2>5 DEF StoredFrom, Has
  <2>. QED BY <2>1, <2>3, <2>5, <2>6 DEF AllowFrom
<1>6. CASE StoreTip(s)
  <2>1. /\ UNCHANGED <<prev, cachedTip>> /\ pc[s] = "putTip" /\ Goto(s, "setNext", f)
        /\ tip' = [hash |-> f.blk, height |-> f.height]
    BY <1>6 DEF StoreTip, At, PutTip
  <2>2. frame'[s] = f /\ Moved1(s) /\ pc'[s] = "setNext"
    BY <1>2, <2>1
  <2>. QED BY <2>1, <2>2 DEF Has, AllowFrom, StoredFrom
<1>7. CASE LinkPrev(s)
  <2>1. UNCHANGED <<prev, tip, cachedTip>> /\ pc[s] = "setNext" /\ Return(s)
    BY <1>7 DEF LinkPrev, At
  <2>. QED BY <1>3, <2>1 DEF Has, AllowFrom, StoredFrom
<1>. QED BY <1>4, <1>5, <1>6, <1>7

\* All steps of a call.
LEMMA StepMoves ==
    ASSUME Inv, NEW s \in Syncs, Step(s)
    PROVE  /\ Moved1(s)
           /\ \A b \in Block : Has(b) => Has(b)'
           /\ tip' = tip \/ (pc[s] = "putTip" /\ pc'[s] = "setNext" /\ tip'.hash = frame[s].blk)
           /\ AllowFrom(s) =>
                 /\ AllowFrom(s)'
                 /\ cachedTip' = cachedTip \/ frame[s].allow
           /\ StoredFrom(s) => StoredFrom(s)'
           /\ pc'[s] = "idle" => \/ pc[s] = "setNext"
                                 \/ RpcFault
                                 \/ pc[s] = "has" /\ ~Has(NewPrev(frame[s])) /\ NewPrev(frame[s]) # Zero
<1>1. CASE AddTxs(s) \/ AddBlock(s) \/ StoreTip(s) \/ LinkPrev(s)
  BY <1>1, AddMoves
<1>2. CASE \/ HasPrev(s) \/ GetTip(s) \/ GetNext(s) \/ ReorgHeight(s) \/ BackPrev(s)
           \/ BackHeight(s) \/ Connect(s) \/ YNext(s) \/ SetYNext(s) \/ Orphan(s) \/ OrphanNext(s)
  BY <1>2, ReorgMoves DEF Moved1, AllowFrom, StoredFrom, Has
<1>. QED BY <1>1, <1>2 DEF Step

-----------------------------------------------------------------------------
(* Who may reorganise, and when *)

Early == {"network", "count", "getTip"}

\* Until the first sync of the process has ended only that sync may change the
\* tip: the blocks that peers announce are stored without reorganisations.
PermitOK ==
    /\ ~hist.boot => allowReorgs
    /\ hist.boot /\ hist.pc # "off" => ~allowReorgs
    /\ frame[Peer].allow => allowReorgs
    /\ \A c \in delayed[Peer] : c.allow => allowReorgs
    /\ pc[Historic] # "idle" => frame[Historic].allow
    /\ \A s \in Syncs : AllowFrom(s) /\ StoredFrom(s)
    /\ hist.boot /\ hist.pc \in Early => cachedTip \in {NoTip, tip}
    /\ hist.boot /\ hist.pc # "off" /\ file.stage = "todo" => ~file.made

\* A step that calls no storeTipBlock.
LEMMA QuietPermit ==
    ASSUME PermitOK, UNCHANGED <<prev, tip, pc, frame, delayed>>, cachedTip' \in {cachedTip, tip},
           allowReorgs => allowReorgs', hist'.boot = hist.boot,
           hist'.pc # "off" =>
              /\ hist.pc # "off"
              /\ allowReorgs' = allowReorgs
              /\ hist'.pc \in Early => hist.pc \in Early
              /\ file'.stage = "todo" => file.stage = "todo" /\ file'.made = file.made
    PROVE  PermitOK'
<1>1. \A s \in Syncs : AllowFrom(s)' /\ StoredFrom(s)'
  BY DEF PermitOK, AllowFrom, StoredFrom, Has
<1>. QED BY <1>1 DEF PermitOK, Early

LEMMA FramesTyped ==
    ASSUME Inv
    PROVE  \A s \in Syncs : frame[s] \in Frames
  BY OwnFrame DEF Inv

LEMMA HistoricCallPermit ==
    ASSUME AppInv, PermitOK, NEW b \in Block, up, hist.pc = "getBlock",
           Call(Historic, [blk |-> b, allow |-> TRUE]), pc[Historic] = "idle",
           UNCHANGED allowReorgs, hist'.boot = hist.boot, hist'.pc = "store",
           file'.stage = "go"
    PROVE  /\ PermitOK' /\ UNCHANGED <<prev, tip>>
           /\ frame'[Historic].blk = b /\ pc'[Historic] # "idle"
           /\ \A r \in Syncs \ {Historic} : pc'[r] = pc[r] /\ frame'[r] = frame[r]
<1>. DEFINE c == [blk |-> b, allow |-> TRUE]
<1>1. c \in Calls /\ c.blk = b /\ c.allow = TRUE /\ Inv
  BY TheSyncs DEF AppInv
<1>. HIDE DEF c
<1>2. Call(Historic, c)
  BY DEF c
<1>3. /\ UNCHANGED <<dbVars, cachedTip, up>> /\ OthersKept(Historic)
      /\ \A r \in Syncs \ {Historic} : delayed'[r] = delayed[r]
      /\ \/ UNCHANGED <<pc, frame>>
         \/ GoesTo(Historic, {"has", "getTip", "getNext", "addTxs"}, c.blk, c.allow)
  BY <1>1, <1>2, CallMoves, TheSyncs
<1>4. pc'[Historic] # "idle"
  BY <1>1, <1>2, CallLocks, TheSyncs
<1>5. GoesTo(Historic, {"has", "getTip", "getNext", "addTxs"}, b, TRUE)
  BY <1>1, <1>3, <1>4
<1>6. /\ pc'[Peer] = pc[Peer] /\ frame'[Peer] = frame[Peer] /\ delayed'[Peer] = delayed[Peer]
  BY <1>3, TheSyncs DEF OthersKept
<1>7. \A s \in Syncs : AllowFrom(s)' /\ StoredFrom(s)'
  <2>1. AllowFrom(Historic)' /\ StoredFrom(Historic)'
    BY <1>5 DEF GoesTo, AllowFrom, StoredFrom
  <2>2. AllowFrom(Peer)' /\ StoredFrom(Peer)'
    BY <1>3, <1>6, TheSyncs DEF PermitOK, AllowFrom, StoredFrom, Has, dbVars
  <2>. QED BY <2>1, <2>2, InsightConstants
<1>8. frame'[Historic].blk = b /\ frame'[Historic].allow = TRUE
  BY <1>5 DEF GoesTo
<1>9. PermitOK'
  BY <1>3, <1>6, <1>7, <1>8 DEF PermitOK, Early
<1>. QED BY <1>3, <1>4, <1>8, <1>9 DEF OthersKept, dbVars

LEMMA HistoricStepPermit ==
    ASSUME AppInv, PermitOK, HistoricStep, file.stage = "go",
           file'.stage = IF hist'.pc = "off" THEN "todo" ELSE file.stage
    PROVE  PermitOK'
<1>1. Inv /\ up /\ hist.pc = "store" /\ hist \in Hists /\ Step(Historic) /\ UNCHANGED delayed
  BY StepLeads, StepLocks, StepFlags, TheSyncs DEF AppInv, HistoricStep, HistOK, AppTypeOK
<1>2. /\ Moved1(Historic)
      /\ \A b \in Block : Has(b) => Has(b)'
      /\ AllowFrom(Historic)' /\ StoredFrom(Historic)'
  BY <1>1, StepMoves, TheSyncs DEF PermitOK
<1>3. pc'[Peer] = pc[Peer] /\ frame'[Peer] = frame[Peer]
  BY <1>2, TheSyncs DEF Moved1, OthersKept
<1>4. pc'[Historic] # "idle" => frame'[Historic].allow
  BY <1>1, <1>2, StepLocks, TheSyncs DEF Moved1, PermitOK
<1>5. \A s \in Syncs : AllowFrom(s)' /\ StoredFrom(s)'
  <2>1. AllowFrom(Peer)'
    BY <1>3, TheSyncs DEF PermitOK, AllowFrom
  <2>2. StoredFrom(Peer)'
    <3>1. pc[Peer] # "idle" => frame[Peer].blk \in Block
      BY <1>1, TheSyncs DEF Inv, Shape, ShapeOf
    <3>. QED BY <1>2, <1>3, <3>1, TheSyncs DEF PermitOK, StoredFrom, Has
  <2>. QED BY <1>2, <2>1, <2>2, InsightConstants
<1>6. /\ allowReorgs => allowReorgs'
      /\ hist'.boot = hist.boot
      /\ hist'.pc # "off" => allowReorgs' = allowReorgs
      /\ hist'.pc \in {"off", "getBlock", "store"}
  BY <1>1 DEF HistoricStep, EndSync, Started, Hists
<1>. QED BY <1>1, <1>3, <1>4, <1>5, <1>6 DEF PermitOK, Early

LEMMA PeersPermit ==
    ASSUME AppInv, PermitOK, FromPeers
    PROVE  /\ PermitOK'
           /\ pc'[Historic] = pc[Historic] /\ frame'[Historic] = frame[Historic]
           /\ \A b \in Block : Has(b) => Has(b)'
           /\ UNCHANGED <<best, allowReorgs, disk, lastFile, file>>
           /\ ~allowReorgs => UNCHANGED tip /\ UNCHANGED hist
           /\ hist' = hist \/ (hist.pc = "off" /\ hist' = Started(FALSE))
<1>1. Inv /\ HistOK /\ UNCHANGED <<best, allowReorgs, disk, lastFile, file>>
  BY DEF FromPeers, PeerOwn, HandleBlock, PeerStep, RetryBlock, AppInv
<1>2. ASSUME NEW c \in Calls, Call(Peer, c) \/ Retry(Peer, c), c.allow => allowReorgs, UNCHANGED hist
      PROVE  /\ PermitOK'
             /\ pc'[Historic] = pc[Historic] /\ frame'[Historic] = frame[Historic]
             /\ UNCHANGED <<prev, tip>>
  <2>1. /\ UNCHANGED <<dbVars, cachedTip, up>> /\ OthersKept(Peer)
        /\ delayed'[Peer] \subseteq delayed[Peer] \cup {c}
        /\ \/ UNCHANGED <<pc, frame>>
           \/ /\ GoesTo(Peer, {"has", "getTip", "getNext", "addTxs"}, c.blk, c.allow)
              /\ pc'[Peer] # "addTxs" => c.allow
    BY <1>1, <1>2, CallMoves, TheSyncs
  <2>2. pc'[Historic] = pc[Historic] /\ frame'[Historic] = frame[Historic] /\ UNCHANGED <<prev, tip>>
    BY <2>1, TheSyncs DEF OthersKept, dbVars
  <2>3. AllowFrom(Historic)' /\ StoredFrom(Historic)'
    BY <2>2, TheSyncs DEF PermitOK, AllowFrom, StoredFrom, Has
  <2>4. AllowFrom(Peer)' /\ StoredFrom(Peer)' /\ (frame'[Peer].allow => allowReorgs)
    <3>1. CASE UNCHANGED <<pc, frame>>
      BY <2>2, <3>1, TheSyncs DEF PermitOK, AllowFrom, StoredFrom, Has
    <3>2. CASE /\ GoesTo(Peer, {"has", "getTip", "getNext", "addTxs"}, c.blk, c.allow)
               /\ pc'[Peer] # "addTxs" => c.allow
      BY <1>2, <3>2 DEF GoesTo, AllowFrom, StoredFrom
    <3>. QED BY <2>1, <3>1, <3>2
  <2>5. \A s \in Syncs : AllowFrom(s)' /\ StoredFrom(s)'
    BY <2>3, <2>4, InsightConstants
  <2>6. \A d \in delayed'[Peer] : d.allow => allowReorgs
    BY <1>2, <2>1 DEF PermitOK
  <2>. QED BY <1>1, <1>2, <2>1, <2>2, <2>4, <2>5, <2>6 DEF PermitOK, Early
<1>3. CASE HandleBlock
  <2>. DEFINE c == [blk |-> Head(wire), allow |-> allowReorgs]
  <2>1. c \in Calls /\ Call(Peer, c) /\ (c.allow => allowReorgs) /\ UNCHANGED hist
    BY <1>1, <1>3, TheSyncs DEF HandleBlock, HistOK, AppTypeOK
  <2>. HIDE DEF c
  <2>. QED BY <1>1, <1>2, <2>1 DEF Has
<1>4. CASE \E s \in Syncs, c \in Calls : RetryBlock(s, c)
  <2>1. PICK s \in Syncs, c \in Calls : RetryBlock(s, c)
    BY <1>4
  <2>2. s = Peer /\ Retry(Peer, c) /\ c \in delayed[Peer] /\ UNCHANGED hist
    BY <2>1, InsightConstants DEF RetryBlock, Retry, AppInv, HistoricIsAlone
  <2>3. c.allow => allowReorgs
    BY <2>2 DEF PermitOK
  <2>. QED BY <1>1, <1>2, <2>2, <2>3 DEF Has
<1>5. CASE PeerStep
  <2>1. Step(Peer) /\ up /\ pc[Peer] # "idle" /\ UNCHANGED delayed
    BY <1>1, <1>5, StepLocks, StepFlags, TheSyncs DEF PeerStep
  <2>2. /\ Moved1(Peer)
        /\ \A b \in Block : Has(b) => Has(b)'
        /\ tip' = tip \/ (pc[Peer] = "putTip" /\ pc'[Peer] = "setNext" /\ tip'.hash = frame[Peer].blk)
        /\ AllowFrom(Peer)' /\ StoredFrom(Peer)'
        /\ cachedTip' = cachedTip \/ frame[Peer].allow
    BY <1>1, <2>1, StepMoves, TheSyncs DEF PermitOK
  <2>3. pc'[Historic] = pc[Historic] /\ frame'[Historic] = frame[Historic]
    BY <2>2, TheSyncs DEF Moved1, OthersKept
  <2>4. frame'[Peer].allow => allowReorgs
    <3>1. NoFrame.allow = FALSE
      BY DEF NoFrame
    <3>2. frame'[Peer] = NoFrame \/ frame'[Peer].allow = frame[Peer].allow
      BY <2>2 DEF Moved1
    <3>. QED BY <3>1, <3>2 DEF PermitOK
  <2>5. \A s \in Syncs : AllowFrom(s)' /\ StoredFrom(s)'
    <3>1. AllowFrom(Historic)'
      BY <2>3, TheSyncs DEF PermitOK, AllowFrom
    <3>2. StoredFrom(Historic)'
      <4>1. pc[Historic] # "idle" => frame[Historic].blk \in Block
        BY <1>1, TheSyncs DEF Inv, Shape, ShapeOf
      <4>. QED BY <2>2, <2>3, <4>1, TheSyncs DEF PermitOK, StoredFrom, Has
    <3>. QED BY <2>2, <3>1, <3>2, InsightConstants
  <2>6. ~allowReorgs => UNCHANGED <<tip, cachedTip>> /\ pc[Peer] # "has"
    BY <2>1, <2>2, TheSyncs DEF PermitOK, AllowFrom
  <2>7. hist' = hist \/ (hist.pc = "off" /\ hist' = Started(FALSE) /\ pc[Peer] = "has")
    BY <1>1, <1>5 DEF PeerStep, Start, HistOK, RunningIsShown
  <2>8. PermitOK'
    <3>1. CASE hist' = hist
      BY <1>1, <2>1, <2>3, <2>4, <2>5, <2>6, <3>1 DEF PermitOK, Early
    <3>2. CASE hist' = Started(FALSE) /\ pc[Peer] = "has"
      <4>1. allowReorgs /\ hist'.boot = FALSE
        BY <2>6, <3>2 DEF Started
      <4>. QED BY <1>1, <2>1, <2>3, <2>4, <2>5, <4>1 DEF PermitOK
    <3>. QED BY <2>7, <3>1, <3>2
  <2>. QED BY <1>1, <2>2, <2>3, <2>6, <2>7, <2>8
<1>. QED BY <1>3, <1>4, <1>5 DEF FromPeers, PeerOwn

LEMMA InitPermit == FileInit => PermitOK
<1>. SUFFICES ASSUME FileInit PROVE PermitOK
  OBVIOUS
<1>1. /\ hist.boot = TRUE /\ allowReorgs = FALSE /\ cachedTip = NoTip /\ file.made = FALSE
      /\ \A s \in Syncs : pc[s] = "idle" /\ frame[s] = NoFrame /\ delayed[s] = {}
  BY NotMadeIs DEF FileInit, Started, Init, BlockDbInit, VolatileInit
<1>2. NoFrame.allow = FALSE
  BY DEF NoFrame
<1>. QED BY <1>1, <1>2, TheSyncs DEF PermitOK, AllowFrom, StoredFrom

LEMMA RestartPermit ==
    ASSUME RestartFiles
    PROVE  PermitOK' /\ hist' = Started(TRUE) /\ UNCHANGED <<dbVars, lastFile, skipped>> /\ file' = NotMade
<1>1. RestartInsight /\ Restart /\ file' = NotMade /\ UNCHANGED <<lastFile, skipped>>
  BY DEF RestartFiles, RestartInsight
<1>2. /\ hist' = Started(TRUE) /\ allowReorgs' = FALSE /\ cachedTip' = NoTip /\ UNCHANGED dbVars
      /\ \A s \in Syncs : pc'[s] = "idle" /\ frame'[s] = NoFrame /\ delayed'[s] = {}
  BY <1>1 DEF RestartInsight, Restart
<1>3. NoFrame.allow = FALSE /\ hist'.boot = TRUE
  BY <1>2 DEF NoFrame, Started
<1>. QED BY <1>1, <1>2, <1>3, NotMadeIs, TheSyncs DEF PermitOK, AllowFrom, StoredFrom

LEMMA EarlyMoves ==
    ASSUME AppInv, CheckNetwork \/ CountBlocks \/ ReadTip \/ TipInfo \/ TipNotMain
    PROVE  /\ UNCHANGED <<prev, tip, pc, frame, delayed, allowReorgs, best>>
           /\ cachedTip' \in {cachedTip, tip}
           /\ hist.pc \notin {"off", "getBlock", "store"}
           /\ hist'.boot = hist.boot
           /\ hist'.pc \in Early => hist.pc \in Early
<1>1. hist \in Hists
  BY DEF AppInv, HistOK, AppTypeOK
<1>2. CASE CheckNetwork
  BY <1>1, <1>2 DEF CheckNetwork, HistAt, Hists, vars, callVars, Early
<1>3. CASE CountBlocks \/ ReadTip
  <2>1. /\ UNCHANGED <<prev, tip, pc, frame, delayed, allowReorgs, best>>
        /\ cachedTip' \in {cachedTip, tip}
        /\ hist.pc \in {"count", "getTip"}
    BY <1>3 DEF CountBlocks, ReadTip, HistAt, dbVars, callVars
  <2>2. ASSUME NEW n, NEW t, TipFound(n, t)
        PROVE  hist'.boot = hist.boot
    BY <1>1, <2>2 DEF TipFound, Hists
  <2>3. hist'.boot = hist.boot
    BY <1>1, <1>3, <2>2 DEF CountBlocks, ReadTip, Hists
  <2>. QED BY <2>1, <2>3 DEF Early
<1>4. ASSUME NEW h \in Hists, h.boot = hist.boot, h.pc = hist.pc, h.pc \in {"tipInfo", "notMain"}, TestTip(h)
      PROVE  hist'.boot = hist.boot /\ hist'.pc \notin Early
  <2>1. \/ hist' = h
        \/ Begin(h.cur)
        \/ hist' = [h EXCEPT !.pc = "tipInfo", !.old = h.cur, !.cur = ParentOf[h.cur]]
        \/ hist' = [h EXCEPT !.pc = "tipInfo", !.old = h.cur, !.cur = Null]
    BY <1>4 DEF TestTip
  <2>2. CASE hist' = h
    BY <1>4, <2>2 DEF Early
  <2>3. CASE Begin(h.cur)
    BY <1>1, <2>3 DEF Begin, Hists, Early
  <2>4. ASSUME NEW c, hist' = [h EXCEPT !.pc = "tipInfo", !.old = h.cur, !.cur = c]
        PROVE  hist'.boot = hist.boot /\ hist'.pc \notin Early
    BY <1>4, <2>4 DEF Hists, Early
  <2>. QED BY <2>1, <2>2, <2>3, <2>4
<1>5. CASE TipInfo
  <2>1. PICK seen \in {"unknown", "stale", "main"} :
            LET h == [hist EXCEPT !.seen = seen]
            IN  IF h.old = Null THEN TestTip(h) ELSE hist' = [h EXCEPT !.pc = "notMain"] /\ UNCHANGED up
    BY <1>5 DEF TipInfo
  <2>. DEFINE h == [hist EXCEPT !.seen = seen]
  <2>2. hist.pc = "tipInfo" /\ h \in Hists /\ h.pc = hist.pc /\ h.boot = hist.boot
    BY <1>1, <1>5 DEF TipInfo, HistAt, Hists
  <2>3. TestTip(h) \/ hist' = [h EXCEPT !.pc = "notMain"]
    BY <2>1
  <2>. HIDE DEF h
  <2>4. hist'.boot = hist.boot /\ hist'.pc \notin Early
    <3>1. CASE hist' = [h EXCEPT !.pc = "notMain"]
      BY <2>2, <3>1 DEF Hists, Early
    <3>. QED BY <1>4, <2>2, <2>3, <3>1
  <2>. QED BY <1>5, <2>2, <2>4 DEF TipInfo, dbVars, callVars
<1>6. CASE TipNotMain
  <2>1. hist.pc = "notMain" /\ (TestTip(hist) \/ hist' = hist)
    BY <1>6 DEF TipNotMain, HistAt
  <2>2. hist'.boot = hist.boot /\ hist'.pc \notin Early
    BY <1>1, <1>4, <2>1 DEF Early
  <2>. QED BY <1>6, <2>1, <2>2 DEF TipNotMain, callVars
<1>. QED BY <1>2, <1>3, <1>5, <1>6

LEMMA FilesPermit ==
    ASSUME BaseInv, PermitOK, FromFiles
    PROVE  PermitOK'
<1>1. AppInv /\ hist \in Hists /\ file \in Files /\ StageOK /\ FileOK /\ DiskOK /\ HistoricIsAlone
  BY DEF BaseInv, AppInv, HistOK, AppTypeOK, FileOK
<1>2. ASSUME NEW b \in Block, NEW f, StoreRead(b, f), f \in Files, up, hist.pc = "getBlock",
             UNCHANGED allowReorgs
      PROVE  PermitOK'
  <2>1. /\ Call(Historic, [blk |-> b, allow |-> TRUE]) /\ hist' = [hist EXCEPT !.pc = "store"]
        /\ file' = [f EXCEPT !.stage = "go", !.got = Null]
    BY <1>2 DEF StoreRead
  <2>2. hist'.pc = "store" /\ hist'.boot = hist.boot /\ file'.stage = "go"
    BY <1>1, <1>2, <2>1 DEF Hists, Files
  <2>3. pc[Historic] = "idle"
    BY <1>1, <1>2 DEF HistoricIsAlone
  <2>. QED BY <1>1, <1>2, <2>1, <2>2, <2>3, HistoricCallPermit
<1>3. ASSUME UNCHANGED appVars, hist.pc = "getBlock", file'.stage # "todo"
      PROVE  PermitOK'
  BY <1>3, QuietPermit DEF appVars, vars
<1>4. ASSUME UNCHANGED <<vars>>, NEW status, EndSync(status)
      PROVE  PermitOK'
  <2>1. hist'.pc = "off" /\ hist'.boot = hist.boot /\ (allowReorgs => allowReorgs')
    BY <1>1, <1>4 DEF EndSync, Started, Hists
  <2>. QED BY <1>4, <2>1, QuietPermit DEF vars
<1>5. file.made => IsReader(NextOf(file).file) /\ NextOf(file).blk \in Block \cup {Null}
  BY <1>1, NextOfTypes, DiskFacts DEF Gives, FileOK, DiskOK
<1>6. CASE PrepareFiles
  <2>1. UNCHANGED appVars /\ hist.pc = "getBlock" /\ file'.stage # "todo"
    BY <1>1, <1>6, NotMadeIs DEF PrepareFiles, FileAt, HistAt, Files
  <2>. QED BY <1>3, <2>1
<1>7. CASE SeekFile
  <2>. DEFINE r == NextOf(file)
  <2>1. hist.pc = "getBlock" /\ r.file \in Files /\ UNCHANGED <<best, wire, allowReorgs>>
    BY <1>1, <1>5, <1>7 DEF SeekFile, FileAt, HistAt, StageOK, IsReader
  <2>2. CASE hist' = [hist EXCEPT !.pc = "off", !.status = "error"] /\ UNCHANGED vars
    BY <1>1, <2>1, <2>2, QuietPermit DEF Hists, vars
  <2>3. CASE SeekUntil(r.blk, r.file)
    BY <1>3, <2>1, <2>3 DEF SeekUntil, appVars, Files
  <2>4. CASE file' = [r.file EXCEPT !.stage = "seekPut", !.got = r.blk] /\ UNCHANGED <<vars, hist>>
    BY <1>3, <2>1, <2>4 DEF appVars, Files
  <2>. QED BY <1>7, <2>2, <2>3, <2>4 DEF SeekFile
<1>8. CASE ReadFile
  <2>. DEFINE r == NextOf(file)
  <2>1. /\ up /\ hist.pc = "getBlock" /\ r.file \in Files /\ r.blk \in Block \cup {Null}
        /\ UNCHANGED <<best, wire>>
    BY <1>1, <1>5, <1>8 DEF ReadFile, FileAt, HistAt, IsReader
  <2>2. CASE EndSync("finished") /\ UNCHANGED vars
    BY <1>4, <2>2
  <2>3. CASE r.blk # Null /\ StoreRead(r.blk, r.file) /\ UNCHANGED allowReorgs
    BY <1>2, <2>1, <2>3
  <2>4. CASE /\ file' = [r.file EXCEPT !.stage = "goPut", !.got = r.blk]
             /\ UNCHANGED <<vars, hist, allowReorgs>>
    BY <1>3, <2>1, <2>4 DEF appVars, Files
  <2>. QED BY <1>8, <2>2, <2>3, <2>4 DEF ReadFile
<1>9. CASE SaveIndex
  <2>. DEFINE f == [file EXCEPT !.saved = file.at]
  <2>1. /\ up /\ hist.pc = "getBlock" /\ f \in Files /\ file.got \in Block
        /\ UNCHANGED <<best, wire, allowReorgs>>
        /\ SeekUntil(file.got, f) \/ StoreRead(file.got, f)
    BY <1>1, <1>9 DEF SaveIndex, FileAt, HistAt, StageOK, Files
  <2>. HIDE DEF f
  <2>2. CASE SeekUntil(file.got, f)
    BY <1>3, <2>1, <2>2 DEF SeekUntil, appVars, Files
  <2>3. CASE StoreRead(file.got, f)
    BY <1>2, <2>1, <2>3
  <2>. QED BY <2>1, <2>2, <2>3
<1>10. CASE WithoutFiles
  <2>1. /\ file'.stage = (IF hist'.pc = "off" THEN "todo" ELSE file.stage)
        /\ file'.made = file.made
    BY <1>1, <1>10 DEF WithoutFiles, Files
  <2>2. CASE CheckNetwork \/ CountBlocks \/ ReadTip \/ TipInfo \/ TipNotMain
    BY <1>1, <2>1, <2>2, EarlyMoves, QuietPermit
  <2>3. CASE HistoricStep
    <3>1. file.stage = "go"
      BY <1>1, <2>3, StepLeads DEF StageOK
    <3>. QED BY <1>1, <2>1, <2>3, <3>1, HistoricStepPermit
  <2>4. CASE FileAt("go") /\ GetBlock
    <3>1. up /\ hist.pc = "getBlock" /\ file.stage = "go" /\ pc[Historic] = "idle"
      BY <1>1, <2>4 DEF FileAt, HistAt, HistoricIsAlone
    <3>2. CASE (EndSync("finished") \/ EndSync("error")) /\ UNCHANGED vars
      BY <1>4, <3>2
    <3>3. CASE /\ hist.cur # Null
               /\ Call(Historic, [blk |-> hist.cur, allow |-> TRUE])
               /\ hist' = [hist EXCEPT !.pc = "store", !.cur = NextBlockHash(hist.cur)]
               /\ UNCHANGED allowReorgs
      <4>1. hist.cur \in Block /\ hist'.pc = "store" /\ hist'.boot = hist.boot
        BY <1>1, <3>3 DEF Hists
      <4>2. file'.stage = "go"
        BY <2>1, <3>1, <4>1
      <4>. QED BY <1>1, <3>1, <3>3, <4>1, <4>2, HistoricCallPermit
    <3>. QED BY <2>4, <3>2, <3>3 DEF GetBlock
  <2>. QED BY <1>10, <2>2, <2>3, <2>4 DEF WithoutFiles
<1>. QED BY <1>6, <1>7, <1>8, <1>9, <1>10 DEF FromFiles

LEMMA PermitNext == BaseInv /\ PermitOK /\ [FileNext]_fileVars => PermitOK'
<1>. SUFFICES ASSUME BaseInv, PermitOK, [FileNext]_fileVars PROVE PermitOK'
  OBVIOUS
<1>1. ASSUME NEW b \in Block, Mine(b) PROVE PermitOK'
  BY <1>1, QuietPermit DEF Mine, NewBest, vars
<1>2. CASE UNCHANGED fileVars
  BY <1>2, QuietPermit DEF fileVars, appVars, vars
<1>. QED BY <1>1, <1>2, FilesPermit, PeersPermit, RestartPermit DEF FileNext, BaseInv

-----------------------------------------------------------------------------
(* Places in the files *)

Place(b, i, j) == i \in 1..Len(disk) /\ j \in 1..Len(disk[i]) /\ disk[i][j] = b

LEMMA OnePlace ==
    ASSUME IsDisk(disk), NEW b, NEW i, NEW j, NEW k, NEW l, Place(b, i, j), Place(b, k, l)
    PROVE  k = i /\ l = j
<1>1. \A u \in 1..Len(disk) : \A v \in 1..Len(disk[u]) :
         \A x \in 1..Len(disk) : \A y \in 1..Len(disk[x]) :
            disk[x][y] = disk[u][v] => x = u /\ y = v
  BY DEF IsDisk
<1>2. /\ i \in 1..Len(disk) /\ j \in 1..Len(disk[i])
      /\ k \in 1..Len(disk) /\ l \in 1..Len(disk[k])
      /\ disk[k][l] = disk[i][j]
  BY DEF Place
<1>. QED BY <1>1, <1>2

\* The parent's place comes before a block's own.
LEMMA ParentPlaced ==
    ASSUME IsDisk(disk), NEW b, NEW i, NEW j, Place(b, i, j), b # Genesis
    PROVE  \E k, l : Place(ParentOf[b], k, l) /\ Behind(k, l, i, j)
<1>1. \A u \in 1..Len(disk) : \A v \in 1..Len(disk[u]) :
         \/ disk[u][v] = Genesis
         \/ \E x \in 1..Len(disk) : \E y \in 1..Len(disk[x]) :
               Behind(x, y, u, v) /\ disk[x][y] = ParentOf[disk[u][v]]
  BY DEF IsDisk
<1>2. i \in 1..Len(disk) /\ j \in 1..Len(disk[i]) /\ disk[i][j] = b
  BY DEF Place
<1>3. \E x \in 1..Len(disk) : \E y \in 1..Len(disk[x]) :
         Behind(x, y, i, j) /\ disk[x][y] = ParentOf[b]
  BY <1>1, <1>2
<1>. QED BY <1>3 DEF Place

LEMMA HasPlace ==
    ASSUME IsDisk(disk), NEW b
    PROVE  b \in Blocks(disk) <=> \E i, j : Place(b, i, j)
  BY DiskFacts, BlocksAre DEF Place

LEMMA PlaceFacts ==
    ASSUME IsDisk(disk), NEW b, NEW i, NEW j, Place(b, i, j)
    PROVE  /\ i \in Nat /\ j \in Nat /\ i > 0 /\ j > 0 /\ i <= Len(disk) /\ j <= Len(disk[i])
           /\ b \in Block
  BY DiskFacts, FilesFacts DEF Place

\* An ancestor's place is not behind a block's own.
LEMMA BranchBehind ==
    ASSUME IsDisk(disk), NEW b \in Block, NEW c \in Branch[b], NEW i, NEW j, Place(b, i, j)
    PROVE  \E k, l : Place(c, k, l) /\ Behind(k, l, i, j + 1)
<1>. DEFINE S == {x \in Block : \A u, v : Place(x, u, v) =>
                     \A y \in Branch[x] : \E k, l : Place(y, k, l) /\ Behind(k, l, u, v + 1)}
<1>1. ASSUME NEW x, NEW u, NEW v, Place(x, u, v)
      PROVE  Behind(u, v, u, v + 1)
  BY <1>1, PlaceFacts DEF Behind
<1>2. Genesis \in S
  BY <1>1, Branches, Names
<1>3. ASSUME NEW x \in Block \ {Genesis}, ParentOf[x] \in S PROVE x \in S
  <2>. SUFFICES ASSUME NEW u, NEW v, Place(x, u, v), NEW y \in Branch[x]
                PROVE  \E k, l : Place(y, k, l) /\ Behind(k, l, u, v + 1)
    OBVIOUS
  <2>1. CASE y = x
    BY <1>1, <2>1
  <2>2. CASE y # x
    <3>1. y \in Branch[ParentOf[x]]
      BY <2>2, Branches
    <3>2. PICK m, n : Place(ParentOf[x], m, n) /\ Behind(m, n, u, v)
      BY ParentPlaced
    <3>3. PICK k, l : Place(y, k, l) /\ Behind(k, l, m, n + 1)
      BY <1>3, <3>1, <3>2
    <3>4. Behind(k, l, u, v + 1)
      BY <3>2, <3>3, PlaceFacts DEF Behind
    <3>. QED BY <3>3, <3>4
  <2>. QED BY <2>1, <2>2
<1>. HIDE DEF S
<1>4. \A x \in Block : x \in S
  BY <1>2, <1>3, EveryBlock
<1>. QED BY <1>4 DEF S

\* So what is stored up to a block is stored up to each of its ancestors.
LEMMA StoredBelow ==
    ASSUME IsDisk(disk), NEW b \in Block, NEW c \in Branch[b], NEW i, NEW j, Place(b, i, j),
           StoredUpTo(i, j), NEW k, NEW l, Place(c, k, l)
    PROVE  StoredUpTo(k, l)
<1>1. Behind(k, l, i, j + 1)
  BY BranchBehind, OnePlace
<1>. QED BY <1>1, PlaceFacts DEF StoredUpTo, Behind

LEMMA StoredToPlace ==
    ASSUME IsDisk(disk), NEW b, NEW i, NEW j, Place(b, i, j), Has(b), StoredUpTo(i, j - 1)
    PROVE  StoredUpTo(i, j)
<1>1. /\ i \in Nat /\ j \in Nat /\ b \in Block /\ IsFiles(disk)
      /\ \A k \in 1..Len(disk) : \A l \in 1..Len(disk[k]) : k \in Nat /\ l \in Nat
  BY PlaceFacts, DiskFacts, FilesFacts
<1>2. ASSUME NEW k \in 1..Len(disk), NEW l \in 1..Len(disk[k]), Behind(k, l, i, j + 1)
      PROVE  disk[k][l] \in Stored
  <2>1. Behind(k, l, i, j - 1 + 1) \/ (k = i /\ l = j)
    BY <1>1, <1>2 DEF Behind
  <2>2. CASE k = i /\ l = j
    BY <1>1, <2>2 DEF Place, Stored
  <2>. QED BY <2>1, <2>2 DEF StoredUpTo
<1>. QED BY <1>2 DEF StoredUpTo

LEMMA StoredToFile ==
    ASSUME IsDisk(disk), NEW i \in Int, NEW j \in Int, NEW k \in Int, NEW l \in Int,
           StoredUpTo(i, j), k < i \/ (k = i /\ l <= j)
    PROVE  StoredUpTo(k, l)
<1>1. \A m \in 1..Len(disk) : \A n \in 1..Len(disk[m]) :
         Behind(m, n, k, l + 1) => Behind(m, n, i, j + 1)
  BY DiskFacts, FilesFacts DEF Behind
<1>. QED BY <1>1 DEF StoredUpTo

-----------------------------------------------------------------------------
(* Stored blocks stay, and so do the blocks on the disk *)

StoredStay == \A b \in Block : Has(b) => Has(b)'

LEMMA PlaceKept ==
    ASSUME IsDisk(disk), IsDisk(disk'), Grown, NEW b, NEW i, NEW j, Place(b, i, j)
    PROVE  Place(b, i, j)'
<1>1. i \in 1..Len(disk) /\ j \in 1..Len(disk[i]) /\ disk[i][j] = b
  BY DEF Place
<1>2. IsFiles(disk) /\ IsFiles(disk')
  BY DEF IsDisk, IsFiles
<1>3. /\ Len(disk) \in Nat /\ Len(disk') \in Nat /\ Len(disk[i]) \in Nat
      /\ Len(disk) <= Len(disk')
  BY <1>1, <1>2, FilesFacts DEF Grown
<1>4. i \in 1..Len(disk')
  BY <1>1, <1>3
<1>5. Len(disk'[i]) \in Nat
  BY <1>2, <1>4, FilesFacts
<1>6. Len(disk[i]) <= Len(disk'[i]) /\ disk'[i][j] = b
  BY <1>1 DEF Grown
<1>7. j \in 1..Len(disk'[i])
  BY <1>1, <1>3, <1>5, <1>6
<1>. QED BY <1>4, <1>6, <1>7 DEF Place

LEMMA StoredKept ==
    ASSUME IsDisk(disk), IsDisk(disk'), Grown, StoredStay, NEW i \in Int, NEW j \in Int, i <= Len(disk),
           i \in 1..Len(disk) => j <= Len(disk[i]), StoredUpTo(i, j)
    PROVE  StoredUpTo(i, j)'
<1>1. /\ Len(disk) \in Nat /\ Len(disk') \in Nat /\ Len(disk) <= Len(disk')
      /\ \A k \in 1..Len(disk') : Len(disk'[k]) \in Nat
  BY DiskFacts, FilesFacts DEF Grown, IsDisk, IsFiles
<1>2. ASSUME NEW k \in 1..Len(disk'), NEW l \in 1..Len(disk'[k]), Behind(k, l, i, j + 1)
      PROVE  disk'[k][l] \in Stored'
  <2>1. k \in 1..Len(disk) /\ (k < Len(disk) \/ (k = i /\ l <= j))
    BY <1>1, <1>2 DEF Behind
  <2>2. l \in 1..Len(disk[k]) /\ disk'[k][l] = disk[k][l]
    <3>1. CASE k < Len(disk)
      BY <2>1, <3>1 DEF Grown
    <3>2. CASE k = i /\ l <= j
      <4>1. Len(disk[k]) \in Nat
        BY <2>1, DiskFacts, FilesFacts
      <4>2. l \in 1..Len(disk[k])
        BY <1>1, <2>1, <3>2, <4>1
      <4>. QED BY <2>1, <4>2 DEF Grown
    <3>. QED BY <2>1, <3>1, <3>2
  <2>3. disk[k][l] \in Stored
    BY <1>2, <2>1, <2>2 DEF StoredUpTo
  <2>. QED BY <2>2, <2>3 DEF Stored, StoredStay
<1>. QED BY <1>2 DEF StoredUpTo

LEMMA TipIs ==
    ASSUME Inv
    PROVE  /\ tip = NoTip <=> tip.hash = Null
           /\ tip # NoTip => tip.hash \in Block
  BY Names DEF Inv, SyncTypeOK, BlockDbTypeOK, TipVal, NoTip

LEMMA TipPlaced ==
    ASSUME IsDisk(disk)
    PROVE  TipInOrder <=> tip = NoTip \/ \E i, j : Place(tip.hash, i, j) /\ StoredUpTo(i, j)
  BY DEF TipInOrder, Place

\* The file to start from: what is before it is stored, or it is behind the tip.
SavedOK ==
    \/ StoredUpTo(lastFile + 1, 0)
    \/ /\ tip # NoTip
       /\ tip.hash # Genesis
       /\ \E i, j : Place(tip.hash, i, j) /\ i <= lastFile

LEMMA TipKept ==
    ASSUME BaseInv, IsDisk(disk'), Grown, StoredStay, UNCHANGED tip, TipInOrder
    PROVE  TipInOrder'
<1>1. IsDisk(disk)
  BY DEF BaseInv, DiskOK
<1>2. CASE tip = NoTip
  BY <1>2 DEF TipInOrder
<1>3. CASE tip # NoTip
  <2>1. PICK i, j : Place(tip.hash, i, j) /\ StoredUpTo(i, j)
    BY <1>1, <1>3, TipPlaced
  <2>2. Place(tip.hash, i, j)'
    BY <1>1, <2>1, PlaceKept
  <2>3. StoredUpTo(i, j)'
    BY <1>1, <2>1, PlaceFacts, StoredKept
  <2>. QED BY <2>2, <2>3 DEF TipInOrder, Place
<1>. QED BY <1>2, <1>3

LEMMA SavedKept ==
    ASSUME BaseInv, IsDisk(disk'), Grown, StoredStay, UNCHANGED <<tip, lastFile>>, SavedOK
    PROVE  SavedOK'
<1>1. IsDisk(disk) /\ lastFile \in Int /\ lastFile + 1 \in Int /\ lastFile + 1 <= Len(disk)
  BY DiskFacts DEF BaseInv, DiskOK, FileOK, NoFile
<1>2. CASE StoredUpTo(lastFile + 1, 0)
  <2>1. lastFile + 1 \in 1..Len(disk) => 0 <= Len(disk[lastFile + 1])
    BY <1>1, DiskFacts, FilesFacts
  <2>2. StoredUpTo(lastFile + 1, 0)'
    <3>. DEFINE i == lastFile + 1
    <3>1. i \in Int /\ i <= Len(disk) /\ (i \in 1..Len(disk) => 0 <= Len(disk[i])) /\ StoredUpTo(i, 0) /\ i' = i
      BY <1>1, <1>2, <2>1
    <3>2. ASSUME NEW k \in Int, k <= Len(disk), k \in 1..Len(disk) => 0 <= Len(disk[k]), StoredUpTo(k, 0)
          PROVE  StoredUpTo(k, 0)'
      BY <1>1, <3>2, StoredKept
    <3>3. PICK k \in Int : k = lastFile + 1
      BY <3>1
    <3>4. StoredUpTo(k, 0)'
      BY <3>1, <3>2, <3>3
    <3>. QED BY <3>3, <3>4
  <2>. QED BY <2>2 DEF SavedOK
<1>3. CASE /\ tip # NoTip
           /\ tip.hash # Genesis
           /\ \E i, j : Place(tip.hash, i, j) /\ i <= lastFile
  <2>1. PICK i, j : Place(tip.hash, i, j) /\ i <= lastFile
    BY <1>3
  <2>2. Place(tip.hash, i, j)'
    BY <1>1, <2>1, PlaceKept
  <2>3. i \in 1..Len(disk') /\ j \in 1..Len(disk'[i]) /\ disk'[i][j] = tip'.hash
    BY <2>2 DEF Place
  <2>4. i <= lastFile' /\ tip' # NoTip /\ tip'.hash # Genesis
    BY <1>3, <2>1
  <2>. QED BY <2>3, <2>4 DEF SavedOK, Place
<1>. QED BY <1>2, <1>3 DEF SavedOK

-----------------------------------------------------------------------------
(* What is left to read *)

\* The reader f has read r blocks of its file, and holds those that follow;
\* blocks behind what it holds came after the files were listed.
RestIs(f, r) ==
    LET i == f.at + 1
    IN  /\ r \in 0..Len(disk[i])
        /\ f.buf = Unread => r = 0
        /\ f.buf # Unread =>
             /\ r + Len(f.buf) <= Len(disk[i])
             /\ \A j \in 1..Len(f.buf) : f.buf[j] = disk[i][r + j]
             /\ \A l \in 1..Len(disk[i]) :
                    l > r + Len(f.buf) => i = f.n /\ disk[i][l] \notin f.goal

\* Each block of the branch that is to be stored is in one of the files listed.
GoalListed(f) == \A b \in f.goal : \E k, l : Place(b, k, l) /\ k <= f.n

LEMMA UnreadIsNoSeq == Unread \notin Seq(Block)
<1>1. Len(<<Null>>) = 1 /\ <<Null>>[1] = Null
  OBVIOUS
<1>. SUFFICES ASSUME <<Null>> \in Seq(Block) PROVE FALSE
  BY DEF Unread
<1>2. <<Null>>[1] \in Block
  BY <1>1
<1>. QED BY <1>1, <1>2, Names

LEMMA GoalGrows ==
    ASSUME IsDisk(disk), IsDisk(disk'), Grown, NEW f, GoalListed(f)
    PROVE  GoalListed(f)'
<1>1. ASSUME NEW b \in f.goal
      PROVE  \E k, l : Place(b, k, l)' /\ k <= f.n
  BY <1>1, PlaceKept DEF GoalListed
<1>. QED BY <1>1 DEF GoalListed

LEMMA RestGrows ==
    ASSUME IsDisk(disk), IsDisk(disk'), Grown, NEW f, IsReader(f), f.at # NoFile,
           GoalListed(f), NEW r \in Nat, RestIs(f, r)
    PROVE  RestIs(f, r)'
<1>. DEFINE i == f.at + 1
<1>1. /\ i \in 1..Len(disk) /\ i \in 1..Len(disk') /\ f.n \in Nat /\ f.n <= Len(disk) /\ i <= f.n
      /\ Len(disk) \in Nat
      /\ Len(disk[i]) \in Nat /\ Len(disk'[i]) \in Nat /\ Len(disk[i]) <= Len(disk'[i])
      /\ \A l \in 1..Len(disk[i]) : disk'[i][l] = disk[i][l]
  <2>1. /\ IsFiles(disk) /\ IsFiles(disk') /\ Len(disk) \in Nat /\ Len(disk') \in Nat
        /\ Len(disk) <= Len(disk')
    BY DiskFacts DEF Grown, IsDisk, IsFiles
  <2>2. i \in 1..Len(disk) /\ f.n \in Nat /\ f.n <= Len(disk) /\ i <= f.n
    BY <2>1, LoadedType DEF IsReader, Files
  <2>3. i \in 1..Len(disk')
    BY <2>1, <2>2
  <2>4. Len(disk[i]) \in Nat /\ Len(disk'[i]) \in Nat
    BY <2>1, <2>2, <2>3, FilesFacts
  <2>. QED BY <2>1, <2>2, <2>3, <2>4 DEF Grown
<1>. HIDE DEF i
<1>2. CASE f.buf = Unread
  BY <1>1, <1>2 DEF RestIs, i
<1>3. CASE f.buf # Unread
  <2>1. f.buf \in Seq(Block) /\ Len(f.buf) \in Nat
    BY <1>3 DEF IsReader, Files
  <2>2. /\ r + Len(f.buf) <= Len(disk[i])
        /\ \A j \in 1..Len(f.buf) : f.buf[j] = disk[i][r + j]
        /\ \A l \in 1..Len(disk[i]) : l > r + Len(f.buf) => i = f.n /\ disk[i][l] \notin f.goal
    BY <1>3 DEF RestIs, i
  <2>3. \A j \in 1..Len(f.buf) : f.buf[j] = disk'[i][r + j]
    <3>. SUFFICES ASSUME NEW j \in 1..Len(f.buf) PROVE f.buf[j] = disk'[i][r + j]
      OBVIOUS
    <3>1. r + j \in 1..Len(disk[i])
      BY <1>1, <2>1, <2>2
    <3>. QED BY <1>1, <2>2, <3>1
  <2>4. ASSUME NEW l \in 1..Len(disk'[i]), l > r + Len(f.buf)
        PROVE  i = f.n /\ disk'[i][l] \notin f.goal
    <3>1. CASE l <= Len(disk[i])
      <4>1. l \in 1..Len(disk[i])
        BY <1>1, <3>1
      <4>. QED BY <1>1, <2>2, <2>4, <4>1
    <3>2. CASE l > Len(disk[i])
      <4>1. i = f.n
        <5>1. ~(i < Len(disk))
          BY <1>1, <3>2 DEF Grown
        <5>. QED BY <1>1, <5>1
      <4>2. disk'[i][l] \notin f.goal
        <5>. SUFFICES ASSUME disk'[i][l] \in f.goal PROVE FALSE
          OBVIOUS
        <5>1. PICK b : b = disk'[i][l]
          OBVIOUS
        <5>2. PICK k, m : Place(b, k, m)
          BY <5>1 DEF GoalListed
        <5>3. Place(b, k, m)'
          BY <5>2, PlaceKept
        <5>4. \A u \in 1..Len(disk') : \A v \in 1..Len(disk'[u]) :
                 \A x \in 1..Len(disk') : \A y \in 1..Len(disk'[x]) :
                    disk'[x][y] = disk'[u][v] => x = u /\ y = v
          BY DEF IsDisk
        <5>5. /\ k \in 1..Len(disk') /\ m \in 1..Len(disk'[k])
              /\ disk'[k][m] = disk'[i][l]
          BY <5>1, <5>3 DEF Place
        <5>6. k = i /\ m = l
          BY <1>1, <5>4, <5>5
        <5>. QED BY <1>1, <3>2, <5>2, <5>6 DEF Place
      <4>. QED BY <4>1, <4>2
    <3>. QED BY <1>1, <3>1, <3>2
  <2>. QED BY <1>1, <1>3, <2>1, <2>2, <2>3, <2>4 DEF RestIs, i
<1>. QED BY <1>2, <1>3

\* The reader takes the block behind those it has read.
TakesNext(f, r, b, g) ==
    \E s \in Nat \ {0} :
       /\ RestIs(g, s) /\ Place(b, g.at + 1, s) /\ f.at <= g.at
       /\ StoredUpTo(f.at + 1, r) => StoredUpTo(g.at + 1, s - 1)

LEMMA TailOf ==
    ASSUME NEW s \in Seq(Block), s # <<>>
    PROVE  /\ Len(s) \in Nat /\ Len(s) > 0
           /\ Tail(s) \in Seq(Block) /\ Tail(s) # Unread /\ Len(Tail(s)) = Len(s) - 1
           /\ \A j \in 1..Len(Tail(s)) : Tail(s)[j] = s[j + 1]
           /\ Head(s) = s[1] /\ s[1] \in Block
<1>1. Tail(s) \in Seq(Block) /\ Len(s) > 0 /\ Len(s) \in Nat
  OBVIOUS
<1>. QED BY <1>1, UnreadIsNoSeq

\* A file is opened.
LEMMA Opened ==
    ASSUME IsFiles(disk), NEW g, g.at + 1 \in 1..Len(disk), g.buf = Tail(disk[g.at + 1])
    PROVE  RestIs(g, 1) /\ Place(Head(disk[g.at + 1]), g.at + 1, 1)
<1>. DEFINE i == g.at + 1
<1>1. disk[i] \in Seq(Block) /\ disk[i] # <<>>
  BY FilesFacts
<1>2. /\ Len(disk[i]) \in Nat /\ Len(disk[i]) > 0
      /\ g.buf \in Seq(Block) /\ g.buf # Unread /\ Len(g.buf) = Len(disk[i]) - 1
      /\ \A j \in 1..Len(g.buf) : g.buf[j] = disk[i][j + 1]
      /\ Head(disk[i]) = disk[i][1]
  BY <1>1, TailOf
<1>. HIDE DEF i
<1>3. RestIs(g, 1)
  BY <1>2 DEF RestIs, i
<1>. QED BY <1>2, <1>3 DEF Place, i

LEMMA TakesFromBuffer ==
    ASSUME IsDisk(disk), NEW f, IsReader(f), f.at # NoFile, NEW r \in Nat, RestIs(f, r),
           Loaded(f) # <<>>
    PROVE  TakesNext(f, r, NextOf(f).blk, NextOf(f).file)
<1>. DEFINE g == Moved(f, f.at, Tail(Loaded(f)))
            i == f.at + 1
<1>1. /\ Loaded(f) \in Seq(Block) /\ i \in 1..Len(disk) /\ IsFiles(disk)
      /\ f.buf = Unread => Loaded(f) = disk[i]
      /\ f.buf # Unread => Loaded(f) = f.buf
  BY LoadedType, DiskFacts
<1>2. f \in Files /\ f.at \in Int /\ Tail(Loaded(f)) \in Seq(Block)
  BY <1>1, TailOf DEF IsReader, Files
<1>3. NextOf(f) = [blk |-> Head(Loaded(f)), file |-> g]
  <2>1. g = [f EXCEPT !.buf = Tail(Loaded(f))]
    BY <1>2 DEF Moved, Files
  <2>. QED BY <2>1 DEF NextOf
<1>4. g.at = f.at /\ g.buf = Tail(Loaded(f)) /\ g.n = f.n /\ g.goal = f.goal
  <2>1. Tail(Loaded(f)) \in Seq(Block) \cup {Unread}
    BY <1>2
  <2>. QED BY ONLY <1>2, <2>1, MovedReader DEF SameReader
<1>. HIDE DEF g, i
<1>5. CASE f.buf = Unread
  <2>1. RestIs(g, 1) /\ Place(Head(Loaded(f)), i, 1)
    BY <1>1, <1>4, <1>5, Opened DEF i
  <2>2. r = 0 /\ 1 - 1 = 0
    BY <1>5 DEF RestIs
  <2>3. /\ 1 \in Nat \ {0} /\ f.at <= g.at /\ g.at + 1 = i
        /\ StoredUpTo(f.at + 1, r) => StoredUpTo(g.at + 1, 1 - 1)
    BY <1>2, <1>4, <2>2 DEF i
  <2>4. TakesNext(f, r, Head(Loaded(f)), g)
    BY <2>1, <2>3 DEF TakesNext
  <2>. QED BY <1>3, <2>4
<1>6. CASE f.buf # Unread
  <2>1. /\ r + Len(f.buf) <= Len(disk[i])
        /\ \A j \in 1..Len(f.buf) : f.buf[j] = disk[i][r + j]
        /\ \A l \in 1..Len(disk[i]) : l > r + Len(f.buf) => i = f.n /\ disk[i][l] \notin f.goal
    BY <1>6 DEF RestIs, i
  <2>2. /\ Len(f.buf) \in Nat /\ Len(f.buf) > 0
        /\ g.buf # Unread /\ Len(g.buf) = Len(f.buf) - 1
        /\ \A j \in 1..Len(g.buf) : g.buf[j] = f.buf[j + 1]
        /\ Head(Loaded(f)) = f.buf[1]
    BY <1>1, <1>4, <1>6, TailOf
  <2>3. \A j \in 1..Len(g.buf) : g.buf[j] = disk[i][r + 1 + j]
    <3>. SUFFICES ASSUME NEW j \in 1..Len(g.buf) PROVE g.buf[j] = disk[i][r + 1 + j]
      OBVIOUS
    <3>1. j + 1 \in 1..Len(f.buf) /\ r + (j + 1) = r + 1 + j
      BY <2>2
    <3>2. g.buf[j] = f.buf[j + 1]
      BY <2>2
    <3>3. f.buf[j + 1] = disk[i][r + (j + 1)]
      BY <2>1, <3>1
    <3>. QED BY <3>1, <3>2, <3>3
  <2>4. Len(disk[i]) \in Nat
    BY <1>1, FilesFacts
  <2>5. RestIs(g, r + 1)
    <3>1. r + 1 \in 0..Len(disk[i]) /\ r + 1 + Len(g.buf) <= Len(disk[i])
      <4>1. \A m, n, d \in Nat : m > 0 /\ n = m - 1 /\ r + m <= d => r + 1 \in 0..d /\ r + 1 + n <= d
        OBVIOUS
      <4>2. Len(g.buf) \in Nat
        BY <2>2
      <4>. QED BY ONLY <2>1, <2>2, <2>4, <4>1, <4>2
    <3>2. \A l \in 1..Len(disk[i]) : l > r + 1 + Len(g.buf) => i = g.n /\ disk[i][l] \notin g.goal
      BY <1>4, <2>1, <2>2
    <3>. QED BY <1>4, <2>2, <2>3, <3>1, <3>2 DEF RestIs, i
  <2>6. Place(Head(Loaded(f)), i, r + 1)
    <3>1. 1 \in 1..Len(f.buf) /\ r + 1 \in 1..Len(disk[i])
      BY <2>1, <2>2, <2>4
    <3>2. Head(Loaded(f)) = disk[i][r + 1]
      BY <2>1, <2>2, <3>1
    <3>. QED BY <1>1, <3>1, <3>2 DEF Place
  <2>7. r + 1 \in Nat \ {0} /\ r + 1 - 1 = r /\ f.at <= g.at /\ g.at + 1 = i
    BY <1>2, <1>4 DEF i
  <2>8. TakesNext(f, r, Head(Loaded(f)), g)
    <3>1. PICK s \in Nat \ {0} : s = r + 1 /\ s - 1 = r
      BY <2>7
    <3>. QED BY <2>5, <2>6, <2>7, <3>1 DEF TakesNext, i
  <2>. QED BY <1>3, <2>8
<1>. QED BY <1>5, <1>6

\* Nothing of the file is in memory, and all of it was read.
LEMMA ReadToEnd ==
    ASSUME IsDisk(disk), NEW f, IsReader(f), f.at # NoFile, NEW r \in Nat, RestIs(f, r),
           Loaded(f) = <<>>
    PROVE  \A l \in 1..Len(disk[f.at + 1]) : l > r => f.at + 1 = f.n /\ disk[f.at + 1][l] \notin f.goal
<1>1. f.buf # Unread /\ f.buf = <<>>
  <2>1. disk[f.at + 1] # <<>>
    BY LoadedType, DiskFacts, FilesFacts
  <2>. QED BY <2>1, LoadedType, DiskFacts
<1>2. Len(f.buf) = 0 /\ r + 0 = r
  BY <1>1
<1>. QED BY <1>1, <1>2 DEF RestIs

LEMMA TakesFromNextFile ==
    ASSUME IsDisk(disk), NEW f, IsReader(f), f.at # NoFile, NEW r \in Nat, RestIs(f, r),
           Loaded(f) = <<>>, f.at < f.n - 1
    PROVE  TakesNext(f, r, NextOf(f).blk, NextOf(f).file)
<1>. DEFINE i == f.at + 2
            g == Moved(f, f.at + 1, Tail(disk[i]))
<1>1. /\ f \in Files /\ f.at \in Int /\ f.n \in Nat /\ f.n <= Len(disk) /\ Len(disk) \in Nat
      /\ IsFiles(disk) /\ f.at >= 0
  BY DiskFacts DEF IsReader, Files, NoFile
<1>2. i \in 1..Len(disk) /\ f.at + 1 \in 1..Len(disk) /\ i - 1 = f.at + 1 /\ f.at + 1 \in Int
  BY <1>1
<1>3. disk[i] \in Seq(Block) /\ disk[i] # <<>>
  BY <1>1, <1>2, FilesFacts
<1>4. g.at = f.at + 1 /\ g.buf = Tail(disk[i]) /\ g.n = f.n /\ g.goal = f.goal
  <2>1. Tail(disk[i]) \in Seq(Block) \cup {Unread}
    BY <1>3, TailOf
  <2>. QED BY ONLY <1>1, <1>2, <2>1, MovedReader DEF SameReader
<1>5. NextOf(f) = [blk |-> Head(disk[i]), file |-> g]
  BY DEF NextOf, Moved
<1>. HIDE DEF g, i
<1>6. g.at + 1 = i
  BY <1>1, <1>2, <1>4 DEF i
<1>7. RestIs(g, 1) /\ Place(Head(disk[i]), i, 1)
  BY <1>1, <1>2, <1>4, <1>6, Opened
<1>8. StoredUpTo(f.at + 1, r) => StoredUpTo(i, 0)
  <2>1. ASSUME StoredUpTo(f.at + 1, r), NEW k \in 1..Len(disk), NEW l \in 1..Len(disk[k]),
               Behind(k, l, i, 0 + 1)
        PROVE  disk[k][l] \in Stored
    <3>1. k < f.at + 1 \/ k = f.at + 1
      BY <1>1, <1>2, <2>1, FilesFacts DEF Behind
    <3>2. ASSUME k = f.at + 1, l > r PROVE FALSE
      <4>1. f.at + 1 = f.n
        BY ReadToEnd, <3>2
      <4>. QED BY <1>1, <4>1
    <3>3. Behind(k, l, f.at + 1, r + 1)
      <4>1. l \in Nat
        BY <1>1, FilesFacts
      <4>. QED BY <3>1, <3>2, <4>1 DEF Behind
    <3>. QED BY <2>1, <3>3 DEF StoredUpTo
  <2>. QED BY <2>1 DEF StoredUpTo
<1>9. /\ 1 \in Nat \ {0} /\ f.at <= g.at /\ 1 - 1 = 0
  BY <1>1, <1>4
<1>10. TakesNext(f, r, Head(disk[i]), g)
  BY <1>6, <1>7, <1>8, <1>9 DEF TakesNext
<1>. QED BY <1>5, <1>10

\* getNextBlock: the next block in the files; or none is left of those listed.
LEMMA NextPlace ==
    ASSUME IsDisk(disk), NEW f, IsReader(f), f.at # NoFile, GoalListed(f),
           NEW r \in Nat, RestIs(f, r)
    PROVE  /\ NextOf(f).blk # Null => TakesNext(f, r, NextOf(f).blk, NextOf(f).file)
           /\ NextOf(f).blk = Null /\ StoredUpTo(f.at + 1, r) => f.goal \subseteq Stored
<1>1. CASE Loaded(f) # <<>>
  <2>1. NextOf(f).blk # Null
    <3>1. NextOf(f).blk = Head(Loaded(f))
      BY <1>1 DEF NextOf
    <3>2. Head(Loaded(f)) \in Block
      BY <1>1, LoadedType, DiskFacts, TailOf
    <3>. QED BY <3>1, <3>2, Names
  <2>. QED BY <1>1, <2>1, TakesFromBuffer
<1>2. CASE Loaded(f) = <<>> /\ f.at < f.n - 1
  <2>1. NextOf(f).blk # Null
    <3>1. NextOf(f).blk = Head(disk[f.at + 2])
      BY <1>2 DEF NextOf
    <3>2. f.at + 2 \in 1..Len(disk)
      BY <1>2, DiskFacts DEF IsReader, Files, NoFile
    <3>3. Head(disk[f.at + 2]) \in Block
      BY <3>2, DiskFacts, FilesFacts, TailOf
    <3>. QED BY <3>1, <3>3, Names
  <2>. QED BY <1>2, <2>1, TakesFromNextFile
<1>3. CASE Loaded(f) = <<>> /\ ~(f.at < f.n - 1)
  <2>1. NextOf(f).blk = Null
    BY <1>3 DEF NextOf
  <2>2. f.at + 1 = f.n /\ f.n \in Nat
    BY <1>3 DEF IsReader, Files, NoFile
  <2>3. ASSUME StoredUpTo(f.at + 1, r), NEW b \in f.goal
        PROVE  b \in Stored
    <3>1. PICK k, l : Place(b, k, l) /\ k <= f.n
      BY DEF GoalListed
    <3>2. k \in Nat /\ l \in Nat
      BY <3>1, PlaceFacts
    <3>3. ASSUME k = f.n, l > r PROVE FALSE
      <4>1. l \in 1..Len(disk[f.at + 1]) /\ disk[f.at + 1][l] = b /\ b \in f.goal
        BY <2>2, <2>3, <3>1, <3>3 DEF Place
      <4>2. disk[f.at + 1][l] \notin f.goal
        BY <1>3, <3>3, <4>1, ReadToEnd
      <4>. QED BY <4>1, <4>2
    <3>4. Behind(k, l, f.at + 1, r + 1)
      BY <2>2, <3>1, <3>2, <3>3 DEF Behind
    <3>. QED BY <2>3, <3>1, <3>4 DEF StoredUpTo, Place
  <2>. QED BY <2>1, <2>3
<1>. QED BY <1>1, <1>2, <1>3

-----------------------------------------------------------------------------
(* What is stored of the files, and what the reader leaves out *)

\* One block has Genesis as its parent, as in the chains of bitcoind's networks.
OneSecond == \A b, c \in Block : ParentOf[b] = Genesis /\ ParentOf[c] = Genesis => b = c

\* The reader has read r blocks of its file.  When it looks for the next block
\* to store they are all stored; until then the last one is still to be stored.
ReadUpTo(r) ==
    LET i == file.at + 1
    IN  /\ RestIs(file, r)
        /\ file.stage \in {"seekPut", "goPut"} => Place(file.got, i, r)
        /\ hist.pc = "store" => Place(frame[Historic].blk, i, r)
        /\ file.stage = "go" /\ hist.pc = "getBlock" => StoredUpTo(i, r)
        /\ file.stage = "goPut" \/ hist.pc = "store" => StoredUpTo(i, r - 1)

ReadingOK ==
    file.made =>
      /\ GoalListed(file)
      /\ allowReorgs => file.at = NoFile /\ file.goal \subseteq Stored
      /\ file.stage # "todo" /\ file.at = NoFile => allowReorgs
      /\ file.stage = "todo" => file.at = NoFile
      /\ hist.status = "finished" => file.goal \subseteq Stored
      /\ hist.pc = "store" => file.at # NoFile
      /\ file.stage \in {"seek", "seekPut"} => hist.cur # Genesis
      /\ file.at # NoFile => lastFile <= file.at /\ \E r \in Nat : ReadUpTo(r)

\* The block to seek is on the stored tip's branch, and Genesis only when there
\* is nothing to seek.
StartFound ==
    hist.boot /\ hist.pc \in {"tipInfo", "notMain", "getBlock"}
              /\ file.stage \in {"todo", "seek", "seekPut"} =>
      /\ hist.cur = Genesis => tip = NoTip \/ tip.hash = Genesis
      /\ hist.cur # Genesis => tip # NoTip /\ hist.cur \in Branch[tip.hash]
      /\ hist.pc = "notMain" =>
            /\ hist.seen # "unknown"
            /\ hist.seen = "stale" => hist.cur # Genesis /\ ParentOf[hist.cur] # Genesis

OrderOK == TipInOrder /\ SavedOK /\ StartFound /\ ReadingOK

LEMMA GoalStays ==
    ASSUME StoredStay, NEW g, g \subseteq Stored
    PROVE  g \subseteq Stored'
  BY DEF StoredStay, Stored

LEMMA ReadUpToKept ==
    ASSUME BaseInv, BaseInv', Grown, StoredStay, UNCHANGED <<file, hist>>, file.at # NoFile,
           IsReader(file), GoalListed(file),
           hist.pc = "store" => frame'[Historic].blk = frame[Historic].blk,
           NEW r \in Nat, ReadUpTo(r)
    PROVE  ReadUpTo(r)'
<1>. DEFINE i == file.at + 1
<1>1. IsDisk(disk) /\ IsDisk(disk')
  BY DEF BaseInv, DiskOK
<1>2. i \in Int /\ i \in 1..Len(disk) /\ i <= Len(disk) /\ Len(disk[i]) \in Nat
  BY <1>1, LoadedType, DiskFacts, FilesFacts
<1>3. RestIs(file, r) /\ r <= Len(disk[i])
  BY <1>2 DEF ReadUpTo, RestIs
<1>4. PICK f : f = file /\ f = file'
  OBVIOUS
<1>5. RestIs(f, r)'
  <2>1. IsReader(f) /\ f.at # NoFile /\ GoalListed(f) /\ RestIs(f, r)
    BY <1>3, <1>4
  <2>. QED BY <1>1, <2>1, RestGrows
<1>6. RestIs(file, r)'
  BY <1>4, <1>5 DEF RestIs
<1>7. PICK k \in Int : k = i
  BY <1>2
<1>8. \A b : Place(b, k, r) => Place(b, k, r)'
  BY <1>1, PlaceKept
<1>9. (StoredUpTo(k, r) => StoredUpTo(k, r)') /\ (StoredUpTo(k, r - 1) => StoredUpTo(k, r - 1)')
  BY <1>1, <1>2, <1>3, <1>7, StoredKept
<1>10. /\ file.stage \in {"seekPut", "goPut"} => Place(file.got, k, r)
       /\ hist.pc = "store" => Place(frame[Historic].blk, k, r)
       /\ file.stage = "go" /\ hist.pc = "getBlock" => StoredUpTo(k, r)
       /\ file.stage = "goPut" \/ hist.pc = "store" => StoredUpTo(k, r - 1)
  BY <1>7 DEF ReadUpTo
<1>11. file'.at + 1 = k
  BY <1>7
<1>12. file.stage \in {"seekPut", "goPut"} => Place(file.got, k, r)'
  BY <1>8, <1>10
<1>13. hist.pc = "store" => Place(frame[Historic].blk, k, r)'
  <2>1. PICK b : b = frame[Historic].blk
    OBVIOUS
  <2>2. hist.pc = "store" => Place(b, k, r)' /\ b = frame'[Historic].blk
    BY <1>8, <1>10, <2>1
  <2>. QED BY <2>2 DEF Place
<1>. QED BY <1>6, <1>9, <1>10, <1>11, <1>12, <1>13 DEF ReadUpTo

\* A step that is not the reader's: a step of storeTipBlock, of bitcoind, or the
\* start of a sync by RPC.
LEMMA ReadingKept ==
    ASSUME BaseInv, BaseInv', Grown, StoredStay, UNCHANGED <<file, lastFile, allowReorgs>>,
           \/ UNCHANGED hist
           \/ allowReorgs /\ hist'.pc \notin {"store", "getBlock"} /\ hist'.status # "finished",
           hist.pc = "store" => frame'[Historic].blk = frame[Historic].blk,
           file.stage \in {"seek", "seekPut"} => hist'.cur = hist.cur,
           ReadingOK
    PROVE  ReadingOK'
<1>. SUFFICES ASSUME file.made PROVE ReadingOK'
  BY DEF ReadingOK
<1>1. GoalListed(file)'
  <2>1. IsDisk(disk) /\ IsDisk(disk')
    BY DEF BaseInv, DiskOK
  <2>2. PICK f : f = file /\ f = file'
    OBVIOUS
  <2>3. GoalListed(f)'
    BY <2>1, <2>2, GoalGrows DEF ReadingOK
  <2>. QED BY <2>2, <2>3 DEF GoalListed
<1>2. file.goal \subseteq Stored => file.goal \subseteq Stored'
  BY GoalStays
<1>3. CASE UNCHANGED hist
  <2>1. file.at # NoFile => \E r \in Nat : ReadUpTo(r)'
    <3>. SUFFICES ASSUME file.at # NoFile PROVE \E r \in Nat : ReadUpTo(r)'
      OBVIOUS
    <3>1. IsReader(file) /\ GoalListed(file) /\ \E r \in Nat : ReadUpTo(r)
      BY DEF ReadingOK, BaseInv, FileOK
    <3>. QED BY <1>3, <3>1, ReadUpToKept
  <2>. QED BY <1>1, <1>2, <1>3, <2>1 DEF ReadingOK
<1>4. CASE allowReorgs /\ hist'.pc \notin {"store", "getBlock"} /\ hist'.status # "finished"
  BY <1>1, <1>2, <1>4 DEF ReadingOK
<1>. QED BY <1>3, <1>4

LEMMA MineOrder ==
    ASSUME BaseInv, BaseInv', Grown, OrderOK, NEW b \in Block, Mine(b)
    PROVE  OrderOK'
<1>1. UNCHANGED <<vars, allowReorgs, hist, lastFile, file>>
  BY DEF Mine, NewBest
<1>2. StoredStay /\ UNCHANGED <<tip, frame>> /\ IsDisk(disk')
  BY <1>1 DEF vars, StoredStay, Has, BaseInv, DiskOK
<1>3. TipInOrder' /\ SavedOK'
  BY <1>1, <1>2, TipKept, SavedKept DEF OrderOK
<1>4. ReadingOK'
  BY <1>1, <1>2, ReadingKept DEF OrderOK
<1>5. StartFound'
  BY <1>1, <1>2 DEF OrderOK, StartFound
<1>. QED BY <1>3, <1>4, <1>5 DEF OrderOK

LEMMA StutterOrder ==
    ASSUME BaseInv, BaseInv', Grown, OrderOK, UNCHANGED fileVars
    PROVE  OrderOK'
<1>1. UNCHANGED <<vars, allowReorgs, hist, lastFile, file>>
  BY DEF fileVars, appVars
<1>2. StoredStay /\ UNCHANGED <<tip, frame>> /\ IsDisk(disk')
  BY <1>1 DEF vars, StoredStay, Has, BaseInv, DiskOK
<1>3. TipInOrder' /\ SavedOK'
  BY <1>1, <1>2, TipKept, SavedKept DEF OrderOK
<1>4. ReadingOK'
  BY <1>1, <1>2, ReadingKept DEF OrderOK
<1>5. StartFound'
  BY <1>1, <1>2 DEF OrderOK, StartFound
<1>. QED BY <1>3, <1>4, <1>5 DEF OrderOK

LEMMA RestartOrder ==
    ASSUME BaseInv, BaseInv', Grown, OrderOK, RestartFiles
    PROVE  OrderOK'
<1>1. hist' = Started(TRUE) /\ UNCHANGED <<dbVars, lastFile>> /\ file' = NotMade
  BY RestartPermit
<1>2. StoredStay /\ UNCHANGED tip /\ IsDisk(disk')
  BY <1>1 DEF dbVars, StoredStay, Has, BaseInv, DiskOK
<1>3. TipInOrder' /\ SavedOK'
  BY <1>1, <1>2, TipKept, SavedKept DEF OrderOK
<1>4. ReadingOK'
  BY <1>1, NotMadeIs DEF ReadingOK
<1>5. hist'.pc = "network"
  BY <1>1 DEF Started
<1>6. StartFound'
  BY <1>5 DEF StartFound
<1>. QED BY <1>3, <1>4, <1>6 DEF OrderOK

\* What came from elsewhere left nothing out, or changed nothing.
LEMMA NothingSkipped ==
    ASSUME BaseInv, BaseInv', Grown, StoredStay, UNCHANGED lastFile, TipInOrder, SavedOK,
           NoteSkipped, ~skipped'
    PROVE  TipInOrder' /\ SavedOK'
<1>1. tip' = tip \/ (TipInOrder' /\ StoredUpTo(lastFile + 1, 0)')
  BY DEF NoteSkipped
<1>2. IsDisk(disk')
  BY DEF BaseInv, DiskOK
<1>3. CASE UNCHANGED tip
  BY <1>2, <1>3, TipKept, SavedKept
<1>4. CASE TipInOrder' /\ StoredUpTo(lastFile + 1, 0)'
  BY <1>4 DEF SavedOK
<1>. QED BY <1>1, <1>3, <1>4

LEMMA PeersOrder ==
    ASSUME BaseInv, BaseInv', Grown, PermitOK, PermitOK', OrderOK, FromPeers, ~skipped'
    PROVE  OrderOK'
<1>1. /\ frame'[Historic] = frame[Historic]
      /\ StoredStay
      /\ UNCHANGED <<allowReorgs, lastFile, file>>
      /\ ~allowReorgs => UNCHANGED tip /\ UNCHANGED hist
      /\ hist' = hist \/ (hist.pc = "off" /\ hist' = Started(FALSE))
  BY PeersPermit DEF BaseInv, StoredStay
<1>2. TipInOrder' /\ SavedOK'
  BY <1>1, NothingSkipped DEF OrderOK, FromPeers
<1>3. StartFound'
  <2>1. CASE allowReorgs
    BY <1>1, <2>1 DEF StartFound, PermitOK
  <2>2. CASE ~allowReorgs
    BY <1>1, <2>2 DEF StartFound, OrderOK
  <2>. QED BY <2>1, <2>2
<1>4. ReadingOK'
  <2>1. \/ UNCHANGED hist
        \/ allowReorgs /\ hist.pc = "off" /\ hist'.pc = "network" /\ hist'.status = "starting"
    BY <1>1 DEF Started
  <2>2. file.stage \in {"seek", "seekPut"} => hist'.cur = hist.cur
    BY <2>1 DEF BaseInv, StageOK
  <2>. QED BY <1>1, <2>1, <2>2, ReadingKept DEF OrderOK
<1>. QED BY <1>2, <1>3, <1>4 DEF OrderOK

-----------------------------------------------------------------------------
(* The block to seek *)

\* What bitcoind calls stale is above the block behind Genesis.
LEMMA NotSecond ==
    ASSUME BaseInv, OneSecond, TipInOrder, tip # NoTip, NEW c \in Branch[tip.hash], c # Genesis,
           c \notin Branch[best]
    PROVE  ParentOf[c] # Genesis
<1>. SUFFICES ASSUME ParentOf[c] = Genesis PROVE FALSE
  OBVIOUS
<1>1. IsDisk(disk) /\ Inv /\ best \in Block /\ \A b \in Blocks(disk) : Depth[b] <= Depth[best]
  BY DEF BaseInv, DiskOK, AppInv, HistOK, AppTypeOK
<1>2. tip.hash \in Block
  BY <1>1, TipIs
<1>3. tip.hash \in Blocks(disk)
  BY <1>1, TipPlaced, HasPlace
<1>4. c \in Block /\ Depth[c] = 1
  BY <1>2, BranchWithin, BlockTree, Names
<1>5. Depth[c] <= Depth[tip.hash] /\ Depth[tip.hash] \in Nat
  BY <1>2, BranchDepth
<1>6. Depth[best] \in Nat /\ Depth[tip.hash] <= Depth[best]
  BY <1>1, <1>3, BlockTree
<1>7. 1 \in 1..Depth[best] /\ 1 \in 0..Depth[best] /\ 1 - 1 = 0
  BY <1>4, <1>5, <1>6
<1>8. AtDepth(best, 1) \in Branch[best] /\ AtDepth(best, 1) \in Block
  BY <1>1, <1>7, DepthOnBranch
<1>9. ParentOf[AtDepth(best, 1)] = AtDepth(best, 0)
  BY <1>1, <1>7, ParentAtDepth
<1>10. AtDepth(best, 0) = Genesis
  <2>1. Genesis \in Branch[best] /\ Depth[Genesis] = 0
    BY <1>1, GenesisBelow, BlockTree
  <2>. QED BY <1>1, <2>1, IsAtDepth
<1>. QED BY <1>4, <1>8, <1>9, <1>10 DEF OneSecond

\* A block to start from.
GoodStart(c) ==
    /\ c = Genesis => tip = NoTip \/ tip.hash = Genesis
    /\ c # Genesis => tip # NoTip /\ c \in Branch[tip.hash]

\* A stale block that may be left for its parent.
GoodStep(h) == h.seen # "unknown" /\ (h.seen = "stale" => h.cur # Genesis /\ ParentOf[h.cur] # Genesis)

LEMMA GoodIsBlock ==
    ASSUME Inv, NEW c, GoodStart(c)
    PROVE  c \in Block /\ c # Null
<1>1. tip # NoTip => tip.hash \in Block
  BY TipIs
<1>. QED BY <1>1, BranchWithin, Names DEF GoodStart

LEMMA TestsStart ==
    ASSUME Inv, NEW h \in Hists, GoodStart(h.cur), GoodStep(h), TestTip(h), hist \in Hists
    PROVE  /\ GoodStart(hist'.cur)
           /\ hist'.pc = "notMain" => hist' = h
<1>1. h.cur # Null /\ h.cur \in Block /\ h.seen # "unknown"
  BY GoodIsBlock DEF GoodStep
<1>2. \/ hist' = h
      \/ Begin(h.cur)
      \/ /\ h.seen # "main"
         /\ hist' = [h EXCEPT !.pc = "tipInfo", !.old = h.cur, !.cur = ParentOf[h.cur]]
  BY <1>1 DEF TestTip
<1>3. CASE hist' = h
  BY <1>3
<1>4. CASE Begin(h.cur)
  BY <1>4 DEF Begin, Hists
<1>5. CASE /\ h.seen # "main"
           /\ hist' = [h EXCEPT !.pc = "tipInfo", !.old = h.cur, !.cur = ParentOf[h.cur]]
  <2>1. h.seen = "stale"
    BY <1>1, <1>5 DEF Hists
  <2>2. h.cur # Genesis /\ ParentOf[h.cur] # Genesis
    BY <2>1 DEF GoodStep
  <2>3. tip # NoTip /\ tip.hash \in Block /\ h.cur \in Branch[tip.hash]
    BY <2>2, TipIs DEF GoodStart
  <2>4. ParentOf[h.cur] \in Branch[tip.hash]
    BY <2>2, <2>3, ParentWithin
  <2>5. hist'.cur = ParentOf[h.cur] /\ hist'.pc = "tipInfo"
    BY <1>5 DEF Hists
  <2>. QED BY <2>2, <2>3, <2>4, <2>5 DEF GoodStart
<1>. QED BY <1>2, <1>3, <1>4, <1>5

LEMMA FoundStart ==
    ASSUME Inv, hist \in Hists, NEW n, TipFound(n, tip)
    PROVE  GoodStart(hist'.cur) /\ hist'.pc # "notMain"
<1>1. tip # NoTip => tip.hash \in Block
  BY TipIs
<1>2. CASE tip.hash = Null
  BY <1>2, TipIs DEF TipFound, GoodStart, Hists
<1>3. CASE tip.hash # Null
  <2>1. tip # NoTip /\ tip.hash \in Block /\ tip.hash \in Branch[tip.hash]
    BY <1>3, TipIs, Branches, Names
  <2>2. hist'.cur = tip.hash /\ hist'.pc = "tipInfo"
    BY <1>3 DEF TipFound, Hists
  <2>. QED BY <2>1, <2>2 DEF GoodStart
<1>. QED BY <1>2, <1>3

LEMMA EarlyStart ==
    ASSUME RpcFault = FALSE, OneSecond, BaseInv, PermitOK, OrderOK, hist.boot,
           CheckNetwork \/ CountBlocks \/ ReadTip \/ TipInfo \/ TipNotMain,
           hist'.pc \in {"tipInfo", "notMain", "getBlock"}
    PROVE  GoodStart(hist'.cur) /\ (hist'.pc = "notMain" => GoodStep(hist'))
<1>1. Inv /\ hist \in Hists /\ AppInv
  BY DEF BaseInv, AppInv, HistOK, AppTypeOK
<1>2. hist.pc \in {"tipInfo", "notMain"} =>
         /\ GoodStart(hist.cur) /\ hist.cur # Null
         /\ hist.pc = "notMain" => GoodStep(hist)
  <2>. SUFFICES ASSUME hist.pc \in {"tipInfo", "notMain"}
                PROVE  GoodStart(hist.cur) /\ (hist.pc = "notMain" => GoodStep(hist))
    BY <1>1, GoodIsBlock
  <2>1. file.stage = "todo"
    BY DEF BaseInv, StageOK
  <2>. QED BY <2>1 DEF OrderOK, StartFound, GoodStart, GoodStep
<1>3. CASE CheckNetwork
  BY <1>1, <1>3 DEF CheckNetwork, Hists
<1>4. CASE CountBlocks
  <2>1. hist.pc = "count"
    BY <1>4 DEF CountBlocks, HistAt
  <2>2. CASE cachedTip.hash # Null
    <3>1. NoTip.hash = Null
      BY DEF NoTip
    <3>2. cachedTip = tip
      BY <2>1, <2>2, <3>1 DEF PermitOK, Early
    <3>3. TipFound(Depth[best], tip)
      BY <1>4, <2>2, <3>2 DEF CountBlocks
    <3>. QED BY <1>1, <3>3, FoundStart
  <2>3. CASE ~(cachedTip.hash # Null)
    BY <1>1, <1>4, <2>3 DEF CountBlocks, Hists
  <2>. QED BY <2>2, <2>3
<1>5. CASE ReadTip
  <2>1. TipFound(hist.count, tip)
    BY <1>5 DEF ReadTip
  <2>. QED BY <1>1, <2>1, FoundStart
<1>6. CASE TipInfo
  <2>1. PICK seen \in {"unknown", "stale", "main"} :
          /\ seen = "unknown" => RpcFault \/ hist.cur = Null
          /\ seen # "unknown" => hist.cur # Null /\ (seen = "main" <=> hist.cur \in Branch[best])
          /\ LET h == [hist EXCEPT !.seen = seen]
             IN  IF h.old = Null
                 THEN TestTip(h)
                 ELSE hist' = [h EXCEPT !.pc = "notMain"] /\ UNCHANGED up
    BY <1>6 DEF TipInfo
  <2>. DEFINE h == [hist EXCEPT !.seen = seen]
  <2>2. hist.pc = "tipInfo"
    BY <1>6 DEF TipInfo, HistAt
  <2>3. h \in Hists /\ h.cur = hist.cur /\ h.seen = seen
    BY <1>1 DEF Hists
  <2>4. seen # "unknown"
    BY <1>2, <2>1, <2>2
  <2>5. seen = "stale" => hist.cur # Genesis /\ ParentOf[hist.cur] # Genesis
    <3>. SUFFICES ASSUME seen = "stale" PROVE hist.cur # Genesis /\ ParentOf[hist.cur] # Genesis
      OBVIOUS
    <3>1. hist.cur \notin Branch[best] /\ best \in Block
      BY <1>1, <2>1 DEF AppInv, HistOK, AppTypeOK
    <3>2. hist.cur # Genesis
      BY <3>1, GenesisBelow
    <3>3. tip # NoTip /\ hist.cur \in Branch[tip.hash]
      BY <1>2, <2>2, <3>2 DEF GoodStart
    <3>. QED BY <3>1, <3>2, <3>3, NotSecond DEF OrderOK
  <2>6. GoodStep(h) /\ GoodStart(h.cur)
    BY <1>2, <2>2, <2>3, <2>4, <2>5 DEF GoodStep
  <2>7. TestTip(h) \/ hist' = [h EXCEPT !.pc = "notMain"]
    BY <2>1
  <2>. HIDE DEF h
  <2>8. CASE TestTip(h)
    BY <1>1, <2>3, <2>6, <2>8, TestsStart
  <2>9. CASE hist' = [h EXCEPT !.pc = "notMain"]
    <3>1. hist'.cur = h.cur /\ hist'.seen = h.seen
      BY <2>3, <2>9 DEF Hists
    <3>. QED BY <2>6, <3>1 DEF GoodStep
  <2>. QED BY <2>7, <2>8, <2>9
<1>7. CASE TipNotMain
  <2>1. hist.pc = "notMain" /\ TestTip(hist)
    BY <1>7 DEF TipNotMain, HistAt
  <2>2. GoodStart(hist.cur) /\ GoodStep(hist)
    BY <1>2, <2>1
  <2>. QED BY <1>1, <2>1, <2>2, TestsStart
<1>. QED BY <1>3, <1>4, <1>5, <1>6, <1>7

LEMMA EarlyOrder ==
    ASSUME RpcFault = FALSE, OneSecond, BaseInv, BaseInv', Grown, PermitOK, OrderOK, WithoutFiles,
           CheckNetwork \/ CountBlocks \/ ReadTip \/ TipInfo \/ TipNotMain
    PROVE  OrderOK'
<1>1. /\ UNCHANGED <<prev, tip, allowReorgs, lastFile>>
      /\ hist.pc \notin {"off", "getBlock", "store"} /\ hist'.pc # "store"
      /\ hist'.boot = hist.boot
      /\ file.stage = "todo"
      /\ file' = IF hist'.pc = "off" THEN [file EXCEPT !.stage = "todo"] ELSE file
  BY EarlyMoves, NotToStore DEF WithoutFiles, BaseInv, StageOK
<1>2. file' = file
  BY <1>1 DEF BaseInv, FileOK, Files
<1>3. StoredStay /\ IsDisk(disk')
  BY <1>1 DEF StoredStay, Has, BaseInv, DiskOK
<1>4. TipInOrder' /\ SavedOK'
  BY <1>1, <1>3, TipKept, SavedKept DEF OrderOK
<1>5. StartFound'
  <2>. SUFFICES ASSUME hist.boot, hist'.pc \in {"tipInfo", "notMain", "getBlock"} PROVE StartFound'
    BY <1>1 DEF StartFound
  <2>1. GoodStart(hist'.cur) /\ (hist'.pc = "notMain" => GoodStep(hist'))
    BY EarlyStart
  <2>. QED BY <1>1, <2>1 DEF StartFound, GoodStart, GoodStep
<1>6. ReadingOK'
  <2>. SUFFICES ASSUME file.made PROVE ReadingOK'
    BY <1>2 DEF ReadingOK
  <2>1. allowReorgs /\ file.at = NoFile /\ file.goal \subseteq Stored
    BY <1>1 DEF PermitOK, OrderOK, ReadingOK
  <2>2. GoalListed(file)'
    <3>1. PICK f : f = file
      OBVIOUS
    <3>2. GoalListed(f)'
      BY <1>3, <3>1, GoalGrows DEF OrderOK, ReadingOK, BaseInv, DiskOK
    <3>. QED BY <1>2, <3>1, <3>2 DEF GoalListed
  <2>3. file.goal \subseteq Stored'
    BY <1>3, <2>1, GoalStays
  <2>. QED BY <1>1, <1>2, <2>1, <2>2, <2>3 DEF ReadingOK
<1>. QED BY <1>4, <1>5, <1>6 DEF OrderOK

-----------------------------------------------------------------------------
(* The steps of a sync that stores a block of the files *)

\* The parent of the next block to store is stored.
LEMMA ParentOfFile ==
    ASSUME IsDisk(disk), NEW b, NEW i, NEW r, Place(b, i, r), StoredUpTo(i, r - 1)
    PROVE  Has(ParentOf[b]) \/ ParentOf[b] = Zero
<1>1. b \in Block /\ i \in Nat /\ r \in Nat
  BY PlaceFacts
<1>2. b = Genesis => ParentOf[b] = Zero
  BY <1>1, BlockTree
<1>3. ASSUME b # Genesis PROVE Has(ParentOf[b])
  <2>1. PICK k, l : Place(ParentOf[b], k, l) /\ Behind(k, l, i, r)
    BY <1>3, ParentPlaced
  <2>2. r - 1 + 1 = r
    BY <1>1
  <2>3. ParentOf[b] \in Stored
    BY <2>1, <2>2 DEF StoredUpTo, Place
  <2>. QED BY <2>3 DEF Stored
<1>. QED BY <1>2, <1>3

\* A block of the files becomes the tip.
LEMMA FileTip ==
    ASSUME BaseInv, UNCHANGED <<disk, lastFile>>, StoredStay, NEW i, NEW r,
           tip'.hash \in Block, Place(tip'.hash, i, r), Has(tip'.hash), StoredUpTo(i, r - 1),
           lastFile + 1 <= i
    PROVE  TipInOrder' /\ SavedOK'
<1>1. IsDisk(disk) /\ lastFile \in Int /\ lastFile + 1 \in Int
  BY DEF BaseInv, DiskOK, FileOK, NoFile
<1>2. i \in Nat /\ r \in Nat /\ i \in Int /\ r - 1 \in Int /\ 0 <= r - 1 /\ 0 \in Int
  BY <1>1, PlaceFacts
<1>3. StoredUpTo(i, r)
  BY <1>1, StoredToPlace
<1>4. StoredUpTo(lastFile + 1, 0)
  BY <1>1, <1>2, StoredToFile
<1>5. StoredUpTo(i, r)' /\ StoredUpTo(lastFile + 1, 0)'
  BY <1>3, <1>4 DEF StoredUpTo, StoredStay, Stored
<1>6. TipInOrder'
  <2>1. i \in 1..Len(disk') /\ r \in 1..Len(disk'[i]) /\ disk'[i][r] = tip'.hash
    BY DEF Place
  <2>. QED BY <1>5, <2>1 DEF TipInOrder
<1>. QED BY <1>5, <1>6 DEF SavedOK

LEMMA MadeStepOrder ==
    ASSUME RpcFault = FALSE, BaseInv, BaseInv', Grown, PermitOK, OrderOK, HistoricStep, file.made,
           UNCHANGED <<disk, lastFile>>,
           file' = IF hist'.pc = "off" THEN [file EXCEPT !.stage = "todo"] ELSE file
    PROVE  OrderOK'
<1>. DEFINE i == file.at + 1
            b == frame[Historic].blk
<1>1. /\ Inv /\ hist \in Hists /\ Step(Historic) /\ hist.pc = "store" /\ pc[Historic] # "idle"
      /\ file.stage = "go" /\ IsDisk(disk) /\ IsDisk(disk') /\ IsReader(file)
  BY StepLeads, StepLocks, TheSyncs DEF BaseInv, AppInv, HistOK, AppTypeOK, HistoricStep, StageOK, DiskOK, FileOK
<1>2. /\ file.at # NoFile /\ ~allowReorgs /\ lastFile <= file.at /\ GoalListed(file)
      /\ \E r \in Nat : ReadUpTo(r)
  BY <1>1 DEF OrderOK, ReadingOK
<1>3. PICK r \in Nat : ReadUpTo(r)
  BY <1>2
<1>4. Place(b, i, r) /\ StoredUpTo(i, r - 1) /\ RestIs(file, r)
  BY <1>1, <1>3 DEF ReadUpTo
<1>5. b \in Block /\ i \in Nat /\ i \in 1..Len(disk) /\ r \in 1..Len(disk[i])
  <2>1. i \in 1..Len(disk) /\ r \in 1..Len(disk[i]) /\ b = disk[i][r] /\ IsFiles(disk)
    BY <1>1, <1>4, DiskFacts DEF Place
  <2>. QED BY <2>1, FilesFacts
<1>6. Has(ParentOf[b]) \/ ParentOf[b] = Zero
  BY <1>1, <1>4, ParentOfFile
<1>7. /\ Moved1(Historic) /\ StoredStay
      /\ tip' = tip \/ (pc[Historic] = "putTip" /\ pc'[Historic] = "setNext" /\ tip'.hash = b)
      /\ pc'[Historic] = "idle" => pc[Historic] = "setNext"
      /\ pc[Historic] \in {"putTip", "setNext"} => Has(b)
  <2>1. NewPrev(frame[Historic]) = ParentOf[b]
    BY DEF NewPrev
  <2>. QED BY <1>1, <1>6, <2>1, StepMoves, TheSyncs DEF StoredStay, PermitOK, StoredFrom
<1>8. /\ UNCHANGED allowReorgs /\ hist'.pc # "off" /\ file' = file
      /\ \/ hist' = [hist EXCEPT !.pc = "getBlock"] /\ Has(b)
         \/ UNCHANGED hist /\ pc'[Historic] # "idle" /\ frame'[Historic].blk = b
  <2>1. CASE pc'[Historic] = "idle"
    <3>1. hist' = [hist EXCEPT !.pc = "getBlock"] /\ UNCHANGED allowReorgs /\ Has(b)
      BY <1>1, <1>7, <2>1 DEF HistoricStep, Returned
    <3>2. hist'.pc = "getBlock"
      BY <1>1, <3>1 DEF Hists
    <3>. QED BY <3>1, <3>2
  <2>2. CASE pc'[Historic] # "idle"
    <3>1. UNCHANGED <<hist, allowReorgs>>
      BY <2>2 DEF HistoricStep, Returned
    <3>2. hist'.pc # "off"
      BY <1>1, <3>1
    <3>. QED BY <1>7, <2>2, <3>1, <3>2 DEF Moved1
  <2>. QED BY <2>1, <2>2
<1>9. TipInOrder' /\ SavedOK'
  <2>1. CASE UNCHANGED tip
    BY <1>1, <1>7, <2>1, TipKept, SavedKept DEF OrderOK
  <2>2. CASE pc[Historic] = "putTip" /\ tip'.hash = b
    <3>1. Has(b) /\ lastFile + 1 <= i
      BY <1>2, <1>7, <2>2 DEF BaseInv, FileOK, IsReader, Files, NoFile
    <3>. QED BY <1>4, <1>5, <1>7, <2>2, <3>1, FileTip
  <2>. QED BY <1>7, <2>1, <2>2
<1>10. StartFound'
  BY <1>1, <1>8 DEF StartFound
<1>11. ReadingOK'
  <2>1. CASE UNCHANGED hist /\ frame'[Historic].blk = b
    BY <1>7, <1>8, <2>1, ReadingKept DEF OrderOK
  <2>2. CASE hist' = [hist EXCEPT !.pc = "getBlock"] /\ Has(b)
    <3>1. hist'.pc = "getBlock" /\ hist'.status # "finished"
      BY <1>1, <2>2 DEF Hists, BaseInv, AppInv, HistOK, RunningIsShown
    <3>2. GoalListed(file)' /\ RestIs(file, r)'
      BY <1>2, <1>4, <1>8 DEF GoalListed, Place, RestIs
    <3>3. StoredUpTo(i, r)
      BY <1>1, <1>4, <2>2, StoredToPlace
    <3>4. StoredUpTo(i, r)'
      BY <1>8, <3>3, <1>7 DEF StoredUpTo, StoredStay, Stored
    <3>5. ReadUpTo(r)'
      BY <1>1, <1>8, <3>1, <3>2, <3>4 DEF ReadUpTo
    <3>. QED BY <1>1, <1>2, <1>8, <3>1, <3>2, <3>5 DEF ReadingOK
  <2>. QED BY <1>8, <2>1, <2>2
<1>. QED BY <1>9, <1>10, <1>11 DEF OrderOK

\* A sync by RPC, of a process that has read no files.
LEMMA UnmadeOrder ==
    ASSUME BaseInv, BaseInv', Grown, PermitOK, OrderOK, WithoutFiles, ~file.made, ~skipped',
           HistoricStep \/ (FileAt("go") /\ GetBlock)
    PROVE  OrderOK'
<1>1. /\ UNCHANGED lastFile /\ NoteSkipped /\ file.stage = "go" /\ hist \in Hists /\ AppInv
      /\ file' = IF hist'.pc = "off" THEN [file EXCEPT !.stage = "todo"] ELSE file
  BY StepLeads DEF WithoutFiles, BaseInv, StageOK, FileAt, AppInv, HistOK, AppTypeOK
<1>2. StoredStay
  <2>1. CASE HistoricStep
    BY <1>1, <2>1, StepMoves, TheSyncs DEF HistoricStep, AppInv, StoredStay
  <2>2. CASE FileAt("go") /\ GetBlock
    <3>1. up /\ hist.pc = "getBlock" /\ pc[Historic] = "idle"
      BY <1>1, <2>2 DEF FileAt, HistAt, AppInv, HistoricIsAlone
    <3>2. UNCHANGED vars \/ (hist.cur # Null /\ Call(Historic, [blk |-> hist.cur, allow |-> TRUE]))
      BY <2>2 DEF GetBlock
    <3>3. CASE UNCHANGED vars
      BY <3>3 DEF vars, StoredStay, Has
    <3>4. CASE hist.cur # Null /\ Call(Historic, [blk |-> hist.cur, allow |-> TRUE])
      BY <3>4 DEF Call, dbVars, StoredStay, Has
    <3>. QED BY <3>2, <3>3, <3>4
  <2>. QED BY <2>1, <2>2
<1>3. TipInOrder' /\ SavedOK'
  BY <1>1, <1>2, NothingSkipped DEF OrderOK
<1>4. file'.made = FALSE /\ (hist'.pc # "off" => file'.stage = "go")
  BY <1>1 DEF BaseInv, FileOK, Files
<1>. QED BY <1>3, <1>4 DEF OrderOK, StartFound, ReadingOK

LEMMA WithoutOrder ==
    ASSUME RpcFault = FALSE, OneSecond, BaseInv, BaseInv', Grown, PermitOK, OrderOK, WithoutFiles,
           ~skipped'
    PROVE  OrderOK'
<1>1. CASE CheckNetwork \/ CountBlocks \/ ReadTip \/ TipInfo \/ TipNotMain
  BY <1>1, EarlyOrder
<1>2. CASE HistoricStep /\ file.made
  <2>1. /\ UNCHANGED <<disk, lastFile>>
        /\ file' = IF hist'.pc = "off" THEN [file EXCEPT !.stage = "todo"] ELSE file
    BY DEF WithoutFiles
  <2>. QED BY <1>2, <2>1, MadeStepOrder
<1>3. CASE (HistoricStep \/ (FileAt("go") /\ GetBlock)) /\ ~file.made
  BY <1>3, UnmadeOrder
<1>. QED BY <1>1, <1>2, <1>3 DEF WithoutFiles

-----------------------------------------------------------------------------
(* The steps of the reader *)

LEMMA PrepareOrder ==
    ASSUME BaseInv, BaseInv', Grown, PermitOK, OrderOK, PrepareFiles
    PROVE  OrderOK'
<1>1. /\ hist.pc = "getBlock" /\ file.stage = "todo" /\ hist \in Hists /\ file \in Files
      /\ UNCHANGED <<prev, tip, allowReorgs, hist, disk, lastFile>>
      /\ IsDisk(disk) /\ IsDisk(disk') /\ best \in Block /\ best \in Blocks(disk)
  BY DEF PrepareFiles, FileAt, HistAt, BaseInv, AppInv, HistOK, AppTypeOK, FileOK, DiskOK,
         appVars, vars
<1>2. StoredStay /\ hist.status # "finished"
  BY <1>1 DEF StoredStay, Has, BaseInv, AppInv, HistOK, RunningIsShown
<1>3. TipInOrder' /\ SavedOK'
  BY <1>1, <1>2, TipKept, SavedKept DEF OrderOK
<1>4. CASE ByRpc
  <2>1. file' = [file EXCEPT !.stage = "go"]
    BY <1>4 DEF PrepareFiles
  <2>2. /\ file'.stage = "go" /\ file'.made = file.made /\ file'.at = file.at
        /\ file'.goal = file.goal /\ file'.n = file.n
    BY <1>1, <2>1 DEF Files
  <2>3. StartFound'
    BY <2>2 DEF StartFound
  <2>4. ReadingOK'
    <3>. SUFFICES ASSUME file.made PROVE ReadingOK'
      BY <2>2 DEF ReadingOK
    <3>1. allowReorgs /\ file.at = NoFile /\ file.goal \subseteq Stored /\ GoalListed(file)
      BY <1>1 DEF PermitOK, OrderOK, ReadingOK
    <3>2. file.goal \subseteq Stored'
      BY <1>2, <3>1, GoalStays
    <3>3. GoalListed(file)'
      BY <1>1, <2>2, <3>1 DEF GoalListed, Place
    <3>. QED BY <1>1, <1>2, <2>2, <3>1, <3>2, <3>3 DEF ReadingOK
  <2>. QED BY <1>3, <2>3, <2>4 DEF OrderOK
<1>5. CASE ~ByRpc
  <2>1. file' = [NotMade EXCEPT !.made = TRUE,
                                !.stage = IF hist.cur = Genesis THEN "go" ELSE "seek",
                                !.at = IF lastFile = NoFile THEN 0 ELSE lastFile,
                                !.n = Len(disk), !.saved = file.saved,
                                !.goal = Branch[best]]
    BY <1>5 DEF PrepareFiles
  <2>2. /\ file'.stage = (IF hist.cur = Genesis THEN "go" ELSE "seek")
        /\ file'.at = (IF lastFile = NoFile THEN 0 ELSE lastFile)
        /\ file'.n = Len(disk) /\ file'.goal = Branch[best] /\ file'.buf = Unread
    BY <2>1, NotMadeIs DEF NotMade
  <2>3. hist.boot /\ ~allowReorgs
    BY <1>1, <1>5 DEF ByRpc, PermitOK
  <2>4. /\ lastFile \in Int /\ lastFile >= -1 /\ lastFile < Len(disk) /\ Len(disk) \in Nat /\ Len(disk) > 0
        /\ IsFiles(disk)
    BY <1>1, DiskFacts DEF BaseInv, FileOK, NoFile
  <2>5. file'.at \in Nat /\ file'.at # NoFile /\ lastFile <= file'.at /\ file'.at + 1 \in 1..Len(disk)
    BY <2>2, <2>4 DEF NoFile
  <2>6. /\ hist.cur = Genesis => tip = NoTip \/ tip.hash = Genesis
        /\ hist.cur # Genesis => tip # NoTip /\ hist.cur \in Branch[tip.hash]
    BY <1>1, <2>3 DEF OrderOK, StartFound
  <2>7. StartFound'
    BY <1>1, <2>6 DEF StartFound
  <2>8. GoalListed(file)'
    <3>1. PICK p, q : Place(best, p, q)
      BY <1>1, HasPlace
    <3>2. ASSUME NEW c \in Branch[best]
          PROVE  \E k, l : Place(c, k, l)' /\ k <= Len(disk)
      <4>1. PICK k, l : Place(c, k, l)
        BY <1>1, <3>1, BranchBehind
      <4>2. k <= Len(disk)
        BY <1>1, <4>1, PlaceFacts
      <4>3. Place(c, k, l)'
        BY <1>1, <4>1 DEF Place
      <4>. QED BY <4>2, <4>3
    <3>. QED BY <2>2, <3>2 DEF GoalListed
  <2>9. ReadUpTo(0)'
    <3>1. RestIs(file, 0)'
      <4>1. Len(disk[file'.at + 1]) \in Nat
        BY <2>4, <2>5, FilesFacts
      <4>2. 0 \in 0..Len(disk'[file'.at + 1])
        BY <1>1, <4>1
      <4>. QED BY <2>2, <4>2 DEF RestIs
    <3>2. hist.cur = Genesis => StoredUpTo(file'.at + 1, 0)
      <4>. SUFFICES ASSUME hist.cur = Genesis PROVE StoredUpTo(file'.at + 1, 0)
        OBVIOUS
      <4>1. StoredUpTo(lastFile + 1, 0)
        BY <2>6 DEF OrderOK, SavedOK
      <4>2. CASE lastFile = NoFile
        <5>1. file'.at + 1 = 1
          BY <2>2, <4>2
        <5>2. \A k \in 1..Len(disk) : \A l \in 1..Len(disk[k]) : ~Behind(k, l, 1, 0 + 1)
          BY <2>4, FilesFacts DEF Behind
        <5>. QED BY <5>1, <5>2 DEF StoredUpTo
      <4>3. CASE lastFile # NoFile
        BY <2>2, <4>1, <4>3
      <4>. QED BY <4>2, <4>3
    <3>3. PICK k : k = file'.at + 1
      OBVIOUS
    <3>4. file'.stage = "go" => StoredUpTo(k, 0)'
      BY <1>1, <1>2, <2>2, <3>2, <3>3 DEF StoredUpTo, StoredStay, Stored
    <3>5. file'.stage \notin {"seekPut", "goPut"} /\ hist'.pc = "getBlock"
      BY <1>1, <2>2
    <3>. QED BY <3>1, <3>3, <3>4, <3>5 DEF ReadUpTo
  <2>10. ReadingOK'
    <3>1. 0 \in Nat
      OBVIOUS
    <3>. QED BY <1>1, <1>2, <2>2, <2>3, <2>5, <2>8, <2>9, <3>1 DEF ReadingOK
  <2>. QED BY <1>3, <2>7, <2>10 DEF OrderOK
<1>. QED BY <1>4, <1>5

\* f and g are to read the same blocks.
SameGoal(f, g) == g.made = f.made /\ g.n = f.n /\ g.goal = f.goal

LEMMA HeldReads ==
    ASSUME NEW g \in Files, NEW t \in StageNames, NEW c \in Block \cup {Null}, NEW s,
           RestIs(g, s), file' = Held(g, t, c), UNCHANGED disk, GoalListed(file), SameGoal(file, g)
    PROVE  /\ RestIs(file, s)' /\ GoalListed(file)'
           /\ file'.at = g.at /\ file'.stage = t /\ file'.got = c
           /\ file'.made = file.made /\ file'.goal = file.goal
<1>1. /\ file'.at = g.at /\ file'.stage = t /\ file'.got = c /\ file'.buf = g.buf
      /\ file'.made = file.made /\ file'.goal = file.goal /\ file'.n = file.n
      /\ g.goal = file.goal /\ g.n = file.n
  <2>1. SameReader(g, file')
    BY HeldBlock
  <2>. QED BY <2>1, HeldBlock DEF SameReader, SameGoal
<1>2. RestIs(file, s)'
  BY <1>1 DEF RestIs
<1>3. GoalListed(file)'
  BY <1>1 DEF GoalListed, Place
<1>. QED BY <1>1, <1>2, <1>3

\* A sync ends where no block is left.
LEMMA EndReads ==
    ASSUME NEW g \in Files, g.at = NoFile, SameGoal(file, g), GoalListed(file), UNCHANGED disk,
           file' = [g EXCEPT !.stage = "todo"]
    PROVE  /\ GoalListed(file)' /\ file'.at = NoFile /\ file'.stage = "todo"
           /\ file'.made = file.made /\ file'.goal = file.goal
<1>1. /\ file'.at = NoFile /\ file'.stage = "todo"
      /\ file'.made = file.made /\ file'.goal = file.goal /\ file'.n = file.n
  BY DEF SameGoal, Files
<1>. QED BY <1>1 DEF GoalListed, Place

\* The reader is at a file only while the first sync of the process runs.
LEMMA ReadsFirst ==
    ASSUME BaseInv, PermitOK, OrderOK, file.made, hist.pc = "getBlock", file.stage # "todo"
    PROVE  /\ IsReader(file) /\ GoalListed(file)
           /\ file.at = NoFile => allowReorgs /\ file.goal \subseteq Stored
           /\ file.at # NoFile => /\ ~allowReorgs /\ hist.boot
                                  /\ lastFile <= file.at
                                  /\ \E r \in Nat : ReadUpTo(r)
  BY DEF BaseInv, FileOK, PermitOK, OrderOK, ReadingOK

\* The seeking loop finds its block: all that is before it is stored.
LEMMA FoundStored ==
    ASSUME BaseInv, OrderOK, hist.boot, hist.pc = "getBlock", file.stage \in {"seek", "seekPut"},
           NEW i, NEW j, Place(hist.cur, i, j), file.made
    PROVE  StoredUpTo(i, j)
<1>1. hist.cur # Genesis /\ tip # NoTip /\ hist.cur \in Branch[tip.hash] /\ IsDisk(disk) /\ Inv
  BY DEF OrderOK, ReadingOK, StartFound, BaseInv, DiskOK, AppInv
<1>2. tip.hash \in Block
  BY <1>1, TipIs
<1>3. PICK k, l : Place(tip.hash, k, l) /\ StoredUpTo(k, l)
  BY <1>1, TipPlaced DEF OrderOK
<1>. QED BY <1>1, <1>2, <1>3, StoredBelow

LEMMA SeekUntilOrder ==
    ASSUME BaseInv, BaseInv', PermitOK, OrderOK, file.made, hist.pc = "getBlock",
           file.stage \in {"seek", "seekPut"}, hist.boot, ~allowReorgs,
           UNCHANGED <<vars, allowReorgs, hist, disk>>, SavedOK',
           NEW g \in Files, SameGoal(file, g), g.at # NoFile, lastFile' <= g.at,
           NEW s \in Nat, RestIs(g, s),
           NEW b \in Block, Place(b, g.at + 1, s),
           \/ file' = [g EXCEPT !.stage = IF b = hist.cur THEN "go" ELSE "seek", !.got = Null]
           \/ file' = [g EXCEPT !.stage = "seekPut", !.got = b]
    PROVE  OrderOK'
<1>1. /\ hist \in Hists /\ GoalListed(file) /\ hist.cur # Genesis /\ hist.status # "finished"
      /\ UNCHANGED <<prev, tip>>
  BY DEF BaseInv, AppInv, HistOK, AppTypeOK, RunningIsShown, OrderOK, ReadingOK, vars
<1>2. StoredStay /\ TipInOrder'
  BY <1>1 DEF StoredStay, Has, OrderOK, TipInOrder, StoredUpTo, Stored
<1>3. PICK t \in StageNames, c \in Block \cup {Null} :
         /\ file' = Held(g, t, c)
         /\ \/ t = "go" /\ b = hist.cur
            \/ t = "seek"
            \/ t = "seekPut" /\ c = b
  <2>1. CASE file' = [g EXCEPT !.stage = IF b = hist.cur THEN "go" ELSE "seek", !.got = Null]
    BY <2>1 DEF Held, StageNames
  <2>2. CASE file' = [g EXCEPT !.stage = "seekPut", !.got = b]
    BY <2>2 DEF Held, StageNames
  <2>. QED BY <2>1, <2>2
<1>4. /\ RestIs(file, s)' /\ GoalListed(file)'
      /\ file'.at = g.at /\ file'.stage = t /\ file'.got = c
      /\ file'.made = file.made /\ file'.goal = file.goal
  BY <1>1, <1>3, HeldReads
<1>5. StartFound'
  BY <1>1, <1>3, <1>4 DEF StartFound, OrderOK
<1>6. ReadUpTo(s)'
  <2>1. PICK i : i = g.at + 1
    OBVIOUS
  <2>2. t = "go" => StoredUpTo(i, s)'
    <3>. SUFFICES ASSUME t = "go" PROVE StoredUpTo(i, s)'
      OBVIOUS
    <3>1. Place(hist.cur, i, s)
      BY <1>3, <2>1
    <3>2. StoredUpTo(i, s)
      BY <3>1, FoundStored
    <3>. QED BY <1>1, <3>2 DEF StoredUpTo, Stored, Has
  <2>3. t = "seekPut" => Place(b, i, s)'
    BY <2>1 DEF Place
  <2>4. t = "seekPut" => file'.got = b
    BY <1>3, <1>4
  <2>5. t # "goPut" /\ hist'.pc = "getBlock" /\ file'.at + 1 = i
    BY <1>3, <1>4, <2>1
  <2>6. t = "seekPut" => Place(file.got, i, s)'
    BY <2>3, <2>4 DEF Place
  <2>. QED BY <1>4, <2>2, <2>5, <2>6 DEF ReadUpTo
<1>7. ReadingOK'
  BY <1>1, <1>3, <1>4, <1>6 DEF ReadingOK
<1>. QED BY <1>2, <1>5, <1>7 DEF OrderOK

\* A block is handed to storeTipBlock.
LEMMA StoreReadOrder ==
    ASSUME BaseInv, BaseInv', PermitOK, OrderOK, file.made, hist.pc = "getBlock", up, ~allowReorgs,
           UNCHANGED <<allowReorgs, disk>>,
           UNCHANGED lastFile \/ StoredUpTo(lastFile' + 1, 0),
           NEW g \in Files, SameGoal(file, g), g.at # NoFile, lastFile' <= g.at,
           NEW s \in Nat, RestIs(g, s),
           NEW b \in Block, Place(b, g.at + 1, s), StoredUpTo(g.at + 1, s - 1), StoreRead(b, g)
    PROVE  OrderOK'
<1>1. /\ hist \in Hists /\ GoalListed(file) /\ hist.status # "finished" /\ AppInv
      /\ pc[Historic] = "idle"
  BY DEF BaseInv, AppInv, HistOK, AppTypeOK, RunningIsShown, OrderOK, ReadingOK, HistoricIsAlone
<1>2. /\ Call(Historic, [blk |-> b, allow |-> TRUE]) /\ hist' = [hist EXCEPT !.pc = "store"]
      /\ file' = Held(g, "go", Null)
  BY DEF StoreRead, Held
<1>3. "go" \in StageNames /\ Null \in Block \cup {Null}
  BY DEF StageNames
<1>4. /\ RestIs(file, s)' /\ GoalListed(file)'
      /\ file'.at = g.at /\ file'.stage = "go"
      /\ file'.made = file.made /\ file'.goal = file.goal
  BY <1>1, <1>2, <1>3, HeldReads
<1>5. hist'.pc = "store" /\ hist'.boot = hist.boot /\ hist'.status = hist.status
  BY <1>1, <1>2 DEF Hists
<1>6. UNCHANGED <<prev, tip>> /\ frame'[Historic].blk = b
  BY <1>1, <1>2, <1>4, <1>5, HistoricCallPermit
<1>7. TipInOrder' /\ SavedOK'
  <2>1. TipInOrder'
    BY <1>6 DEF TipInOrder, StoredUpTo, Stored, Has, OrderOK
  <2>2. CASE UNCHANGED lastFile
    BY <1>6, <2>1, <2>2 DEF SavedOK, StoredUpTo, Stored, Has, OrderOK, Place
  <2>3. CASE StoredUpTo(lastFile' + 1, 0)
    BY <1>6, <2>1, <2>3 DEF SavedOK, StoredUpTo, Stored, Has
  <2>. QED BY <2>1, <2>2, <2>3
<1>8. StartFound'
  BY <1>5 DEF StartFound
<1>9. ReadUpTo(s)'
  <2>1. PICK i : i = g.at + 1
    OBVIOUS
  <2>2. StoredUpTo(i, s - 1)'
    BY <1>6, <2>1 DEF StoredUpTo, Stored, Has
  <2>3. Place(frame[Historic].blk, i, s)'
    BY <1>6, <2>1 DEF Place
  <2>. QED BY <1>4, <1>5, <2>1, <2>2, <2>3 DEF ReadUpTo
<1>10. ReadingOK'
  BY <1>1, <1>4, <1>5, <1>9 DEF ReadingOK
<1>. QED BY <1>7, <1>8, <1>10 DEF OrderOK

LEMMA SeekFileOrder ==
    ASSUME BaseInv, BaseInv', Grown, PermitOK, OrderOK, SeekFile
    PROVE  OrderOK'
<1>. DEFINE b == NextOf(file).blk
            g == NextOf(file).file
<1>1. /\ up /\ hist.pc = "getBlock" /\ file.stage = "seek" /\ file.made
      /\ UNCHANGED <<vars, allowReorgs, disk, lastFile>>
      /\ hist \in Hists /\ IsDisk(disk)
  BY DEF SeekFile, SeekUntil, FileAt, HistAt, BaseInv, StageOK, AppInv, HistOK, AppTypeOK, DiskOK
<1>2. /\ IsReader(file) /\ GoalListed(file)
      /\ file.at = NoFile => allowReorgs /\ file.goal \subseteq Stored
      /\ file.at # NoFile => /\ ~allowReorgs /\ hist.boot /\ lastFile <= file.at
                             /\ \E r \in Nat : ReadUpTo(r)
  BY <1>1, ReadsFirst
<1>3. Gives(file, b, g) /\ g \in Files /\ SameGoal(file, g) /\ (b = Null <=> g.at = NoFile)
  BY <1>1, <1>2, NextOfTypes, DiskFacts DEF Gives, IsReader, SameReader, SameGoal
<1>4. \/ /\ b = Null
         /\ hist' = [hist EXCEPT !.pc = "off", !.status = "error"]
         /\ file' = [g EXCEPT !.stage = "todo"]
      \/ /\ b # Null /\ UNCHANGED hist
         /\ \/ file' = [g EXCEPT !.stage = IF b = hist.cur THEN "go" ELSE "seek", !.got = Null]
            \/ file' = [g EXCEPT !.stage = "seekPut", !.got = b]
  BY DEF SeekFile, SeekUntil
<1>5. UNCHANGED <<prev, tip>>
  BY <1>1 DEF vars
<1>6. TipInOrder' /\ SavedOK'
  BY <1>1, <1>5 DEF TipInOrder, SavedOK, StoredUpTo, Stored, Has, OrderOK, Place
<1>. HIDE DEF b, g
<1>7. CASE /\ b = Null
           /\ hist' = [hist EXCEPT !.pc = "off", !.status = "error"]
           /\ file' = [g EXCEPT !.stage = "todo"]
  <2>1. hist'.pc = "off" /\ hist'.status = "error"
    BY <1>1, <1>7 DEF Hists
  <2>2. /\ GoalListed(file)' /\ file'.at = NoFile /\ file'.stage = "todo" /\ file'.goal = file.goal
    BY <1>1, <1>2, <1>3, <1>7, EndReads
  <2>3. file.goal \subseteq Stored => file.goal \subseteq Stored'
    BY <1>5 DEF Stored, Has
  <2>4. allowReorgs => file.goal \subseteq Stored
    BY <1>2
  <2>5. StartFound'
    BY <2>1 DEF StartFound
  <2>6. ReadingOK'
    BY <1>1, <2>1, <2>2, <2>3, <2>4 DEF ReadingOK
  <2>. QED BY <1>6, <2>5, <2>6 DEF OrderOK
<1>8. CASE /\ b # Null /\ UNCHANGED hist
           /\ \/ file' = [g EXCEPT !.stage = IF b = hist.cur THEN "go" ELSE "seek", !.got = Null]
              \/ file' = [g EXCEPT !.stage = "seekPut", !.got = b]
  <2>1. b \in Block /\ g.at # NoFile
    BY <1>3, <1>8 DEF Gives
  <2>2. file.at # NoFile
    BY <1>8 DEF NextOf, b
  <2>3. PICK r \in Nat : ReadUpTo(r)
    BY <1>2, <2>2
  <2>4. RestIs(file, r)
    BY <2>3 DEF ReadUpTo
  <2>5. TakesNext(file, r, b, g)
    BY <1>1, <1>2, <1>8, <2>2, <2>4, NextPlace DEF b, g
  <2>6. PICK s \in Nat \ {0} : RestIs(g, s) /\ Place(b, g.at + 1, s) /\ file.at <= g.at
    BY <2>5 DEF TakesNext
  <2>7. lastFile' <= g.at
    BY <1>1, <1>2, <1>3, <2>2, <2>6 DEF IsReader, Files, BaseInv, FileOK, NoFile
  <2>. QED BY <1>1, <1>2, <1>3, <1>6, <1>8, <2>1, <2>2, <2>6, <2>7, SeekUntilOrder
<1>. QED BY <1>4, <1>7, <1>8

LEMMA ReadFileOrder ==
    ASSUME BaseInv, BaseInv', Grown, PermitOK, OrderOK, ReadFile
    PROVE  OrderOK'
<1>. DEFINE b == NextOf(file).blk
            g == NextOf(file).file
<1>1. /\ up /\ hist.pc = "getBlock" /\ file.stage = "go" /\ file.made
      /\ UNCHANGED <<disk, lastFile>>
      /\ hist \in Hists /\ IsDisk(disk)
  BY DEF ReadFile, FileAt, HistAt, BaseInv, AppInv, HistOK, AppTypeOK, DiskOK
<1>2. /\ IsReader(file) /\ GoalListed(file)
      /\ file.at = NoFile => allowReorgs /\ file.goal \subseteq Stored
      /\ file.at # NoFile => /\ ~allowReorgs /\ hist.boot /\ lastFile <= file.at
                             /\ \E r \in Nat : ReadUpTo(r)
  BY <1>1, ReadsFirst
<1>3. Gives(file, b, g) /\ g \in Files /\ SameGoal(file, g) /\ (b = Null <=> g.at = NoFile)
  BY <1>1, <1>2, NextOfTypes, DiskFacts DEF Gives, IsReader, SameReader, SameGoal
<1>4. \/ /\ b = Null /\ EndSync("finished") /\ UNCHANGED vars
         /\ file' = [g EXCEPT !.stage = "todo"]
      \/ b # Null /\ StoreRead(b, g) /\ UNCHANGED allowReorgs
      \/ /\ b # Null /\ UNCHANGED <<vars, hist, allowReorgs>>
         /\ file' = [g EXCEPT !.stage = "goPut", !.got = b]
  BY DEF ReadFile
<1>5. file.at # NoFile =>
         \E r \in Nat : RestIs(file, r) /\ StoredUpTo(file.at + 1, r)
  BY <1>1, <1>2 DEF ReadUpTo
<1>. HIDE DEF b, g
<1>6. CASE /\ b = Null /\ EndSync("finished") /\ UNCHANGED vars
           /\ file' = [g EXCEPT !.stage = "todo"]
  <2>1. hist'.pc = "off" /\ hist'.status = "finished" /\ UNCHANGED <<prev, tip>>
    BY <1>6 DEF EndSync, Started, vars
  <2>2. /\ GoalListed(file)' /\ file'.at = NoFile /\ file'.stage = "todo" /\ file'.goal = file.goal
    BY <1>1, <1>2, <1>3, <1>6, EndReads
  <2>3. file.goal \subseteq Stored
    <3>1. CASE file.at = NoFile
      BY <1>2, <3>1
    <3>2. CASE file.at # NoFile
      <4>1. PICK r \in Nat : RestIs(file, r) /\ StoredUpTo(file.at + 1, r)
        BY <1>5, <3>2
      <4>. QED BY <1>1, <1>2, <1>6, <3>2, <4>1, NextPlace DEF b
    <3>. QED BY <3>1, <3>2
  <2>4. file.goal \subseteq Stored'
    BY <2>1, <2>3 DEF Stored, Has
  <2>5. TipInOrder' /\ SavedOK'
    BY <1>1, <2>1 DEF TipInOrder, SavedOK, StoredUpTo, Stored, Has, OrderOK, Place
  <2>6. StartFound'
    BY <2>1 DEF StartFound
  <2>7. ReadingOK'
    BY <2>1, <2>2, <2>4 DEF ReadingOK
  <2>. QED BY <2>5, <2>6, <2>7 DEF OrderOK
<1>7. ASSUME b # Null, UNCHANGED allowReorgs
      PROVE  /\ file.at # NoFile /\ b \in Block /\ g.at # NoFile /\ lastFile' <= g.at
             /\ \E s \in Nat \ {0} : /\ RestIs(g, s) /\ Place(b, g.at + 1, s)
                                     /\ StoredUpTo(g.at + 1, s - 1)
  <2>1. b \in Block /\ g.at # NoFile
    BY <1>3, <1>7 DEF Gives
  <2>2. file.at # NoFile
    BY <1>7 DEF NextOf, b
  <2>3. PICK r \in Nat : RestIs(file, r) /\ StoredUpTo(file.at + 1, r)
    BY <1>5, <2>2
  <2>4. TakesNext(file, r, b, g)
    BY <1>1, <1>2, <1>7, <2>2, <2>3, NextPlace DEF b, g
  <2>5. PICK s \in Nat \ {0} : /\ RestIs(g, s) /\ Place(b, g.at + 1, s) /\ file.at <= g.at
                               /\ StoredUpTo(g.at + 1, s - 1)
    BY <2>3, <2>4 DEF TakesNext
  <2>6. lastFile' <= g.at
    BY <1>1, <1>2, <1>3, <2>2, <2>5 DEF IsReader, Files, BaseInv, FileOK, NoFile
  <2>. QED BY <2>1, <2>2, <2>5, <2>6
<1>8. CASE b # Null /\ StoreRead(b, g) /\ UNCHANGED allowReorgs
  <2>1. PICK s \in Nat \ {0} : /\ RestIs(g, s) /\ Place(b, g.at + 1, s)
                               /\ StoredUpTo(g.at + 1, s - 1)
    BY <1>7, <1>8
  <2>. QED BY <1>1, <1>2, <1>3, <1>7, <1>8, <2>1, StoreReadOrder
<1>9. CASE /\ b # Null /\ UNCHANGED <<vars, hist, allowReorgs>>
           /\ file' = [g EXCEPT !.stage = "goPut", !.got = b]
  <2>1. PICK s \in Nat \ {0} : /\ RestIs(g, s) /\ Place(b, g.at + 1, s)
                               /\ StoredUpTo(g.at + 1, s - 1)
    BY <1>7, <1>9
  <2>2. file' = Held(g, "goPut", b) /\ "goPut" \in StageNames /\ b \in Block \cup {Null}
    BY <1>7, <1>9 DEF Held, StageNames
  <2>3. /\ RestIs(file, s)' /\ GoalListed(file)'
        /\ file'.at = g.at /\ file'.stage = "goPut" /\ file'.got = b
        /\ file'.made = file.made /\ file'.goal = file.goal
    BY <1>1, <1>2, <1>3, <2>1, <2>2, HeldReads
  <2>4. UNCHANGED <<prev, tip>> /\ ~allowReorgs /\ hist.status # "finished"
    BY <1>1, <1>2, <1>7, <1>9 DEF vars, BaseInv, AppInv, HistOK, RunningIsShown
  <2>5. TipInOrder' /\ SavedOK'
    BY <1>1, <2>4 DEF TipInOrder, SavedOK, StoredUpTo, Stored, Has, OrderOK, Place
  <2>6. StartFound'
    BY <2>3 DEF StartFound
  <2>7. ReadUpTo(s)'
    <3>1. PICK i : i = g.at + 1
      OBVIOUS
    <3>2. StoredUpTo(i, s - 1)'
      BY <1>1, <2>1, <2>4, <3>1 DEF StoredUpTo, Stored, Has
    <3>3. Place(file.got, i, s)'
      BY <1>1, <2>1, <2>3, <3>1 DEF Place
    <3>. QED BY <1>1, <1>9, <2>3, <3>1, <3>2, <3>3 DEF ReadUpTo
  <2>8. ReadingOK'
    BY <1>1, <1>7, <1>9, <2>1, <2>3, <2>4, <2>7 DEF ReadingOK
  <2>. QED BY <2>5, <2>6, <2>8 DEF OrderOK
<1>. QED BY <1>4, <1>6, <1>8, <1>9

\* The number of the file is saved.
LEMMA SaveIndexOrder ==
    ASSUME BaseInv, BaseInv', Grown, PermitOK, OrderOK, SaveIndex
    PROVE  OrderOK'
<1>. DEFINE f == [file EXCEPT !.saved = file.at]
            b == file.got
            i == file.at + 1
<1>1. /\ up /\ hist.pc = "getBlock" /\ file.stage \in {"seekPut", "goPut"} /\ file.made
      /\ UNCHANGED <<allowReorgs, disk>> /\ lastFile' = file.at
      /\ hist \in Hists /\ file \in Files /\ IsDisk(disk) /\ Inv
      /\ b \in Block /\ file.at # NoFile
  BY DEF SaveIndex, FileAt, HistAt, BaseInv, StageOK, AppInv, HistOK, AppTypeOK, FileOK, DiskOK
<1>2. /\ IsReader(file) /\ GoalListed(file) /\ ~allowReorgs /\ hist.boot
      /\ \E r \in Nat : ReadUpTo(r)
  BY <1>1, ReadsFirst
<1>3. PICK r \in Nat : ReadUpTo(r)
  BY <1>2
<1>4. /\ RestIs(file, r) /\ Place(b, i, r)
      /\ file.stage = "goPut" => StoredUpTo(i, r - 1)
  BY <1>1, <1>3 DEF ReadUpTo
<1>5. i \in Int /\ i \in Nat /\ r - 1 \in Int /\ 0 <= r - 1
  <2>1. i \in 1..Len(disk) /\ r \in 1..Len(disk[i]) /\ IsFiles(disk)
    BY <1>1, <1>4, DiskFacts DEF Place
  <2>. QED BY <2>1, FilesFacts
<1>6. /\ f \in Files /\ f.at = file.at /\ f.buf = file.buf /\ f.n = file.n /\ f.goal = file.goal
      /\ f.made = file.made
  BY <1>1 DEF Files
<1>7. \/ file.stage = "seekPut" /\ SeekUntil(b, f)
      \/ file.stage = "goPut" /\ StoreRead(b, f)
  BY DEF SaveIndex, FileAt
<1>. HIDE DEF f
<1>8. RestIs(f, r) /\ SameGoal(file, f) /\ f.at # NoFile /\ lastFile' <= f.at /\ f.at + 1 = i
  BY <1>1, <1>4, <1>5, <1>6 DEF RestIs, SameGoal, Files
<1>9. CASE file.stage = "goPut" /\ StoreRead(b, f)
  <2>1. PICK k \in Int, l \in Int : k = i /\ l = r - 1 /\ 0 <= l
    BY <1>5
  <2>2. StoredUpTo(k, l)
    BY <1>4, <1>9, <2>1
  <2>3. StoredUpTo(k, 0)
    BY <1>1, <2>1, <2>2, StoredToFile
  <2>4. StoredUpTo(lastFile' + 1, 0)
    BY <1>1, <2>1, <2>3
  <2>5. Place(b, f.at + 1, r) /\ StoredUpTo(f.at + 1, r - 1) /\ StoreRead(b, f)
    BY <1>4, <1>8, <1>9
  <2>. HIDE DEF b, i
  <2>. QED BY <1>1, <1>2, <1>6, <1>8, <2>4, <2>5, StoreReadOrder
<1>10. CASE file.stage = "seekPut" /\ SeekUntil(b, f)
  <2>1. UNCHANGED <<vars, hist, prev, tip>>
    BY <1>10 DEF SeekUntil, vars
  <2>2. hist.cur # Genesis /\ tip # NoTip /\ hist.cur \in Branch[tip.hash]
    BY <1>1, <1>2, <1>10 DEF OrderOK, ReadingOK, StartFound
  <2>3. tip.hash # Genesis
    BY <2>2, Branches
  <2>4. PICK p, q : Place(tip.hash, p, q) /\ StoredUpTo(p, q)
    BY <1>1, <2>2, TipPlaced DEF OrderOK
  <2>5. p \in Nat /\ q \in Nat
    BY <1>1, <2>4, PlaceFacts
  <2>6. SavedOK'
    <3>1. CASE p < i
      <4>1. p <= lastFile'
        BY <1>1, <1>5, <2>5, <3>1 DEF Files
      <4>2. p \in 1..Len(disk') /\ q \in 1..Len(disk'[p]) /\ disk'[p][q] = tip'.hash
        BY <1>1, <2>1, <2>4 DEF Place
      <4>. QED BY <2>1, <2>2, <2>3, <4>1, <4>2 DEF SavedOK, Place
    <3>2. CASE ~(p < i)
      <4>1. PICK k \in Int : k = i
        BY <1>5
      <4>2. StoredUpTo(k, 0)
        BY <1>1, <1>5, <2>4, <2>5, <3>2, <4>1, StoredToFile
      <4>3. StoredUpTo(k, 0)'
        BY <1>1, <2>1, <4>2 DEF StoredUpTo, Stored, Has
      <4>. QED BY <1>1, <4>1, <4>3 DEF SavedOK
    <3>. QED BY <3>1, <3>2
  <2>7. /\ Place(b, f.at + 1, r)
        /\ file' = [f EXCEPT !.stage = IF b = hist.cur THEN "go" ELSE "seek", !.got = Null]
    BY <1>4, <1>8, <1>10 DEF SeekUntil
  <2>. HIDE DEF b, i
  <2>. QED BY <1>1, <1>2, <1>6, <1>8, <1>10, <2>1, <2>6, <2>7, SeekUntilOrder
<1>. QED BY <1>7, <1>9, <1>10

-----------------------------------------------------------------------------
(* All steps *)

OrderInv == BaseInv /\ PermitOK /\ (skipped \/ OrderOK)

LEMMA InitOrder == FileInit => OrderInv
<1>. SUFFICES ASSUME FileInit PROVE OrderInv
  OBVIOUS
<1>1. /\ tip = NoTip /\ hist.pc = "network" /\ file.made = FALSE /\ lastFile = NoFile
      /\ BaseInv /\ PermitOK
  BY NotMadeIs, BaseInit, InitPermit DEF FileInit, Init, BlockDbInit, Started
<1>2. SavedOK
  <2>1. lastFile + 1 = 0
    BY <1>1 DEF NoFile
  <2>2. \A k \in 1..Len(disk) : \A l \in 1..Len(disk[k]) : ~Behind(k, l, 0, 0 + 1)
    BY <1>1, DiskFacts, FilesFacts DEF Behind, BaseInv, DiskOK
  <2>. QED BY <2>1, <2>2 DEF SavedOK, StoredUpTo
<1>. QED BY <1>1, <1>2 DEF OrderInv, OrderOK, TipInOrder, StartFound, ReadingOK

LEMMA OrderNext ==
    ASSUME RpcFault = FALSE, OneSecond
    PROVE  OrderInv /\ [FileNext]_fileVars => OrderInv'
<1>. SUFFICES ASSUME OrderInv, [FileNext]_fileVars PROVE OrderInv'
  OBVIOUS
<1>1. BaseInv /\ BaseInv' /\ Grown /\ PermitOK /\ PermitOK'
  BY BaseNext, PermitNext DEF OrderInv
<1>. SUFFICES ASSUME ~skipped' PROVE OrderOK'
  BY <1>1 DEF OrderInv
<1>2. ~skipped
  BY DEF FileNext, Mine, FromFiles, PrepareFiles, SeekFile, ReadFile, SaveIndex, WithoutFiles,
         FromPeers, RestartFiles, NoteSkipped, fileVars
<1>3. OrderOK
  BY <1>2 DEF OrderInv
<1>4. ASSUME NEW b \in Block, Mine(b) PROVE OrderOK'
  BY <1>1, <1>3, <1>4, MineOrder
<1>5. CASE FromFiles
  BY <1>1, <1>3, <1>5, PrepareOrder, SeekFileOrder, ReadFileOrder, SaveIndexOrder, WithoutOrder
     DEF FromFiles
<1>6. CASE FromPeers
  BY <1>1, <1>3, <1>6, PeersOrder
<1>7. CASE RestartFiles
  BY <1>1, <1>3, <1>7, RestartOrder
<1>8. CASE UNCHANGED fileVars
  BY <1>1, <1>3, <1>8, StutterOrder
<1>. QED BY <1>4, <1>5, <1>6, <1>7, <1>8 DEF FileNext

LEMMA OrderInvariance ==
    ASSUME RpcFault = FALSE, OneSecond
    PROVE  FileSpec => []OrderInv
<1>1. OrderInv /\ [FileNext]_fileVars => OrderInv'
  BY OrderNext
<1>. QED BY <1>1, InitOrder, PTL DEF FileSpec

LEMMA OrderStores == OrderInv => FilesStored
  BY DEF OrderInv, OrderOK, ReadingOK, FilesStored

LEMMA OrderParents == OrderInv => ParentsFirst
<1>. SUFFICES ASSUME BaseInv, PermitOK, OrderOK, file.made, At(Historic, "has")
              PROVE  Has(NewPrev(frame[Historic])) \/ NewPrev(frame[Historic]) = Zero
  BY DEF OrderInv, ParentsFirst
<1>1. hist.pc = "store" /\ IsDisk(disk)
  BY DEF At, BaseInv, AppInv, HistoricIsAlone, DiskOK
<1>2. \E r \in Nat : ReadUpTo(r)
  BY <1>1 DEF OrderOK, ReadingOK
<1>3. PICK r \in Nat : ReadUpTo(r)
  BY <1>2
<1>4. PICK b, i : /\ b = frame[Historic].blk /\ i = file.at + 1
                  /\ Place(b, i, r) /\ StoredUpTo(i, r - 1)
  BY <1>1, <1>3 DEF ReadUpTo
<1>5. Has(ParentOf[b]) \/ ParentOf[b] = Zero
  BY <1>1, <1>4, ParentOfFile
<1>. QED BY <1>4, <1>5 DEF NewPrev

\* A sync from files that is finished has stored bitcoind's whole branch, wherever
\* earlier processes were killed and whatever number they had saved, although
\* bitcoind appends to the files meanwhile: where bitcoind answers, one block
\* has Genesis as its parent, and what came from peers or by RPC left nothing
\* of the files out (prepareFileSync, getBlockFromFile, setLastFileIndex).
THEOREM FilesAreStored ==
    ASSUME RpcFault = FALSE, OneSecond
    PROVE  FileSpec => []FilesStored
  BY OrderInvariance, OrderStores, PTL

\* ... and no block read from a file finds its parent missing, which would end
\* the sync (NEED_SYNC in storeTipBlock).
THEOREM ParentsComeFirst ==
    ASSUME RpcFault = FALSE, OneSecond
    PROVE  FileSpec => []ParentsFirst
  BY OrderInvariance, OrderParents, PTL
=============================================================================
