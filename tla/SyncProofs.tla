----------------------------- MODULE SyncProofs -----------------------------
(***************************************************************************)
(* Theorems about Sync that hold for every block tree, any number of Sync  *)
(* objects, any mix of allowReorgs, with crashes and RPC failures: types,  *)
(* the next pointers, and the agreement of the transaction index with the  *)
(* heights.                                                                *)
(***************************************************************************)
EXTENDS Sync, SequenceTheorems, TLAPS

-----------------------------------------------------------------------------
(* The inductive invariant *)

\* What a frame holds at each point of storeTipBlock.  The backward walk keeps
\* iter one step behind last, and the first element of branch is the block
\* whose prev is read next (backPrev) or was read last.
ShapeOf(p, f) ==
    /\ p # "idle" => f.blk \in Block
    /\ p \in {"orphan", "orphanNext"} => f.from \in Block
    /\ p = "backPrev" => f.branch # <<>> /\ Head(f.branch) = f.iter
    /\ p = "backHeight" => f.branch # <<>> /\ Head(f.branch) = f.last
    /\ p = "connect" => /\ f.branch # <<>>
                        /\ f.last \in Block \/ Head(f.branch) = f.last
    /\ p \in {"yNext", "setYNext"} => f.last \in Block
    /\ p \in {"backHeight", "connect", "yNext", "setYNext"} =>
          f.iter = Null \/ (f.last \in Block /\ f.iter = ParentOf[f.last])

Shape == \A s \in Syncs : ShapeOf(pc[s], frame[s])

PrevIsParent ==
    /\ \A b \in Block : prev[b] \in {Null, ParentOf[b]}
    /\ prev[Zero] = Null
    /\ prev[Null] = Null

TxOwned ==
    \A t \in Tx : txBlock[t].blk # Null =>
        /\ txBlock[t].blk \in Block
        /\ t \in TxOf[txBlock[t].blk]
        /\ txBlock[t].ht = height[txBlock[t].blk]

Inv == SyncTypeOK /\ Shape /\ PrevIsParent /\ NextIsChild /\ TxOwned

-----------------------------------------------------------------------------
(* Control *)

\* The point and the frame a step goes to are all it changes of pc and frame.
LEMMA GotoTypes ==
    ASSUME SyncTypeOK, NEW s \in Syncs, NEW p \in Points, NEW f \in Frames,
           Goto(s, p, f)
    PROVE  /\ pc' \in [Syncs -> Points]
           /\ frame' \in [Syncs -> Frames]
           /\ pc'[s] = p
           /\ frame'[s] = f
           /\ \A r \in Syncs \ {s} : pc'[r] = pc[r] /\ frame'[r] = frame[r]
  BY DEF Goto, SyncTypeOK

LEMMA GotoShape ==
    ASSUME SyncTypeOK, Shape, NEW s \in Syncs, NEW p \in Points, NEW f \in Frames,
           Goto(s, p, f), ShapeOf(p, f)
    PROVE  Shape'
<1>1. ASSUME NEW r \in Syncs PROVE ShapeOf(pc'[r], frame'[r])
  <2>1. CASE r = s
    BY <2>1, GotoTypes
  <2>2. CASE r # s
    <3>1. pc'[r] = pc[r] /\ frame'[r] = frame[r]
      BY <2>2, GotoTypes
    <3>2. ShapeOf(pc[r], frame[r])
      BY DEF Shape
    <3>. QED BY <3>1, <3>2
  <2>. QED BY <2>1, <2>2
<1>. QED BY <1>1 DEF Shape

LEMMA NoFrameIsFrame == NoFrame \in Frames /\ ShapeOf("idle", NoFrame)
  BY DEF NoFrame, Frames, ShapeOf, Heights, Hash

\* The call's part of the state is well formed.
CallsOK ==
    /\ pc \in [Syncs -> Points]
    /\ frame \in [Syncs -> Frames]
    /\ lastHash \in [Syncs -> Block \cup {Null}]
    /\ Shape

LEMMA GotoCalls ==
    ASSUME SyncTypeOK, Shape, NEW s \in Syncs, NEW p \in Points, NEW f \in Frames,
           Goto(s, p, f), ShapeOf(p, f), UNCHANGED lastHash
    PROVE  CallsOK'
<1>1. Shape'
  BY GotoShape
<1>2. pc' \in [Syncs -> Points] /\ frame' \in [Syncs -> Frames]
  BY GotoTypes
<1>. QED BY <1>1, <1>2 DEF CallsOK, SyncTypeOK

LEMMA ReturnCalls ==
    ASSUME SyncTypeOK, Shape, NEW s \in Syncs, Return(s), UNCHANGED lastHash
    PROVE  CallsOK'
  BY GotoCalls, NoFrameIsFrame DEF Return, Points

LEMMA StartAddCalls ==
    ASSUME SyncTypeOK, Shape, NEW s \in Syncs, NEW f \in Frames, f.blk \in Block,
           StartAdd(s, f)
    PROVE  CallsOK'
<1>1. Goto(s, "addTxs", f) /\ "addTxs" \in Points /\ ShapeOf("addTxs", f)
  BY DEF StartAdd, Points, ShapeOf
<1>2. Shape'
  BY <1>1, GotoShape
<1>3. pc' \in [Syncs -> Points] /\ frame' \in [Syncs -> Frames]
  BY <1>1, GotoTypes
<1>4. lastHash' \in [Syncs -> Block \cup {Null}]
  BY DEF StartAdd, SyncTypeOK
<1>. QED BY <1>2, <1>3, <1>4 DEF CallsOK

LEMMA TipReadCalls ==
    ASSUME SyncTypeOK, Shape, NEW s \in Syncs, NEW f \in Frames, f.blk \in Block,
           NEW t \in TipVal, TipRead(s, f, t)
    PROVE  CallsOK'
<1>1. CASE t.hash # Null /\ NewPrev(f) # t.hash
  <2>1. Goto(s, "getNext", f) /\ UNCHANGED lastHash
    BY <1>1 DEF TipRead
  <2>2. "getNext" \in Points /\ ShapeOf("getNext", f)
    BY DEF Points, ShapeOf
  <2>. QED BY <2>1, <2>2, GotoCalls
<1>2. CASE ~(t.hash # Null /\ NewPrev(f) # t.hash)
  <2>. DEFINE g == [f EXCEPT !.height = t.height + 1]
  <2>1. StartAdd(s, g)
    BY <1>2 DEF TipRead
  <2>2. t.height + 1 \in Heights
    BY DEF TipVal, NoTip, Heights
  <2>3. g \in Frames /\ g.blk \in Block
    BY <2>2 DEF Frames
  <2>. QED BY <2>1, <2>3, StartAddCalls
<1>. QED BY <1>1, <1>2

LEMMA CallGetTipCalls ==
    ASSUME SyncTypeOK, Shape, NEW s \in Syncs, NEW f \in Frames, f.blk \in Block,
           CallGetTip(s, f)
    PROVE  CallsOK'
<1>1. CASE cachedTip.hash # Null
  BY <1>1, TipReadCalls DEF CallGetTip, SyncTypeOK, BlockDbTypeOK
<1>2. CASE cachedTip.hash = Null
  <2>1. Goto(s, "getTip", f) /\ UNCHANGED lastHash
    BY <1>2 DEF CallGetTip
  <2>2. "getTip" \in Points /\ ShapeOf("getTip", f)
    BY DEF Points, ShapeOf
  <2>. QED BY <2>1, <2>2, GotoCalls
<1>. QED BY <1>1, <1>2

LEMMA EnterCalls ==
    ASSUME SyncTypeOK, Shape, NEW s \in Syncs, NEW c \in Calls, Enter(s, c)
    PROVE  CallsOK'
<1>. DEFINE f == [NoFrame EXCEPT !.blk = c.blk, !.allow = c.allow]
<1>1. f \in Frames /\ f.blk \in Block
  <2>1. c.blk \in Block /\ c.allow \in BOOLEAN
    BY SyncConstants DEF Calls
  <2>. QED BY <2>1, NoFrameIsFrame DEF Frames, NoFrame
<1>2. CASE ~c.allow /\ StartAdd(s, f)
  BY <1>1, <1>2, StartAddCalls
<1>3. CASE CallGetTip(s, f)
  BY <1>1, <1>3, CallGetTipCalls
<1>4. CASE Goto(s, "has", f) /\ UNCHANGED lastHash
  <2>1. "has" \in Points /\ ShapeOf("has", f)
    BY <1>1 DEF Points, ShapeOf
  <2>. QED BY <1>1, <1>4, <2>1, GotoCalls
<1>. QED BY <1>2, <1>3, <1>4 DEF Enter

-----------------------------------------------------------------------------
(* The steps keep the calls well formed *)

\* The three facts of a step of s that the proofs below begin with.
LEMMA OwnFrame ==
    ASSUME SyncTypeOK, Shape, NEW s \in Syncs
    PROVE  frame[s] \in Frames /\ ShapeOf(pc[s], frame[s])
  BY DEF SyncTypeOK, Shape

LEMMA BackCalls ==
    ASSUME SyncTypeOK, Shape, PrevIsParent, NEW s \in Syncs,
           BackPrev(s) \/ BackHeight(s)
    PROVE  CallsOK'
<1>. DEFINE f == frame[s]
<1>1. f \in Frames /\ ShapeOf(pc[s], f)
  BY OwnFrame
<1>. HIDE DEF f
<1>2. CASE BackPrev(s)
  <2>. DEFINE g == [f EXCEPT !.last = f.iter, !.iter = prev[f.iter]]
  <2>1. prev[f.iter] \in Hash
    BY <1>1 DEF SyncTypeOK, BlockDbTypeOK, Frames, Hash
  <2>2. g \in Frames
    BY <1>1, <2>1 DEF Frames
  <2>3. ShapeOf("backHeight", g)
    <3>1. pc[s] = "backPrev"
      BY <1>2 DEF BackPrev, At
    <3>2. prev[f.iter] = Null \/ (f.iter \in Block /\ prev[f.iter] = ParentOf[f.iter])
      BY <1>1 DEF PrevIsParent, Frames, Hash
    <3>. QED BY <1>1, <3>1, <3>2 DEF ShapeOf, Frames
  <2>4. Goto(s, "backHeight", g) /\ UNCHANGED lastHash
    BY <1>2 DEF BackPrev, f
  <2>5. "backHeight" \in Points
    BY DEF Points
  <2>. QED BY <2>2, <2>3, <2>4, <2>5, GotoCalls
<1>3. CASE BackHeight(s)
  <2>1. pc[s] = "backHeight" /\ UNCHANGED lastHash
    BY <1>3 DEF BackHeight, At
  <2>2. CASE f.iter # Null /\ height[f.iter] <= 0
    <3>. DEFINE br == <<f.iter>> \o f.branch
                g == [f EXCEPT !.branch = br]
    <3>1. br \in Seq(Hash) /\ br # <<>> /\ Head(br) = f.iter
      BY <1>1 DEF Frames
    <3>. HIDE DEF br
    <3>2. /\ g \in Frames
          /\ g.blk = f.blk /\ g.iter = f.iter /\ g.branch = br
      BY <1>1, <3>1 DEF Frames
    <3>5. ShapeOf("backPrev", g)
      BY <1>1, <2>1, <3>1, <3>2 DEF ShapeOf
    <3>3. Goto(s, "backPrev", g)
      BY <1>3, <2>2 DEF BackHeight, f, br
    <3>4. "backPrev" \in Points
      BY DEF Points
    <3>. QED BY <2>1, <3>2, <3>3, <3>4, <3>5, GotoCalls
  <2>3. CASE ~(f.iter # Null /\ height[f.iter] <= 0)
    <3>. DEFINE g == [f EXCEPT !.height = height[f.iter] + 1]
    <3>6. height[f.iter] \in Heights
      BY <1>1 DEF SyncTypeOK, BlockDbTypeOK, Frames
    <3>1. height[f.iter] + 1 \in Heights
      BY <3>6 DEF Heights
    <3>2. g \in Frames
      BY <1>1, <3>1 DEF Frames
    <3>3. ShapeOf("connect", g)
      BY <1>1, <2>1 DEF ShapeOf, Frames
    <3>4. Goto(s, "connect", g)
      BY <1>3, <2>3 DEF BackHeight, f
    <3>5. "connect" \in Points
      BY DEF Points
    <3>. QED BY <2>1, <3>2, <3>3, <3>4, <3>5, GotoCalls
  <2>. QED BY <2>2, <2>3
<1>. QED BY <1>2, <1>3

LEMMA ThrowCalls ==
    ASSUME SyncTypeOK, Shape, Throw, UNCHANGED lastHash
    PROVE  CallsOK'
<1>1. UNCHANGED <<pc, frame>>
  BY DEF Throw
<1>. QED BY <1>1 DEF CallsOK, SyncTypeOK, Shape

\* What is left of a sequence that has more than its head.
LEMMA TailOfLonger ==
    ASSUME NEW S, NEW q \in Seq(S), q # <<>>
    PROVE  Tail(q) \in Seq(S) /\ (Len(q) # 1 => Tail(q) # <<>>)
<1>1. Tail(q) \in Seq(S) /\ Len(Tail(q)) = Len(q) - 1 /\ Len(q) \in Nat
  BY HeadTailProperties, LenProperties
<1>2. Tail(q) = <<>> => Len(Tail(q)) = 0
  BY EmptySeq
<1>. QED BY <1>1, <1>2

LEMMA ConnectCalls ==
    ASSUME SyncTypeOK, Shape, NEW s \in Syncs, Connect(s)
    PROVE  CallsOK'
<1>. DEFINE f == frame[s]
            b == Head(f.branch)
            p == IF Len(f.branch) = 1 THEN "yNext" ELSE "connect"
            g == [f EXCEPT !.height = @ + 1, !.branch = Tail(@)]
<1>1. f \in Frames /\ ShapeOf(pc[s], f)
  BY OwnFrame
<1>2. pc[s] = "connect" /\ UNCHANGED lastHash
  BY DEF Connect, At
<1>3. CASE Throw
  BY <1>2, <1>3, ThrowCalls
<1>4. CASE b \in Block /\ Goto(s, p, g)
  <2>. HIDE DEF f
  <2>1. f.branch \in Seq(Hash) /\ f.branch # <<>>
    BY <1>1, <1>2 DEF ShapeOf, Frames
  <2>2. Tail(f.branch) \in Seq(Hash) /\ (Len(f.branch) # 1 => Tail(f.branch) # <<>>)
    BY <2>1, TailOfLonger
  <2>3. f.height + 1 \in Heights
    BY <1>1 DEF Frames, Heights
  <2>4. g \in Frames
    BY <1>1, <2>2, <2>3 DEF Frames
  <2>5. f.last \in Block
    BY <1>1, <1>2, <1>4 DEF ShapeOf
  <2>6. g.last = f.last /\ g.blk = f.blk /\ g.iter = f.iter /\ g.branch = Tail(f.branch)
    BY <1>1 DEF Frames
  <2>7. p \in Points
    BY DEF Points
  <2>8. ShapeOf(p, g)
    BY <1>1, <1>2, <2>2, <2>5, <2>6 DEF ShapeOf
  <2>. QED BY <1>2, <1>4, <2>4, <2>7, <2>8, GotoCalls
<1>. QED BY <1>3, <1>4 DEF Connect

LEMMA ReorgHeightCalls ==
    ASSUME SyncTypeOK, Shape, NEW s \in Syncs, ReorgHeight(s)
    PROVE  CallsOK'
<1>. DEFINE f == frame[s]
            h == height[NewPrev(f)]
<1>1. f \in Frames /\ ShapeOf(pc[s], f) /\ f.blk \in Block /\ NewPrev(f) \in Hash
  <2>1. f \in Frames /\ ShapeOf(pc[s], f) /\ pc[s] = "reorgHeight"
    BY OwnFrame DEF ReorgHeight, At
  <2>2. f.blk \in Block
    BY <2>1 DEF ShapeOf
  <2>. QED BY <2>1, <2>2, BlockTree DEF NewPrev, Hash
<1>2. UNCHANGED lastHash
  BY DEF ReorgHeight
<1>3. CASE Throw
  BY <1>2, <1>3, ThrowCalls
<1>4. CASE StartBack(s, f, NewPrev(f))
  <2>. DEFINE q == <<NewPrev(f)>>
              g == [f EXCEPT !.from = Null, !.iter = NewPrev(f), !.branch = q]
  <2>1. q \in Seq(Hash) /\ q # <<>> /\ Head(q) = NewPrev(f)
    BY <1>1
  <2>. HIDE DEF q
  <2>2. /\ g \in Frames
        /\ g.blk = f.blk /\ g.iter = NewPrev(f) /\ g.branch = q
    BY <1>1, <2>1 DEF Frames
  <2>3. ShapeOf("backPrev", g)
    BY <1>1, <2>1, <2>2 DEF ShapeOf
  <2>4. Goto(s, "backPrev", g)
    BY <1>4 DEF StartBack, q
  <2>5. "backPrev" \in Points
    BY DEF Points
  <2>. QED BY <1>2, <2>2, <2>3, <2>4, <2>5, GotoCalls
<1>5. CASE h > 0 /\ f.from # Null /\ Goto(s, "orphan", [f EXCEPT !.height = h + 1])
  <2>. DEFINE g == [f EXCEPT !.height = h + 1]
  <2>1. h \in Heights
    BY <1>1 DEF SyncTypeOK, BlockDbTypeOK
  <2>2. h + 1 \in Heights
    BY <2>1 DEF Heights
  <2>3. g \in Frames /\ g.blk = f.blk /\ g.from = f.from
    BY <1>1, <2>2 DEF Frames
  <2>4. f.from \in Block
    BY <1>1, <1>5 DEF Frames
  <2>5. ShapeOf("orphan", g) /\ "orphan" \in Points
    BY <1>1, <2>3, <2>4 DEF ShapeOf, Points
  <2>. QED BY <1>2, <1>5, <2>3, <2>5, GotoCalls
<1>. QED BY <1>3, <1>4, <1>5 DEF ReorgHeight

\* The steps that replace one field of the frame, or none.
LEMMA WalkCalls ==
    ASSUME SyncTypeOK, Shape, NEW s \in Syncs,
           \/ HasPrev(s) \/ GetTip(s) \/ GetNext(s)
           \/ YNext(s) \/ SetYNext(s) \/ Orphan(s) \/ OrphanNext(s)
    PROVE  CallsOK'
<1>. DEFINE f == frame[s]
<1>1. f \in Frames /\ ShapeOf(pc[s], f)
  BY OwnFrame
<1>2. CASE HasPrev(s)
  <2>1. f.blk \in Block
    BY <1>1, <1>2 DEF HasPrev, At, ShapeOf
  <2>2. CASE CallGetTip(s, f)
    BY <1>1, <2>1, <2>2, CallGetTipCalls
  <2>3. CASE Return(s) /\ UNCHANGED lastHash
    BY <2>3, ReturnCalls
  <2>. QED BY <1>2, <2>2, <2>3 DEF HasPrev
<1>3. CASE GetTip(s)
  <2>1. f.blk \in Block
    BY <1>1, <1>3 DEF GetTip, At, ShapeOf
  <2>. QED BY <1>1, <1>3, <2>1, TipReadCalls DEF GetTip, SyncTypeOK, BlockDbTypeOK
<1>4. CASE GetNext(s)
  <2>. DEFINE g == [f EXCEPT !.from = next[NewPrev(f)]]
  <2>1. f.blk \in Block
    BY <1>1, <1>4 DEF GetNext, At, ShapeOf
  <2>2. next[NewPrev(f)] \in Block \cup {Null}
    BY <2>1, BlockTree DEF NewPrev, Hash, SyncTypeOK, BlockDbTypeOK
  <2>3. g \in Frames /\ g.blk = f.blk
    BY <1>1, <2>2 DEF Frames
  <2>4. ShapeOf("reorgHeight", g) /\ "reorgHeight" \in Points
    BY <2>1, <2>3 DEF ShapeOf, Points
  <2>. QED BY <1>4, <2>3, <2>4, GotoCalls DEF GetNext
<1>5. CASE YNext(s)
  <2>. DEFINE g == [f EXCEPT !.from = next[f.iter]]
  <2>1. next[f.iter] \in Block \cup {Null}
    BY <1>1 DEF SyncTypeOK, BlockDbTypeOK, Frames
  <2>2. g \in Frames /\ g.blk = f.blk /\ g.iter = f.iter /\ g.last = f.last
    BY <1>1, <2>1 DEF Frames
  <2>3. ShapeOf("setYNext", g) /\ "setYNext" \in Points
    BY <1>1, <1>5, <2>2 DEF ShapeOf, Points, YNext, At
  <2>. QED BY <1>5, <2>2, <2>3, GotoCalls DEF YNext
<1>6. CASE SetYNext(s)
  <2>1. f.blk \in Block
    BY <1>1, <1>6 DEF SetYNext, At, ShapeOf
  <2>2. CASE f.from = Null
    BY <1>1, <1>6, <2>1, <2>2, StartAddCalls DEF SetYNext
  <2>3. CASE f.from # Null
    <3>1. ShapeOf("orphan", f) /\ "orphan" \in Points
      BY <1>1, <2>1, <2>3 DEF ShapeOf, Points, Frames
    <3>. QED BY <1>1, <1>6, <2>3, <3>1, GotoCalls DEF SetYNext
  <2>. QED BY <2>2, <2>3
<1>7. CASE Orphan(s)
  <2>1. CASE Throw
    BY <1>7, <2>1, ThrowCalls DEF Orphan
  <2>2. CASE Goto(s, "orphanNext", f)
    <3>1. ShapeOf("orphanNext", f) /\ "orphanNext" \in Points
      BY <1>1, <1>7 DEF ShapeOf, Points, Orphan, At
    <3>. QED BY <1>1, <1>7, <2>2, <3>1, GotoCalls DEF Orphan
  <2>. QED BY <1>7, <2>1, <2>2 DEF Orphan
<1>8. CASE OrphanNext(s)
  <2>. DEFINE n == next[f.from]
              g == [f EXCEPT !.from = n]
  <2>1. f.blk \in Block /\ f.from \in Block
    BY <1>1, <1>8 DEF OrphanNext, At, ShapeOf
  <2>2. n \in Block \cup {Null}
    BY <2>1 DEF SyncTypeOK, BlockDbTypeOK, Hash
  <2>3. g \in Frames /\ g.blk = f.blk /\ g.from = n
    BY <1>1, <2>2 DEF Frames
  <2>4. CASE n = Null
    BY <1>8, <2>1, <2>3, <2>4, StartAddCalls DEF OrphanNext
  <2>5. CASE n # Null
    <3>1. ShapeOf("orphan", g) /\ "orphan" \in Points
      BY <2>1, <2>2, <2>3, <2>5 DEF ShapeOf, Points
    <3>. QED BY <1>8, <2>3, <2>5, <3>1, GotoCalls DEF OrphanNext
  <2>. QED BY <2>4, <2>5
<1>. QED BY <1>2, <1>3, <1>4, <1>5, <1>6, <1>7, <1>8

LEMMA AddCalls ==
    ASSUME SyncTypeOK, Shape, NEW s \in Syncs,
           AddTxs(s) \/ AddBlock(s) \/ StoreTip(s) \/ LinkPrev(s)
    PROVE  CallsOK'
<1>. DEFINE f == frame[s]
<1>1. f \in Frames /\ f.blk \in Block
  BY OwnFrame DEF AddTxs, AddBlock, StoreTip, LinkPrev, At, ShapeOf
<1>2. UNCHANGED lastHash
  BY DEF AddTxs, AddBlock, StoreTip, LinkPrev
<1>3. \A p \in {"addBlock", "putTip", "setNext"} : p \in Points /\ ShapeOf(p, f)
  BY <1>1 DEF Points, ShapeOf
<1>4. \/ \E p \in {"addBlock", "putTip", "setNext"} : Goto(s, p, f)
      \/ Return(s)
  BY DEF AddTxs, AddBlock, StoreTip, LinkPrev
<1>. QED BY <1>1, <1>2, <1>3, <1>4, GotoCalls, ReturnCalls

-----------------------------------------------------------------------------
(* The steps keep the database well formed *)

\* A batch that gives block b a height and its transactions one entry, b's or
\* none, leaves every other entry in agreement with the heights.
LEMMA BatchOK ==
    ASSUME BlockDbTypeOK, TxOwned, NEW b \in Block, NEW h \in Heights,
           NEW e \in {[blk |-> b, ht |-> h], NoBlock},
           height' = [height EXCEPT ![b] = h],
           SetTxs(b, e)
    PROVE  /\ height' \in [Hash -> Heights]
           /\ txBlock' \in [Tx -> TxEntry]
           /\ TxOwned'
<1>1. height' \in [Hash -> Heights]
  BY DEF BlockDbTypeOK, Hash
<1>2. e \in TxEntry
  BY DEF TxEntry, NoBlock, Heights, Hash
<1>3. txBlock' = [t \in Tx |-> IF t \in TxOf[b] THEN e ELSE txBlock[t]]
  BY DEF SetTxs
<1>4. txBlock' \in [Tx -> TxEntry]
  BY <1>2, <1>3 DEF BlockDbTypeOK
<1>5. ASSUME NEW t \in Tx, txBlock'[t].blk # Null
      PROVE  /\ txBlock'[t].blk \in Block
             /\ t \in TxOf[txBlock'[t].blk]
             /\ txBlock'[t].ht = height'[txBlock'[t].blk]
  <2>1. CASE t \in TxOf[b]
    <3>1. txBlock'[t] = e
      BY <1>3, <2>1
    <3>2. e = [blk |-> b, ht |-> h]
      BY <1>5, <3>1 DEF NoBlock
    <3>3. height'[b] = h
      BY DEF BlockDbTypeOK, Hash
    <3>. QED BY <2>1, <3>1, <3>2, <3>3
  <2>2. CASE t \notin TxOf[b]
    <3>1. txBlock'[t] = txBlock[t]
      BY <1>3, <2>2
    <3>2. /\ txBlock[t].blk \in Block
          /\ t \in TxOf[txBlock[t].blk]
          /\ txBlock[t].ht = height[txBlock[t].blk]
      BY <1>5, <3>1 DEF TxOwned
    <3>3. txBlock[t].blk # b
      BY <2>2, <3>2
    <3>4. height'[txBlock[t].blk] = height[txBlock[t].blk]
      BY <3>2, <3>3 DEF BlockDbTypeOK, Hash
    <3>. QED BY <3>1, <3>2, <3>4
  <2>. QED BY <2>1, <2>2
<1>. QED BY <1>1, <1>4, <1>5 DEF TxOwned

\* The part of the invariant that speaks of the database.
DbOK == BlockDbTypeOK /\ PrevIsParent /\ NextIsChild /\ TxOwned

LEMMA DbUnchanged ==
    ASSUME DbOK, UNCHANGED <<prev, next, height, txBlock>>,
           tip' \in TipVal, cachedTip' \in TipVal, savedTx' \in SUBSET Tx
    PROVE  DbOK'
  BY DEF DbOK, BlockDbTypeOK, PrevIsParent, NextIsChild, TxOwned

LEMMA HeightStepDb ==
    ASSUME Inv, NEW s \in Syncs, Connect(s) \/ Orphan(s)
    PROVE  DbOK'
<1>. DEFINE f == frame[s]
<1>1. f \in Frames /\ ShapeOf(pc[s], f)
  BY OwnFrame DEF Inv
<1>2. UNCHANGED <<prev, next, tip, savedTx, cachedTip>>
  BY DEF Connect, Orphan
<1>3. CASE UNCHANGED <<height, txBlock>>
  BY <1>2, <1>3, DbUnchanged DEF Inv, SyncTypeOK, DbOK, BlockDbTypeOK
<1>4. ASSUME height' \in [Hash -> Heights], txBlock' \in [Tx -> TxEntry], TxOwned'
      PROVE  DbOK'
  BY <1>2, <1>4 DEF DbOK, Inv, SyncTypeOK, BlockDbTypeOK, PrevIsParent, NextIsChild
<1>5. CASE Connect(s) /\ Head(f.branch) \in Block /\ SetBlockMain(Head(f.branch), f.height)
  BY <1>1, <1>4, <1>5, BatchOK DEF SetBlockMain, Inv, SyncTypeOK, Frames
<1>6. CASE Orphan(s) /\ SetBlockNotMain(f.from)
  <2>1. f.from \in Block /\ -1 \in Heights
    BY <1>1, <1>6 DEF Orphan, At, ShapeOf, Heights
  <2>. QED BY <1>4, <1>6, <2>1, BatchOK DEF SetBlockNotMain, Inv, SyncTypeOK
<1>. QED BY <1>3, <1>5, <1>6 DEF Connect, Orphan

LEMMA NextStepDb ==
    ASSUME Inv, NEW s \in Syncs, SetYNext(s) \/ LinkPrev(s)
    PROVE  DbOK'
<1>. DEFINE f == frame[s]
<1>1. f \in Frames /\ ShapeOf(pc[s], f)
  BY OwnFrame DEF Inv
<1>2. UNCHANGED <<prev, height, txBlock, tip, savedTx, cachedTip>>
  BY DEF SetYNext, LinkPrev
<1>3. PICK h \in Hash, n \in Block :
         /\ next' = [next EXCEPT ![h] = n]
         /\ h = Null \/ h = ParentOf[n]
  <2>1. CASE SetYNext(s)
    <3>1. f.last \in Block /\ f.iter \in Hash /\ (f.iter = Null \/ f.iter = ParentOf[f.last])
      BY <1>1, <2>1 DEF SetYNext, At, ShapeOf, Frames
    <3>2. next' = [next EXCEPT ![f.iter] = f.last]
      BY <2>1 DEF SetYNext, SetNext
    <3>. QED BY <3>1, <3>2
  <2>2. CASE LinkPrev(s)
    <3>1. f.blk \in Block /\ NewPrev(f) = ParentOf[f.blk]
      BY <1>1, <2>2 DEF LinkPrev, At, ShapeOf, NewPrev
    <3>2. next' = [next EXCEPT ![NewPrev(f)] = f.blk]
      BY <2>2 DEF LinkPrev, SetNext
    <3>3. NewPrev(f) \in Hash
      BY <3>1, BlockTree DEF Hash
    <3>. QED BY <3>1, <3>2, <3>3
  <2>. QED BY <2>1, <2>2
<1>4. next' \in [Hash -> Block \cup {Null}]
  BY <1>3 DEF Inv, SyncTypeOK, BlockDbTypeOK
<1>5. NextIsChild'
  BY <1>3, <1>4 DEF Inv, SyncTypeOK, BlockDbTypeOK, NextIsChild
<1>. QED BY <1>2, <1>4, <1>5 DEF Inv, SyncTypeOK, DbOK, BlockDbTypeOK, PrevIsParent, TxOwned

LEMMA AddBlockDb ==
    ASSUME Inv, NEW s \in Syncs, AddBlock(s)
    PROVE  DbOK'
<1>. DEFINE f == frame[s]
<1>1. f \in Frames /\ f.blk \in Block
  BY OwnFrame DEF Inv, AddBlock, At, ShapeOf
<1>2. AddBlockScript(f.blk, f.height) /\ UNCHANGED <<next, tip, savedTx>>
  BY DEF AddBlock
<1>3. /\ height' \in [Hash -> Heights]
      /\ txBlock' \in [Tx -> TxEntry]
      /\ TxOwned'
  BY <1>1, <1>2, BatchOK DEF AddBlockScript, Inv, SyncTypeOK, Frames
<1>4. prev' = [prev EXCEPT ![f.blk] = ParentOf[f.blk]]
  BY <1>2 DEF AddBlockScript
<1>5. prev' \in [Hash -> Block \cup {Zero, Null}]
  BY <1>1, <1>4, BlockTree DEF Inv, SyncTypeOK, BlockDbTypeOK
<1>6. PrevIsParent'
  BY <1>1, <1>4, Names DEF Inv, SyncTypeOK, BlockDbTypeOK, PrevIsParent, Hash
<1>7. cachedTip' \in TipVal
  BY <1>1 DEF AddBlock, CacheTip, Inv, SyncTypeOK, BlockDbTypeOK, TipVal, Frames
<1>. QED BY <1>2, <1>3, <1>5, <1>6, <1>7
         DEF Inv, SyncTypeOK, DbOK, BlockDbTypeOK, NextIsChild

LEMMA StepDb ==
    ASSUME Inv, NEW s \in Syncs, Step(s)
    PROVE  DbOK'
<1>. DEFINE f == frame[s]
<1>1. f \in Frames /\ ShapeOf(pc[s], f)
  BY OwnFrame DEF Inv
<1>2. DbOK
  BY DEF Inv, SyncTypeOK, DbOK
<1>3. CASE \/ HasPrev(s) \/ GetNext(s) \/ ReorgHeight(s) \/ BackPrev(s)
           \/ BackHeight(s) \/ YNext(s) \/ OrphanNext(s)
  <2>1. UNCHANGED <<dbVars, cachedTip>>
    BY <1>3 DEF HasPrev, GetNext, ReorgHeight, BackPrev, BackHeight, YNext, OrphanNext
  <2>. QED BY <1>2, <2>1, DbUnchanged DEF dbVars, DbOK, BlockDbTypeOK
<1>4. CASE GetTip(s)
  <2>1. UNCHANGED dbVars /\ cachedTip' \in {tip, cachedTip}
    BY <1>4 DEF GetTip
  <2>. QED BY <1>2, <2>1, DbUnchanged DEF dbVars, DbOK, BlockDbTypeOK
<1>5. CASE AddTxs(s)
  <2>1. f.blk \in Block
    BY <1>1, <1>5 DEF AddTxs, At, ShapeOf
  <2>2. savedTx' \in SUBSET Tx
    BY <1>2, <1>5, <2>1, Transactions DEF AddTxs, AddTxsScript, DbOK, BlockDbTypeOK
  <2>3. UNCHANGED <<prev, next, height, txBlock, tip, cachedTip>>
    BY <1>5 DEF AddTxs
  <2>. QED BY <1>2, <2>2, <2>3, DbUnchanged DEF DbOK, BlockDbTypeOK
<1>6. CASE StoreTip(s)
  <2>1. f.blk \in Block
    BY <1>1, <1>6 DEF StoreTip, At, ShapeOf
  <2>2. tip' \in TipVal
    BY <1>1, <1>6, <2>1 DEF StoreTip, PutTip, TipVal, Frames
  <2>3. UNCHANGED <<prev, next, height, txBlock, savedTx, cachedTip>>
    BY <1>6 DEF StoreTip
  <2>. QED BY <1>2, <2>2, <2>3, DbUnchanged DEF DbOK, BlockDbTypeOK
<1>. QED BY <1>3, <1>4, <1>5, <1>6, HeightStepDb, NextStepDb, AddBlockDb DEF Step

LEMMA StepCalls ==
    ASSUME Inv, NEW s \in Syncs, Step(s)
    PROVE  CallsOK'
  BY BackCalls, ConnectCalls, ReorgHeightCalls, WalkCalls, AddCalls DEF Inv, Step

LEMMA StepFlags ==
    ASSUME Inv, NEW s \in Syncs, Step(s)
    PROVE  up' \in BOOLEAN /\ UNCHANGED delayed
  BY DEF Inv, SyncTypeOK, Step, Throw, HasPrev, GetTip, GetNext, ReorgHeight, BackPrev,
         BackHeight, Connect, YNext, SetYNext, Orphan, OrphanNext, AddTxs, AddBlock,
         StoreTip, LinkPrev

\* A call of storeTipBlock, its own or a timer's.
LEMMA CallStep ==
    ASSUME Inv, NEW s \in Syncs, NEW c \in Calls, Call(s, c) \/ Retry(s, c)
    PROVE  Inv'
<1>1. DbOK'
  <2>1. UNCHANGED <<dbVars, cachedTip>>
    BY DEF Call, Retry
  <2>. QED BY <2>1, DbUnchanged DEF dbVars, Inv, SyncTypeOK, DbOK, BlockDbTypeOK
<1>2. CallsOK'
  <2>1. CASE Enter(s, c)
    BY <2>1, EnterCalls DEF Inv
  <2>2. CASE UNCHANGED callVars
    BY <2>2 DEF callVars, Inv, SyncTypeOK, Shape, CallsOK
  <2>. QED BY <2>1, <2>2 DEF Call, Retry
<1>3. up' \in BOOLEAN /\ delayed' \in [Syncs -> SUBSET Calls]
  BY DEF Call, Retry, Inv, SyncTypeOK
<1>. QED BY <1>1, <1>2, <1>3 DEF DbOK, CallsOK, Inv, SyncTypeOK

LEMMA InitInv == Init => Inv
<1>. SUFFICES ASSUME Init PROVE Inv
  OBVIOUS
<1>. USE DEF Init, BlockDbInit, VolatileInit
<1>1. BlockDbTypeOK
  BY DEF BlockDbTypeOK, Heights, TxEntry, NoBlock, NoTip, TipVal, Hash
<1>2. SyncTypeOK
  BY <1>1, NoFrameIsFrame DEF SyncTypeOK, Points
<1>3. Shape
  BY NoFrameIsFrame DEF Shape
<1>4. PrevIsParent /\ NextIsChild /\ TxOwned
  BY Names DEF PrevIsParent, NextIsChild, TxOwned, NoBlock, Hash
<1>. QED BY <1>2, <1>3, <1>4 DEF Inv

LEMMA NextInv == Inv /\ [Next]_vars => Inv'
<1>. SUFFICES ASSUME Inv, [Next]_vars PROVE Inv'
  OBVIOUS
<1>1. ASSUME NEW s \in Syncs, NEW c \in Calls, Submit(s, c) \/ Retry(s, c)
      PROVE  Inv'
  BY <1>1, CallStep DEF Submit
<1>2. ASSUME NEW s \in Syncs, Step(s)
      PROVE  Inv'
  <2>1. up' \in BOOLEAN /\ UNCHANGED delayed
    BY <1>2, StepFlags
  <2>2. CallsOK' /\ DbOK'
    BY <1>2, StepCalls, StepDb
  <2>. QED BY <2>1, <2>2 DEF DbOK, CallsOK, Inv, SyncTypeOK
<1>3. CASE Restart
  <2>1. DbOK'
    <3>1. UNCHANGED dbVars /\ cachedTip' \in TipVal
      BY <1>3 DEF Restart, TipVal
    <3>. QED BY <3>1, DbUnchanged DEF dbVars, Inv, SyncTypeOK, DbOK, BlockDbTypeOK
  <2>2. /\ up' \in BOOLEAN
        /\ pc' \in [Syncs -> Points]
        /\ frame' \in [Syncs -> Frames]
        /\ lastHash' \in [Syncs -> Block \cup {Null}]
        /\ delayed' \in [Syncs -> SUBSET Calls]
    BY <1>3, NoFrameIsFrame DEF Restart, Points
  <2>3. Shape'
    BY <1>3, NoFrameIsFrame DEF Restart, Shape
  <2>. QED BY <2>1, <2>2, <2>3 DEF DbOK, Inv, SyncTypeOK
<1>4. CASE UNCHANGED vars
  <2>1. DbOK'
    BY <1>4, DbUnchanged DEF vars, Inv, SyncTypeOK, DbOK, BlockDbTypeOK
  <2>. QED BY <1>4, <2>1 DEF vars, DbOK, Inv, SyncTypeOK, Shape
<1>. QED BY <1>1, <1>2, <1>3, <1>4 DEF Next

\* The inductive invariant holds in every reachable state, whichever values of
\* allowReorgs the callers pass.
THEOREM Invariance == Spec => []Inv
<1>1. Init => Inv
  BY InitInv
<1>2. Inv /\ [Next]_vars => Inv'
  BY NextInv
<1>. QED BY <1>1, <1>2, PTL DEF Spec

-----------------------------------------------------------------------------
(* The theorems *)

\* Every variable keeps its type: in particular no hash that is not a block is
\* ever connected, orphaned or put as a next pointer, although the backward
\* walk may step onto the zero hash and off the tree.
THEOREM TypeCorrect == Spec => []SyncTypeOK
<1>1. Inv => SyncTypeOK
  BY DEF Inv
<1>. QED BY <1>1, Invariance, PTL

\* Next pointers lead to children, whatever was interrupted or interleaved, so
\* the orphaning walk climbs the tree and cannot run in a circle.
THEOREM NextPointers == Spec => []NextIsChild
<1>1. Inv => NextIsChild
  BY DEF Inv
<1>. QED BY <1>1, Invariance, PTL

\* The entry of a transaction names a block that holds it and that block's
\* present height, in every state a reader can see.
THEOREM TransactionIndex == Spec => []TxIndexAgrees
<1>1. Inv => TxIndexAgrees
  BY DEF Inv, TxOwned, TxIndexAgrees
<1>. QED BY <1>1, Invariance, PTL
=============================================================================
