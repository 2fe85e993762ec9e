-------------------------- MODULE SyncHeightProofs --------------------------
(***************************************************************************)
(* What holds when every caller allows reorganisations (Modes = {TRUE}),   *)
(* for any number of Sync objects, with crashes and RPC failures: a stored *)
(* block has its depth as height or is off the main chain, and the durable *)
(* tip names a block that is stored completely.                            *)
(***************************************************************************)
EXTENDS SyncProofs

-----------------------------------------------------------------------------
(* The branch of the backward walk *)

\* br leads from parent to child down to np through blocks of st; its first
\* element may be the zero hash, where the walk has left the tree.
PathOf(br, np, st) ==
    /\ \A i \in 1..Len(br) : br[i] \in st \/ (i = 1 /\ br[i] = Zero)
    /\ \A i \in 1..(Len(br) - 1) : br[i] = ParentOf[br[i + 1]]
    /\ br[Len(br)] = np

LEMMA HeadIsFirst ==
    ASSUME NEW S, NEW br \in Seq(S), br # <<>>
    PROVE  Len(br) \in Nat /\ Len(br) >= 1 /\ Head(br) = br[1]
  BY EmptySeq, LenProperties

LEMMA PathStart ==
    ASSUME NEW st, NEW np \in st
    PROVE  PathOf(<<np>>, np, st)
  BY DEF PathOf

LEMMA PathPrepend ==
    ASSUME NEW st, NEW np, NEW br \in Seq(Hash), br # <<>>, PathOf(br, np, st),
           NEW h \in Hash, h \in st \/ h = Zero, Head(br) \in st, h = ParentOf[Head(br)]
    PROVE  PathOf(<<h>> \o br, np, st)
<1>. DEFINE q == <<h>> \o br
<1>1. Len(br) \in Nat /\ Len(br) >= 1 /\ Head(br) = br[1]
  BY HeadIsFirst
<1>2. /\ Len(q) = Len(br) + 1
      /\ q[1] = h
      /\ \A i \in 1..Len(br) : q[i + 1] = br[i]
  <2>1. <<h>> \in Seq(Hash) /\ Len(<<h>>) = 1 /\ <<h>>[1] = h
    OBVIOUS
  <2>2. /\ Len(q) = Len(<<h>>) + Len(br)
        /\ \A i \in 1..(Len(<<h>>) + Len(br)) :
              q[i] = IF i <= Len(<<h>>) THEN <<h>>[i] ELSE br[i - Len(<<h>>)]
    BY <2>1, ConcatProperties
  <2>. QED BY <1>1, <2>1, <2>2
<1>. HIDE DEF q
<1>3. ASSUME NEW i \in 1..Len(q) PROVE q[i] \in st \/ (i = 1 /\ q[i] = Zero)
  <2>1. CASE i = 1
    BY <1>2, <2>1
  <2>2. CASE i # 1
    <3>1. i - 1 \in 1..Len(br) /\ q[i] = br[i - 1]
      BY <1>1, <1>2, <2>2
    <3>2. br[i - 1] \in st \/ (i - 1 = 1 /\ br[i - 1] = Zero)
      BY <3>1 DEF PathOf
    <3>. QED BY <1>1, <3>1, <3>2
  <2>. QED BY <2>1, <2>2
<1>4. ASSUME NEW i \in 1..(Len(q) - 1) PROVE q[i] = ParentOf[q[i + 1]]
  <2>1. CASE i = 1
    BY <1>1, <1>2, <2>1
  <2>2. CASE i # 1
    <3>1. i - 1 \in 1..(Len(br) - 1) /\ q[i] = br[i - 1] /\ q[i + 1] = br[i]
      BY <1>1, <1>2, <2>2
    <3>2. br[i - 1] = ParentOf[br[(i - 1) + 1]]
      BY <3>1 DEF PathOf
    <3>. QED BY <3>1, <3>2
  <2>. QED BY <2>1, <2>2
<1>5. q[Len(q)] = np
  BY <1>1, <1>2 DEF PathOf
<1>6. PathOf(q, np, st)
  BY <1>3, <1>4, <1>5 DEF PathOf
<1>. QED BY <1>6 DEF q

LEMMA PathTail ==
    ASSUME NEW st, NEW np, NEW br \in Seq(Hash), br # <<>>, PathOf(br, np, st), Len(br) # 1
    PROVE  /\ PathOf(Tail(br), np, st)
           /\ Head(Tail(br)) \in st
           /\ Head(br) = ParentOf[Head(Tail(br))]
<1>. DEFINE q == Tail(br)
<1>1. Len(br) \in Nat /\ Len(br) >= 2 /\ Head(br) = br[1]
  <2>1. Len(br) \in Nat /\ Len(br) >= 1 /\ Head(br) = br[1]
    BY HeadIsFirst
  <2>2. \A n \in Nat : n >= 1 /\ n # 1 => n >= 2
    OBVIOUS
  <2>. QED BY <2>1, <2>2
<1>2. /\ q \in Seq(Hash)
      /\ Len(q) = Len(br) - 1
      /\ \A i \in 1..Len(q) : q[i] = br[i + 1]
  BY HeadTailProperties
<1>3. q # <<>> /\ Head(q) = q[1]
  BY <1>1, <1>2, TailOfLonger, HeadIsFirst
<1>. HIDE DEF q
<1>4. \A i \in 1..Len(q) : q[i] \in st
  <2>1. TAKE i \in 1..Len(q)
  <2>2. i + 1 \in 1..Len(br) /\ i + 1 # 1
    BY <1>1, <1>2
  <2>. QED BY <1>2, <2>2 DEF PathOf
<1>5. \A i \in 1..(Len(q) - 1) : q[i] = ParentOf[q[i + 1]]
  <2>1. TAKE i \in 1..(Len(q) - 1)
  <2>2. /\ i + 1 \in 1..(Len(br) - 1)
        /\ q[i] = br[i + 1] /\ q[i + 1] = br[(i + 1) + 1]
    BY <1>1, <1>2
  <2>. QED BY <2>2 DEF PathOf
<1>6. q[Len(q)] = np
  BY <1>1, <1>2 DEF PathOf
<1>7. Head(br) = ParentOf[q[1]]
  BY <1>1, <1>2 DEF PathOf
<1>8. q[1] \in st
  BY <1>1, <1>2, <1>4
<1>9. PathOf(q, np, st) /\ Head(q) \in st /\ Head(br) = ParentOf[Head(q)]
  BY <1>3, <1>4, <1>5, <1>6, <1>7, <1>8 DEF PathOf
<1>. QED BY <1>9 DEF q

LEMMA PathOfOne ==
    ASSUME NEW st, NEW np, NEW br \in Seq(Hash), br # <<>>, PathOf(br, np, st), Len(br) = 1
    PROVE  Head(br) = np
  BY HeadIsFirst DEF PathOf

-----------------------------------------------------------------------------
(* The inductive invariant *)

\* The points of a reorganisation, and those past the computation of height.
Reorganising == {"backPrev", "backHeight", "connect", "yNext", "setYNext",
                 "orphan", "orphanNext"}
HeightKnown == {"yNext", "setYNext", "orphan", "orphanNext",
                "addTxs", "addBlock", "putTip", "setNext"}

\* What a call that has frame f at point p has seen of a database that stores
\* the blocks st and the transactions tx, with tip t and cached tip c.
PlacedOf(p, f, st, tx, t, c) ==
    /\ p # "idle" => f.allow
    /\ p = "has" /\ t = NoTip /\ c = NoTip => f.blk = Genesis
    /\ p = "getTip" /\ t = NoTip => f.blk = Genesis
    /\ f.from # Null => f.from \in st
    /\ p \in Reorganising => NewPrev(f) \in st
    /\ p \in {"addTxs", "addBlock"} => f.blk = Genesis \/ NewPrev(f) \in st
    /\ p \in HeightKnown => f.height = Depth[f.blk]
    /\ p \in {"backPrev", "backHeight", "connect"} => PathOf(f.branch, NewPrev(f), st)
    /\ p = "backHeight" =>
          \/ f.iter = Null /\ f.last = Zero
          \/ f.last \in st /\ f.iter = ParentOf[f.last]
    /\ p = "connect" =>
          \/ Head(f.branch) = Zero
          \/ Head(f.branch) \in st /\ f.height = Depth[Head(f.branch)]
    /\ p = "connect" /\ f.last \in Block => f.last \in st
    /\ p \in {"yNext", "setYNext"} => f.last \in st
    /\ p = "addBlock" => TxOf[f.blk] \ {GenesisTx} \subseteq tx
    /\ p \in {"putTip", "setNext"} => f.blk \in st

Placed == \A s \in Syncs : PlacedOf(pc[s], frame[s], Stored, savedTx, tip, cachedTip)

\* Only Genesis is waiting for the lock of an empty index.
Waiting == \A s \in Syncs : \A c \in delayed[s] :
              tip = NoTip /\ cachedTip = NoTip => c.blk = Genesis

\* HeightIsDepth, and no height for the two hashes that are no blocks.
HeightsOK == HeightIsDepth /\ height[Zero] = 0 /\ height[Null] = 0

\* A stored block has all its ancestors, and its transactions.
Complete == \A b \in Stored : Branch[b] \subseteq Stored /\ TxOf[b] \ {GenesisTx} \subseteq savedTx

NextStored == \A h \in Hash : next[h] # Null => next[h] \in Stored

TipOK(t) == t # NoTip => t.hash \in Stored /\ t.height = Depth[t.hash]

IndexOK == HeightsOK /\ Complete /\ NextStored /\ TipOK(tip) /\ TipOK(cachedTip)

HInv == Inv /\ IndexOK /\ Placed /\ Waiting

-----------------------------------------------------------------------------
(* Parents and growth *)

LEMMA ParentFacts ==
    ASSUME NEW b \in Block
    PROVE  /\ b \in Branch[b]
           /\ b # Genesis => /\ ParentOf[b] \in Block
                             /\ ParentOf[b] \in Branch[b]
                             /\ Depth[b] = Depth[ParentOf[b]] + 1
           /\ b = Genesis => ParentOf[b] = Zero
           /\ ParentOf[b] # Null
<1>1. \A x \in Block : x \in Branch[x]
  BY Branches
<1>2. b # Genesis => ParentOf[b] \in Block
  BY BlockTree
<1>3. b # Genesis => Branch[b] = Branch[ParentOf[b]] \cup {b}
  BY Branches
<1>. QED BY <1>1, <1>2, <1>3, BlockTree, Names

\* What a step of one object leaves true for the others.
Grows ==
    /\ Stored \subseteq Stored'
    /\ savedTx \subseteq savedTx'
    /\ tip # NoTip => tip' # NoTip
    /\ cachedTip # NoTip => cachedTip' # NoTip

LEMMA PathGrows ==
    ASSUME NEW br, NEW np, NEW st, NEW st2, PathOf(br, np, st), st \subseteq st2
    PROVE  PathOf(br, np, st2)
  BY DEF PathOf

LEMMA PlacedGrows ==
    ASSUME NEW p, NEW f, NEW st, NEW st2, NEW tx, NEW tx2, NEW t, NEW t2, NEW c, NEW c2,
           PlacedOf(p, f, st, tx, t, c),
           st \subseteq st2, tx \subseteq tx2, t # NoTip => t2 # NoTip, c # NoTip => c2 # NoTip
    PROVE  PlacedOf(p, f, st2, tx2, t2, c2)
<1>1. p \in {"backPrev", "backHeight", "connect"} => PathOf(f.branch, NewPrev(f), st2)
  BY PathGrows DEF PlacedOf
<1>2. /\ p = "has" /\ t2 = NoTip /\ c2 = NoTip => f.blk = Genesis
      /\ p = "getTip" /\ t2 = NoTip => f.blk = Genesis
  BY DEF PlacedOf
<1>. QED BY <1>1, <1>2 DEF PlacedOf

LEMMA GotoPlaced ==
    ASSUME SyncTypeOK, Placed, Grows, NEW s \in Syncs, NEW p \in Points, NEW f \in Frames,
           Goto(s, p, f), PlacedOf(p, f, Stored', savedTx', tip', cachedTip')
    PROVE  Placed'
<1>1. ASSUME NEW r \in Syncs
      PROVE  PlacedOf(pc'[r], frame'[r], Stored', savedTx', tip', cachedTip')
  <2>1. CASE r = s
    BY <2>1, GotoTypes
  <2>2. CASE r # s
    <3>1. pc'[r] = pc[r] /\ frame'[r] = frame[r]
      BY <2>2, GotoTypes
    <3>2. PlacedOf(pc[r], frame[r], Stored, savedTx, tip, cachedTip)
      BY DEF Placed
    <3>3. PlacedOf(pc[r], frame[r], Stored', savedTx', tip', cachedTip')
      BY <3>2, PlacedGrows DEF Grows
    <3>. QED BY <3>1, <3>3
  <2>. QED BY <2>1, <2>2
<1>. QED BY <1>1 DEF Placed

LEMMA ThrowPlaced ==
    ASSUME Placed, Grows, Throw
    PROVE  Placed'
<1>1. ASSUME NEW r \in Syncs
      PROVE  PlacedOf(pc'[r], frame'[r], Stored', savedTx', tip', cachedTip')
  <2>1. pc'[r] = pc[r] /\ frame'[r] = frame[r]
    BY DEF Throw
  <2>2. PlacedOf(pc[r], frame[r], Stored, savedTx, tip, cachedTip)
    BY DEF Placed
  <2>3. PlacedOf(pc[r], frame[r], Stored', savedTx', tip', cachedTip')
    BY <2>2, PlacedGrows DEF Grows
  <2>. QED BY <2>1, <2>3
<1>. QED BY <1>1 DEF Placed

LEMMA NoFramePlaced ==
    ASSUME NEW st, NEW tx, NEW t, NEW c
    PROVE  PlacedOf("idle", NoFrame, st, tx, t, c)
  BY DEF PlacedOf, NoFrame, Reorganising, HeightKnown

LEMMA ReturnPlaced ==
    ASSUME SyncTypeOK, Placed, Grows, NEW s \in Syncs, Return(s)
    PROVE  Placed'
  BY GotoPlaced, NoFramePlaced, NoFrameIsFrame DEF Return, Points

-----------------------------------------------------------------------------
(* What each kind of write does to the index *)

LEMMA QuietIndex ==
    ASSUME IndexOK, UNCHANGED <<prev, next, height, tip>>, savedTx \subseteq savedTx',
           cachedTip' \in {tip, cachedTip}, cachedTip # NoTip => cachedTip' # NoTip
    PROVE  IndexOK' /\ Grows /\ Stored' = Stored
<1>1. Stored' = Stored
  BY DEF Stored, Has
<1>2. HeightsOK' /\ NextStored'
  BY <1>1 DEF IndexOK, HeightsOK, HeightIsDepth, Has, NextStored
<1>3. Complete'
  BY <1>1 DEF IndexOK, Complete
<1>4. TipOK(tip)' /\ TipOK(cachedTip)'
  BY <1>1 DEF IndexOK, TipOK
<1>. QED BY <1>1, <1>2, <1>3, <1>4 DEF IndexOK, Grows

LEMMA HeightIndex ==
    ASSUME BlockDbTypeOK, IndexOK, UNCHANGED <<prev, next, tip, cachedTip, savedTx>>,
           NEW b \in Stored, NEW h \in {-1, Depth[b]}, height' = [height EXCEPT ![b] = h]
    PROVE  IndexOK' /\ Grows /\ Stored' = Stored
<1>1. Stored' = Stored
  BY DEF Stored, Has
<1>2. b \in Block /\ b # Zero /\ b # Null /\ Has(b)
  BY Names DEF Stored
<1>3. HeightsOK'
  <2>1. height'[Zero] = 0 /\ height'[Null] = 0
    BY <1>2 DEF IndexOK, HeightsOK, BlockDbTypeOK, Hash
  <2>2. ASSUME NEW x \in Block
        PROVE  height'[x] \in IF prev'[x] # Null THEN {-1, Depth[x]} ELSE {0}
    <3>1. height[x] \in IF prev[x] # Null THEN {-1, Depth[x]} ELSE {0}
      BY DEF IndexOK, HeightsOK, HeightIsDepth, Has
    <3>2. height'[x] = IF x = b THEN h ELSE height[x]
      BY DEF BlockDbTypeOK, Hash
    <3>3. prev[b] # Null /\ prev'[x] = prev[x]
      BY <1>2 DEF Has
    <3>. QED BY <3>1, <3>2, <3>3
  <2>. QED BY <2>1, <2>2 DEF HeightsOK, HeightIsDepth, Has
<1>4. NextStored' /\ Complete' /\ TipOK(tip)' /\ TipOK(cachedTip)'
  BY <1>1 DEF IndexOK, NextStored, Complete, TipOK
<1>. QED BY <1>1, <1>3, <1>4 DEF IndexOK, Grows

LEMMA NextIndex ==
    ASSUME BlockDbTypeOK, IndexOK, UNCHANGED <<prev, height, tip, cachedTip, savedTx>>,
           NEW x \in Hash, NEW n \in Stored, next' = [next EXCEPT ![x] = n]
    PROVE  IndexOK' /\ Grows /\ Stored' = Stored
<1>1. Stored' = Stored
  BY DEF Stored, Has
<1>2. HeightsOK' /\ Complete' /\ TipOK(tip)' /\ TipOK(cachedTip)'
  BY <1>1 DEF IndexOK, HeightsOK, HeightIsDepth, Has, Complete, TipOK
<1>3. NextStored'
  <2>1. \A y \in Hash : next'[y] = IF y = x THEN n ELSE next[y]
    BY DEF BlockDbTypeOK
  <2>. QED BY <1>1, <2>1 DEF IndexOK, NextStored
<1>. QED BY <1>1, <1>2, <1>3 DEF IndexOK, Grows

\* The batch of add(): block b is new, or gets its height again.
LEMMA AddIndex ==
    ASSUME BlockDbTypeOK, IndexOK, UNCHANGED <<next, tip, savedTx>>,
           NEW b \in Block, b = Genesis \/ ParentOf[b] \in Stored,
           TxOf[b] \ {GenesisTx} \subseteq savedTx,
           height' = [height EXCEPT ![b] = Depth[b]],
           prev' = [prev EXCEPT ![b] = ParentOf[b]],
           cachedTip' = [hash |-> b, height |-> Depth[b]]
    PROVE  IndexOK' /\ Grows /\ Stored' = Stored \cup {b}
<1>1. b # Zero /\ b # Null /\ ParentOf[b] # Null
  BY Names, ParentFacts
<1>2. \A x \in Block : prev'[x] = IF x = b THEN ParentOf[b] ELSE prev[x]
  BY DEF BlockDbTypeOK, Hash
<1>3. Stored' = Stored \cup {b}
  BY <1>1, <1>2 DEF Stored, Has
<1>4. HeightsOK'
  <2>1. height'[Zero] = 0 /\ height'[Null] = 0
    BY <1>1 DEF IndexOK, HeightsOK, BlockDbTypeOK, Hash
  <2>2. ASSUME NEW x \in Block
        PROVE  height'[x] \in IF prev'[x] # Null THEN {-1, Depth[x]} ELSE {0}
    <3>1. height[x] \in IF prev[x] # Null THEN {-1, Depth[x]} ELSE {0}
      BY DEF IndexOK, HeightsOK, HeightIsDepth, Has
    <3>2. height'[x] = IF x = b THEN Depth[b] ELSE height[x]
      BY DEF BlockDbTypeOK, Hash
    <3>. QED BY <1>1, <1>2, <3>1, <3>2
  <2>. QED BY <2>1, <2>2 DEF HeightsOK, HeightIsDepth, Has
<1>5. Complete'
  <2>1. Branch[b] \subseteq Stored \cup {b}
    <3>1. CASE b = Genesis
      BY <3>1, Branches
    <3>2. CASE b # Genesis
      <4>1. Branch[b] = Branch[ParentOf[b]] \cup {b}
        BY <3>2, Branches
      <4>2. Branch[ParentOf[b]] \subseteq Stored
        BY <3>2 DEF IndexOK, Complete
      <4>. QED BY <4>1, <4>2
    <3>. QED BY <3>1, <3>2
  <2>2. \A x \in Stored : Branch[x] \subseteq Stored /\ TxOf[x] \ {GenesisTx} \subseteq savedTx
    BY DEF IndexOK, Complete
  <2>. QED BY <1>3, <2>1, <2>2 DEF Complete
<1>6. NextStored' /\ TipOK(tip)'
  BY <1>3 DEF IndexOK, NextStored, TipOK
<1>7. TipOK(cachedTip)' /\ cachedTip' # NoTip
  BY <1>1, <1>3 DEF TipOK, NoTip
<1>. QED BY <1>3, <1>4, <1>5, <1>6, <1>7 DEF IndexOK, Grows

-----------------------------------------------------------------------------
(* The steps of storeTipBlock *)

LEMMA OwnPlace ==
    ASSUME HInv, NEW s \in Syncs
    PROVE  /\ frame[s] \in Frames
           /\ ShapeOf(pc[s], frame[s])
           /\ PlacedOf(pc[s], frame[s], Stored, savedTx, tip, cachedTip)
           /\ BlockDbTypeOK /\ SyncTypeOK /\ IndexOK /\ Placed
  BY OwnFrame DEF HInv, Inv, SyncTypeOK, Placed

LEMMA StartAddPlaced ==
    ASSUME SyncTypeOK, Placed, Grows, NEW s \in Syncs, NEW f \in Frames,
           f.allow, f.height = Depth[f.blk], f.from # Null => f.from \in Stored',
           f.blk = Genesis \/ NewPrev(f) \in Stored',
           StartAdd(s, f)
    PROVE  Placed'
<1>1. PlacedOf("addTxs", f, Stored', savedTx', tip', cachedTip')
  BY DEF PlacedOf, Reorganising, HeightKnown
<1>2. Goto(s, "addTxs", f) /\ "addTxs" \in Points
  BY DEF StartAdd, Points
<1>. QED BY <1>1, <1>2, GotoPlaced

LEMMA TipReadPlaced ==
    ASSUME SyncTypeOK, Placed, Grows, NEW s \in Syncs, NEW f \in Frames,
           f.blk \in Block, f.allow, f.from # Null => f.from \in Stored',
           NEW t \in TipVal, TipOK(t), Stored' = Stored, t = NoTip => f.blk = Genesis,
           TipRead(s, f, t)
    PROVE  Placed'
<1>1. CASE t.hash # Null /\ NewPrev(f) # t.hash
  <2>1. Goto(s, "getNext", f) /\ "getNext" \in Points
    BY <1>1 DEF TipRead, Points
  <2>2. PlacedOf("getNext", f, Stored', savedTx', tip', cachedTip')
    BY DEF PlacedOf, Reorganising, HeightKnown
  <2>. QED BY <2>1, <2>2, GotoPlaced
<1>2. CASE ~(t.hash # Null /\ NewPrev(f) # t.hash)
  <2>. DEFINE g == [f EXCEPT !.height = t.height + 1]
  <2>1. StartAdd(s, g)
    BY <1>2 DEF TipRead
  <2>2. t.height + 1 \in Heights
    BY DEF TipVal, NoTip, Heights
  <2>3. /\ g \in Frames /\ g.blk = f.blk /\ g.allow = f.allow /\ g.from = f.from
        /\ g.height = t.height + 1
    BY <2>2 DEF Frames
  <2>4. CASE t = NoTip
    <3>1. g.blk = Genesis /\ g.height = 0
      BY <2>3, <2>4 DEF NoTip
    <3>2. g.height = Depth[g.blk]
      BY <3>1, BlockTree
    <3>. QED BY <2>1, <2>3, <3>1, <3>2, StartAddPlaced
  <2>5. CASE t # NoTip
    <3>1. t.hash \in Block /\ t.hash \in Stored /\ t.height = Depth[t.hash] /\ NewPrev(f) = t.hash
      BY <1>2, <2>5, Names DEF TipVal, TipOK
    <3>2. f.blk # Genesis
      BY <3>1, Names, ParentFacts DEF NewPrev
    <3>3. Depth[f.blk] = Depth[NewPrev(f)] + 1
      BY <3>2, ParentFacts DEF NewPrev
    <3>4. g.height = Depth[g.blk] /\ NewPrev(g) = NewPrev(f)
      BY <2>3, <3>1, <3>3 DEF NewPrev
    <3>. QED BY <2>1, <2>3, <3>1, <3>4, StartAddPlaced
  <2>. QED BY <2>4, <2>5
<1>. QED BY <1>1, <1>2

LEMMA CallGetTipPlaced ==
    ASSUME SyncTypeOK, IndexOK, Placed, Grows, NEW s \in Syncs, NEW f \in Frames,
           f.blk \in Block, f.allow, f.from # Null => f.from \in Stored',
           UNCHANGED <<tip, cachedTip>>, Stored' = Stored,
           tip = NoTip /\ cachedTip = NoTip => f.blk = Genesis,
           CallGetTip(s, f)
    PROVE  Placed'
<1>1. cachedTip \in TipVal /\ TipOK(cachedTip)
  BY DEF SyncTypeOK, BlockDbTypeOK, IndexOK
<1>2. CASE cachedTip.hash # Null
  <2>1. TipRead(s, f, cachedTip) /\ cachedTip # NoTip
    BY <1>2 DEF CallGetTip, NoTip
  <2>. QED BY <1>1, <2>1, TipReadPlaced
<1>3. CASE cachedTip.hash = Null
  <2>1. cachedTip = NoTip
    BY <1>1, <1>3, Names DEF TipVal
  <2>2. Goto(s, "getTip", f) /\ "getTip" \in Points
    BY <1>3 DEF CallGetTip, Points
  <2>3. PlacedOf("getTip", f, Stored', savedTx', tip', cachedTip')
    BY <2>1 DEF PlacedOf, Reorganising, HeightKnown
  <2>. QED BY <2>2, <2>3, GotoPlaced
<1>. QED BY <1>2, <1>3

LEMMA EnterPlaced ==
    ASSUME Modes = {TRUE}, SyncTypeOK, IndexOK, Placed, NEW s \in Syncs, NEW c \in Calls,
           UNCHANGED <<dbVars, cachedTip>>,
           tip = NoTip /\ cachedTip = NoTip => c.blk = Genesis,
           Enter(s, c)
    PROVE  Placed'
<1>. DEFINE f == [NoFrame EXCEPT !.blk = c.blk, !.allow = c.allow]
<1>1. c.blk \in Block /\ c.allow = TRUE
  BY DEF Calls
<1>2. f \in Frames /\ f.blk = c.blk /\ f.allow /\ f.from = Null
  BY <1>1, NoFrameIsFrame DEF Frames, NoFrame
<1>3. Grows /\ Stored' = Stored /\ UNCHANGED <<tip, cachedTip>>
  BY DEF Grows, Stored, Has, dbVars
<1>. HIDE DEF f
<1>4. CASE CallGetTip(s, f)
  BY <1>1, <1>2, <1>3, <1>4, CallGetTipPlaced
<1>5. CASE Goto(s, "has", f)
  <2>1. PlacedOf("has", f, Stored', savedTx', tip', cachedTip') /\ "has" \in Points
    BY <1>2, <1>3 DEF PlacedOf, Reorganising, HeightKnown, Points
  <2>. QED BY <1>2, <1>3, <1>5, <2>1, GotoPlaced
<1>. QED BY <1>1, <1>4, <1>5 DEF Enter, f

LEMMA TipSteps ==
    ASSUME HInv, NEW s \in Syncs, HasPrev(s) \/ GetTip(s) \/ GetNext(s)
    PROVE  IndexOK' /\ Placed' /\ Grows
<1>. DEFINE f == frame[s]
<1>1. /\ f \in Frames /\ ShapeOf(pc[s], f)
      /\ PlacedOf(pc[s], f, Stored, savedTx, tip, cachedTip)
      /\ BlockDbTypeOK /\ SyncTypeOK /\ IndexOK /\ Placed
  BY OwnPlace
<1>2. UNCHANGED dbVars /\ cachedTip' \in {tip, cachedTip} /\ (cachedTip # NoTip => cachedTip' # NoTip)
  BY DEF HasPrev, GetTip, GetNext, NoTip
<1>3. IndexOK' /\ Grows /\ Stored' = Stored
  BY <1>1, <1>2, QuietIndex DEF dbVars
<1>4. f.blk \in Block /\ f.allow /\ (f.from # Null => f.from \in Stored')
  BY <1>1, <1>3 DEF HasPrev, GetTip, GetNext, At, ShapeOf, PlacedOf
<1>5. CASE HasPrev(s)
  <2>1. tip = NoTip /\ cachedTip = NoTip => f.blk = Genesis
    BY <1>1, <1>5 DEF HasPrev, At, PlacedOf
  <2>2. CASE CallGetTip(s, f)
    <3>1. UNCHANGED <<tip, cachedTip>>
      BY <1>5 DEF HasPrev, dbVars
    <3>. QED BY <1>1, <1>3, <1>4, <2>1, <2>2, <3>1, CallGetTipPlaced
  <2>3. CASE Return(s)
    BY <1>1, <1>3, <2>3, ReturnPlaced
  <2>. QED BY <1>3, <1>5, <2>2, <2>3 DEF HasPrev
<1>6. CASE GetTip(s)
  <2>1. TipRead(s, f, tip) /\ (tip = NoTip => f.blk = Genesis)
    BY <1>1, <1>6 DEF GetTip, At, PlacedOf
  <2>2. tip \in TipVal /\ TipOK(tip)
    BY <1>1 DEF BlockDbTypeOK, IndexOK
  <2>. QED BY <1>1, <1>3, <1>4, <2>1, <2>2, TipReadPlaced
<1>7. CASE GetNext(s)
  <2>. DEFINE g == [f EXCEPT !.from = next[NewPrev(f)]]
  <2>1. NewPrev(f) \in Hash
    BY <1>4, BlockTree DEF NewPrev, Hash
  <2>2. next[NewPrev(f)] \in Block \cup {Null}
    BY <1>1, <2>1 DEF BlockDbTypeOK
  <2>3. g \in Frames /\ g.allow /\ g.from = next[NewPrev(f)]
    BY <1>1, <1>4, <2>2 DEF Frames
  <2>4. g.from # Null => g.from \in Stored'
    BY <1>1, <1>3, <2>1, <2>3 DEF IndexOK, NextStored
  <2>5. "reorgHeight" \in Points /\ PlacedOf("reorgHeight", g, Stored', savedTx', tip', cachedTip')
    BY <2>3, <2>4 DEF Points, PlacedOf, Reorganising, HeightKnown
  <2>. QED BY <1>1, <1>3, <1>7, <2>3, <2>5, GotoPlaced DEF GetNext
<1>. QED BY <1>5, <1>6, <1>7

\* A height other than 0 is a stored block's.
LEMMA HeightOfStored ==
    ASSUME IndexOK, NEW h \in Hash, height[h] # 0
    PROVE  h \in Stored /\ height[h] \in {-1, Depth[h]}
  BY DEF IndexOK, HeightsOK, HeightIsDepth, Stored, Hash

\* The depth of a block whose parent is a block.
LEMMA DepthOfChild ==
    ASSUME NEW b \in Block, ParentOf[b] \in Block
    PROVE  Depth[b] = Depth[ParentOf[b]] + 1 /\ Depth[b] \in Nat /\ Depth[ParentOf[b]] \in Nat
<1>1. b # Genesis
  BY ParentFacts, Names
<1>. QED BY <1>1, BlockTree

LEMMA ReorgHeightPlaced ==
    ASSUME HInv, NEW s \in Syncs, ReorgHeight(s)
    PROVE  IndexOK' /\ Placed' /\ Grows
<1>. DEFINE f == frame[s]
            np == NewPrev(f)
            h == height[np]
<1>1. /\ f \in Frames /\ ShapeOf(pc[s], f) /\ pc[s] = "reorgHeight"
      /\ PlacedOf(pc[s], f, Stored, savedTx, tip, cachedTip)
      /\ BlockDbTypeOK /\ SyncTypeOK /\ IndexOK /\ Placed
  BY OwnPlace DEF ReorgHeight, At
<1>2. IndexOK' /\ Grows /\ Stored' = Stored
  BY <1>1, QuietIndex DEF ReorgHeight, dbVars
<1>3. f.blk \in Block /\ f.allow /\ (f.from # Null => f.from \in Stored)
  BY <1>1 DEF ShapeOf, PlacedOf
<1>4. np = ParentOf[f.blk] /\ np \in Hash
  BY <1>3, BlockTree DEF NewPrev, Hash
<1>5. h # 0 => np \in Stored /\ h \in {-1, Depth[np]}
  BY <1>1, <1>4, HeightOfStored
<1>6. h \in Heights
  BY <1>1, <1>4 DEF BlockDbTypeOK
<1>7. CASE Throw
  BY <1>1, <1>2, <1>7, ThrowPlaced
<1>8. CASE h # 0 /\ StartBack(s, f, np)
  <2>. DEFINE q == <<np>>
              g == [f EXCEPT !.from = Null, !.iter = np, !.branch = q]
  <2>1. np \in Stored /\ q \in Seq(Hash) /\ PathOf(q, np, Stored)
    BY <1>4, <1>5, <1>8, PathStart
  <2>. HIDE DEF q
  <2>2. /\ g \in Frames
        /\ g.blk = f.blk /\ g.allow /\ g.from = Null /\ g.branch = q
    BY <1>1, <1>3, <1>4, <2>1 DEF Frames
  <2>3. NewPrev(g) = np
    BY <2>2 DEF NewPrev
  <2>4. PlacedOf("backPrev", g, Stored', savedTx', tip', cachedTip') /\ "backPrev" \in Points
    BY <1>2, <2>1, <2>2, <2>3 DEF Points, PlacedOf, Reorganising, HeightKnown
  <2>5. Goto(s, "backPrev", g)
    BY <1>8 DEF StartBack, q
  <2>. QED BY <1>1, <1>2, <2>2, <2>4, <2>5, GotoPlaced
<1>9. CASE h > 0 /\ f.from # Null /\ Goto(s, "orphan", [f EXCEPT !.height = h + 1])
  <2>. DEFINE g == [f EXCEPT !.height = h + 1]
  <2>1. np \in Stored /\ np \in Block /\ h = Depth[np]
    BY <1>5, <1>6, <1>9 DEF Stored, Heights
  <2>2. h + 1 = Depth[f.blk]
    BY <1>3, <1>4, <2>1, DepthOfChild
  <2>3. h + 1 \in Heights
    BY <1>6 DEF Heights
  <2>4. g \in Frames /\ g.blk = f.blk /\ g.from = f.from /\ g.allow /\ g.height = Depth[g.blk]
    BY <1>1, <1>3, <2>2, <2>3 DEF Frames
  <2>5. NewPrev(g) = np
    BY <2>4 DEF NewPrev
  <2>6. PlacedOf("orphan", g, Stored', savedTx', tip', cachedTip') /\ "orphan" \in Points
    BY <1>2, <1>3, <2>1, <2>4, <2>5 DEF Points, PlacedOf, Reorganising, HeightKnown
  <2>. QED BY <1>1, <1>2, <1>9, <2>4, <2>6, GotoPlaced
<1>. QED BY <1>2, <1>6, <1>7, <1>8, <1>9 DEF ReorgHeight

\* The parent of a stored block is stored, or the zero hash.
LEMMA ParentStored ==
    ASSUME IndexOK, NEW b \in Stored
    PROVE  /\ b \in Block
           /\ ParentOf[b] \in Hash
           /\ ParentOf[b] \in Stored \/ ParentOf[b] = Zero
           /\ ParentOf[b] # Null
<1>1. b \in Block
  BY DEF Stored
<1>2. Branch[b] \subseteq Stored
  BY DEF IndexOK, Complete
<1>. QED BY <1>1, <1>2, ParentFacts, BlockTree DEF Hash

LEMMA BackPrevPlaced ==
    ASSUME HInv, NEW s \in Syncs, BackPrev(s)
    PROVE  IndexOK' /\ Placed' /\ Grows
<1>. DEFINE f == frame[s]
            g == [f EXCEPT !.last = f.iter, !.iter = prev[f.iter]]
<1>1. /\ f \in Frames /\ ShapeOf(pc[s], f) /\ pc[s] = "backPrev"
      /\ PlacedOf(pc[s], f, Stored, savedTx, tip, cachedTip)
      /\ BlockDbTypeOK /\ SyncTypeOK /\ IndexOK /\ Placed
  BY OwnPlace DEF BackPrev, At
<1>2. IndexOK' /\ Grows /\ Stored' = Stored
  BY <1>1, QuietIndex DEF BackPrev, dbVars
<1>3. f.iter \in Hash /\ prev[f.iter] \in Hash
  BY <1>1 DEF Frames, BlockDbTypeOK, Hash
<1>4. f.iter \in Stored \/ f.iter = Zero
  <2>1. /\ f.branch \in Seq(Hash) /\ f.branch # <<>> /\ Head(f.branch) = f.iter
        /\ PathOf(f.branch, NewPrev(f), Stored)
    BY <1>1 DEF ShapeOf, PlacedOf, Frames
  <2>. QED BY <2>1, HeadIsFirst DEF PathOf
<1>5. \/ prev[f.iter] = Null /\ f.iter = Zero
      \/ f.iter \in Stored /\ prev[f.iter] = ParentOf[f.iter]
  BY <1>4 DEF HInv, Inv, PrevIsParent, Stored, Has
<1>. HIDE DEF f
<1>6. /\ g \in Frames
      /\ g.blk = f.blk /\ g.allow = f.allow /\ g.from = f.from /\ g.branch = f.branch
      /\ g.last = f.iter /\ g.iter = prev[f.iter] /\ NewPrev(g) = NewPrev(f)
  BY <1>1, <1>3 DEF Frames, NewPrev
<1>7. PlacedOf("backHeight", g, Stored', savedTx', tip', cachedTip')
  BY <1>1, <1>2, <1>5, <1>6 DEF PlacedOf, Reorganising, HeightKnown
<1>8. Goto(s, "backHeight", g) /\ "backHeight" \in Points
  BY DEF BackPrev, Points, f
<1>. QED BY <1>1, <1>2, <1>6, <1>7, <1>8, GotoPlaced

LEMMA BackHeightPlaced ==
    ASSUME HInv, NEW s \in Syncs, BackHeight(s)
    PROVE  IndexOK' /\ Placed' /\ Grows
<1>. DEFINE f == frame[s]
<1>1. /\ f \in Frames /\ ShapeOf(pc[s], f) /\ pc[s] = "backHeight"
      /\ PlacedOf(pc[s], f, Stored, savedTx, tip, cachedTip)
      /\ BlockDbTypeOK /\ SyncTypeOK /\ IndexOK /\ Placed
  BY OwnPlace DEF BackHeight, At
<1>2. IndexOK' /\ Grows /\ Stored' = Stored
  BY <1>1, QuietIndex DEF BackHeight, dbVars
<1>3. /\ f.branch \in Seq(Hash) /\ f.branch # <<>> /\ Head(f.branch) = f.last
      /\ PathOf(f.branch, NewPrev(f), Stored) /\ NewPrev(f) \in Stored
      /\ f.iter \in Hash /\ f.allow /\ (f.from # Null => f.from \in Stored)
      /\ \/ f.iter = Null /\ f.last = Zero
         \/ f.last \in Stored /\ f.iter = ParentOf[f.last]
  BY <1>1 DEF ShapeOf, PlacedOf, Frames, Reorganising
<1>4. height[f.iter] \in Heights
  BY <1>1, <1>3 DEF BlockDbTypeOK
<1>5. CASE f.iter # Null /\ height[f.iter] <= 0
  <2>. DEFINE br == <<f.iter>> \o f.branch
              g == [f EXCEPT !.branch = br]
  <2>1. f.last \in Stored /\ f.iter = ParentOf[f.last]
    BY <1>3, <1>5
  <2>2. f.iter \in Stored \/ f.iter = Zero
    BY <1>1, <2>1, ParentStored
  <2>3. PathOf(br, NewPrev(f), Stored)
    BY <1>3, <2>1, <2>2, PathPrepend
  <2>4. br \in Seq(Hash)
    BY <1>3
  <2>5. Goto(s, "backPrev", g) /\ "backPrev" \in Points
    BY <1>5 DEF BackHeight, Points
  <2>. HIDE DEF f, br
  <2>6. /\ g \in Frames
        /\ g.blk = f.blk /\ g.allow = f.allow /\ g.from = f.from /\ g.branch = br
        /\ NewPrev(g) = NewPrev(f)
    BY <1>1, <2>4 DEF Frames, NewPrev
  <2>7. PlacedOf("backPrev", g, Stored', savedTx', tip', cachedTip')
    BY <1>2, <1>3, <2>3, <2>6 DEF PlacedOf, Reorganising, HeightKnown
  <2>. QED BY <1>1, <1>2, <2>5, <2>6, <2>7, GotoPlaced
<1>6. CASE ~(f.iter # Null /\ height[f.iter] <= 0)
  <2>. DEFINE h == height[f.iter] + 1
              g == [f EXCEPT !.height = h]
  <2>1. h \in Heights
    BY <1>4 DEF Heights
  <2>2. \/ f.last = Zero
        \/ f.last \in Stored /\ h = Depth[f.last]
    <3>1. CASE f.iter = Null
      BY <1>3, <1>1, <3>1, ParentStored
    <3>2. CASE f.iter # Null
      <4>1. f.last \in Stored /\ f.iter = ParentOf[f.last] /\ f.last \in Block
        BY <1>3, <3>2 DEF Stored
      <4>2. height[f.iter] # 0 /\ height[f.iter] # -1
        BY <1>4, <1>6, <3>2 DEF Heights
      <4>3. f.iter \in Stored /\ height[f.iter] = Depth[f.iter]
        BY <1>1, <1>3, <4>2, HeightOfStored
      <4>4. f.iter \in Block
        BY <4>3 DEF Stored
      <4>. QED BY <4>1, <4>3, <4>4, DepthOfChild
    <3>. QED BY <3>1, <3>2
  <2>3. Goto(s, "connect", g) /\ "connect" \in Points
    BY <1>6 DEF BackHeight, Points
  <2>. HIDE DEF f, h
  <2>4. /\ g \in Frames
        /\ g.blk = f.blk /\ g.allow = f.allow /\ g.from = f.from /\ g.branch = f.branch
        /\ g.last = f.last /\ g.height = h /\ NewPrev(g) = NewPrev(f)
    BY <1>1, <2>1 DEF Frames, NewPrev
  <2>5. PlacedOf("connect", g, Stored', savedTx', tip', cachedTip')
    BY <1>2, <1>3, <2>2, <2>4, Names DEF PlacedOf, Reorganising, HeightKnown
  <2>. QED BY <1>1, <1>2, <2>3, <2>4, <2>5, GotoPlaced
<1>. QED BY <1>5, <1>6

LEMMA ConnectPlaced ==
    ASSUME HInv, NEW s \in Syncs, Connect(s)
    PROVE  IndexOK' /\ Placed' /\ Grows
<1>. DEFINE f == frame[s]
            b == Head(f.branch)
<1>1. /\ f \in Frames /\ ShapeOf(pc[s], f) /\ pc[s] = "connect"
      /\ PlacedOf(pc[s], f, Stored, savedTx, tip, cachedTip)
      /\ BlockDbTypeOK /\ SyncTypeOK /\ IndexOK /\ Placed
  BY OwnPlace DEF Connect, At
<1>2. UNCHANGED <<prev, next, tip, cachedTip, savedTx>>
  BY DEF Connect
<1>3. CASE Throw /\ UNCHANGED height
  <2>1. IndexOK' /\ Grows
    BY <1>1, <1>2, <1>3, QuietIndex
  <2>. QED BY <1>1, <1>3, <2>1, ThrowPlaced
<1>4. CASE /\ b \in Block
           /\ SetBlockMain(b, f.height)
           /\ Goto(s, IF Len(f.branch) = 1 THEN "yNext" ELSE "connect",
                   [f EXCEPT !.height = @ + 1, !.branch = Tail(@)])
  <2>. DEFINE g == [f EXCEPT !.height = f.height + 1, !.branch = Tail(f.branch)]
              np == NewPrev(f)
  <2>1. /\ f.branch \in Seq(Hash) /\ f.branch # <<>>
        /\ PathOf(f.branch, np, Stored) /\ np \in Stored
        /\ f.blk \in Block /\ f.allow /\ (f.from # Null => f.from \in Stored)
    BY <1>1 DEF ShapeOf, PlacedOf, Frames, Reorganising
  <2>2. b # Zero /\ b \in Stored /\ f.height = Depth[b]
    BY <1>1, <1>4, Names DEF PlacedOf
  <2>3. f.last \in Stored
    BY <1>1, <1>4 DEF ShapeOf, PlacedOf
  <2>4. IndexOK' /\ Grows /\ Stored' = Stored
    BY <1>1, <1>2, <1>4, <2>2, HeightIndex DEF SetBlockMain
  <2>5. Tail(f.branch) \in Seq(Hash) /\ f.height + 1 \in Heights
    BY <1>1, <2>1, TailOfLonger DEF Frames, Heights
  <2>6. np = ParentOf[f.blk] /\ np \in Block
    BY <2>1 DEF NewPrev, Stored
  <2>7. CASE Len(f.branch) = 1
    <3>1. b = np
      BY <2>1, <2>7, PathOfOne
    <3>2. f.height + 1 = Depth[f.blk]
      BY <2>1, <2>2, <2>6, <3>1, DepthOfChild
    <3>3. Goto(s, "yNext", g) /\ "yNext" \in Points
      BY <1>4, <2>7 DEF Points
    <3>. HIDE DEF f
    <3>4. /\ g \in Frames
          /\ g.blk = f.blk /\ g.allow = f.allow /\ g.from = f.from
          /\ g.last = f.last /\ g.height = f.height + 1 /\ NewPrev(g) = np
      BY <1>1, <2>5 DEF Frames, NewPrev
    <3>5. PlacedOf("yNext", g, Stored', savedTx', tip', cachedTip')
      BY <2>1, <2>3, <2>4, <3>2, <3>4 DEF PlacedOf, Reorganising, HeightKnown
    <3>. QED BY <1>1, <2>4, <3>3, <3>4, <3>5, GotoPlaced
  <2>8. CASE Len(f.branch) # 1
    <3>. DEFINE t == Tail(f.branch)
    <3>1. PathOf(t, np, Stored) /\ Head(t) \in Stored /\ b = ParentOf[Head(t)]
      BY <2>1, <2>8, PathTail
    <3>2. f.height + 1 = Depth[Head(t)]
      BY <1>4, <2>2, <3>1, DepthOfChild DEF Stored
    <3>3. Goto(s, "connect", g) /\ "connect" \in Points
      BY <1>4, <2>8 DEF Points
    <3>. HIDE DEF f, t
    <3>4. /\ g \in Frames
          /\ g.blk = f.blk /\ g.allow = f.allow /\ g.from = f.from /\ g.branch = t
          /\ g.last = f.last /\ g.height = f.height + 1 /\ NewPrev(g) = np
      BY <1>1, <2>5 DEF Frames, NewPrev, t
    <3>. HIDE DEF g
    <3>5. PlacedOf("connect", g, Stored', savedTx', tip', cachedTip')
      BY <2>1, <2>3, <2>4, <3>1, <3>2, <3>4 DEF PlacedOf, Reorganising, HeightKnown
    <3>. QED BY <1>1, <2>4, <3>3, <3>4, <3>5, GotoPlaced
  <2>. QED BY <2>7, <2>8
<1>. QED BY <1>3, <1>4 DEF Connect

LEMMA OrphanPlaced ==
    ASSUME HInv, NEW s \in Syncs, YNext(s) \/ SetYNext(s) \/ Orphan(s) \/ OrphanNext(s)
    PROVE  IndexOK' /\ Placed' /\ Grows
<1>. DEFINE f == frame[s]
<1>1. /\ f \in Frames /\ ShapeOf(pc[s], f)
      /\ PlacedOf(pc[s], f, Stored, savedTx, tip, cachedTip)
      /\ BlockDbTypeOK /\ SyncTypeOK /\ IndexOK /\ Placed
  BY OwnPlace
<1>2. /\ pc[s] \in {"yNext", "setYNext", "orphan", "orphanNext"}
      /\ f.blk \in Block /\ f.allow /\ NewPrev(f) \in Stored /\ f.height = Depth[f.blk]
      /\ (f.from # Null => f.from \in Stored)
  BY <1>1 DEF YNext, SetYNext, Orphan, OrphanNext, At, ShapeOf, PlacedOf, Reorganising, HeightKnown
<1>3. CASE YNext(s)
  <2>. DEFINE g == [f EXCEPT !.from = next[f.iter]]
  <2>1. IndexOK' /\ Grows /\ Stored' = Stored
    BY <1>1, <1>3, QuietIndex DEF YNext, dbVars
  <2>2. next[f.iter] \in Block \cup {Null} /\ f.iter \in Hash
    BY <1>1 DEF BlockDbTypeOK, Frames
  <2>3. next[f.iter] # Null => next[f.iter] \in Stored
    BY <1>1, <2>2 DEF IndexOK, NextStored
  <2>4. f.last \in Stored
    BY <1>1, <1>3 DEF YNext, At, PlacedOf
  <2>5. Goto(s, "setYNext", g) /\ "setYNext" \in Points
    BY <1>3 DEF YNext, Points
  <2>. HIDE DEF f
  <2>6. /\ g \in Frames
        /\ g.blk = f.blk /\ g.allow = f.allow /\ g.from = next[f.iter]
        /\ g.last = f.last /\ g.height = f.height /\ NewPrev(g) = NewPrev(f)
    BY <1>1, <2>2 DEF Frames, NewPrev
  <2>7. PlacedOf("setYNext", g, Stored', savedTx', tip', cachedTip')
    BY <1>2, <2>1, <2>3, <2>4, <2>6 DEF PlacedOf, Reorganising, HeightKnown
  <2>. QED BY <1>1, <2>1, <2>5, <2>6, <2>7, GotoPlaced
<1>4. CASE SetYNext(s)
  <2>1. f.last \in Stored /\ f.iter \in Hash
    BY <1>1, <1>4 DEF SetYNext, At, PlacedOf, Frames
  <2>2. IndexOK' /\ Grows /\ Stored' = Stored
    BY <1>1, <1>4, <2>1, NextIndex DEF SetYNext, SetNext
  <2>3. CASE f.from = Null
    BY <1>1, <1>2, <1>4, <2>2, <2>3, StartAddPlaced DEF SetYNext
  <2>4. CASE f.from # Null
    <3>1. Goto(s, "orphan", f) /\ "orphan" \in Points
      BY <1>4, <2>4 DEF SetYNext, Points
    <3>2. PlacedOf("orphan", f, Stored', savedTx', tip', cachedTip')
      BY <1>2, <2>2 DEF PlacedOf, Reorganising, HeightKnown
    <3>. QED BY <1>1, <2>2, <3>1, <3>2, GotoPlaced
  <2>. QED BY <2>2, <2>3, <2>4
<1>5. CASE Orphan(s)
  <2>1. UNCHANGED <<prev, next, tip, cachedTip, savedTx>>
    BY <1>5 DEF Orphan
  <2>2. CASE Throw /\ UNCHANGED height
    <3>1. IndexOK' /\ Grows
      BY <1>1, <2>1, <2>2, QuietIndex
    <3>. QED BY <1>1, <2>2, <3>1, ThrowPlaced
  <2>3. CASE SetBlockNotMain(f.from) /\ Goto(s, "orphanNext", f)
    <3>1. f.from \in Stored
      BY <1>1, <1>2, <1>5, Names DEF Orphan, At, ShapeOf
    <3>2. IndexOK' /\ Grows /\ Stored' = Stored
      BY <1>1, <2>1, <2>3, <3>1, HeightIndex DEF SetBlockNotMain
    <3>3. PlacedOf("orphanNext", f, Stored', savedTx', tip', cachedTip') /\ "orphanNext" \in Points
      BY <1>2, <3>2 DEF PlacedOf, Reorganising, HeightKnown, Points
    <3>. QED BY <1>1, <2>3, <3>2, <3>3, GotoPlaced
  <2>. QED BY <1>5, <2>2, <2>3 DEF Orphan
<1>6. CASE OrphanNext(s)
  <2>. DEFINE n == next[f.from]
              g == [f EXCEPT !.from = n]
  <2>1. IndexOK' /\ Grows /\ Stored' = Stored
    BY <1>1, <1>6, QuietIndex DEF OrphanNext, dbVars
  <2>2. f.from \in Hash
    BY <1>1 DEF Frames, Hash
  <2>3. n \in Block \cup {Null} /\ (n # Null => n \in Stored)
    BY <1>1, <2>2 DEF BlockDbTypeOK, IndexOK, NextStored
  <2>4. \/ n = Null /\ StartAdd(s, g)
        \/ n # Null /\ Goto(s, "orphan", g)
    BY <1>6 DEF OrphanNext
  <2>. HIDE DEF f, n
  <2>5. /\ g \in Frames
        /\ g.blk = f.blk /\ g.allow = f.allow /\ g.from = n
        /\ g.height = f.height /\ NewPrev(g) = NewPrev(f)
    BY <1>1, <2>3 DEF Frames, NewPrev
  <2>. HIDE DEF g
  <2>6. CASE n = Null /\ StartAdd(s, g)
    BY <1>1, <1>2, <2>1, <2>5, <2>6, StartAddPlaced
  <2>7. CASE n # Null /\ Goto(s, "orphan", g)
    <3>1. PlacedOf("orphan", g, Stored', savedTx', tip', cachedTip') /\ "orphan" \in Points
      BY <1>2, <2>1, <2>3, <2>5, <2>7 DEF PlacedOf, Reorganising, HeightKnown, Points
    <3>. QED BY <1>1, <2>1, <2>5, <2>7, <3>1, GotoPlaced
  <2>. QED BY <2>1, <2>4, <2>6, <2>7
<1>. QED BY <1>3, <1>4, <1>5, <1>6

LEMMA AddPlaced ==
    ASSUME HInv, NEW s \in Syncs, AddTxs(s) \/ AddBlock(s) \/ StoreTip(s) \/ LinkPrev(s)
    PROVE  IndexOK' /\ Placed' /\ Grows
<1>. DEFINE f == frame[s]
<1>1. /\ f \in Frames /\ ShapeOf(pc[s], f)
      /\ PlacedOf(pc[s], f, Stored, savedTx, tip, cachedTip)
      /\ BlockDbTypeOK /\ SyncTypeOK /\ IndexOK /\ Placed
  BY OwnPlace
<1>2. /\ f.blk \in Block /\ f.allow /\ f.height = Depth[f.blk]
      /\ (f.from # Null => f.from \in Stored)
  BY <1>1 DEF AddTxs, AddBlock, StoreTip, LinkPrev, At, ShapeOf, PlacedOf, HeightKnown
<1>3. CASE AddTxs(s)
  <2>1. savedTx \subseteq savedTx' /\ UNCHANGED <<prev, next, height, tip, cachedTip>>
    BY <1>3 DEF AddTxs, AddTxsScript
  <2>2. IndexOK' /\ Grows /\ Stored' = Stored
    BY <1>1, <2>1, QuietIndex
  <2>3. CASE Return(s)
    BY <1>1, <2>2, <2>3, ReturnPlaced
  <2>4. CASE AddTxsScript(f.blk) /\ Goto(s, "addBlock", f)
    <3>1. TxOf[f.blk] \ {GenesisTx} \subseteq savedTx'
      BY <2>4 DEF AddTxsScript
    <3>2. f.blk = Genesis \/ NewPrev(f) \in Stored
      BY <1>1, <1>3 DEF AddTxs, At, PlacedOf
    <3>3. PlacedOf("addBlock", f, Stored', savedTx', tip', cachedTip') /\ "addBlock" \in Points
      BY <1>2, <2>2, <3>1, <3>2 DEF PlacedOf, Reorganising, HeightKnown, Points
    <3>. QED BY <1>1, <2>2, <2>4, <3>3, GotoPlaced
  <2>. QED BY <1>3, <2>2, <2>3, <2>4 DEF AddTxs
<1>4. CASE AddBlock(s)
  <2>1. /\ f.blk = Genesis \/ ParentOf[f.blk] \in Stored
        /\ TxOf[f.blk] \ {GenesisTx} \subseteq savedTx
    BY <1>1, <1>4 DEF AddBlock, At, PlacedOf, NewPrev
  <2>2. /\ UNCHANGED <<next, tip, savedTx>>
        /\ height' = [height EXCEPT ![f.blk] = Depth[f.blk]]
        /\ prev' = [prev EXCEPT ![f.blk] = ParentOf[f.blk]]
        /\ cachedTip' = [hash |-> f.blk, height |-> Depth[f.blk]]
        /\ Goto(s, "putTip", f)
    BY <1>2, <1>4 DEF AddBlock, AddBlockScript, CacheTip
  <2>3. IndexOK' /\ Grows /\ Stored' = Stored \cup {f.blk}
    BY <1>1, <1>2, <2>1, <2>2, AddIndex
  <2>4. PlacedOf("putTip", f, Stored', savedTx', tip', cachedTip') /\ "putTip" \in Points
    BY <1>2, <2>3 DEF PlacedOf, Reorganising, HeightKnown, Points
  <2>. QED BY <1>1, <2>2, <2>3, <2>4, GotoPlaced
<1>5. CASE StoreTip(s)
  <2>1. f.blk \in Stored
    BY <1>1, <1>5 DEF StoreTip, At, PlacedOf
  <2>2. tip' = [hash |-> f.blk, height |-> Depth[f.blk]] /\ Goto(s, "setNext", f)
    BY <1>2, <1>5 DEF StoreTip, PutTip
  <2>3. UNCHANGED <<prev, next, height, savedTx, cachedTip>>
    BY <1>5 DEF StoreTip
  <2>4. Stored' = Stored
    BY <2>3 DEF Stored, Has
  <2>5. TipOK(tip)' /\ TipOK(cachedTip)' /\ tip' # NoTip
    BY <1>1, <1>2, <2>1, <2>2, <2>3, <2>4, Names DEF IndexOK, TipOK, NoTip
  <2>6. HeightsOK' /\ Complete' /\ NextStored'
    BY <1>1, <2>3, <2>4 DEF IndexOK, HeightsOK, HeightIsDepth, Has, Complete, NextStored
  <2>7. IndexOK' /\ Grows
    BY <2>3, <2>4, <2>5, <2>6 DEF IndexOK, Grows
  <2>8. PlacedOf("setNext", f, Stored', savedTx', tip', cachedTip') /\ "setNext" \in Points
    BY <1>2, <2>1, <2>4 DEF PlacedOf, Reorganising, HeightKnown, Points
  <2>. QED BY <1>1, <2>2, <2>7, <2>8, GotoPlaced
<1>6. CASE LinkPrev(s)
  <2>1. f.blk \in Stored /\ NewPrev(f) \in Hash
    BY <1>1, <1>2, <1>6, BlockTree DEF LinkPrev, At, PlacedOf, NewPrev, Hash
  <2>2. IndexOK' /\ Grows /\ Stored' = Stored
    BY <1>1, <1>6, <2>1, NextIndex DEF LinkPrev, SetNext
  <2>3. Return(s)
    BY <1>6 DEF LinkPrev
  <2>. QED BY <1>1, <2>2, <2>3, ReturnPlaced
<1>. QED BY <1>3, <1>4, <1>5, <1>6

-----------------------------------------------------------------------------
(* The invariant is inductive *)

LEMMA StepHInv ==
    ASSUME HInv, NEW s \in Syncs, Step(s)
    PROVE  HInv'
<1>1. IndexOK' /\ Placed' /\ Grows
  BY TipSteps, ReorgHeightPlaced, BackPrevPlaced, BackHeightPlaced, ConnectPlaced,
     OrphanPlaced, AddPlaced DEF Step
<1>2. UNCHANGED delayed
  BY StepFlags DEF HInv
<1>3. Waiting'
  BY <1>1, <1>2 DEF Waiting, HInv, Grows
<1>4. Inv'
  <2>1. Inv /\ [Next]_vars
    BY DEF HInv, Next
  <2>. QED BY <2>1, NextInv
<1>. QED BY <1>1, <1>3, <1>4 DEF HInv

LEMMA CallHInv ==
    ASSUME Modes = {TRUE}, HInv, NEW s \in Syncs, NEW c \in Calls, Submit(s, c) \/ Retry(s, c)
    PROVE  HInv'
<1>1. Inv'
  BY CallStep DEF HInv, Submit
<1>2. UNCHANGED <<dbVars, cachedTip>>
  BY DEF Submit, Call, Retry
<1>3. IndexOK' /\ Grows
  BY <1>2, QuietIndex DEF HInv, dbVars
<1>4. tip = NoTip /\ cachedTip = NoTip => c.blk = Genesis
  <2>1. CASE Submit(s, c)
    <3>1. c.allow
      BY DEF Calls
    <3>. QED BY <2>1, <3>1 DEF Submit, MayArrive, TipNow
  <2>2. CASE Retry(s, c)
    BY <2>2 DEF Retry, HInv, Waiting
  <2>. QED BY <2>1, <2>2
<1>5. Placed'
  <2>1. CASE Enter(s, c)
    BY <1>2, <1>4, <2>1, EnterPlaced DEF HInv, Inv
  <2>2. CASE UNCHANGED callVars
    BY <1>2, <2>2 DEF callVars, dbVars, HInv, Placed, Stored, Has
  <2>. QED BY <2>1, <2>2 DEF Submit, Call, Retry
<1>6. Waiting'
  <2>1. ASSUME NEW r \in Syncs, NEW d \in delayed'[r]
        PROVE  d \in delayed[r] \/ d = c
    BY DEF Submit, Call, Retry, HInv, Inv, SyncTypeOK
  <2>. QED BY <1>2, <1>4, <2>1 DEF dbVars, HInv, Waiting
<1>. QED BY <1>1, <1>3, <1>5, <1>6 DEF HInv

LEMMA RestartHInv ==
    ASSUME HInv, Restart
    PROVE  HInv'
<1>1. Inv'
  <2>1. Inv /\ [Next]_vars
    BY DEF HInv, Next
  <2>. QED BY <2>1, NextInv
<1>2. UNCHANGED dbVars /\ cachedTip' = NoTip
  BY DEF Restart
<1>3. Stored' = Stored
  BY <1>2 DEF Stored, Has, dbVars
<1>4. IndexOK'
  BY <1>2, <1>3 DEF dbVars, HInv, IndexOK, HeightsOK, HeightIsDepth, Has, Complete, NextStored, TipOK
<1>5. Placed'
  BY NoFramePlaced DEF Restart, Placed
<1>6. Waiting'
  BY DEF Restart, Waiting
<1>. QED BY <1>1, <1>4, <1>5, <1>6 DEF HInv

LEMMA InitHInv == Init => HInv
<1>. SUFFICES ASSUME Init PROVE HInv
  OBVIOUS
<1>1. Inv
  BY InitInv
<1>. USE DEF Init, BlockDbInit, VolatileInit
<1>2. Stored = {}
  BY DEF Stored, Has, Hash
<1>3. HeightsOK
  BY DEF HeightsOK, HeightIsDepth, Has, Hash
<1>4. Complete /\ NextStored /\ TipOK(tip) /\ TipOK(cachedTip)
  BY <1>2 DEF Complete, NextStored, TipOK
<1>5. Placed
  BY NoFramePlaced DEF Placed
<1>6. Waiting
  BY DEF Waiting
<1>. QED BY <1>1, <1>3, <1>4, <1>5, <1>6 DEF HInv, IndexOK

LEMMA NextHInv ==
    ASSUME Modes = {TRUE}
    PROVE  HInv /\ [Next]_vars => HInv'
<1>. SUFFICES ASSUME HInv, [Next]_vars PROVE HInv'
  OBVIOUS
<1>1. CASE UNCHANGED vars
  <2>1. Inv'
    BY <1>1, NextInv DEF HInv
  <2>2. IndexOK'
    BY <1>1, QuietIndex DEF vars, HInv
  <2>3. Placed' /\ Waiting'
    BY <1>1 DEF vars, HInv, Placed, Stored, Has, Waiting
  <2>. QED BY <2>1, <2>2, <2>3 DEF HInv
<1>. QED BY <1>1, StepHInv, CallHInv, RestartHInv DEF Next

LEMMA HInvariance ==
    ASSUME Modes = {TRUE}
    PROVE  Spec => []HInv
<1>1. Init => HInv
  BY InitHInv
<1>2. HInv /\ [Next]_vars => HInv'
  BY NextHInv
<1>. QED BY <1>1, <1>2, PTL DEF Spec

-----------------------------------------------------------------------------
(* The theorems *)

\* When every caller allows reorganisations, the three ways in which
\* storeTipBlock and its helpers compute a height (the tip's plus one, newPrev's
\* plus one, and the count of the backward walk) all give a block its depth,
\* whatever other calls, crashes and RPC failures come in between.
THEOREM HeightsAreDepths ==
    ASSUME Modes = {TRUE}
    PROVE  Spec => []HeightIsDepth
<1>1. HInv => HeightIsDepth
  BY DEF HInv, IndexOK, HeightsOK
<1>. QED BY <1>1, HInvariance, PTL

\* Under the same assumption the tip that a restarted process reads from bti-
\* has its height, all its ancestors, and the outputs of all their
\* transactions in the database.
THEOREM DurableTip ==
    ASSUME Modes = {TRUE}
    PROVE  Spec => []TipIsComplete
<1>1. HInv => TipIsComplete
  <2>1. ASSUME HInv, tip # NoTip
        PROVE  /\ tip.height = Depth[tip.hash]
               /\ \A b \in Branch[tip.hash] : Has(b) /\ TxOf[b] \ {GenesisTx} \subseteq savedTx
    <3>1. tip.hash \in Stored /\ tip.height = Depth[tip.hash]
      BY <2>1 DEF HInv, IndexOK, TipOK
    <3>2. \A b \in Stored : Branch[b] \subseteq Stored /\ TxOf[b] \ {GenesisTx} \subseteq savedTx
      BY <2>1 DEF HInv, IndexOK, Complete
    <3>. QED BY <3>1, <3>2 DEF Stored
  <2>. QED BY <2>1 DEF TipIsComplete
<1>. QED BY <1>1, HInvariance, PTL
=============================================================================
