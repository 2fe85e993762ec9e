------------------------------ MODULE SyncIndex ------------------------------
(***************************************************************************)
(* One Sync object that allows reorganisations implements ChainIndex.  A   *)
(* block is being stored from the call of storeTipBlock to the batch that  *)
(* adds it; that batch and the assignment of cachedTip are the moment the  *)
(* new chain becomes visible, the writes after it are bookkeeping.         *)
(***************************************************************************)
EXTENDS Sync

\* The object of a process that has one.
TheSync == CHOOSE s \in Syncs : TRUE

BestNow == IF cachedTip.hash # Null THEN cachedTip.hash ELSE tip.hash

BusyNow == IF pc[TheSync] \in {"idle", "putTip", "setNext"}
           THEN Null ELSE frame[TheSync].blk

Index == INSTANCE ChainIndex
         WITH best <- BestNow, main <- Main, known <- Stored, busy <- BusyNow

\* The steps of storeTipBlock, of processReorg and of its two walks are steps
\* of ChainIndex: in no state between them does a reader see a main chain
\* without a block that both branches share, or with one of neither branch.
ImplementsIndex == Index!Spec
=============================================================================
