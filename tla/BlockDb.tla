------------------------------ MODULE BlockDb ------------------------------
(***************************************************************************)
(* lib/BlockDb.js: the LevelDB index of blocks, and the part of            *)
(* lib/TransactionDb.js that storing a block writes.  One variable per key *)
(* prefix, one operator per atomic LevelDB write (a put, a del or a        *)
(* batch).  An absent key reads Null, and an absent height reads 0, which  *)
(* is also the height of Genesis: getHeight does not tell them apart.      *)
(*                                                                         *)
(* tip is the durable key, cachedTip the copy the process keeps in memory. *)
(***************************************************************************)
EXTENDS Chain

VARIABLES
    prev,       \* bpr-<hash>
    next,       \* bne-<hash>
    height,     \* bma-<hash>, -1 on a block off the main chain
    txBlock,    \* btx-<txid>
    tip,        \* bti-
    cachedTip,  \* this.cachedTip
    savedTx     \* the transactions whose outputs are in the txs database

blockKeys == <<prev, next, height>>
dbVars    == <<prev, next, height, txBlock, tip, savedTx>>

Heights == {-1} \cup Nat
TipVal  == [hash : Block, height : Heights] \cup {NoTip}
NoBlock == [blk |-> Null, ht |-> -1]
TxEntry == [blk : Hash, ht : Heights]

BlockDbTypeOK ==
    /\ prev \in [Hash -> Block \cup {Zero, Null}]
    /\ next \in [Hash -> Block \cup {Null}]
    /\ height \in [Hash -> Heights]
    /\ txBlock \in [Tx -> TxEntry]
    /\ tip \in TipVal
    /\ cachedTip \in TipVal
    /\ savedTx \in SUBSET Tx

BlockDbInit ==
    /\ prev = [h \in Hash |-> Null]
    /\ next = [h \in Hash |-> Null]
    /\ height = [h \in Hash |-> 0]
    /\ txBlock = [t \in Tx |-> NoBlock]
    /\ tip = NoTip
    /\ cachedTip = NoTip
    /\ savedTx = {}

-----------------------------------------------------------------------------
(* Reads *)

\* has(): orphans count, the key it looks for is bpr-.
Has(h) == prev[h] # Null

Stored == {b \in Block : Has(b)}

\* What the index shows as the main chain.
Main == {b \in Stored : height[b] >= 0}

-----------------------------------------------------------------------------
(* Writes; each is one LevelDB operation *)

\* The btx- entries of block b set to one value, or removed.
SetTxs(b, e) == txBlock' = [t \in Tx |-> IF t \in TxOf[b] THEN e ELSE txBlock[t]]

\* Mutant: the batch of the txs database is forgotten.
AddTxsScriptLost(b) == b \in Block /\ UNCHANGED savedTx

\* The first half of add(): txDb.addMany, a batch in the other database.
AddTxsScript(b) == savedTx' = savedTx \cup (TxOf[b] \ {GenesisTx})

\* The second half of add(): the block and its btx- entries, in one batch.
AddBlockScript(b, h) ==
    /\ height' = [height EXCEPT ![b] = h]
    /\ prev' = [prev EXCEPT ![b] = ParentOf[b]]
    /\ SetTxs(b, [blk |-> b, ht |-> h])

\* Mutant: the btx- entries are not written again.
SetBlockMainNoTxs(b, h) ==
    /\ height' = [height EXCEPT ![b] = h]
    /\ UNCHANGED txBlock

\* setBlockMain: height and btx- entries in one batch.
SetBlockMain(b, h) ==
    /\ height' = [height EXCEPT ![b] = h]
    /\ SetTxs(b, [blk |-> b, ht |-> h])

\* Mutant: the btx- entries stay.
SetBlockNotMainKeepTxs(b) ==
    /\ height' = [height EXCEPT ![b] = -1]
    /\ UNCHANGED txBlock

\* setBlockNotMain deletes the btx- entries whichever block they name.
SetBlockNotMain(b) ==
    /\ height' = [height EXCEPT ![b] = -1]
    /\ SetTxs(b, NoBlock)

SetNext(h, nextHash) == next' = [next EXCEPT ![h] = nextHash]

\* setTip changes the copy in memory at once and the key when the put is done.
CacheTip(b, h) == cachedTip' = [hash |-> b, height |-> h]
PutTip(b, h)   == tip' = [hash |-> b, height |-> h]
=============================================================================
