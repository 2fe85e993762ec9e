------------------------------- MODULE Chain -------------------------------
(***************************************************************************)
(* The tree of blocks that bitcoind knows, as the code under src/lib sees  *)
(* it: a block names its parent (previousblockhash) and lists its          *)
(* transactions.  The first block's parent is a hash of zeros.             *)
(*                                                                         *)
(* Depth and Branch are not data of the program.  They give the properties *)
(* something to compare the program's bookkeeping with, and they come as   *)
(* constants tied down by BlockTree, so that no module needs recursion.    *)
(***************************************************************************)
EXTENDS Integers, FiniteSets, Sequences

CONSTANTS
    Block,      \* the hashes of real blocks
    Genesis,    \* the first of them
    Zero,       \* 000...0, the previousblockhash of Genesis
    Null,       \* no hash: JavaScript's undefined or null
    ParentOf,   \* previousblockhash of every block
    Depth,      \* a block's distance from Genesis
    Branch,     \* a block together with all its ancestors
    Tx,         \* transaction ids
    GenesisTx,  \* the transaction of Genesis, which bitcoind never serves
    TxOf        \* the transactions of every block

Hash == Block \cup {Zero, Null}

ASSUME Names ==
    /\ Genesis \in Block
    /\ Zero \notin Block
    /\ Null \notin Block
    /\ Zero # Null

ASSUME BlockTree ==
    /\ ParentOf \in [Block -> Block \cup {Zero}]
    /\ \A b \in Block : ParentOf[b] = Zero <=> b = Genesis
    /\ Depth \in [Block -> Nat]
    /\ Depth[Genesis] = 0
    /\ \A b \in Block \ {Genesis} : Depth[b] = Depth[ParentOf[b]] + 1

ASSUME Branches ==
    /\ Branch \in [Block -> SUBSET Block]
    /\ Branch[Genesis] = {Genesis}
    /\ \A b \in Block \ {Genesis} : Branch[b] = Branch[ParentOf[b]] \cup {b}

ASSUME Transactions ==
    /\ GenesisTx \in Tx
    /\ TxOf \in [Block -> SUBSET Tx]

\* A null that stands where a block and its height are expected.
NoTip == [hash |-> Null, height |-> -1]
=============================================================================
