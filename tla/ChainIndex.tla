----------------------------- MODULE ChainIndex -----------------------------
(***************************************************************************)
(* What storing blocks promises to the readers of the index: a best block, *)
(* a main chain that is exactly its branch whenever nothing is being       *)
(* stored, and, while a new block is being stored, a main chain in which   *)
(* no block shared by the old and the new branch is ever missing and no    *)
(* block of a third branch appears.                                        *)
(***************************************************************************)
EXTENDS Chain

VARIABLES
    best,   \* the best block, Null in an empty index
    main,   \* the blocks shown as the main chain
    known,  \* the blocks stored, on the main chain or off it
    busy    \* the block that is being stored, or Null

indexVars == <<best, main, known, busy>>

Init ==
    /\ best = Null
    /\ main = {}
    /\ known = {}
    /\ busy = Null

BranchOf(b) == IF b = Null THEN {} ELSE Branch[b]

\* The blocks that must stay visible while busy replaces best.
Shared == BranchOf(best) \cap (Branch[busy] \ {busy})

Begin ==
    /\ busy = Null
    /\ busy' \in Block
    /\ UNCHANGED <<best, main, known>>

\* Blocks of the old branch leave, blocks of the new one come back.
Rearrange ==
    /\ busy # Null
    /\ ParentOf[busy] \in known
    /\ Shared \subseteq main'
    /\ main' \subseteq main \cup (Branch[busy] \cap known)
    /\ UNCHANGED <<best, known, busy>>

Finish ==
    /\ busy # Null
    /\ ParentOf[busy] \in known \cup {Zero}
    /\ best' = busy
    /\ main' = Branch[busy]
    /\ known' = known \cup {busy}
    /\ busy' = Null

\* A block whose parent is unknown changes nothing.
Refuse ==
    /\ busy # Null
    /\ ParentOf[busy] \notin known \cup {Zero}
    /\ busy' = Null
    /\ UNCHANGED <<best, main, known>>

Next == Begin \/ Rearrange \/ Finish \/ Refuse

Spec == Init /\ [][Next]_indexVars
=============================================================================
