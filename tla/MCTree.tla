------------------------------- MODULE MCTree -------------------------------
(***************************************************************************)
(* The blocks of the instances that TLC checks.  Known picks those of a    *)
(* run from                                                                *)
(*                                                                         *)
(*                     c3                                                  *)
(*                    /                                                    *)
(*        g - a1 -- a2 - a3 - a4                                           *)
(*             |\                                                          *)
(*             | b2 - b3 - b4                                              *)
(*              \                                                          *)
(*               d2                                                        *)
(*                                                                         *)
(* a3 and b2 hold the same transaction t; the others have one of their     *)
(* own or none.                                                            *)
(***************************************************************************)
EXTENDS FiniteSets, Integers

CONSTANT Known

Parents ==
    [g |-> "zero", a1 |-> "g", a2 |-> "a1", a3 |-> "a2", a4 |-> "a3",
     b2 |-> "a1", b3 |-> "b2", b4 |-> "b3", d2 |-> "a1", c3 |-> "a2"]

Ancestry ==
    [g |-> {"g"}, a1 |-> {"g", "a1"},
     a2 |-> {"g", "a1", "a2"}, a3 |-> {"g", "a1", "a2", "a3"},
     a4 |-> {"g", "a1", "a2", "a3", "a4"},
     b2 |-> {"g", "a1", "b2"}, b3 |-> {"g", "a1", "b2", "b3"},
     b4 |-> {"g", "a1", "b2", "b3", "b4"}, d2 |-> {"g", "a1", "d2"},
     c3 |-> {"g", "a1", "a2", "c3"}]

Txs ==
    [g |-> {"coin"}, a1 |-> {}, a2 |-> {"u2"}, a3 |-> {"t"}, a4 |-> {},
     b2 |-> {"t"}, b3 |-> {"v3"}, b4 |-> {}, d2 |-> {}, c3 |-> {}]

MCBlock    == Known
MCParentOf == [b \in Known |-> Parents[b]]
MCBranch   == [b \in Known |-> Ancestry[b]]
MCDepth    == [b \in Known |-> Cardinality(Ancestry[b]) - 1]
MCTxOf     == [b \in Known |-> Txs[b]]
MCTx       == UNION {Txs[b] : b \in Known}
=============================================================================
