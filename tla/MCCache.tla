------------------------------ MODULE MCCache ------------------------------
(***************************************************************************)
(* AddressCache over the blocks of MCTree that Known names, with           *)
(* transactions of its own: o is made in a1 and spent by s in a2 or by d   *)
(* in b2.                                                                  *)
(***************************************************************************)
EXTENDS AddressCache, MCTree, TLC

MCCacheTxOf ==
    [b \in Known |-> CASE b = "g"  -> {"coin"}
                       [] b = "a1" -> {"o"}
                       [] b = "a2" -> {"s"}
                       [] b = "b2" -> {"d"}
                       [] OTHER    -> {}]

MCCacheTx == {"coin", "o", "s", "d"}

MCClients == Permutations(Clients)
=============================================================================
