----------------------------- MODULE MCServices -----------------------------
(***************************************************************************)
(* The parts of the program that share no state with the synchronisers or  *)
(* with each other, as insight.js sets them up: in every behaviour one of  *)
(* them runs, on an instance of its own.                                   *)
(***************************************************************************)
EXTENDS EmailStore, Mailbox, CurrencyRates, BlockList, TxInfo, AddressTotals, TLC

VARIABLE part    \* the part that runs

Parts == {"email", "mail", "rates", "list", "tx", "totals"}

vars == <<part, emailVars, mailVars, rateVars, listVars, txInfoVars, totalsVars>>

\* Of the parts that begin with different inputs, one that does not run begins with
\* none.
ServicesInit ==
    /\ part \in Parts
    /\ Init /\ MailInit /\ RateInit /\ TxInfoInit
    /\ IF part = "list"
       THEN ListInit
       ELSE byTime = [ts \in Seconds |-> Nobody] /\ reader = NoReader
    /\ IF part = "totals"
       THEN TotalsInit
       ELSE /\ txOut = <<>> /\ confirmed = {} /\ passed = 0
            /\ seen = {} /\ list = <<>> /\ sums = NoSums

Others(p) ==
    /\ part = p
    /\ UNCHANGED part
    /\ p # "email" => UNCHANGED emailVars
    /\ p # "mail" => UNCHANGED mailVars
    /\ p # "rates" => UNCHANGED rateVars
    /\ p # "list" => UNCHANGED listVars
    /\ p # "tx" => UNCHANGED txInfoVars
    /\ p # "totals" => UNCHANGED totalsVars

ServicesNext ==
    \/ Next /\ Others("email")
    \/ MailNext /\ Others("mail")
    \/ RateNext /\ Others("rates")
    \/ ListNext /\ Others("list")
    \/ TxInfoNext /\ Others("tx")
    \/ TotalsNext /\ Others("totals")

ServicesSpec == ServicesInit /\ [][ServicesNext]_vars

\* Of the email store only, the part with most states: the group of the symmetries
\* of all parts is so large that going through it costs more than it saves.
MCSymmetry == Permutations(Slot) \cup Permutations(Pass) \cup Permutations(Key)

\* 4 has two outputs; the second, and that of 3, are spent by 1, 2 and 5.
MCIns == (1 :> {<<3, 0>>, <<4, 1>>}) @@ (2 :> {<<3, 0>>}) @@ (3 :> {<<4, 0>>})
           @@ (4 :> {}) @@ (5 :> {<<3, 0>>, <<4, 1>>})
MCOuts == (1 :> 1) @@ (2 :> 1) @@ (3 :> 1) @@ (4 :> 2) @@ (5 :> 0)
MCSat == (<<1, 0>> :> 5) @@ (<<2, 0>> :> 1) @@ (<<3, 0>> :> 2) @@ (<<4, 0>> :> 3) @@ (<<4, 1>> :> 4)
=============================================================================
