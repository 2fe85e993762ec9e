---------------------------- MODULE AddressTotals ----------------------------
(***************************************************************************)
(* The sums and the list of transactions that Address.update               *)
(* (app/models/Address.js) makes of the outputs of an address, in one      *)
(* pass, counting every transaction where it is first seen: as the one     *)
(* that made an output or as the one that spent it.                        *)
(*                                                                         *)
(* What fromAddr and fillConfirmations found (AddressCache) is here any    *)
(* list of outputs that agrees with itself.                                *)
(***************************************************************************)
EXTENDS Integers, FiniteSetsExt, SequencesExt

CONSTANTS
    Payment,    \* the transactions that touch the address
    Unspent,    \* no transaction
    MaxSat,     \* the greatest value of an output (a bound of the model)
    MaxItems    \* outputs of the address (a bound of the model)

ASSUME TotalsConstants ==
    /\ Unspent \notin Payment
    /\ IsFiniteSet(Payment)
    /\ MaxSat \in Nat
    /\ MaxItems \in Nat

VARIABLES
    txOut,      \* the outputs, as update has them
    confirmed,  \* the transactions that are in a block
    passed,     \* how many outputs the pass is over
    seen,       \* this.seen
    list,       \* txList: the ids
    sums        \* the other fields of the Address

totalsVars == <<txOut, confirmed, passed, seen, list, sums>>

\* txid, value_sat and spentTxId of an output
Item == [txid : Payment, sat : 1..MaxSat, spent : Payment \cup {Unspent}]

NoSums == [balance |-> 0, received |-> 0, sent |-> 0, unconfirmed |-> 0,
           apperances |-> 0, unconfirmedApperances |-> 0]

\* No transaction spends its own output or, over several, itself; what a
\* transaction in a block spends is in a block.
AgreesWithItself(q, c) ==
    /\ \A x \in ToSet(q) : x.spent \in c => x.txid \in c
    /\ \E rank \in [Payment -> 1..Cardinality(Payment)] :
          \A x \in ToSet(q) : x.spent # Unspent => rank[x.txid] < rank[x.spent]

TotalsInit ==
    /\ txOut \in UNION {[1..n -> Item] : n \in 0..MaxItems}
    /\ confirmed \in SUBSET Payment
    /\ AgreesWithItself(txOut, confirmed)
    /\ passed = 0
    /\ seen = {}
    /\ list = <<>>
    /\ sums = NoSums

\* What an item adds to the sums; isNew and isNewSpend are add and addSpend.
SumsOf(x, isNew, isNewSpend) ==
    LET new == IF isNew THEN 1 ELSE 0
        newSpend == IF isNewSpend THEN 1 ELSE 0
    IN  IF x.txid \notin confirmed
        THEN [NoSums EXCEPT !.unconfirmed = x.sat, !.unconfirmedApperances = new]
        ELSE IF x.spent = Unspent
        THEN [NoSums EXCEPT !.received = x.sat, !.balance = x.sat, !.apperances = new]
        ELSE IF x.spent \notin confirmed
        THEN [NoSums EXCEPT !.received = x.sat, !.balance = x.sat, !.unconfirmed = -x.sat,
                            !.apperances = new, !.unconfirmedApperances = newSpend]
        ELSE [NoSums EXCEPT !.received = x.sat, !.sent = x.sat, !.apperances = new + newSpend]

\* Mutant: a spending transaction is not marked as seen.
AddTxItemUnmarked ==
    /\ passed < Len(txOut)
    /\ LET x == txOut[passed + 1]
           isNew == x.txid \notin seen
           isNewSpend == x.spent # Unspent /\ x.spent \notin seen
           add == SumsOf(x, isNew, isNewSpend)
       IN  /\ seen' = seen \cup {x.txid}
           /\ list' = list \o (IF isNew THEN <<x.txid>> ELSE <<>>)
                           \o (IF isNewSpend THEN <<x.spent>> ELSE <<>>)
           /\ sums' = [f \in DOMAIN sums |-> sums[f] + add[f]]
    /\ passed' = passed + 1
    /\ UNCHANGED <<txOut, confirmed>>

\* Mutant: an output counts as spent only where its spending is first seen.
AddTxItemFirst ==
    /\ passed < Len(txOut)
    /\ LET x == txOut[passed + 1]
           isNew == x.txid \notin seen
           isNewSpend == x.spent # Unspent /\ x.spent \notin seen
           add == SumsOf(IF isNewSpend THEN x ELSE [x EXCEPT !.spent = Unspent], isNew, isNewSpend)
       IN  /\ seen' = (seen \cup {x.txid, x.spent}) \ {Unspent}
           /\ list' = list \o (IF isNew THEN <<x.txid>> ELSE <<>>)
                           \o (IF isNewSpend THEN <<x.spent>> ELSE <<>>)
           /\ sums' = [f \in DOMAIN sums |-> sums[f] + add[f]]
    /\ passed' = passed + 1
    /\ UNCHANGED <<txOut, confirmed>>

\* _addTxItem
AddTxItem ==
    /\ passed < Len(txOut)
    /\ LET x == txOut[passed + 1]
           isNew == x.txid \notin seen
           isNewSpend == x.spent # Unspent /\ x.spent \notin seen
           add == SumsOf(x, isNew, isNewSpend)
       IN  /\ seen' = (seen \cup {x.txid, x.spent}) \ {Unspent}
           /\ list' = list \o (IF isNew THEN <<x.txid>> ELSE <<>>)
                           \o (IF isNewSpend THEN <<x.spent>> ELSE <<>>)
           /\ sums' = [f \in DOMAIN sums |-> sums[f] + add[f]]
    /\ passed' = passed + 1
    /\ UNCHANGED <<txOut, confirmed>>

\* The answer is sent; the request is over.
AnswerTotals ==
    /\ passed = Len(txOut)
    /\ UNCHANGED totalsVars

TotalsNext == AddTxItem \/ AnswerTotals

TotalsSpec == TotalsInit /\ [][TotalsNext]_totalsVars

-----------------------------------------------------------------------------
(* Properties *)

\* The value of the outputs so far that pass a test.
Value(P(_)) == SumFunctionOnSet([i \in DOMAIN txOut |-> txOut[i].sat],
                                {i \in 1..passed : P(txOut[i])})

Touching == (UNION {{txOut[i].txid, txOut[i].spent} : i \in 1..passed}) \ {Unspent}

\* The sums are those of their definitions: what was received by transactions in a
\* block, what such transactions spent of it, the difference, and what transactions
\* outside of blocks will add.
SumsAreRight ==
    /\ sums.received = Value(LAMBDA x : x.txid \in confirmed)
    /\ sums.sent = Value(LAMBDA x : x.spent \in confirmed)
    /\ sums.balance = sums.received - sums.sent
    /\ sums.balance + sums.unconfirmed =
          Value(LAMBDA x : x.spent = Unspent)
            + Value(LAMBDA x : x.txid \notin confirmed /\ x.spent # Unspent)

\* Every transaction of the address is in the list once, and counted in
\* txApperances if it is in a block, wherever it is met first and however
\* often it comes again, as maker, as spender or as both (change).
EachTxOnce ==
    /\ ToSet(list) = Touching
    /\ Len(list) = Cardinality(Touching)
    /\ sums.apperances = Cardinality(Touching \cap confirmed)
=============================================================================
