------------------------------- MODULE TxInfo -------------------------------
(***************************************************************************)
(* fromIdWithInfo of lib/TransactionDb.js: what a request for a            *)
(* transaction adds to what bitcoind says of it, while transactions are    *)
(* being stored.  _fillOutpoints looks up every input, up to CONCURRENCY   *)
(* at a time, in two steps each (fromTxIdN: the output, its spending       *)
(* attempts).  (What _fillSpent then adds of its own outputs is left out.) *)
(*                                                                         *)
(* A transaction's keys (outs-, spent-) are put in one batch.  Those of    *)
(* the attempts on an output come in the order of transaction ids.         *)
(***************************************************************************)
EXTENDS Integers, FiniteSetsExt

CONSTANTS
    Txid,   \* transaction ids, as numbers, which are in the order of keys
    Ins,    \* the inputs of a transaction: outpoints <<id, n>>
    Outs,   \* how many outputs it has
    Sat,    \* the value of an outpoint, 0 when it has no address we know
    NoTx    \* no transaction

Outpoint == UNION {{t} \X (0..(Outs[t] - 1)) : t \in Txid}

ASSUME TxInfoConstants ==
    /\ Txid \subseteq Nat
    /\ NoTx \notin Txid
    /\ Outs \in [Txid -> Nat]
    /\ Sat \in [Outpoint -> Nat]
    /\ Ins \in [Txid -> SUBSET Outpoint]
    /\ \A t \in Txid : IsFiniteSet(Ins[t]) /\ \A o \in Ins[t] : o[1] # t

VARIABLES
    kept,   \* the transactions that are stored
    asked   \* the request

txInfoVars == <<kept, asked>>

\* at:    of an input: it waits for its output, for the attempts, or is done
\* sat:   valueSat, 0 when the output was not found;  rival: doubleSpentTxID
\* lost:  dbError, "Input spent not registered"
Input == [at : {"out", "spent", "done"}, sat : Nat, rival : Txid \cup {NoTx}, lost : BOOLEAN]
NewInput == [at |-> "out", sat |-> 0, rival |-> NoTx, lost |-> FALSE]

\* vin:   the inputs;   incomplete: is a value missing?;  valueIn: the sum
\* before: the transactions that were stored when the request came (history)
NoRequest == [at |-> "idle", tx |-> NoTx, vin |-> <<>>, incomplete |-> FALSE, valueIn |-> 0,
              before |-> {}]

TxInfoInit ==
    /\ kept = {}
    /\ asked = NoRequest

\* add, or addMany: _addScript of the transaction.
KeepTx(t) ==
    /\ t \notin kept
    /\ kept' = kept \cup {t}
    /\ UNCHANGED asked

\* The attempts that are stored on an outpoint: spent-<id>-<n>-<attempt>-<input>
Attempts(o) == {t \in kept : o \in Ins[t]}

\* _addSpentInfo: the first of the stream is spentTxId.  (The others are in
\* multipleSpentAttempts, which _fillOutpoints tests without effect: their
\* spentTxId is undefined.)
SpentTxId(o) == IF Attempts(o) = {} THEN NoTx ELSE Min(Attempts(o))

\* _getInfo: bitcoind knows the transaction, stored or not.
GetInfo(t) ==
    /\ asked.at = "idle"
    /\ asked' = [NoRequest EXCEPT !.at = "inputs", !.tx = t, !.before = kept,
                                  !.vin = [o \in Ins[t] |-> NewInput]]
    /\ UNCHANGED kept

Waiting(o, point) == asked.at = "inputs" /\ o \in DOMAIN asked.vin /\ asked.vin[o].at = point

\* fromTxIdN: the output.
GetOut(o) ==
    /\ Waiting(o, "out")
    /\ asked' = [asked EXCEPT !.vin[o].at = "spent",
                              !.vin[o].sat = IF o[1] \in kept THEN Sat[o] ELSE 0]
    /\ UNCHANGED kept

\* Mutant: an input that was not found is left out of the sum without a word.
GetSpentsSilent(o) ==
    /\ Waiting(o, "spent")
    /\ asked' =
         [asked EXCEPT !.vin[o].at = "done",
                       !.vin[o].rival = IF SpentTxId(o) = asked.tx THEN NoTx ELSE SpentTxId(o),
                       !.vin[o].lost = Attempts(o) = {},
                       !.valueIn = @ + asked.vin[o].sat]
    /\ UNCHANGED kept

\* Mutant: the transaction itself is taken for its rival.
GetSpentsOwn(o) ==
    /\ Waiting(o, "spent")
    /\ asked' =
         IF asked.vin[o].sat = 0
         THEN [asked EXCEPT !.vin[o].at = "done", !.incomplete = TRUE]
         ELSE [asked EXCEPT !.vin[o].at = "done",
                            !.vin[o].rival = SpentTxId(o),
                            !.vin[o].lost = Attempts(o) = {},
                            !.valueIn = @ + asked.vin[o].sat]
    /\ UNCHANGED kept

\* ... its attempts, and the callback of _fillOutpoints.
GetSpents(o) ==
    /\ Waiting(o, "spent")
    /\ asked' =
         IF asked.vin[o].sat = 0
         THEN [asked EXCEPT !.vin[o].at = "done", !.incomplete = TRUE]
         ELSE [asked EXCEPT !.vin[o].at = "done",
                            !.vin[o].rival = IF SpentTxId(o) = asked.tx THEN NoTx ELSE SpentTxId(o),
                            !.vin[o].lost = Attempts(o) = {},
                            !.valueIn = @ + asked.vin[o].sat]
    /\ UNCHANGED kept

Answered ==
    /\ asked.at = "inputs"
    /\ \A o \in DOMAIN asked.vin : asked.vin[o].at = "done"

\* The last callback of _fillOutpoints: the answer is sent.
AnswerInfo ==
    /\ Answered
    /\ asked' = NoRequest
    /\ UNCHANGED kept

TxInfoNext ==
    \/ \E t \in Txid : KeepTx(t) \/ GetInfo(t)
    \/ \E o \in Outpoint : GetOut(o) \/ GetSpents(o)
    \/ AnswerInfo

TxInfoSpec == TxInfoInit /\ [][TxInfoNext]_txInfoVars

-----------------------------------------------------------------------------
(* Properties *)

\* Fees are told only when they are right: valueIn is the value of all inputs unless
\* the answer says that inputs are missing, and none is when their
\* transactions were stored before the request.
FeesAreRight ==
    Answered =>
        /\ ~asked.incomplete => asked.valueIn = SumFunctionOnSet(Sat, Ins[asked.tx])
        /\ (\A o \in Ins[asked.tx] : o[1] \in asked.before /\ Sat[o] > 0) => ~asked.incomplete

\* Of the stored transactions that spend one output, all but the first learn of
\* another that really spends it, whatever is stored while the request runs; and
\* a stored one never finds that its spending is not registered.
RivalIsTold ==
    Answered =>
        \A o \in Ins[asked.tx] :
            LET i == asked.vin[o]
                before == {t \in asked.before : o \in Ins[t]}
            IN  /\ i.rival # NoTx => i.rival # asked.tx /\ i.rival \in Attempts(o)
                /\ i.lost => asked.tx \notin asked.before
                /\ (i.sat > 0 /\ \E t \in before : t < asked.tx) => i.rival # NoTx
=============================================================================
