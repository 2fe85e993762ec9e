---------------------------- MODULE CurrencyRates ----------------------------
(***************************************************************************)
(* plugins/currencyrates.js: the rates of one currency at one source.      *)
(* (The keys <source>-<CODE>-<second> of others are never in its range.)   *)
(* A timer fetches, at no time waiting for the fetch before, and stores    *)
(* what the source answers under the second in which it is stored; a       *)
(* request gets the last rate that was stored up to the second it asks     *)
(* for.                                                                    *)
(*                                                                         *)
(* A rate is told apart by the second in which the source quoted it.       *)
(***************************************************************************)
EXTENDS Integers, FiniteSetsExt

CONSTANTS
    Fetches,    \* places for the fetches that run at one time
    MaxSecond   \* when time ends (a bound of the model)

ASSUME RateConstants == MaxSecond \in Nat \ {0}

VARIABLES
    second,     \* getCurrentTs()
    rates,      \* the database: the rate under every second
    fetch,      \* every fetch
    crossed     \* did one fetch begin while another ran? (history)

rateVars == <<second, rates, fetch, crossed>>

Second == 1..MaxSecond
NoRate == 0

\* at: "idle", or what it waits for;  began: its second (history)
\* quote: the rate, or a null when the source failed;  ts: the second of the key
Fetch == [at : {"idle", "retrieve", "store"}, began : 0..MaxSecond,
          quote : 0..MaxSecond, ts : 0..MaxSecond]

Idle == [at |-> "idle", began |-> 0, quote |-> NoRate, ts |-> 0]

RateInit ==
    /\ second = 1
    /\ rates = [k \in Second |-> NoRate]
    /\ fetch = [f \in Fetches |-> Idle]
    /\ crossed = FALSE

SecondPasses ==
    /\ second < MaxSecond
    /\ second' = second + 1
    /\ UNCHANGED <<rates, fetch, crossed>>

\* _fetch, by setInterval
BeginFetch(f) ==
    /\ fetch[f].at = "idle"
    /\ fetch' = [fetch EXCEPT ![f] =
                     [at |-> "retrieve", began |-> second, quote |-> NoRate, ts |-> 0]]
    /\ crossed' = (crossed \/ \E g \in Fetches : fetch[g].at # "idle")
    /\ UNCHANGED <<second, rates>>

\* Mutant: the key gets the second in which the fetch began.
RetrieveDated(f) ==
    /\ fetch[f].at = "retrieve"
    /\ \/ \E quote \in fetch[f].began..second :
             fetch' = [fetch EXCEPT ![f].at = "store", ![f].quote = quote, ![f].ts = fetch[f].began]
       \/ fetch' = [fetch EXCEPT ![f] = Idle]
    /\ UNCHANGED <<second, rates, crossed>>

\* _retrieve calls back: the source has quoted the rate at some moment since it was
\* asked, or failed.  _store makes the key and begins the batch.
Retrieve(f) ==
    /\ fetch[f].at = "retrieve"
    /\ \/ \E quote \in fetch[f].began..second :
             fetch' = [fetch EXCEPT ![f].at = "store", ![f].quote = quote, ![f].ts = second]
       \/ fetch' = [fetch EXCEPT ![f] = Idle]
    /\ UNCHANGED <<second, rates, crossed>>

\* The batch of _store.
StoreRates(f) ==
    /\ fetch[f].at = "store"
    /\ rates' = [rates EXCEPT ![fetch[f].ts] = fetch[f].quote]
    /\ fetch' = [fetch EXCEPT ![f] = Idle]
    /\ UNCHANGED <<second, crossed>>

\* The process ends, and another one starts to fetch.
RateRestart ==
    /\ fetch' = [f \in Fetches |-> Idle]
    /\ UNCHANGED <<second, rates, crossed>>

RateNext ==
    \/ SecondPasses \/ RateRestart
    \/ \E f \in Fetches : BeginFetch(f) \/ Retrieve(f) \/ StoreRates(f)

RateSpec == RateInit /\ [][RateNext]_rateVars

-----------------------------------------------------------------------------
KeysUpTo(t) == {k \in 1..t : rates[k] # NoRate}

\* Mutant: the stream is not bounded by the second that was asked for.
OneRateLatest(t) ==
    IF KeysUpTo(MaxSecond) = {} THEN NoRate ELSE rates[Max(KeysUpTo(MaxSecond))]

\* _getOneRate: the first value of the reversed stream.
OneRate(t) == IF KeysUpTo(t) = {} THEN NoRate ELSE rates[Max(KeysUpTo(t))]

-----------------------------------------------------------------------------
(* Properties *)

\* A second that is over, with no batch of it under way, has the same rate for ever:
\* a request for several times of the past ("ts=1,2,3", read one by one while
\* rates are stored) is answered as if at one moment, and so again later.
PastIsSettled ==
    [][\A t \in 1..(second - 1) :
          (\A f \in Fetches : fetch[f].at = "store" => fetch[f].ts > t)
              => OneRate(t)' = OneRate(t)]_rateVars

\* As long as no fetch begins before the one before it has ended, a later second never
\* has an earlier quote, and none has one from its future.
QuotesInOrder ==
    ~crossed =>
        \A t \in Second : /\ OneRate(t) <= t
                          /\ \A u \in Second : t <= u => OneRate(t) <= OneRate(u)
=============================================================================
