---------------------------- MODULE AddressCache ----------------------------
(***************************************************************************)
(* What Address.update (app/models/Address.js) and lib/TransactionDb.js    *)
(* make of one output of an address, while Sync stores and rearranges      *)
(* blocks: a request reads the output's entry, its spending attempts, the  *)
(* tip and the blocks of the transactions, one after the other, and then   *)
(* caches in the entry what it found.  (The outputs of an address meet     *)
(* only in the sums of the answer.)                                        *)
(*                                                                         *)
(* Steps are as in Sync: the operation awaited and its callback.           *)
(***************************************************************************)
EXTENDS Sync

CONSTANTS
    Clients,    \* places for the requests that run at one time
    Out,        \* the transaction of the output
    Spenders,   \* the transactions that spend it
    Announced,  \* those that bitcoind announces before they are in a block
    Times,      \* the times a transaction may be stored with
    Safe        \* config.safeConfirmations

ASSUME CacheConstants ==
    /\ Out \in Tx \ {GenesisTx}
    /\ Spenders \subseteq Tx \ {Out, GenesisTx}
    /\ Announced \subseteq Spenders \cup {Out}
    /\ Null \notin Tx
    /\ Times \subseteq Nat
    /\ Safe \in Nat \ {0}

VARIABLES
    entry,  \* the cache part of txa2-<addr>-<time>-<Out>-<n>, for every time
    req,    \* the request in every place
    top,    \* the greatest height of a tip so far (history)
    deep    \* has a block left the main chain that had Safe confirmations? (history)

cacheVars == <<vars, entry, req, top, deep>>

\* isConfirmed, scriptPubKey and the spending transaction; NoKey is no value.
Values == [conf : BOOLEAN, script : BOOLEAN, spent : Spenders \cup {Null}]
Plain  == [conf |-> FALSE, script |-> FALSE, spent |-> Null]
NoKey  == [Plain EXCEPT !.script = TRUE, !.spent = Out]

\* cached: isConfirmedCached and scriptPubKeyCached, in a value
\* tries: the spending attempts, left: those whose block is yet to be read
\* sconfs: spentConfirmations       put: what is to be put in the entry
Requests == [pc : {"free", "spents", "getTip", "block", "spentBlock", "putConf", "putScript"},
             key : Times \cup {-1}, cached : Values,
             tries : SUBSET Spenders, left : SUBSET Spenders,
             tip : Heights, confs : Int, sconfs : Int, put : Values]

Free == [pc |-> "free", key |-> -1, cached |-> Plain, tries |-> {},
         left |-> {}, tip |-> -1, confs |-> 0, sconfs |-> 0, put |-> Plain]

CacheInit ==
    /\ Init
    /\ entry = [k \in Times |-> NoKey]
    /\ req = [c \in Clients |-> Free]
    /\ top = -1
    /\ deep = FALSE

-----------------------------------------------------------------------------
(* What the synchronisers write *)

\* _addScript: the batch puts the output's entry anew, without a cache.
PutEntry == \E k \in Times : entry' = [entry EXCEPT ![k] = Plain]

\* storeTx, of handleTx: bitcoind announces a transaction before it is in a block.
StoreTx(t) ==
    /\ up
    /\ t \notin savedTx
    /\ savedTx' = savedTx \cup {t}
    /\ IF t = Out THEN PutEntry ELSE UNCHANGED entry
    /\ UNCHANGED <<prev, next, height, txBlock, tip, cachedTip,
                   up, callVars, delayed, req, top, deep>>

\* A block with Safe confirmations or more leaves the main chain.
Buries(b) == height[b] >= 0 /\ top - height[b] + 1 >= Safe

\* A step of the synchroniser.  addMany's batch is one that puts the entry.
Store(s) ==
    /\ \/ \E c \in Calls : Submit(s, c) \/ Retry(s, c)
       \/ Step(s)
    /\ IF At(s, "addTxs") /\ pc'[s] = "addBlock" /\ Out \in TxOf[frame[s].blk]
       THEN PutEntry
       ELSE UNCHANGED entry
    /\ top' = IF cachedTip'.height > top THEN cachedTip'.height ELSE top
    /\ deep' = (deep \/ \E b \in Block : Buries(b) /\ height'[b] < 0)
    /\ UNCHANGED req

-----------------------------------------------------------------------------
(* What a request finds out *)

Waits(c, point) == up /\ req[c].pc = point
Put(c, r) == req' = [req EXCEPT ![c] = r]

\* fromAddr reads the keys of an output in the order of END_OF_WORLD_TS - time
\* and keeps the first.
IsFirst(k) == entry[k] # NoKey /\ \A j \in Times : j > k => entry[j] = NoKey

\* height of getBlockForTx, -1 for none
HeightOf(t) == txBlock[t].ht

\* With onlyUnspent, update goes on with fillScriptPubKey.  That may find
\* nothing, and then the request changes as little as one without the option.
Script(r) ==
    {Free} \cup
    IF r.tries = {} /\ ~r.cached.script
    THEN {[Free EXCEPT !.pc = "putScript", !.key = r.key, !.put = [r.put EXCEPT !.script = TRUE]]}
    ELSE {}

\* Mutant: any attempt to spend the output is cached with its confirmation.
DecideTried(r) ==
    IF r.confs >= Safe
    THEN {[r EXCEPT !.pc = "putConf", !.left = {}, !.tip = -1, !.confs = 0, !.sconfs = 0,
                    !.put = [conf |-> TRUE, script |-> FALSE,
                             spent |-> IF r.tries # {} THEN CHOOSE t \in r.tries : TRUE
                                       ELSE Null]]}
    ELSE Script([r EXCEPT !.put = [Plain EXCEPT !.conf = r.cached.conf]])

\* cacheConfirmations.  The confirmations of an output that was cached as
\* confirmed are undefined.
Decide(r) ==
    IF r.confs >= Safe
    THEN {[r EXCEPT !.pc = "putConf", !.left = {}, !.tip = -1, !.confs = 0, !.sconfs = 0,
                    !.put = [conf |-> TRUE, script |-> FALSE,
                             spent |-> IF r.sconfs >= Safe THEN r.put.spent ELSE Null]]}
    ELSE Script([r EXCEPT !.put = [Plain EXCEPT !.conf = r.cached.conf]])

\* _fillConfirmationsOneSpent, or the end of fillConfirmations.
Spent(r) == IF r.tries = {} THEN Decide(r) ELSE {[r EXCEPT !.pc = "spentBlock", !.left = r.tries]}

\* fillConfirmations leaves out what is cached and not spent.
WithTip(r, h) ==
    IF r.cached.conf
    THEN Spent([r EXCEPT !.tip = h])
    ELSE {[r EXCEPT !.pc = "block", !.tip = h]}

-----------------------------------------------------------------------------
(* Address.update *)

\* fromAddr: the entry, with its cache or (noCache) without.  One that is
\* cached as spent needs no further step.
Read(c) ==
    /\ Waits(c, "free")
    /\ \E k \in Times, ignoreCache \in BOOLEAN :
          LET v == IF ignoreCache \/ ~entry[k].conf THEN Plain ELSE entry[k]
          IN  /\ IsFirst(k)
              /\ v.spent = Null
              /\ Put(c, [Free EXCEPT !.pc = "spents", !.key = k, !.cached = v])
    /\ UNCHANGED <<vars, entry, top, deep>>

\* ... the spending attempts.  getTip answers at once when it has cachedTip.
Spents(c) ==
    /\ Waits(c, "spents")
    /\ LET r == [req[c] EXCEPT !.tries = Spenders \cap savedTx]
       IN  IF cachedTip = NoTip
           THEN Put(c, [r EXCEPT !.pc = "getTip"])
           ELSE \E q \in WithTip(r, cachedTip.height) : Put(c, q)
    /\ UNCHANGED <<vars, entry, top, deep>>

\* getTip from the database, as in Sync!GetTip.
ReadTip(c) ==
    /\ Waits(c, "getTip")
    /\ \E q \in WithTip(req[c], tip.height) : Put(c, q)
    /\ cachedTip' = IF tip.hash = Null THEN cachedTip ELSE tip
    /\ UNCHANGED <<dbVars, up, callVars, delayed, entry, top, deep>>

\* Mutant: a transaction that is in no block is not told apart.
TxBlockAny(c) ==
    /\ Waits(c, "block")
    /\ \E q \in Spent([req[c] EXCEPT !.confs = req[c].tip - HeightOf(Out) + 1]) : Put(c, q)
    /\ UNCHANGED <<vars, entry, top, deep>>

\* _fillConfirmationsOne
TxBlock(c) ==
    /\ Waits(c, "block")
    /\ LET h == HeightOf(Out)
       IN  \E q \in IF h >= 0 THEN Spent([req[c] EXCEPT !.confs = req[c].tip - h + 1])
                    ELSE Decide(req[c]) : Put(c, q)
    /\ UNCHANGED <<vars, entry, top, deep>>

\* Mutant: an attempt that is in no block is taken as well.
SpentBlockAny(c) ==
    /\ Waits(c, "spentBlock")
    /\ \E t \in req[c].left :
          LET f == [req[c] EXCEPT !.left = @ \ {t}, !.put.spent = t,
                                  !.sconfs = req[c].tip - HeightOf(t) + 1]
          IN  \E q \in IF f.left = {} THEN Decide(f) ELSE {f} : Put(c, q)
    /\ UNCHANGED <<vars, entry, top, deep>>

\* _fillConfirmationsOneSpent: the attempts are looked up in any order, and
\* one that is in a block takes the place of those before it.
SpentBlock(c) ==
    /\ Waits(c, "spentBlock")
    /\ \E t \in req[c].left :
          LET h == HeightOf(t)
              r == [req[c] EXCEPT !.left = @ \ {t}]
              f == IF h >= 0 THEN [r EXCEPT !.put.spent = t, !.sconfs = r.tip - h + 1] ELSE r
          IN  \E q \in IF f.left = {} THEN Decide(f) ELSE {f} : Put(c, q)
    /\ UNCHANGED <<vars, entry, top, deep>>

\* cacheConfirmations: the batch.
PutConf(c) ==
    /\ Waits(c, "putConf")
    /\ entry' = [entry EXCEPT ![req[c].key] = req[c].put]
    /\ \E q \in Script(req[c]) : Put(c, q)
    /\ UNCHANGED <<vars, top, deep>>

\* cacheScriptPubKey
PutScript(c) ==
    /\ Waits(c, "putScript")
    /\ entry' = [entry EXCEPT ![req[c].key] = req[c].put]
    /\ Put(c, Free)
    /\ UNCHANGED <<vars, top, deep>>

Update(c) ==
    \/ Read(c) \/ Spents(c) \/ ReadTip(c) \/ TxBlock(c) \/ SpentBlock(c)
    \/ PutConf(c) \/ PutScript(c)

CacheNext ==
    \/ \E t \in Announced : StoreTx(t)
    \/ \E s \in Syncs : Store(s)
    \/ \E c \in Clients : Update(c)

CacheSpec == CacheInit /\ [][CacheNext]_cacheVars

-----------------------------------------------------------------------------
(* The answer *)

\* _addTxItem: what the output adds to the balance, totalReceived, totalSent
\* and unconfirmedBalance, in units of its value.
Totals(conf, spent, spentConf) ==
    [balance     |-> IF conf /\ (~spent \/ ~spentConf) THEN 1 ELSE 0,
     received    |-> IF conf THEN 1 ELSE 0,
     sent        |-> IF conf /\ spent /\ spentConf THEN 1 ELSE 0,
     unconfirmed |-> IF ~conf THEN 1 ELSE IF spent /\ ~spentConf THEN -1 ELSE 0]

\* The answer of a request that finds value v and runs alone.
Answer(v) ==
    LET inChain(t) == HeightOf(t) >= 0 /\ TipNow.height >= HeightOf(t)
        tries == Spenders \cap savedTx
    IN  Totals(v.conf \/ inChain(Out),
               v.spent # Null \/ tries # {},
               v.spent # Null \/ \E t \in tries : inChain(t))

-----------------------------------------------------------------------------
(* Properties *)

\* Types; and no request counts more confirmations than there are blocks.
CacheTypeOK ==
    /\ entry \in [Times -> Values \cup {NoKey}]
    /\ req \in [Clients -> Requests]
    /\ \A c \in Clients : req[c].confs <= top + 1 /\ req[c].sconfs <= top + 1
    /\ top \in Heights
    /\ deep \in BOOLEAN

\* What an entry says is confirmed is in the main chain, with Safe
\* confirmations, as long as no block that deep left it: cacheConfirmations,
\* with heights, tip and attempts read at different times, by several
\* requests that overwrite each other's values during reorganisations.
CachedIsBuried ==
    ~deep =>
        \A k \in Times :
            LET v == entry[k]
                buried(t) == HeightOf(t) >= 0 /\ top - HeightOf(t) + 1 >= Safe
            IN  v # NoKey => /\ v.conf => buried(Out)
                             /\ v.spent # Null => buried(v.spent)

\* A request with the cache gives the answer of one that ignores it
\* ("cache case 4 w cache" and "w ignore cache" of test/integration/addrCache.js),
\* at any moment of a reorganisation, as long as none has taken the tip back or
\* removed blocks as deep as Safe.
CacheAgrees ==
    ~deep /\ TipNow.height > top - Safe =>
        \A k \in Times : IsFirst(k) =>
            Answer(IF entry[k].conf THEN entry[k] ELSE Plain) = Answer(Plain)
=============================================================================
