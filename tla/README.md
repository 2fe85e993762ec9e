# insight-api in TLA+

This directory holds a formal model of insight-api: TLA+ modules translated from the
JavaScript under `src/`, TLC configurations that check them on small instances, and
theorems about them that TLAPS proves for every value of the constants.

insight-api follows a bitcoind. It keeps an index of its blocks and transactions in
LevelDB, answers HTTP queries from it, and has plugins that store data of their own. What is
difficult in it is not the answering but the storing: blocks arrive out of order, on several
branches, by two ways at once, from a process that may be killed at any moment; an index
entry is several keys, written one after the other; and two objects that have a lock each
write one database.

## 1. The system

### 1.1 Components

| component | state | operations | model |
|---|---|---|---|
| `lib/BlockDb.js` | LevelDB keys `bpr-` (parent), `bne-` (next), `bma-` (height, -1 off the main chain), `btx-` (block of a transaction), `bti-` (tip), `bts-` (by time); `cachedTip` in memory | `add`, `setTip`, `getTip`, `setNext`, `getNext`, `getPrev`, `getHeight`, `has`, `setBlockMain`, `setBlockNotMain`, `fromHashWithInfo`, `getBlocksByDate`, `setLastFileIndex` | `BlockDb`; `bts-` in `BlockList`, the file number in `FileSync` |
| `lib/Sync.js` | `storingBlock` (a lock), `cachedLastHash`, the variables of the closures | `storeTipBlock`, `processReorg`, `_setBranchOrphan`, `setBranchConnectedBackwards`, `storeTx` | `Sync` |
| `lib/HistoricSync.js` | `status`, `blockChainHeight`, `currentRpcHash`, ... | `start`, `prepareToSync`, `updateStartBlock`, `getBlockFromRPC`, `prepareFileSync`, `getBlockFromFile` | `InsightSync` (by RPC), `FileSync` (from bitcoind's files) |
| `lib/PeerSync.js` | `allowReorgs`, a `Sync` object | `handleBlock`, `handleTx`, `handleInv` | `InsightSync` |
| `insight.js` | the two synchronisers | starts both; sets `allowReorgs` when the historic one calls back | `InsightSync` |
| `lib/TransactionDb.js` | LevelDB keys `txo-`, `txs-`, `txa2-`; the cache of confirmations | `add`, `addMany`, `fromAddr`, `cacheConfirmations`, `cacheScriptPubKey`, ... | the batch of `addMany` in `BlockDb`; the entries of an address and their cache in `AddressCache`; the inputs of a transaction's detail in `TxInfo` |
| `plugins/emailstore.js` | keys of an address: passphrase, items, counter, pending secret, validation | save, retrieve, erase, erase profile, resend, validate, change passphrase | `EmailStore` |
| `app/models/Address.js` | none that lasts | totals and unspent outputs of an address | `AddressCache`, for one output; `AddressTotals`, the sums over several |
| `lib/MessageDb.js`, `plugins/mailbox.js`, `plugins/cleaner.js`, `controllers/socket.js` | messages by key and time; the rooms of every socket | add, announce, subscribe, sync, remove old ones | `Mailbox` |
| `plugins/currencyrates.js` | the rates of every source by second | fetch, store, find by time | `CurrencyRates` |
| `lib/BlockExtractor.js` | position in bitcoind's `.dat` files | `getNextBlock` | `FileSync` |
| `controllers/blocks.js` | none | the list of a day's blocks, in pages | `BlockList` |
| `plugins/credentialstore.js`, `plugins/publicInfo` | one key each | put and get | no: one operation each |
| other controllers, `controllers/currency.js`, `Status`, `Rpc`, `PoolMatch`, `config`, `util` | none of their own, or the set of open sockets | format answers, pass calls on, run once | no |

### 1.2 How they interact

```
 bitcoind --inv/block--> PeerSync --storeTipBlock(b, allowReorgs)--> Sync --+
     ^                      |  start() on NEED_SYNC                         |
     | RPC                  v                                               +--> BlockDb --> LevelDB
     +--- HistoricSync --storeTipBlock(b, true)---------------------> Sync --+   (one cachedTip)
              ^  callback: peerSync.allowReorgs = true
          insight.js
```

Everything runs in one node process: a callback runs to its next asynchronous call without
interruption, and between the two anything else may run. LevelDB writes a batch atomically
and keeps what it has acknowledged when the process is killed.

### 1.3 What is hard, and what makes a component correct

* **Sync/BlockDb.** A block, its tip and its parent's next pointer are three writes; a
  reorganisation is many. Correct means: pointers that always lead to children, heights that
  are depths, a tip whose whole branch is stored, a transaction index that agrees with the
  heights (always); a main chain that is the tip's branch, with the next pointers along it
  (when no call is running).
* **HistoricSync/PeerSync/insight.js.** Two writers with a lock each; `allowReorgs` that
  changes when a callback runs; a sync that is started by two parties; `status` as the only
  guard against two at a time. Correct means: bitcoind's best block becomes the tip, a sync
  ends, there is one at a time, and a restart goes on where the last process stopped.
* **TransactionDb/Address.** A request about an address reads an output's entry, its spending
  attempts, the tip and the blocks of the transactions in separate steps, and caches for good
  what it made of them, while blocks come and leave and other requests do the same. Correct
  means: what is cached stays true, and the cache changes no answer.
* **EmailStore.** `save` is up to ten operations with a rollback of three parallel ones, and
  requests about one address interleave. Correct means: no address waits for a secret that
  nobody was sent, the counter never falls behind the items, a failed request leaves nothing
  half made.
* **HistoricSync from files.** bitcoind appends to the files that are being read; the number of the
  file is saved when a block is read, the block is stored later, and the process may be killed in
  between; after a restart the tip is sought from the saved file. Correct means: a sync that finishes
  has stored bitcoind's branch, meets no block before its parent, and ends.
* **Messages.** Puts, announcements to rooms, lists of the database for "sync" and the cleaner's
  two steps interleave. Correct means: between the list and the announcements no message falls
  through, and the cleaner removes only old ones.
* **Currency rates.** A timer fetches without waiting for the fetch before, and the second of a key
  is taken when the answer comes. Correct means: quotes are in order, and the past does not change.
* **Transaction detail, address sums, list of blocks.** Answers put together from several reads (the
  inputs of a transaction, the pages of a day) while the index changes, or in one pass whose
  steps depend on what was seen before. Correct means: fees are told only when all inputs are
  known, a double spend is told of, every transaction counts once, pages leave no gap.

`PROJECT.json` lists the hazards one by one, each at its line, with the properties aimed at it.

## 2. The modules

| module | models | built on |
|---|---|---|
| `Chain` | bitcoind's tree of blocks: parent, transactions; and, for the properties, depth and branch | |
| `BlockDb` | the keys of the index, one operator per LevelDB write | `Chain` |
| `Sync` | `storeTipBlock` and the reorganisation, for any number of `Sync` objects | `BlockDb` |
| `ChainIndex` | what storing a block promises to readers (abstract) | `Chain` |
| `SyncIndex` | the refinement mapping from `Sync` to `ChainIndex` | `Sync`, `ChainIndex` |
| `InsightSync` | HistoricSync, PeerSync, insight.js and bitcoind over two `Sync` objects | `Sync` |
| `AddressCache` | `Address.update` and the cache of `TransactionDb` for one output, over `Sync` | `Sync` |
| `FileSync` | HistoricSync and BlockExtractor over bitcoind's files | `InsightSync` |
| `EmailStore` | the requests about one address of the email store | |
| `Mailbox` | MessageDb, mailbox, cleaner and the rooms of the sockets | |
| `CurrencyRates` | the rates of one currency at one source | |
| `TxInfo` | the inputs of a transaction's detail while transactions are stored | |
| `AddressTotals` | the sums and the transaction list of an address | |
| `BlockList` | the pages of the list of blocks while blocks are indexed | |
| `SyncProofs`, `SyncHeightProofs` | theorems about `Sync` | `Sync` |
| `SyncRestProofs` | theorems about `Sync` at rest, and that it implements `ChainIndex` | `SyncIndex`, `SyncHeightProofs` |
| `CacheProofs` | theorems about `AddressCache` | `AddressCache`, `SyncHeightProofs` |
| `InsightProofs` | theorems about the whole program, by RPC and from files | `FileSync`, `SyncRestProofs` |
| `EmailProofs` | theorems about `EmailStore` | `EmailStore` |
| `MailboxProofs` | theorems about `Mailbox` | `Mailbox` |
| `ServiceProofs` | theorems about `CurrencyRates`, `BlockList`, `TxInfo` and `AddressTotals` | those |
| `MCTree`, `MCSync`, `MCInsight`, `MCCache`, `MCFiles` | the instances that TLC checks | |
| `MCServices` | the six modules from `EmailStore` to `BlockList` in one instance | those |

### 2.1 The block tree

`Chain` has no state. `ParentOf` and `TxOf` are what `previousblockhash` and `tx` of a block
say; `Depth` and `Branch` are not data of the program but the yardstick of the properties, and
are constants tied down by assumptions (`BlockTree`, `Branches`) instead of recursive
operators, so that they can be used in proofs. `Zero` is the hash of zeros that Genesis names as
its parent and `Null` is JavaScript's `undefined`: the code reads and even writes the keys of
both (`bne-undefined`, when a backward walk falls off the tree).

### 2.2 Sync

An action is one asynchronous step: the operation a callback was waiting for *and* what the
callback then does, up to the next one. `pc[s]` names the awaited operation, `"idle"` is
`storingBlock = 0`; `frame[s]` holds the variables of the closures.

| `pc` | operation awaited | code (`lib/Sync.js`) |
|---|---|---|
| has | `bDb.has(newPrev)` | 110-118 |
| getTip | `bDb.getTip` without `cachedTip` | 121-154, BlockDb 154-168 |
| getNext | `bDb.getNext(newPrev)` | 132-139 |
| reorgHeight | `bDb.getHeight(newPrev)`; chooses Case 1, 2 or 3 | 182-206 |
| backPrev, backHeight, connect | `setBranchConnectedBackwards` | 250-291 |
| yNext, setYNext | `getNext(yHash)`, `setNext(yHash, ..)` | 207-224 |
| orphan, orphanNext | `_setBranchOrphan` | 227-248 |
| addTxs, addBlock | the two batches of `bDb.add` | 156-159, BlockDb 143-152 |
| putTip | `bDb.setTip` | 160-165 |
| setNext | `bDb.setNext(newPrev, b.hash)`, and the end | 166-179 |

What the code does with absent values is kept: `getHeight` reads 0 both for Genesis and for a
block that is not there, so Case 3 is also taken above Genesis; `prev[Null]` is read when the
walk has left the tree; a throw in a callback ends the process (`up = FALSE`) until
`Restart`. `delayed[s]` is the set of calls that found the lock taken and wait on a timer.
An operation of LevelDB and its callback are one action: between the operation's effect and
its callback other callbacks may run, but each of them would find the same database, and the
state the callback itself reads (`storingBlock`, its closure) belongs to it alone. The exception,
`cachedTip`, is read and written inside the steps where the code does it.

`RpcFault` lets any call of bitcoind fail (`setBlockMain` and `setBlockNotMain` ask it for the
block, `addMany` for every transaction), `CanCrash` lets the process be killed between any two
steps. `MayArrive` is what callers pass: a sync starts with Genesis or with the tip, relayed
blocks are new. With `Resend` a caller may pass any stored block again.

### 2.3 InsightSync

Adds `best` (bitcoind's best block), `wire` (announcements on their way to `handleBlock`),
`allowReorgs` and `hist` (the HistoricSync object: `pc`, `status` and the variables of
`updateStartBlock`). The steps of the two `Sync` objects are those of `Sync`, joined with what
the caller's callback does: `HistoricStep` with the loop of `start()`, `PeerStep` with the
callback of `handleBlock` that starts another sync on NEED_SYNC. `EndSync` is the end of the
loop together with the callback insight.js gave, which sets `allowReorgs`. An error of
`checkNetworkSettings` sets the status and calls nobody back, as in the code.

bitcoind's best block may move by several blocks and to another branch; only the new best is
announced, so PeerSync meets blocks without a stored parent. `Calm` restricts new blocks and
restarts to moments in which insight rests: it is TRUE in the run that asks whether insight
catches up, since one of the findings is that it need not when blocks come during a sync.

### 2.4 ChainIndex and the refinement

`ChainIndex` knows a best block, a main chain, the stored blocks and the block being stored. Its
`Rearrange` step is the contract of a reorganisation: blocks that the old and the new branch
share never leave the main chain, and blocks of a third branch never enter it. `SyncIndex` maps
`best` to the tip that `getTip` would answer, `main` to the stored blocks with a height of 0
or more, and `busy` to the block of the call that has the lock, up to the batch that stores it.
A block is "being stored" until that batch and the assignment of `cachedTip` in its callback;
`setTip`'s put and `setNext` are stutters.

### 2.5 AddressCache

One output of an address: the transaction `Out` that makes it, and `Spenders`, the transactions
that spend it (one of them, if a chain is valid; the others are double spends). Outputs of an
address do not meet but in the sums, so one stands for all. `entry[k]` is the cache part of the
`txa2-` key with time `k`: a transaction stored by `handleTx` and again with its block may have two
keys, of which `fromAddr` keeps the first. `savedTx` of `BlockDb` says which `txo-` and `txs-` keys
exist. A request goes

| `pc` | operation awaited | code |
|---|---|---|
| (free) | the stream of the address's entries, with the cache or, `noCache`, without | `fromAddr`, `_parseAddrData` |
| spents | the stream of the `txs-` keys | `fromAddr` |
| getTip | `getTip` without `cachedTip` | `fillConfirmations` |
| block, spentBlock | `getBlockForTx` of `Out`, of every attempt in any order | `_fillConfirmationsOne`, `..OneSpent` |
| putConf | the batch of `cacheConfirmations` | |
| putScript | the batch of `cacheScriptPubKey`, after bitcoind was asked | `fillScriptPubKey` |

and the synchroniser's steps are those of `Sync`, with the entry put anew when a block's
transactions are stored. `top` and `deep` are history variables: `deep` says that a block left the
main chain that had `Safe` confirmations under the highest tip so far, which is what
`safeConfirmations` bets against. Kills are left out: they end the requests, and what a request
has put is one batch.

### 2.6 EmailStore

The keys of one address (`passphrase`, `items`, `count`, `pending`, `validated`; no two addresses
share a key) and a fixed number of slots, each with a request at some operation of
`emailstore.js`. `save` goes exists, check or savePass, confirmed, item, counter, putCounter,
putItem, and for a new unconfirmed profile getPending, putPending, mail, delete. `Delete(s, d)` is
one of the three parallel dels. `mailed`, `tangled` and `killed` are history variables:
`tangled` says that a request began while another ran, or that an erase found no item. The
secrets are random 16-byte strings; the model takes one that neither the database nor a
request holds for a new one and forgets its old mail, so a few secrets stand for all. The HTTP
response is not part of the state. Fields that no later step reads are reset, which merges
states that behave alike.

### 2.7 FileSync

`InsightSync` with four more variables. `disk` is bitcoind's files, sequences of blocks: `Write`
appends what a new best block brings, some of it to the last file and the rest to a new one, so
parents come before children and stale branches lie among the rest. `lastFile` is the durable
`file-` key. `file` is the BlockExtractor (`at` is `currentFileIndex`, `buf` the part of the file in
memory that is not yet read, as it was when the file was loaded) with the use HistoricSync makes of it.
`skipped` is a history variable: `NoteSkipped` sets it when a step that did not read from a file (one of
PeerSync, or of a sync by RPC) makes a block the tip before which a block in the files is not stored,
or before the saved file. `goal`, bitcoind's branch when a reader listed the files, is history as well.
`IsDisk` says what a data directory may be: Genesis first, every other block behind its parent, none twice.

| action | code |
|---|---|
| `PrepareFiles` | `prepareFileSync` up to the loop: RPC if the tip is close to bitcoind's height or with `forceRPC`, else a new BlockExtractor and the saved file |
| `SeekFile` | one round of the seeking loop; behind the last file "Could not find block", which calls nobody back |
| `ReadFile` | one round of the loop of `start()`: the next block to `storeTipBlock`, or the end |
| `SaveIndex` | the put of `setLastFileIndex`, when the file changed, before the block is used |
| `WithoutFiles` | every other step of HistoricSync, as in `InsightSync` |
| `RestartFiles` | a kill and a start: files and saved number stay |

A sync that PeerSync starts has `forceRPC`; `blockExtractor` is never reset (`made` stays TRUE), so
`ReadFile` is its `getFn` all the same. That is the finding `resync`.

### 2.8 Mailbox

A message is its key, public key and microsecond. `AddMessage` makes the key (after the signature was
verified) and begins the put; `Written` is the put, `Announce` the event that emits to the room.
`RequestSync` computes the range, up to now, `GetMessages` reads the database, `EmitMessages` emits
the list. `Tick`, `ReadKeys`, `DeleteKeys` are the cleaner. `got` and `since` are history
variables of a socket: what was emitted to it, and the time from which its answered syncs
promise everything (the lower end of the range, or the cleaner's threshold if later).
`MailRestart` is a kill; a sync for a room that is no public key has the same effect, because the
callback reads `messages.length` after an error. A socket has one sync under way, where the code lets it ask again
before the answer: a second range would only add to what is emitted. Times are numbers, where the keys are
strings; the two agree for times with as many digits, as those of one clock are.

### 2.9 CurrencyRates, TxInfo, AddressTotals, BlockList

`CurrencyRates`: a fetch is a request (`BeginFetch`), its answer (`Retrieve`, where the second of the
key is taken) and the batch (`StoreRates`); any number overlap. A rate is told apart by the second
the source quoted it in. Seconds are numbers here too (see 2.8). `TxInfo`: transactions are stored (`KeepTx`, one batch) while
`_fillOutpoints` looks up the inputs of one, each in two steps (`GetOut`, `GetSpents`) and in any
order. `AddressTotals`: one pass over any list of outputs that agrees with itself;
`AddTxItem` is one call of `_addTxItem`, and the properties compare the sums so far with their
definitions. `BlockList`: a reader goes from page to page by `moreTs` while blocks are indexed; `due`
is the history of what the list had all the time.

### 2.10 MCServices

These six share no state with each other or with the synchronisers. `part` says which of them runs
in a behaviour; the product of all would only multiply their states.

## 3. What TLC checks

`Known` names the blocks of a run, taken from this tree (`MCTree`); `a3` and `b2` hold the same
transaction:

```
              c3
             /
 g - a1 -- a2 - a3 - a4
      |\
      | b2 - b3 - b4
       \
        d2
```

### 3.1 Runs that pass

| run | instance | properties | distinct states |
|---|---|---|---|
| `reorg` | 9 blocks g a1-a4 b2-b4 d2, one Sync, reorganisations allowed | `SyncTypeOK`, `MainChainAtRest`, `TxIndexOnlyBest`, `UnsharedTxIndexed`, `StoreReturns`, `ImplementsIndex` | 2,275 |
| `crash` | 6 blocks g a1-a3 b2 b3, one Sync, calls that wait for its lock, RPC failures, kills | `NextIsChild`, `HeightIsDepth`, `TipIsComplete`, `TxIndexAgrees` | 951,004 |
| `follow` | all 10 blocks, the whole program, new blocks and restarts when it rests | `CaughtUp`, `Follows` | 2,137 |
| `faults` | 5 blocks g a1 a2 b2 b3, the whole program, RPC failures, kills, new blocks at any moment | `InsightTypeOK`, `HistoricIsAlone`, `TxIndexAgrees`, `NextIsChild`, `SyncEnds` | 361,525 |
| `files` | 6 blocks g a1-a4 b2, two files at the start that end on a branch which will be left, up to 3 files, kills, new blocks at any moment | `FileTypeOK`, `FilesStored`, `ParentsFirst`, `FileSyncEnds` | 302,048 |
| `cache` | 5 blocks g a1 a2 b2 b3, an output of a1 spent in a2 or in b2, two requests, all transactions but the one in a2 may be announced before they are in a block, `Safe` 2 | `CacheTypeOK`, `CachedIsBuried`, `CacheAgrees` | 1,427,355 |
| `services` | email store: two requests at a time, 2 passphrases, 2 keys, limits 1 and 2, mails that fail, kills; messages: one client, one key and another room, 3 microseconds, of which the cleaner deletes what came in the first; rates: two fetches, 4 seconds; list: 2 blocks, 4 seconds; inputs: 5 transactions, three of which spend one output; sums: up to 3 outputs of 2 transactions | `EmailTypeOK`, `PendingIsMailed`, `CountCovers`, `WholeProfile`, `MailTypeOK`, `NothingMissed`, `KeptUntilOld`, `QuotesInOrder`, `PastIsSettled`, `PagesCover`, `PagesAdvance`, `FeesAreRight`, `RivalIsTold`, `SumsAreRight`, `EachTxOnce` | 1,001,037 |

What they show:

* `reorg`: every order in which one Sync object can be given new blocks of three branches, Case 0, 1
  and 2 included, ends in a main chain that is the tip's branch with its transactions indexed,
  and every write on the way is a step of `ChainIndex`. The tree has a fork off a fork (from a1
  three branches) and branches long enough for walks of three blocks, so a branch is left,
  extended off the main chain and connected again, and every call returns. `c3` is not in it: with a second child of a2,
  the finding `fork` (below) shows at once.
* `crash`: what a reader or a restarted process may rely on in *every* reachable index, whichever
  write was the last, and with calls that were made when the lock was taken and find another index
  when their timer fires. (Two objects that interleave write by write are in `faults`, and the
  proofs of section 4 are for any number of them.)
* `follow`: from any best block, and for every growth of the tree by one or more blocks on any
  branch, with any number of restarts, the tip becomes bitcoind's best block and the main chain
  its branch.
* `faults`: the same program with faults and new blocks at any step. It need not catch up (section
  3.2), but its historic sync is alone and ends, and the index still agrees with itself.
* `cache`: two requests interleave at every operation with each other and with a synchroniser that
  changes between two branches by either case of a reorganisation. What they cache stays true, and
  at any moment a request with the cache would get the answer of one without it.
* `files`: wherever the process is killed between a block's reading, the saving of the file's number
  and the storing, and although bitcoind appends blocks and starts files meanwhile, a sync from
  files that finishes has stored bitcoind's branch as it was when the files were listed, and none
  goes on for ever. The first two are claimed as long as nothing that came from elsewhere left blocks of the
  files out (`skipped`); section 3.2 tells how this happens. A sync may end without having found its starting block (see 3.2).
* `services`, email: with two requests about one address interleaved at every operation, no request
  running and none killed, an address never waits for a secret that was not mailed. Messages: a
  client that subscribes before it syncs is sent everything from the cleaner's threshold on, and the cleaner, which
  does delete here, deletes old ones only, also when others were stored since it chose. Rates: with fetches that do not
  cross, quotes are in order; and whatever crosses, a past second keeps its rate. Inputs: fees
  are right or missing, and of two spenders the later one (by id) learns of the other. Sums: on
  every small list of outputs, in every order, they are their definitions. List: pages leave no gap.

### 3.2 Runs that show a violation

Each states what a comment, a document or a test of the repository says, and TLC finds the code to
do otherwise.

| run | property | what the code does |
|---|---|---|
| `fork` | `MainChainAtRest` | A branch connected again by Case 2 keeps the next pointers it had. The chain is g-a1-a2-a3; c3 takes a3's place, b2 takes over, and a4 brings a2 and a3 back: a2's next is still c3, which is off the main chain. |
| `shared_tx` | `TxIndexComplete` | Case 2 writes the entries of the new branch and then deletes those of the old one, by transaction id: a transaction in both loses its entry. The test of case 2c expects it to have one. |
| `window` | `CaughtUp` | A block relayed between the historic sync's last `getBlock` and the callback that sets `allowReorgs` is stored with height -1 and never becomes the tip; the program rests one block behind until the next block comes. |
| `interrupt` | `SafelyInterrupted` | A sync killed between `setTip` and `setNext` resumes by storing the tip again; Case 2 then takes blocks of the tip's own branch off the main chain. |
| `resync` | `Resynced` | After a sync from files, one that is forced to RPC reads the finished files instead, and finishes: the branch of the block that caused it is not stored. |

Further disagreements that were met and have no run of their own, because the properties above
already show what follows from them: a block stored with `allowReorgs` FALSE gets entries
`hash:-1` in the transaction index although `BlockDb.js:10` says "ONLY FOR BEST BRANCH CHAIN"; the
same block is stored at all, although the comment at `Sync.js:74` says such blocks are
ignored; an error of `prepareToSync` never reaches insight.js's callback
(`HistoricSync.js:389`), so reorganisations stay forbidden until a restart; when a stored block other
than the tip is stored again (`Resend`), since the check for that is commented out
(`Sync.js:102-109`), the tip goes back and `MainChainAtRest` fails, though heights stay right; they do not when
blocks were stored without their parent (`allowReorgs` FALSE). A `getTip` that an HTTP request has in
flight while `cachedTip` is empty may overwrite it with the tip before the one that was stored
meanwhile (`BlockDb.js:164`); the next block is then taken for a reorganisation and the tip's own
block leaves the main chain. An output that is cached as confirmed never gets its spending cached
(`TransactionDb.js:355`: `confirmations` is undefined then), although the comment at line 358 and the
caching schema of the README.md expect it; answers stay right, they only cost the lookup.

With the block after Genesis as tip, a restart stores it again; `processReorg` asks for the height of
Genesis, gets 0, takes it for a missing block, and throws (`Sync.js:191`; `NoException` of
`InsightSync` states it).

In file mode: while the first sync runs `allowReorgs` is FALSE, so a block is stored though its parent was never
relayed (`Sync.js:111`). When the next one on it is relayed after the sync, it becomes the tip by Case 2, whose walk
back ends at the missing parent. The program is started again, seeks that tip in the files, goes on behind it and
is finished: the missing block is in a file and is never stored, although `README.md:109` promises that a restart
brings the rest. TLC finds this in `files` when `~skipped` is dropped from `FilesStored` (with a3 relayed without
a2, then a4). A block of a file that bitcoind does not serve in time (`storeTipBlock` asks it for the
transactions) ends the sync (`HistoricSync.js:420`), and the reader stays behind that block; the sync that the next
block without a parent starts goes on from there and is finished without the block. TLC refutes `FilesStored`
when `RpcFault = TRUE` is put into `files`, so it is claimed for FALSE. A process that is killed when it has saved the number of a file and not yet stored a
block of it seeks its tip from a file behind the tip's own, does not find it, and ends its sync
with "Could not find block" at every start; so does one whose branch point after a reorganisation
during downtime lies in an earlier file than the saved one. A sync from files ends with the last block
of the last file, which may be of a stale branch, as tip.

In the plugins and controllers:

* A client that resumes with the greatest time it has seen can miss a message whose put was slower than
  that of a later one; times are compared as strings, so a `ts` with fewer digits cuts the range
  (`MessageDb.js:111`). A sync for a room that is no public key ends the process (`mailbox.js:29`).
* Fetches that cross store the older quote as the newer (`currencyrates.js:87`). `getRate` answers twice
  after an error (`:190`), `getTransaction` not at all for an unknown transaction
  (`transactions.js:72`).
* `multipleSpentAttempt` (`TransactionDb.js:207`) lacks an s, so the first of several spenders is never told
  of the others; `unconfirmedInput` is assigned to itself (`:201`).
* A spender of an unconfirmed output is marked as seen without being counted, so
  `unconfirmedTxApperances` depends on the order of the outputs (`Address.js:120`).
* `multiutxo` and `multitxs` call back twice after an error (`addresses.js:86`, `:153`), and the pages of
  `multitxs` are sorted by a time that depends on which address was read first (`:106`).
* `blockList.pop` is no call (`blocks.js:129`), so a page has one block more than its limit, which is on the
  next page too. A relayed block has no time and is indexed under that of its arrival, and again under
  its own when it is stored from bitcoind's answer (`BlockDb.js:54`).

### 3.3 Bounds

| bound | meaning | why it is enough |
|---|---|---|
| `Known` | the blocks that exist | each run has the branches and lengths its question needs, see above; `HeightIsDepth`, `TipIsComplete`, `NextIsChild`, `TxIndexAgrees` and the properties of the cache are proved for every tree, those at rest for every tree with one fork |
| `MaxDelayed` | calls waiting for one lock | a second waiting call adds only an order that `Retry` chooses freely; 2 in `crash`; 0 in `reorg`, because a delayed call may store a block that was stored meanwhile, which `ChainIndex` does not allow |
| `MaxWire` | announcements under way | 1: with more, an older announcement arrives late, which `delayed` shows too |
| `Drift` | 6 in the code | 6 in `follow`; 0 in `faults`, so that `process.exit` is reached |
| `MaxSecret` | secrets told apart | more than requests plus the stored one are never held |
| `Slot`, `Clients` | requests at one time | two: the properties relate a request to one other |
| `Safe` | 6 in the code | 2: the least with which a reorganisation can be shallow |
| `Times` | times of an entry | one: what a second key shows is a key that is put anew |
| `FirstDisks`, `MaxFiles` | bitcoind's files at the first start, and how many they may become | in `files` one state, two files on a branch that will be left, since any other arises from a kill (the proofs are for all); in `resync` three; three files give a saved number in the middle |
| `Threshold`, `MaxClock` | the cleaner's threshold; when time ends | 1 and 3: a message of the first microsecond can be put, announced, listed, become old and be deleted, before, between and after the steps of a sync, while another is stored (with 2 the cleaner's limit would reach no message) |
| `MaxSecond` | when time ends, in `CurrencyRates` | 4: two fetches at different seconds, with their answers in later ones |
| `LastSecond`, `Limits` | seconds of a day; limits of a page | 4 and {1, 2}: up to three pages |
| `MaxSat`, `MaxItems` | values and outputs of an address | sums are linear in the values; with three outputs two transactions meet in both roles and in every order |
| `Announced` | transactions bitcoind announces before they are in a block | the output and one spending; the other is seen in its block only |

`CHECK_DEADLOCK FALSE` is set in the runs of `Sync`, `InsightSync`, `FileSync` and `AddressCache`, where the system may stop: an
exception without a handler ends the process, and an instance's blocks come to an end. `services` checks
deadlock.

### 3.4 Fairness

`FairSpec` of `Sync` is weak fairness of the steps of a call that has the lock: LevelDB and bitcoind
answer every request, with a result or an error. `FairInsightSpec` is weak fairness of each
synchroniser's own steps, timers of delayed calls included: node runs every callback and timer
that is due. `FairFileSpec` is the same with the steps that read files, which are synchronous
reads and puts of LevelDB. Nothing is assumed of bitcoind's new blocks, of kills or of restarts, and nothing of the
order in which timers and new calls get the lock: a delayed call may be overtaken for ever, and no
property says otherwise. `SyncEnds` is conditional on restarts coming to an end; `Follows` allows
for another best block or the end of the process.

Every property has a mutant in the module of the code it is about (`... Mutant:` in the
comments): a definition as a plausible slip would have it, with which TLC finds the property
violated. They are not used by the specifications.

## 4. What is proved

| theorem | says | for |
|---|---|---|
| `TypeCorrect` | `Spec => []SyncTypeOK` | every tree, any number of Sync objects, any mix of `allowReorgs`, `Resend`, kills, RPC failures |
| `NextPointers` | `Spec => []NextIsChild` | the same |
| `TransactionIndex` | `Spec => []TxIndexAgrees` | the same |
| `HeightsAreDepths` | `Spec => []HeightIsDepth` | `Modes = {TRUE}`; the rest as above, `Resend` included |
| `DurableTip` | `Spec => []TipIsComplete` | the same |
| `EmailTypes` | `Spec => []EmailTypeOK` of `EmailStore` | any number of requests at one time, any limits, passphrases and keys; mails that fail, kills |
| `SecretsAreMailed` | `Spec => []PendingIsMailed` | the same |
| `OneHistoricSync` | `InsightSpec => []HistoricIsAlone` | every tree; new blocks, RPC failures, kills and restarts at any step |
| `WholeProgramTypes` | `InsightSpec => []InsightTypeOK` | the same |
| `WholeProgramTxIndex` | `InsightSpec => []TxIndexAgrees` | the same |
| `WholeProgramNextPointers` | `InsightSpec => []NextIsChild` | the same |
| `FilesTypes` | `FileSpec => []FileTypeOK` | every tree, any files, any number of them; RPC failures, kills, new blocks at any step |
| `FilesAreStored` | `FileSpec => []FilesStored` | the same with `RpcFault = FALSE` and `OneSecond` |
| `ParentsComeFirst` | `FileSpec => []ParentsFirst` | the same |
| `CounterCovers` | `Spec => []CountCovers` of `EmailStore` | any number of slots (requests that meet set `tangled`), any keys, passphrases and limits; failures and kills |
| `ProfilesAreWhole` | `Spec => []WholeProfile` | the same |
| `NoMessageMissed` | `MailSpec => []NothingMissed` | any number of clients, keys, messages; any threshold |
| `MailTypes` | `MailSpec => []MailTypeOK` | the same |
| `OnlyOldRemoved` | `MailSpec => KeptUntilOld`, an action property | the same |
| `OrderedQuotes` | `RateSpec => []QuotesInOrder` | any number of fetches at one time, any number of seconds |
| `SettledPast` | `RateSpec => PastIsSettled`, an action property | the same |
| `NoGap` | `ListSpec => []PagesCover` | any blocks, any number of seconds, any limits |
| `PagesGoBack` | `ListSpec => PagesAdvance`, an action property | the same |
| `RivalsAreTold` | `TxInfoSpec => []RivalIsTold` | any transactions, inputs and values; what is stored between the lookups |
| `RightFees` | `TxInfoSpec => []FeesAreRight` | the same |
| `RightSums` | `TotalsSpec => []SumsAreRight` | any number of outputs and transactions, any values, any order |
| `EveryTxOnce` | `TotalsSpec => []EachTxOnce` | the same |
| `CacheTypes` | `CacheSpec => []CacheTypeOK` | every tree, any number of Sync objects and requests; kills, RPC failures; `Modes = {TRUE}` |
| `CachedForGood` | `CacheSpec => []CachedIsBuried` | the same, with `NotShared` |
| `CacheIsTransparent` | `CacheSpec => []CacheAgrees` | the same |
| `RestingChain` | `Spec /\ []ForksStay => []MainChainAtRest` | every tree; `OneObject` |
| `RestingEntries` | `Spec /\ []ForksStay => []TxIndexOnlyBest` | the same |
| `RestingTransactions` | `Spec /\ []ForksStay => []UnsharedTxIndexed` | the same |
| `IndexImplemented` | `Spec /\ []ForksStay => ImplementsIndex`, a refinement | the same |
| `OneForkIndex` | the four before, from `Spec` alone | every tree in which at most one block has several children; `OneObject` |

Assumptions: those on the constants, which TLC evaluates in every run (`Names`, `BlockTree`,
`Branches`, `Transactions`, `SyncConstants`, `InsightConstants`, `FileConstants`, `CacheConstants`, `EmailConstants`,
`MailConstants`, `RateConstants`, `ListConstants`, `TxInfoConstants`, `TotalsConstants`), and those that
a theorem states: `Modes = {TRUE}`, `NotShared`, `OneObject`, `OneFork`, `RpcFault = FALSE`, `OneSecond`, and `[]ForksStay` of the behaviour.
Each of these is met by a run: `Modes` by `crash` and `reorg`, `NotShared` by `cache`, `OneObject` and `OneFork`
by `reorg`, `RpcFault = FALSE` and `OneSecond` by `files`.

`SyncProofs`. None of the first three properties is inductive: whether `setNext` writes a child, and
whether `setTip` writes a block, depends on what the closures hold. The inductive invariant is
`Inv == SyncTypeOK /\ Shape /\ PrevIsParent /\ NextIsChild /\ TxOwned`. `Shape` says what a
frame holds at every `pc`: at the backward walk `iter` is the parent of `last`, or `Null` once the
walk has left the tree, and the first element of `branch` is the block whose parent is read. That is
what makes the late `setNext(yHash, lastHash)` write a child. `PrevIsParent` says the `bpr-`
keys hold parents or nothing, also those of `Zero` and `Null`. `TxOwned` strengthens
`TxIndexAgrees` by the entry's block being a real one. The proof has one lemma per kind of control
step (`GotoCalls`, `ReturnCalls`, `StartAddCalls`, ...), then one step per action.

`SyncHeightProofs`. A height put by `addBlock` was computed several steps earlier from a tip, from
`getHeight(newPrev)` or from the block under a walk, and other objects write in between. The
invariant is `HInv == Inv /\ IndexOK /\ Placed /\ Waiting`. `Placed` carries the heights: in every
frame, `height` is the depth of the block it is meant for, and the `branch` of a backward walk is a
path from parent to child through stored blocks (`PathOf`, with lemmas for its first element, its
extension and its tail). `IndexOK` says of the database that heights are right, a stored block has
all its ancestors and its transactions (which holds because `addMany`'s batch precedes the
block's), next pointers lead to stored blocks, and both tips name a stored block with its depth.
`Waiting` says that only Genesis waits for the lock of an empty index (or a block could be stored
without a parent when its turn comes).

`EmailProofs`. `PendingIsMailed` says nothing while a request runs, so it is not inductive. The
invariant is `EInv == EmailTypeOK /\ Holds /\ Settled`. `Settled` says who answers for the secret in
the database at any moment: it was mailed, or a request of `save` is about to mail it (and will
roll back if that fails), or a request is deleting the profile and has the secret still to
delete, or the process was killed. `Holds` says what a request carries at each of its points: only
`save` creates secrets, so only the rollback of `save` is needed. That a new secret exists
(`FreshSecret`) is a counting argument: there are more secrets than requests. One lemma per group of
operations shows that a step keeps `EInv`; those that settle nothing share the lemma `Advance`.

Its second half is about requests that come one at a time. `CounterCovers` and `ProfilesAreWhole` speak of requests that do not meet, so the invariant is
`SInv == EInv /\ (~tangled => Alone) /\ CountInv /\ ProfileInv`, where `Alone` says that at most one request
runs. `CountOf` says what that request owes the counter: one that erases has deleted its item and
writes a counter no smaller than what is left; one that saves writes the counter with room for its
item before it puts the item. Hence a kill between the two leaves the counter too great and never
too small. `ProfileOf` says what the request knows of the profile at each point, and of a deletion of the
whole profile which keys are gone already (`left`): its three deletions end in any order.
Of requests that met (`tangled`) the two properties say nothing.

`InsightProofs`. The steps of `Sync` are taken over from `SyncProofs`, with one lemma per kind of
control step that says what it does to the locks (a step of one object leaves the other's alone, a
return frees its own). `AppInv` is `Inv` of `SyncProofs` with `HistOK` and `HistoricIsAlone`. `RunningIsShown` says
that a sync that runs has a status by which `start()` sees it, so PeerSync cannot start a second one;
hence the only call of the historic object is that of its own loop, which waits for the
callback. `WalkOK` says that the block which `updateStartBlock` is about to take off the main chain is
a block. That the walk does not pass Genesis needs that Genesis is on bitcoind's branch, whatever its
best block is: `GenesisInBranch`, which the assumptions on `Branch` do not state; it is
proved by taking a block of least depth whose branch lacks Genesis.

Its second part is about the syncs from files. `FilesStored` is about the end of a sync, so what it needs is
what holds at every moment of one, of processes that were killed, and of blocks that PeerSync stores in
between. The invariant is `OrderInv`, in these parts; those
from `TipInOrder` on are claimed as long as `skipped` is FALSE:

* `BaseInv`: `AppInv` with `FileTypeOK`, `IsDisk(disk)` and that bitcoind's best block is in its files and of
  greatest height there. `Write` keeps it (`WriteFiles`, `DiskGrows`): files only grow, at the end
  of the last one or by another, so every block keeps its place (`PlaceKept`).
* `PermitOK`: when `allowReorgs` may be TRUE, and which calls have it; a call that was made while it was
  FALSE makes no tip.
* `TipInOrder`: what lies in the files before the tip is stored. `SavedOK`: so is what lies before the saved
  file, or the tip is in a file before that one. The number is put before any block of its file is stored, and a
  process killed in between leaves a tip that the seek will not find: that sync stores nothing and never is
  finished.
* `StartFound`: the block to seek is on the branch of the stored tip, so what is before it is stored as
  well: a block is behind its parent in the files, hence behind its whole branch (`BranchBehind`).
* `ReadingOK`: of the reader, that what it has left out of its file is what is in the buffer (`RestIs`) or,
  when bitcoind has appended meanwhile, no block of `goal`; and, once the starting block is found, that all
  before its place is stored up to the block in hand (`ReadUpTo`). While it still seeks nothing of the kind holds,
  so the step that finds the block has to give it: this is where `StartFound` and `TipInOrder` meet.

A new tip of `PeerSync` is the one thing that would break `TipInOrder`; that is what `skipped` notes, and section 3.2
tells how it occurs. `OneSecond` (one block has Genesis as its parent, as in every chain of
bitcoind's networks) is needed because a walk back that ends at Genesis makes `prepareFileSync` leave out the seek,
although it opens the saved file and not the first one. `RpcFault = FALSE` is needed for the reason given in
section 3.2. `FilesTypes` needs neither.

`MailboxProofs`. `NothingMissed` speaks of clients whose sync is answered; a sync under way has listed
only a part. The invariant says for a client that reads (`Reading`) that what it was not sent is within
the range it is about to list, and for one that emits (`Emitting`) that it is in the list, was
announced to it or is old. For this the rest is needed: `Kept` (what may be announced is stored unless
it is old), `Settled` (nothing stored is still to be put), `Past` (no message is from the future),
`CleanerOK` (the keys to delete are old), `Rooms` (a client has joined what it asks for before it asks).

`ServiceProofs` has four parts, one per module. They share lemmas on sums over finite sets
(`SumFunctionOnSet` of the community modules is a recursive fold: that it exists and that one element more
adds its value is proved by induction through sets, since the library's induction theorems take
an operator), and on least and greatest elements.

* Rates. `OneByOne` strengthens `QuotesInOrder`: as long as no two fetches have crossed, the one that
  runs began after every stored key and its quote is no older than that beginning. `SettledPast`
  needs only that a batch writes one key (`SettledStep`). The last key up to a second exists by a
  least-element argument (`GreatestSecond`, `LastKey`).
* List of blocks. `ListInv` adds to `PagesCover` that what the reader is still due is in the list
  under the second at which he is due it: later puts go to other seconds. `PageIsLast` says what a page is: the
  last seconds up to its bound, hence what it leaves out is before its least.
* Transaction detail. `TxInv` says of each input where its lookups are, that a value found is the
  output's and was found if its transaction was stored before the request, and of the answer so far
  that it is incomplete or its sum is over the inputs that are done.
* Sums of an address. `TotalsInv` says after `n` outputs that the sums are those over the first `n`,
  although `update` adds by four rules in one pass: `balance + unconfirmed` is what is unspent and what comes in
  transactions that are not confirmed and is spent again. Of the list: it has no transaction twice, because
  its length is the number of transactions seen.

`CacheProofs`. A request caches an output as confirmed when it counted `safeConfirmations` blocks, from an
entry, a height and a tip that it read at three times. The invariant is
`CacheInv == HInv /\ TxKnown /\ TopOK /\ EntryOK /\ RequestsOK` over the invariant of `SyncHeightProofs`.
`TopOK` introduces what none of the three reads knows: the greatest height `top` that a tip ever had.
`RequestsOK` says that a count of confirmations that reaches the threshold means a transaction buried under `top`,
from the read on; `EntryOK` says it of what is cached. That a buried transaction stays buried is the one
difficult step: its block is off the main chain only in a reorganisation as
deep as `safeConfirmations`, which the history variable `deep` excludes, or when its entry is that of another block
with the same transaction, which `NotShared` excludes. The latter is needed: the run
`shared_tx` shows `setBlockNotMain` deleting such an entry.

`SyncRestProofs`. The properties at rest are not inductive at all: nearly every step of a reorganisation
breaks them. The invariant is `RestInv == HInv /\ Phases /\ NoneWaits /\ EntriesOnMain /\ UnsharedOnMain`.
`Phases` says, for every `pc`, what the main chain is then (`ChainOf`): the tip's branch up to the
first write; with it the blocks of the new branch connected so far; the new branch with what of the old one is not
yet orphaned; and, from the batch of `addBlock` on, the branch of the new block. `OpenOf` and
`EndOf` say what holds besides before and after: no stored block is a child of the tip, every
stored block but the one just added is linked from its parent. The lemmas on trees
(`BranchDepth`, `DepthOfChild`, ...) are induction on the depth through least elements. One lemma per step of
`storeTipBlock` shows that it keeps its phase; the transaction index follows the main chain by
`TxsFollow`, without another look at the tree.

The walk back along the new branch stops at a block whose height is not -1 and takes it for one of
the tip's branch. It is one only if the blocks with several stored children are on the main chain
(`ForksStay`): this is used at one place of the proof, and where it fails the finding `fork` begins. Since
it is a condition on the behaviour, `OneForkStays` shows that it is met on every tree where at most one
block has several children; such is that of the run `reorg`. The tree of `fork` has two such blocks, so no
weaker bound on their number would do.

`IndexImplemented` is the refinement, with `BestNow`, `BusyNow` and the main chain as mapping: the call is
`Begin`, a call that ends without a parent is `Refuse`, connecting or orphaning one block is `Rearrange`, the batch
of the block is `Finish`, and every other step stutters. Those that take a block in or off show
that the new main chain lies between the intersection and the union of the two branches.

Left to TLC:

* Liveness (`StoreReturns`, `Follows`, `SyncEnds`, `FileSyncEnds`), which this prover has no means for.
* `CaughtUp` of `InsightSync`, which is about rest in a whole program in which both synchronisers
  store the same blocks, one of them with `allowReorgs` FALSE for a time: neither the heights of
  `SyncHeightProofs` nor the phases of `SyncRestProofs` hold there for every tree.

One definition of a model is parenthesised for the provers' sake: `Touching` of `AddressTotals`, because SANY and
tlapm read `UNION S \ T` differently.

## 5. What is not modelled

* Failures of LevelDB itself, and the logging and formatting of results.
* The options `startAt`, `stopAt` and `forceStartFile` of `util/sync.js`, `checkDBVersion2` and the
  migrations. The parsing of the files: a block is what `getNextBlock` returns.
* In `BlockDb`, `blockIndex`; in `TransactionDb`, what `_fillSpent` adds to outputs, `removeFromTxId` (which
  nothing calls) and the migration; the requests for several addresses. A
  transaction that bitcoind does not serve with code -5 (the coinbase of Genesis) is skipped by the
  code; the model has that one as `GenesisTx`.
* The broadcasts of blocks, transactions and progress, the HTTP answers, `retrieve` of the email store (it
  only reads), the one rate in the memory of `controllers/currency.js`.
* `credentialstore` and `publicInfo`: one put or get per request, which nothing can come between.
* `examples/bitcore.js`, a library bundled for browsers, which is most of the lines of the repository
  and no part of the program.

## 6. Plan

1. *Done:* the modules of section 2 and the theorems of section 4.
2. Proofs: `RestInv` for several calls that wait for the lock, whose blocks may have been stored meanwhile; then
   `CaughtUp` of a program in which the two synchronisers' calls do not meet.
3. The requests for several addresses (`multitxs`), whose pages depend on the order of the answers.
