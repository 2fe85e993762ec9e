------------------------------ MODULE BlockList ------------------------------
(***************************************************************************)
(* The list of the blocks of a day (list of app/controllers/blocks.js over *)
(* getBlocksByDate of lib/BlockDb.js), page by page, while blocks are      *)
(* indexed.  bts-<second> names a block; one with the time of another      *)
(* takes its key.  A reader goes on with the second moreTs of a page as    *)
(* long as it says more.                                                   *)
(***************************************************************************)
EXTENDS Integers, FiniteSetsExt

CONSTANTS
    Indexed,    \* blocks
    Nobody,     \* no block
    LastSecond, \* seconds of the day are told apart up to this (a bound)
    Limits      \* the limits that a reader may ask for

ASSUME ListConstants ==
    /\ Nobody \notin Indexed
    /\ LastSecond \in Nat
    /\ Limits \subseteq Nat \ {0}

VARIABLES
    byTime, \* bts-
    reader  \* the one who reads the list

listVars == <<byTime, reader>>

Seconds == 1..LastSecond

\* limit, lte: of the next page;  more: is there one?
\* shown: the seconds and blocks it was shown
\* due:   those that the list had when it began and has had ever since (history)
Entries == Seconds \X Indexed

Reader == [at : {"away", "pages"}, limit : Limits \cup {0}, lte : 0..LastSecond, more : BOOLEAN,
           shown : SUBSET Entries, due : SUBSET Entries]

NoReader == [at |-> "away", limit |-> 0, lte |-> 0, more |-> FALSE, shown |-> {}, due |-> {}]

ListInit ==
    /\ byTime \in [Seconds -> Indexed \cup {Nobody}]
    /\ reader = NoReader

\* _addBlockScript: the second of the block, or, for a block that was relayed, that in
\* which it is stored.
IndexBlock(b, ts) ==
    /\ byTime' = [byTime EXCEPT ![ts] = b]
    /\ reader' = [reader EXCEPT !.due = {x \in @ : x[1] # ts \/ x[2] = b}]

Keys(lte) == {ts \in 1..lte : byTime[ts] # Nobody}

\* Mutant: the stream is not reversed.
BlocksByDateOldest(lte, n) ==
    {ts \in Keys(lte) : Cardinality({u \in Keys(lte) : u < ts}) < n}

\* getBlocksByDate: the last n seconds of the range that have a block.
BlocksByDate(lte, n) == {ts \in Keys(lte) : Cardinality({u \in Keys(lte) : u > ts}) < n}

BeginList(limit, lte) ==
    /\ reader.at = "away"
    /\ reader' = [NoReader EXCEPT !.at = "pages", !.limit = limit, !.lte = lte, !.more = TRUE,
                                  !.due = {<<ts, byTime[ts]>> : ts \in Keys(lte)}]
    /\ UNCHANGED byTime

\* Mutant: no block more than the limit is asked for.
PageTight ==
    /\ reader.at = "pages"
    /\ reader.more
    /\ LET page == BlocksByDate(reader.lte, reader.limit)
       IN  reader' = [reader EXCEPT
                        !.shown = @ \cup {<<ts, byTime[ts]>> : ts \in page},
                        !.more = Cardinality(page) = reader.limit,
                        !.lte = IF page = {} THEN @ ELSE Min(page)]
    /\ UNCHANGED byTime

\* list: one block more than the limit is asked for, and shown as well, since
\* blockList.pop is not called.
Page ==
    /\ reader.at = "pages"
    /\ reader.more
    /\ LET page == BlocksByDate(reader.lte, reader.limit + 1)
       IN  reader' = [reader EXCEPT
                        !.shown = @ \cup {<<ts, byTime[ts]>> : ts \in page},
                        !.more = Cardinality(page) = reader.limit + 1,
                        !.lte = IF page = {} THEN @ ELSE Min(page)]
    /\ UNCHANGED byTime

EndList ==
    /\ reader.at = "pages"
    /\ reader' = NoReader
    /\ UNCHANGED byTime

ListNext ==
    \/ \E b \in Indexed, ts \in Seconds : IndexBlock(b, ts)
    \/ \E limit \in Limits, lte \in Seconds : BeginList(limit, lte)
    \/ Page \/ EndList

ListSpec == ListInit /\ [][ListNext]_listVars

-----------------------------------------------------------------------------
(* Properties *)

\* A reader that has come to the end of the list has been shown every block that was in
\* it when it began, and one that has not, all of those behind its page: the
\* pages leave no gap, although blocks are indexed between them.  (A block whose
\* second another one took meanwhile is no longer in the list.)
PagesCover ==
    \A x \in reader.due : x[1] > reader.lte \/ ~reader.more => x \in reader.shown

\* A page that says there is more leads to an earlier second, so a reader comes to an
\* end of the list.
PagesAdvance ==
    [][Page /\ reader'.more => reader'.lte < reader.lte]_listVars
=============================================================================
