---------------------------- MODULE EmailProofs ----------------------------
(***************************************************************************)
(* Theorems about EmailStore that hold for any limits, passphrases and     *)
(* keys, with mails that fail and a process that is killed: of any number  *)
(* of requests at one time its types and that an address never waits for a *)
(* secret that was not mailed; of requests that come one at a time that    *)
(* the counter covers the items and no profile is left in half.            *)
(***************************************************************************)
EXTENDS EmailStore, FiniteSetTheorems, TLAPS

-----------------------------------------------------------------------------
(* The inductive invariant *)

\* What a request holds at each of its points.
HoldsOf(r) ==
    /\ r.pc \in {"exists", "check", "savePass"} => r.pass \in Pass
    /\ r.pc \in {"exists", "check", "savePass", "confirmed", "item", "putItem"} =>
          r.op = "save" /\ r.key \in Key
    /\ r.pc \in {"counter", "putCounter"} /\ r.op = "save" => r.key \in Key
    /\ r.pc \in {"getPending", "putPending"} => r.op = "save"
    /\ r.pc = "delItem" => r.op = "erase"
    /\ r.pc \in {"putPending", "mail"} => r.secret \in Secret
    /\ r.pc = "auth" =>
          /\ r.pass \in Pass
          /\ r.op \in {"erase", "eraseProfile", "resend", "changePassphrase"}

Holds == \A s \in Slot : HoldsOf(req[s])

\* Request r is yet to mail secret c, or to delete it.
Settles(r, c) ==
    \/ r.pc = "mail" /\ r.op = "save" /\ r.secret = c
    \/ r.pc = "delete" /\ "pending" \in r.left

Settled == killed \/ pending = None \/ pending \in mailed \/ \E s \in Slot : Settles(req[s], pending)

EInv == EmailTypeOK /\ Holds /\ Settled

-----------------------------------------------------------------------------
(* Secrets *)

\* There are more secrets than requests, so there is one that none holds.
LEMMA FreshSecret ==
    ASSUME EmailTypeOK, pending = None
    PROVE  NewSecret \in Secret
<1>. DEFINE held == {req[s].secret : s \in Slot}
            f == [s \in Slot |-> req[s].secret]
<1>1. IsFiniteSet(Slot) /\ MaxSecret \in Nat /\ MaxSecret > Cardinality(Slot)
  BY EmailConstants
<1>2. f \in Surjection(Slot, held)
  BY DEF Surjection
<1>3. IsFiniteSet(held) /\ Cardinality(held) <= Cardinality(Slot)
  BY <1>1, <1>2, FS_Surjection
<1>4. Cardinality(Secret) = MaxSecret
  BY <1>1, FS_Interval DEF Secret
<1>5. ~ (Secret \subseteq held)
  <2>1. SUFFICES ASSUME Secret \subseteq held PROVE FALSE
    OBVIOUS
  <2>2. Cardinality(Secret) <= Cardinality(held)
    BY <1>3, <2>1, FS_Subset
  <2>3. Cardinality(Slot) \in Nat /\ Cardinality(held) \in Nat
    BY <1>1, <1>3, FS_CardinalityType
  <2>. QED BY <1>1, <1>3, <1>4, <2>2, <2>3
<1>6. PICK c \in Secret : \A s \in Slot : req[s].secret # c
  BY <1>5
<1>7. c # None
  BY EmailConstants DEF Secret
<1>. QED BY <1>6, <1>7 DEF NewSecret

-----------------------------------------------------------------------------
(* Changes of one request *)

\* A request put in a slot is well formed there, and the others stay.
LEMMA PutRequest ==
    ASSUME EmailTypeOK, Holds, NEW s \in Slot, NEW r \in Requests, HoldsOf(r),
           req' = [req EXCEPT ![s] = r]
    PROVE  /\ req' \in [Slot -> Requests]
           /\ Holds'
           /\ req'[s] = r
           /\ \A q \in Slot \ {s} : req'[q] = req[q]
<1>1. req \in [Slot -> Requests]
  BY DEF EmailTypeOK
<1>2. /\ req' \in [Slot -> Requests]
      /\ req'[s] = r
      /\ \A q \in Slot \ {s} : req'[q] = req[q]
  BY <1>1
<1>3. ASSUME NEW q \in Slot PROVE HoldsOf(req'[q])
  BY <1>2 DEF Holds
<1>. QED BY <1>2, <1>3 DEF Holds

LEMMA FreeIsRequest == Free \in Requests /\ HoldsOf(Free)
  BY EmailConstants DEF Free, Requests, Points, Operations, Profile, HoldsOf

\* What a request that s holds settles is not settled by the others' steps.
LEMMA OthersSettle ==
    ASSUME NEW s \in Slot, NEW c, \E q \in Slot : Settles(req[q], c),
           ~Settles(req[s], c), \A q \in Slot \ {s} : req'[q] = req[q]
    PROVE  \E q \in Slot : Settles(req'[q], c)
  OBVIOUS

\* A step that settles nothing and leaves the secrets alone.
LEMMA Advance ==
    ASSUME EInv, NEW s \in Slot, NEW r \in Requests, HoldsOf(r),
           req' = [req EXCEPT ![s] = r],
           ~Settles(req[s], pending),
           UNCHANGED <<pending, mailed, killed>>,
           passphrase' \in Pass \cup {None}, items' \in SUBSET Key,
           count' \in 0..Confirmed, validated' \in BOOLEAN, tangled' \in BOOLEAN
    PROVE  EInv'
<1>1. EmailTypeOK /\ Holds /\ Settled
  BY DEF EInv
<1>2. /\ req' \in [Slot -> Requests]
      /\ Holds'
      /\ \A q \in Slot \ {s} : req'[q] = req[q]
  BY <1>1, PutRequest
<1>3. EmailTypeOK'
  BY <1>1, <1>2 DEF EmailTypeOK
<1>4. Settled'
  <2>1. CASE killed \/ pending = None \/ pending \in mailed
    BY <2>1 DEF Settled
  <2>2. CASE \E q \in Slot : Settles(req[q], pending)
    <3>1. \E q \in Slot : Settles(req'[q], pending)
      BY <1>2, <2>2, OthersSettle
    <3>. QED BY <3>1 DEF Settled
  <2>. QED BY <1>1, <2>1, <2>2 DEF Settled
<1>. QED BY <1>2, <1>3, <1>4 DEF EInv

\* What a request in slot s is known to be.
LEMMA RequestFacts ==
    ASSUME EInv, NEW s \in Slot
    PROVE  /\ req[s] \in Requests
           /\ HoldsOf(req[s])
           /\ req \in [Slot -> Requests]
           /\ req[s].pc \notin {"mail", "delete"} => ~Settles(req[s], pending)
  BY DEF EInv, EmailTypeOK, Holds, Settles

-----------------------------------------------------------------------------
(* The operations, one lemma for each *)

LEMMA ArriveKeeps ==
    ASSUME EInv, NEW s \in Slot, NEW r \in Requests, HoldsOf(r), Arrive(s, r)
    PROVE  EInv'
<1>1. ~Settles(req[s], pending)
  BY RequestFacts DEF Arrive, At
<1>2. EmailTypeOK
  BY DEF EInv
<1>3. /\ req' = [req EXCEPT ![s] = r]
      /\ UNCHANGED <<passphrase, items, count, validated, pending, mailed, killed>>
      /\ tangled' \in BOOLEAN
  BY DEF Arrive, db, Quiet
<1>. QED BY <1>1, <1>2, <1>3, Advance DEF EmailTypeOK

LEMMA RequestKeeps ==
    ASSUME EInv, NEW s \in Slot, Request(s)
    PROVE  EInv'
<1>1. CASE Save(s)
  <2>1. PICK p \in Pass, k \in Key :
           Arrive(s, [Free EXCEPT !.pc = "exists", !.op = "save", !.pass = p, !.key = k])
    BY <1>1 DEF Save
  <2>. DEFINE r == [Free EXCEPT !.pc = "exists", !.op = "save", !.pass = p, !.key = k]
  <2>2. r \in Requests /\ HoldsOf(r)
    BY FreeIsRequest DEF Free, Requests, Points, Operations, HoldsOf
  <2>. QED BY <2>1, <2>2, ArriveKeeps
<1>2. CASE Erase(s)
  <2>1. PICK p \in Pass, k \in Key :
           Arrive(s, [Free EXCEPT !.pc = "auth", !.op = "erase", !.pass = p, !.key = k])
    BY <1>2 DEF Erase
  <2>. DEFINE r == [Free EXCEPT !.pc = "auth", !.op = "erase", !.pass = p, !.key = k]
  <2>2. r \in Requests /\ HoldsOf(r)
    BY FreeIsRequest DEF Free, Requests, Points, Operations, HoldsOf
  <2>. QED BY <2>1, <2>2, ArriveKeeps
<1>3. CASE Authorized(s)
  <2>1. PICK p \in Pass, o \in {"eraseProfile", "resend", "changePassphrase"} :
           Arrive(s, [Free EXCEPT !.pc = "auth", !.op = o, !.pass = p])
    BY <1>3 DEF Authorized
  <2>. DEFINE r == [Free EXCEPT !.pc = "auth", !.op = o, !.pass = p]
  <2>2. r \in Requests /\ HoldsOf(r)
    BY FreeIsRequest DEF Free, Requests, Points, Operations, HoldsOf
  <2>. QED BY <2>1, <2>2, ArriveKeeps
<1>4. CASE Validate(s)
  <2>1. PICK c \in mailed \cup {0} :
           Arrive(s, [Free EXCEPT !.pc = "getPendingToValidate", !.op = "validate", !.secret = c])
    BY <1>4 DEF Validate
  <2>. DEFINE r == [Free EXCEPT !.pc = "getPendingToValidate", !.op = "validate", !.secret = c]
  <2>2. c \in 0..MaxSecret
    BY EmailConstants DEF EInv, EmailTypeOK, Secret
  <2>3. r \in Requests /\ HoldsOf(r)
    BY <2>2, FreeIsRequest DEF Free, Requests, Points, Operations, HoldsOf
  <2>. QED BY <2>1, <2>3, ArriveKeeps
<1>. QED BY <1>1, <1>2, <1>3, <1>4 DEF Request

\* Whatever its point, a request that neither mails nor deletes may end.
LEMMA EndKeeps ==
    ASSUME EInv, NEW s \in Slot, req[s].pc \notin {"mail", "delete"}, End(s),
           UNCHANGED <<pending, mailed, killed>>,
           passphrase' \in Pass \cup {None}, items' \in SUBSET Key,
           count' \in 0..Confirmed, validated' \in BOOLEAN, tangled' \in BOOLEAN
    PROVE  EInv'
  BY FreeIsRequest, RequestFacts, Advance DEF End

\* So may one that goes to another point with its fields as they are.
LEMMA GotoKeeps ==
    ASSUME EInv, NEW s \in Slot, NEW p \in Points, req[s].pc \notin {"mail", "delete"},
           Goto(s, p), HoldsOf([req[s] EXCEPT !.pc = p]),
           UNCHANGED <<pending, mailed, killed>>,
           passphrase' \in Pass \cup {None}, items' \in SUBSET Key,
           count' \in 0..Confirmed, validated' \in BOOLEAN, tangled' \in BOOLEAN
    PROVE  EInv'
<1>. DEFINE r == [req[s] EXCEPT !.pc = p]
<1>1. r \in Requests
  BY RequestFacts DEF Requests
<1>2. req' = [req EXCEPT ![s] = r]
  BY DEF Goto
<1>3. ~Settles(req[s], pending)
  BY RequestFacts
<1>. QED BY <1>1, <1>2, <1>3, Advance

\* The types of the database, and those of the next state when it stays.
LEMMA DatabaseFacts ==
    ASSUME EInv
    PROVE  /\ passphrase \in Pass \cup {None}
           /\ items \in SUBSET Key
           /\ count \in 0..Confirmed
           /\ pending \in Secret \cup {None}
           /\ validated \in BOOLEAN
           /\ tangled \in BOOLEAN
           /\ mailed \in SUBSET Secret
           /\ killed \in BOOLEAN
  BY DEF EInv, EmailTypeOK

\* processPost up to the counter.
LEMMA CheckingKeeps ==
    ASSUME EInv, NEW s \in Slot,
           Exists(s) \/ Check(s) \/ SavePass(s) \/ IsConfirmed(s) \/ CheckItem(s)
    PROVE  EInv'
<1>. DEFINE Put(r) == req' = [req EXCEPT ![s] = r]
<1>1. CASE Exists(s)
  <2>1. UNCHANGED <<passphrase, items, count, pending, validated, mailed, tangled, killed>>
    BY <1>1 DEF Exists, db
  <2>2. CASE passphrase # None
    <3>1. Goto(s, "check") /\ req[s].pc = "exists"
      BY <1>1, <2>2 DEF Exists, At
    <3>2. HoldsOf([req[s] EXCEPT !.pc = "check"])
      BY <3>1, RequestFacts DEF HoldsOf, Requests
    <3>. QED BY <2>1, <3>1, <3>2, DatabaseFacts, GotoKeeps DEF Points
  <2>3. CASE passphrase = None
    <3>. DEFINE r == [req[s] EXCEPT !.isNew = TRUE, !.pc = "savePass"]
    <3>1. Put(r) /\ req[s].pc = "exists"
      BY <1>1, <2>3, RequestFacts DEF Exists, At
    <3>2. r \in Requests /\ HoldsOf(r) /\ ~Settles(req[s], pending)
      BY <3>1, RequestFacts DEF HoldsOf, Requests, Points
    <3>. QED BY <2>1, <3>1, <3>2, DatabaseFacts, Advance
  <2>. QED BY <2>2, <2>3
<1>2. CASE Check(s)
  <2>1. /\ UNCHANGED <<passphrase, items, count, pending, validated, mailed, tangled, killed>>
        /\ req[s].pc = "check"
    BY <1>2 DEF Check, At, db
  <2>2. CASE End(s)
    BY <2>1, <2>2, DatabaseFacts, EndKeeps
  <2>3. CASE Accepted(s, "confirmed")
    <3>. DEFINE r == [req[s] EXCEPT !.pass = None, !.pc = "confirmed"]
    <3>1. Put(r)
      BY <2>3, RequestFacts DEF Accepted
    <3>2. r \in Requests /\ HoldsOf(r) /\ ~Settles(req[s], pending)
      BY <2>1, RequestFacts DEF HoldsOf, Requests, Points
    <3>. QED BY <2>1, <3>1, <3>2, DatabaseFacts, Advance
  <2>. QED BY <1>2, <2>2, <2>3 DEF Check
<1>3. CASE SavePass(s)
  <2>. DEFINE r == [req[s] EXCEPT !.pass = None, !.pc = "confirmed"]
  <2>1. /\ UNCHANGED <<items, count, pending, validated, mailed, tangled, killed>>
        /\ req[s].pc = "savePass"
        /\ passphrase' = req[s].pass
    BY <1>3 DEF SavePass, At
  <2>2. Put(r)
    BY <1>3, RequestFacts DEF SavePass, Accepted
  <2>3. r \in Requests /\ HoldsOf(r) /\ ~Settles(req[s], pending)
    BY <2>1, RequestFacts DEF HoldsOf, Requests, Points
  <2>4. passphrase' \in Pass \cup {None}
    BY <2>1, RequestFacts DEF HoldsOf
  <2>. QED BY <2>1, <2>2, <2>3, <2>4, DatabaseFacts, Advance
<1>4. CASE IsConfirmed(s)
  <2>1. /\ UNCHANGED <<passphrase, items, count, pending, validated, mailed, tangled, killed>>
        /\ req[s].pc = "confirmed"
    BY <1>4 DEF IsConfirmed, At, db
  <2>2. CASE End(s)
    BY <2>1, <2>2, DatabaseFacts, EndKeeps
  <2>3. CASE req' = [req EXCEPT ![s].isConfirmed = validated, ![s].pc = "item"]
    <3>. DEFINE r == [req[s] EXCEPT !.isConfirmed = validated, !.pc = "item"]
    <3>1. Put(r)
      BY <2>3, RequestFacts
    <3>2. validated \in BOOLEAN
      BY DatabaseFacts
    <3>3. r \in Requests
      BY <3>2, RequestFacts DEF Requests, Points
    <3>4. HoldsOf(r) /\ ~Settles(req[s], pending)
      BY <2>1, RequestFacts DEF HoldsOf, Requests
    <3>. QED BY <2>1, <3>1, <3>3, <3>4, DatabaseFacts, Advance
  <2>. QED BY <1>4, <2>2, <2>3 DEF IsConfirmed
<1>5. CASE CheckItem(s)
  <2>1. /\ UNCHANGED <<passphrase, items, count, pending, validated, mailed, tangled, killed>>
        /\ req[s].pc = "item"
    BY <1>5 DEF CheckItem, At, db
  <2>2. PICK p \in {"putItem", "counter"} : Goto(s, p)
    BY <1>5 DEF CheckItem
  <2>3. HoldsOf([req[s] EXCEPT !.pc = p])
    BY <2>1, RequestFacts DEF HoldsOf, Requests
  <2>. QED BY <2>1, <2>2, <2>3, DatabaseFacts, GotoKeeps DEF Points
<1>. QED BY <1>1, <1>2, <1>3, <1>4, <1>5

\* The counter and the item.
LEMMA CountingKeeps ==
    ASSUME EInv, NEW s \in Slot, Counter(s) \/ PutCounter(s) \/ PutItem(s)
    PROVE  EInv'
<1>. DEFINE Put(r) == req' = [req EXCEPT ![s] = r]
<1>1. CASE Counter(s)
  <2>1. /\ UNCHANGED <<passphrase, items, count, pending, validated, mailed, tangled, killed>>
        /\ req[s].pc = "counter"
    BY <1>1 DEF Counter, At, db
  <2>2. CASE End(s)
    BY <2>1, <2>2, DatabaseFacts, EndKeeps
  <2>3. ASSUME NEW n \in 0..Confirmed, req' = [req EXCEPT ![s].n = n, ![s].pc = "putCounter"]
        PROVE  EInv'
    <3>. DEFINE r == [req[s] EXCEPT !.n = n, !.pc = "putCounter"]
    <3>1. Put(r)
      BY <2>3, RequestFacts
    <3>2. r \in Requests /\ HoldsOf(r) /\ ~Settles(req[s], pending)
      BY <2>1, RequestFacts DEF HoldsOf, Requests, Points
    <3>. QED BY <2>1, <3>1, <3>2, DatabaseFacts, Advance
  <2>4. Limit(req[s].isConfirmed) \in 0..Confirmed
    BY EmailConstants DEF Limit
  <2>5. CASE req[s].op = "save" /\ ~(count + 1 > Limit(req[s].isConfirmed))
    <3>1. count + 1 \in 0..Confirmed
      BY <2>4, <2>5, DatabaseFacts, EmailConstants
    <3>2. req' = [req EXCEPT ![s].n = count + 1, ![s].pc = "putCounter"]
      BY <1>1, <2>5 DEF Counter
    <3>. QED BY <2>3, <3>1, <3>2
  <2>6. CASE req[s].op = "save" /\ count + 1 > Limit(req[s].isConfirmed)
    <3>1. End(s)
      BY <1>1, <2>6 DEF Counter
    <3>. QED BY <2>2, <3>1
  <2>7. CASE req[s].op # "save"
    <3>. DEFINE n == IF count > 0 THEN count - 1 ELSE count
    <3>1. n \in 0..Confirmed
      BY DatabaseFacts, EmailConstants
    <3>2. req' = [req EXCEPT ![s].n = n, ![s].pc = "putCounter"]
      BY <1>1, <2>7 DEF Counter
    <3>. QED BY <2>3, <3>1, <3>2
  <2>. QED BY <2>5, <2>6, <2>7
<1>2. CASE PutCounter(s)
  <2>1. /\ UNCHANGED <<passphrase, items, pending, validated, mailed, tangled, killed>>
        /\ req[s].pc = "putCounter"
        /\ count' = req[s].n
    BY <1>2 DEF PutCounter, At
  <2>2. count' \in 0..Confirmed
    BY <2>1, RequestFacts DEF Requests
  <2>3. CASE req[s].op = "save"
    <3>. DEFINE r == [req[s] EXCEPT !.n = 0, !.pc = "putItem"]
    <3>1. Put(r)
      BY <1>2, <2>3, RequestFacts DEF PutCounter
    <3>2. 0 \in 0..Confirmed
      BY EmailConstants
    <3>3. r \in Requests /\ HoldsOf(r) /\ ~Settles(req[s], pending)
      BY <2>1, <2>3, <3>2, RequestFacts DEF HoldsOf, Requests, Points
    <3>. QED BY <2>1, <2>2, <3>1, <3>3, DatabaseFacts, Advance
  <2>4. CASE req[s].op # "save"
    <3>1. End(s)
      BY <1>2, <2>4 DEF PutCounter
    <3>. QED BY <2>1, <2>2, <3>1, DatabaseFacts, EndKeeps
  <2>. QED BY <2>3, <2>4
<1>3. CASE PutItem(s)
  <2>1. /\ UNCHANGED <<passphrase, count, pending, validated, mailed, tangled, killed>>
        /\ req[s].pc = "putItem"
        /\ items' = items \cup {req[s].key}
    BY <1>3 DEF PutItem, At
  <2>2. items' \in SUBSET Key
    BY <2>1, RequestFacts, DatabaseFacts DEF HoldsOf
  <2>3. CASE End(s)
    BY <2>1, <2>2, <2>3, DatabaseFacts, EndKeeps
  <2>4. CASE NeedsMail(s)
    <3>. DEFINE r == [Free EXCEPT !.pc = "getPending", !.op = "save"]
    <3>1. Put(r)
      BY <2>4 DEF NeedsMail
    <3>2. r \in Requests /\ HoldsOf(r)
      BY FreeIsRequest DEF Free, Requests, Points, Operations, HoldsOf
    <3>3. ~Settles(req[s], pending)
      BY <2>1, RequestFacts
    <3>. QED BY <2>1, <2>2, <3>1, <3>2, <3>3, DatabaseFacts, Advance
  <2>. QED BY <1>3, <2>3, <2>4 DEF PutItem
<1>. QED BY <1>1, <1>2, <1>3

\* A request that is to delete the profile is to delete what is pending.
LEMMA DeleteProfileKeeps ==
    ASSUME EInv, NEW s \in Slot, DeleteProfile(s), UNCHANGED <<db, mailed, tangled, killed>>
    PROVE  EInv'
<1>. DEFINE r == [Free EXCEPT !.pc = "delete", !.left = Profile]
<1>1. EmailTypeOK /\ Holds
  BY DEF EInv
<1>2. req' = [req EXCEPT ![s] = r]
  BY DEF DeleteProfile
<1>3. r \in Requests /\ HoldsOf(r) /\ r.pc = "delete" /\ "pending" \in r.left
  BY FreeIsRequest DEF Free, Requests, Points, Profile, HoldsOf
<1>. HIDE DEF r
<1>4. req' \in [Slot -> Requests] /\ Holds' /\ req'[s] = r
  BY <1>1, <1>2, <1>3, PutRequest
<1>5. EmailTypeOK'
  BY <1>1, <1>4 DEF EmailTypeOK, db
<1>6. Settled'
  BY <1>3, <1>4 DEF Settled, Settles
<1>. QED BY <1>4, <1>5, <1>6 DEF EInv

\* createVerificationSecret
LEMMA SecretKeeps ==
    ASSUME EInv, NEW s \in Slot, GetPending(s) \/ PutPending(s)
    PROVE  EInv'
<1>. DEFINE Put(r) == req' = [req EXCEPT ![s] = r]
<1>1. EmailTypeOK /\ Holds
  BY DEF EInv
<1>2. CASE GetPending(s)
  <2>1. UNCHANGED <<passphrase, items, count, pending, validated, tangled, killed>>
    BY <1>2 DEF GetPending, db
  <2>2. CASE pending = None
    <3>. DEFINE r == [req[s] EXCEPT !.secret = NewSecret, !.pc = "putPending"]
    <3>1. Put(r) /\ mailed' = mailed \ {NewSecret} /\ req[s].pc = "getPending"
      BY <1>2, <2>2, RequestFacts DEF GetPending, At
    <3>2. NewSecret \in Secret
      BY <1>1, <2>2, FreshSecret
    <3>3. NewSecret \in 0..MaxSecret
      BY <3>2, EmailConstants DEF Secret
    <3>4. r \in Requests /\ HoldsOf(r)
      BY <3>1, <3>2, <3>3, RequestFacts DEF HoldsOf, Requests, Points
    <3>. HIDE DEF r
    <3>5. req' \in [Slot -> Requests] /\ Holds'
      BY <1>1, <3>1, <3>4, PutRequest
    <3>6. EmailTypeOK'
      BY <1>1, <2>1, <3>1, <3>5 DEF EmailTypeOK
    <3>7. Settled'
      BY <2>1, <2>2 DEF Settled
    <3>. QED BY <3>5, <3>6, <3>7 DEF EInv
  <2>3. CASE pending # None
    <3>1. DeleteProfile(s) /\ UNCHANGED <<db, mailed, tangled, killed>>
      BY <1>2, <2>3 DEF GetPending
    <3>. QED BY <3>1, DeleteProfileKeeps
  <2>. QED BY <2>2, <2>3
<1>3. CASE PutPending(s)
  <2>. DEFINE r == [req[s] EXCEPT !.pc = "mail"]
  <2>1. /\ UNCHANGED <<passphrase, items, count, validated, mailed, tangled, killed>>
        /\ req[s].pc = "putPending"
        /\ pending' = req[s].secret
        /\ Put(r)
    BY <1>3 DEF PutPending, At, Goto
  <2>2. pending' \in Secret
    BY <2>1, RequestFacts DEF HoldsOf
  <2>3. r \in Requests /\ HoldsOf(r) /\ Settles(r, pending')
    BY <2>1, RequestFacts DEF HoldsOf, Requests, Points, Settles
  <2>. HIDE DEF r
  <2>4. req' \in [Slot -> Requests] /\ Holds' /\ req'[s] = r
    BY <1>1, <2>1, <2>3, PutRequest
  <2>5. EmailTypeOK'
    BY <1>1, <2>1, <2>2, <2>4 DEF EmailTypeOK
  <2>6. Settled'
    BY <2>3, <2>4 DEF Settled
  <2>. QED BY <2>4, <2>5, <2>6 DEF EInv
<1>. QED BY <1>2, <1>3

\* sendVerificationEmail: the secret is mailed, or the profile deleted.
LEMMA MailKeeps ==
    ASSUME EInv, NEW s \in Slot, Mail(s)
    PROVE  EInv'
<1>1. EmailTypeOK /\ Holds /\ Settled
  BY DEF EInv
<1>2. /\ UNCHANGED <<passphrase, items, count, pending, validated, tangled, killed>>
      /\ UNCHANGED db
      /\ req[s].pc = "mail"
  BY DEF Mail, At, db
<1>3. CASE mailed' = mailed \cup {req[s].secret} /\ End(s)
  <2>1. req' = [req EXCEPT ![s] = Free]
    BY <1>3 DEF End
  <2>2. /\ req' \in [Slot -> Requests]
        /\ Holds'
        /\ \A q \in Slot \ {s} : req'[q] = req[q]
    BY <1>1, <2>1, FreeIsRequest, PutRequest
  <2>3. req[s].secret \in Secret
    BY <1>2, RequestFacts DEF HoldsOf
  <2>4. EmailTypeOK'
    BY <1>1, <1>2, <1>3, <2>2, <2>3 DEF EmailTypeOK
  <2>5. Settled'
    <3>1. CASE killed \/ pending = None \/ pending \in mailed \/ Settles(req[s], pending)
      BY <1>2, <1>3, <3>1 DEF Settled, Settles
    <3>2. CASE ~Settles(req[s], pending) /\ \E q \in Slot : Settles(req[q], pending)
      <4>1. \E q \in Slot : Settles(req'[q], pending)
        BY <2>2, <3>2, OthersSettle
      <4>. QED BY <1>2, <4>1 DEF Settled
    <3>. QED BY <1>1, <3>1, <3>2 DEF Settled
  <2>. QED BY <2>2, <2>4, <2>5 DEF EInv
<1>4. CASE req[s].op = "save" /\ DeleteProfile(s) /\ UNCHANGED mailed
  BY <1>2, <1>4, DeleteProfileKeeps
<1>5. CASE req[s].op # "save" /\ End(s) /\ UNCHANGED mailed
  <2>1. ~Settles(req[s], pending)
    BY <1>2, <1>5 DEF Settles
  <2>. QED BY <1>2, <1>5, <2>1, FreeIsRequest, DatabaseFacts, Advance DEF End
<1>. QED BY <1>3, <1>4, <1>5 DEF Mail

\* deleteWholeProfile
LEMMA DeleteKeeps ==
    ASSUME EInv, NEW s \in Slot, NEW d \in Profile, Delete(s, d)
    PROVE  EInv'
<1>1. EmailTypeOK /\ Holds /\ Settled
  BY DEF EInv
<1>2. /\ UNCHANGED <<items, count, mailed, tangled, killed>>
      /\ req[s].pc = "delete"
      /\ d \in req[s].left
      /\ passphrase' \in Pass \cup {None}
      /\ validated' \in BOOLEAN
  BY DatabaseFacts DEF Delete, At
<1>3. PICK r \in Requests :
        /\ HoldsOf(r)
        /\ req' = [req EXCEPT ![s] = r]
        /\ "pending" \in req[s].left /\ d # "pending" => Settles(r, pending)
  <2>1. CASE req[s].left = {d}
    <3>1. req' = [req EXCEPT ![s] = Free]
      BY <2>1 DEF Delete, End
    <3>. QED BY <2>1, <3>1, FreeIsRequest
  <2>2. CASE req[s].left # {d}
    <3>. DEFINE r == [req[s] EXCEPT !.left = req[s].left \ {d}]
    <3>1. req' = [req EXCEPT ![s] = r]
      BY <2>2, RequestFacts DEF Delete
    <3>2. r \in Requests /\ HoldsOf(r) /\ r.pc = "delete" /\ r.left = req[s].left \ {d}
      BY <1>2, RequestFacts DEF HoldsOf, Requests
    <3>. HIDE DEF r
    <3>3. "pending" \in req[s].left /\ d # "pending" => Settles(r, pending)
      BY <3>2 DEF Settles
    <3>. QED BY <3>1, <3>2, <3>3
  <2>. QED BY <2>1, <2>2
<1>4. /\ req' \in [Slot -> Requests]
      /\ Holds'
      /\ req'[s] = r
      /\ \A q \in Slot \ {s} : req'[q] = req[q]
  BY <1>1, <1>3, PutRequest
<1>5. CASE d = "pending"
  <2>1. pending' = None
    BY <1>5 DEF Delete
  <2>2. EmailTypeOK'
    BY <1>1, <1>2, <1>4, <2>1 DEF EmailTypeOK
  <2>3. Settled'
    BY <2>1 DEF Settled
  <2>. QED BY <1>4, <2>2, <2>3 DEF EInv
<1>6. CASE d # "pending"
  <2>1. pending' = pending
    BY <1>6 DEF Delete
  <2>2. EmailTypeOK'
    BY <1>1, <1>2, <1>4, <2>1 DEF EmailTypeOK
  <2>3. Settled'
    <3>1. CASE killed \/ pending = None \/ pending \in mailed
      BY <1>2, <2>1, <3>1 DEF Settled
    <3>2. CASE Settles(req[s], pending)
      <4>1. Settles(req'[s], pending)
        BY <1>2, <1>3, <1>4, <1>6, <3>2 DEF Settles
      <4>. QED BY <2>1, <4>1 DEF Settled
    <3>3. CASE ~Settles(req[s], pending) /\ \E q \in Slot : Settles(req[q], pending)
      <4>1. \E q \in Slot : Settles(req'[q], pending)
        BY <1>4, <3>3, OthersSettle
      <4>. QED BY <2>1, <4>1 DEF Settled
    <3>. QED BY <1>1, <3>1, <3>2, <3>3 DEF Settled
  <2>. QED BY <1>4, <2>2, <2>3 DEF EInv
<1>. QED BY <1>5, <1>6

\* authorizeRequest
LEMMA AuthorizeKeeps ==
    ASSUME EInv, NEW s \in Slot, Authorize(s)
    PROVE  EInv'
<1>1. /\ UNCHANGED <<passphrase, items, count, pending, validated, mailed, tangled, killed>>
      /\ UNCHANGED db
      /\ req[s].pc = "auth"
  BY DEF Authorize, At, db
<1>2. req[s].op \in {"erase", "eraseProfile", "resend", "changePassphrase"}
  BY <1>1, RequestFacts DEF HoldsOf
<1>3. CASE End(s)
  BY <1>1, <1>3, DatabaseFacts, EndKeeps
<1>4. CASE DeleteProfile(s)
  BY <1>1, <1>4, DeleteProfileKeeps
<1>5. ASSUME NEW p \in {"delItem", "getPendingToResend", "putPass"}, Accepted(s, p),
             p = "delItem" => req[s].op = "erase"
      PROVE  EInv'
  <2>. DEFINE r == [req[s] EXCEPT !.pass = None, !.pc = p]
  <2>1. req' = [req EXCEPT ![s] = r]
    BY <1>5, RequestFacts DEF Accepted
  <2>2. r \in Requests /\ HoldsOf(r) /\ ~Settles(req[s], pending)
    BY <1>1, <1>5, RequestFacts DEF HoldsOf, Requests, Points
  <2>. QED BY <1>1, <2>1, <2>2, DatabaseFacts, Advance
<1>6. \/ End(s) \/ DeleteProfile(s)
      \/ req[s].op = "erase" /\ Accepted(s, "delItem")
      \/ Accepted(s, "getPendingToResend") \/ Accepted(s, "putPass")
  <2>1. CASE passphrase # req[s].pass
    BY <2>1 DEF Authorize
  <2>2. CASE passphrase = req[s].pass /\ req[s].op = "erase"
    BY <2>2 DEF Authorize
  <2>3. CASE passphrase = req[s].pass /\ req[s].op = "eraseProfile"
    BY <2>3 DEF Authorize
  <2>4. CASE passphrase = req[s].pass /\ req[s].op = "resend"
    BY <2>4 DEF Authorize
  <2>5. CASE passphrase = req[s].pass /\ req[s].op = "changePassphrase"
    BY <2>5 DEF Authorize
  <2>. QED BY <1>2, <2>1, <2>2, <2>3, <2>4, <2>5
<1>. QED BY <1>3, <1>4, <1>5, <1>6

\* erase's del, and resend.
LEMMA OthersKeep ==
    ASSUME EInv, NEW s \in Slot, DelItem(s) \/ GetPendingToResend(s)
    PROVE  EInv'
<1>. DEFINE Put(r) == req' = [req EXCEPT ![s] = r]
<1>1. CASE DelItem(s)
  <2>. DEFINE r == [req[s] EXCEPT !.key = None, !.pc = "counter"]
  <2>1. /\ UNCHANGED <<passphrase, count, pending, validated, mailed, killed>>
        /\ req[s].pc = "delItem"
        /\ items' = items \ {req[s].key}
        /\ tangled' \in BOOLEAN
    BY <1>1, DatabaseFacts DEF DelItem, At
  <2>2. Put(r)
    BY <1>1, RequestFacts DEF DelItem
  <2>3. r \in Requests /\ HoldsOf(r) /\ ~Settles(req[s], pending)
    BY <2>1, RequestFacts DEF HoldsOf, Requests, Points
  <2>4. items' \in SUBSET Key
    BY <2>1, DatabaseFacts
  <2>. QED BY <2>1, <2>2, <2>3, <2>4, DatabaseFacts, Advance
<1>2. CASE GetPendingToResend(s)
  <2>1. /\ UNCHANGED <<passphrase, items, count, pending, validated, mailed, tangled, killed>>
        /\ req[s].pc = "getPendingToResend"
    BY <1>2 DEF GetPendingToResend, At, db
  <2>2. CASE pending = None
    <3>1. End(s)
      BY <1>2, <2>2 DEF GetPendingToResend
    <3>. QED BY <2>1, <3>1, DatabaseFacts, EndKeeps
  <2>3. CASE pending # None
    <3>. DEFINE r == [req[s] EXCEPT !.secret = pending, !.pc = "mail"]
    <3>1. Put(r)
      BY <1>2, <2>3, RequestFacts DEF GetPendingToResend
    <3>2. pending \in Secret /\ pending \in 0..MaxSecret
      BY <2>3, DatabaseFacts, EmailConstants DEF Secret
    <3>3. r \in Requests /\ HoldsOf(r) /\ ~Settles(req[s], pending)
      BY <2>1, <3>2, RequestFacts DEF HoldsOf, Requests, Points
    <3>. QED BY <2>1, <3>1, <3>3, DatabaseFacts, Advance
  <2>. QED BY <2>2, <2>3
<1>. QED BY <1>1, <1>2

\* validate and changePassphrase.
LEMMA ValidateKeeps ==
    ASSUME EInv, NEW s \in Slot,
           GetPendingToValidate(s) \/ PutValidated(s) \/ DelPending(s) \/ PutPass(s)
    PROVE  EInv'
<1>1. CASE GetPendingToValidate(s)
  <2>1. /\ UNCHANGED <<passphrase, items, count, pending, validated, mailed, tangled, killed>>
        /\ req[s].pc = "getPendingToValidate"
    BY <1>1 DEF GetPendingToValidate, At, db
  <2>2. CASE End(s)
    BY <2>1, <2>2, DatabaseFacts, EndKeeps
  <2>3. CASE Goto(s, "putValidated")
    <3>1. HoldsOf([req[s] EXCEPT !.pc = "putValidated"])
      BY <2>1, RequestFacts DEF HoldsOf, Requests
    <3>. QED BY <2>1, <2>3, <3>1, DatabaseFacts, GotoKeeps DEF Points
  <2>. QED BY <1>1, <2>2, <2>3 DEF GetPendingToValidate
<1>2. CASE PutValidated(s)
  <2>1. /\ UNCHANGED <<passphrase, items, count, pending, mailed, tangled, killed>>
        /\ req[s].pc = "putValidated"
        /\ validated' = TRUE
        /\ Goto(s, "delPending")
    BY <1>2 DEF PutValidated, At
  <2>2. HoldsOf([req[s] EXCEPT !.pc = "delPending"])
    BY <2>1, RequestFacts DEF HoldsOf, Requests
  <2>. QED BY <2>1, <2>2, DatabaseFacts, GotoKeeps DEF Points
<1>3. CASE DelPending(s)
  <2>1. /\ UNCHANGED <<passphrase, items, count, validated, mailed, tangled, killed>>
        /\ pending' = None
        /\ req' = [req EXCEPT ![s] = Free]
    BY <1>3 DEF DelPending, End
  <2>2. EmailTypeOK /\ Holds
    BY DEF EInv
  <2>3. req' \in [Slot -> Requests] /\ Holds'
    BY <2>1, <2>2, FreeIsRequest, PutRequest
  <2>4. EmailTypeOK'
    BY <2>1, <2>2, <2>3 DEF EmailTypeOK
  <2>5. Settled'
    BY <2>1 DEF Settled
  <2>. QED BY <2>3, <2>4, <2>5 DEF EInv
<1>4. CASE PutPass(s)
  <2>1. /\ UNCHANGED <<items, count, pending, validated, mailed, tangled, killed>>
        /\ req[s].pc = "putPass"
        /\ passphrase' \in Pass
        /\ End(s)
    BY <1>4 DEF PutPass, At
  <2>. QED BY <2>1, DatabaseFacts, EndKeeps
<1>. QED BY <1>1, <1>2, <1>3, <1>4

LEMMA ContinueKeeps ==
    ASSUME EInv, NEW s \in Slot, Continue(s)
    PROVE  EInv'
<1>1. CASE Exists(s) \/ Check(s) \/ SavePass(s) \/ IsConfirmed(s) \/ CheckItem(s)
  BY <1>1, CheckingKeeps
<1>2. CASE Counter(s) \/ PutCounter(s) \/ PutItem(s)
  BY <1>2, CountingKeeps
<1>3. CASE GetPending(s) \/ PutPending(s)
  BY <1>3, SecretKeeps
<1>4. CASE Mail(s)
  BY <1>4, MailKeeps
<1>5. CASE Authorize(s)
  BY <1>5, AuthorizeKeeps
<1>6. CASE DelItem(s) \/ GetPendingToResend(s)
  BY <1>6, OthersKeep
<1>7. CASE GetPendingToValidate(s) \/ PutValidated(s) \/ DelPending(s) \/ PutPass(s)
  BY <1>7, ValidateKeeps
<1>8. CASE \E d \in Profile : Delete(s, d)
  BY <1>8, DeleteKeeps
<1>. QED BY <1>1, <1>2, <1>3, <1>4, <1>5, <1>6, <1>7, <1>8 DEF Continue

\* A kill leaves the database as it is and ends every request.
LEMMA RestartKeeps ==
    ASSUME EInv, Restart
    PROVE  EInv'
<1>1. EmailTypeOK
  BY DEF EInv
<1>2. /\ UNCHANGED <<passphrase, items, count, pending, validated, mailed, tangled>>
      /\ req' = [s \in Slot |-> Free]
      /\ killed' = TRUE
  BY DEF Restart, db
<1>3. EmailTypeOK'
  BY <1>1, <1>2, FreeIsRequest DEF EmailTypeOK
<1>4. Holds'
  BY <1>2, FreeIsRequest DEF Holds
<1>5. Settled'
  BY <1>2 DEF Settled
<1>. QED BY <1>3, <1>4, <1>5 DEF EInv

-----------------------------------------------------------------------------
(* The theorems *)

LEMMA InitEInv == Init => EInv
<1>. SUFFICES ASSUME Init PROVE EInv
  OBVIOUS
<1>1. EmailTypeOK
  <2>1. 0 \in 0..Confirmed
    BY EmailConstants
  <2>2. req \in [Slot -> Requests]
    BY FreeIsRequest DEF Init
  <2>. QED BY <2>1, <2>2 DEF Init, EmailTypeOK
<1>2. Holds
  BY FreeIsRequest DEF Init, Holds
<1>3. Settled
  BY DEF Init, Settled
<1>. QED BY <1>1, <1>2, <1>3 DEF EInv

LEMMA NextEInv == EInv /\ [Next]_emailVars => EInv'
<1>. SUFFICES ASSUME EInv, [Next]_emailVars PROVE EInv'
  OBVIOUS
<1>1. CASE Restart
  BY <1>1, RestartKeeps
<1>2. ASSUME NEW s \in Slot, Request(s) PROVE EInv'
  BY <1>2, RequestKeeps
<1>3. ASSUME NEW s \in Slot, Continue(s) PROVE EInv'
  BY <1>3, ContinueKeeps
<1>4. CASE UNCHANGED emailVars
  BY <1>4 DEF emailVars, EInv, EmailTypeOK, Holds, Settled
<1>. QED BY <1>1, <1>2, <1>3, <1>4 DEF Next

\* A secret that is stored was mailed, or some request is yet to mail or to
\* delete it, or the process was killed.
THEOREM SecretsAreSettled == Spec => []EInv
<1>. QED BY InitEInv, NextEInv, PTL DEF Spec

\* The keys of an address and the requests about it always have their types,
\* and the counter of checkAndUpdateItemCounter never passes the limit of a
\* confirmed profile, however many requests interleave.
THEOREM EmailTypes == Spec => []EmailTypeOK
<1>1. EInv => EmailTypeOK
  BY DEF EInv
<1>. QED BY <1>1, SecretsAreSettled, PTL

\* When all requests have ended and none was killed, the secret that validate
\* waits for was mailed, whatever mails failed and however save's rollbacks,
\* erasures and resends interleaved.
THEOREM SecretsAreMailed == Spec => []PendingIsMailed
<1>1. EInv => PendingIsMailed
  <2>. SUFFICES ASSUME EInv, Quiet, ~killed PROVE pending \in mailed \cup {None}
    BY DEF PendingIsMailed
  <2>1. ASSUME NEW s \in Slot PROVE ~Settles(req[s], pending)
    BY DEF Quiet, Settles
  <2>. QED BY <2>1 DEF EInv, Settled
<1>. QED BY <1>1, SecretsAreSettled, PTL

-----------------------------------------------------------------------------
(***************************************************************************)
(* Requests that come one at a time: the counter covers the items although *)
(* the two are put one after the other, and no request leaves half a       *)
(* profile.                                                                *)
(***************************************************************************)

Busy(r) == r.pc # "free"

\* A request that erases has one item less than the counter until it puts it;
\* one that saves has room for its item before it puts that.
CountOf(r) ==
    /\ r.pc = "counter" /\ r.op # "save" => count >= Cardinality(items) + 1
    /\ r.pc = "putCounter" =>
          r.n >= IF r.op = "save" THEN Cardinality(items) + 1 ELSE Cardinality(items)
    /\ r.pc = "putItem" => count >= Cardinality(items \cup {r.key})

\* Nothing is left of a profile without a passphrase.
NoRest == passphrase = None => pending = None /\ ~validated

\* The points behind a passphrase that exists.
Owned == {"check", "confirmed", "item", "counter", "putCounter", "putItem", "getPending",
          "putPending", "delItem", "putValidated", "delPending"}

\* What a request knows of the profile when no other runs.
ProfileOf(r) ==
    /\ r.pc # "delete" => NoRest
    /\ r.pc # "delPending" => (pending # None => ~validated)
    /\ r.pc \in Owned => passphrase # None
    /\ r.isNew \/ r.pc \in {"getPending", "putPending"} => pending = None /\ ~validated
    /\ r.pc \in {"getPending", "putPending"} => ~r.isNew
    /\ r.pc = "putValidated" => pending # None
    /\ r.pc = "delete" =>
          /\ "passphrase" \notin r.left => passphrase = None
          /\ "pending" \notin r.left => pending = None
          /\ "validated" \notin r.left => ~validated

Alone == \A s, q \in Slot : Busy(req[s]) /\ Busy(req[q]) => s = q

CountInv ==
    /\ IsFiniteSet(items)
    /\ ~tangled => /\ count >= Cardinality(items)
                   /\ \A s \in Slot : CountOf(req[s])

ProfileInv ==
    ~tangled /\ ~killed => /\ Quiet => ProfileOf(Free)
                           /\ \A s \in Slot : Busy(req[s]) => ProfileOf(req[s])

SInv == EInv /\ (~tangled => Alone) /\ CountInv /\ ProfileInv

-----------------------------------------------------------------------------
(* The step of one request *)

\* What a running request knows, when none has met another.
LEMMA SerialFacts ==
    ASSUME SInv, NEW s \in Slot, Busy(req[s]), ~tangled
    PROVE  /\ \A q \in Slot \ {s} : req[q].pc = "free"
           /\ count >= Cardinality(items) /\ CountOf(req[s])
           /\ ~killed => ProfileOf(req[s])
  BY DEF SInv, Alone, Busy, CountInv, ProfileInv

\* A step of a running request; the others, if none has met another, are free.
LEMMA SerialStep ==
    ASSUME SInv, EInv', NEW s \in Slot, NEW r \in Requests, Busy(req[s]),
           req' = [req EXCEPT ![s] = r],
           tangled => tangled', killed' = killed, IsFiniteSet(items'),
           ~tangled' => count' >= Cardinality(items') /\ CountOf(r)',
           ~tangled' /\ ~killed => ProfileOf(r)'
    PROVE  SInv'
<1>1. req'[s] = r /\ \A q \in Slot \ {s} : req'[q] = req[q]
  BY DEF SInv, EInv, EmailTypeOK
<1>2. ASSUME ~tangled' PROVE \A q \in Slot \ {s} : req'[q].pc = "free"
  BY <1>1, <1>2, SerialFacts
<1>3. ~tangled' => Alone'
  BY <1>2 DEF Alone, Busy
<1>4. CountInv'
  <2>1. ASSUME ~tangled', NEW q \in Slot PROVE CountOf(req[q])'
    <3>1. CASE q = s
      BY <1>1, <2>1, <3>1 DEF CountOf
    <3>2. CASE q # s
      BY <1>2, <2>1, <3>2 DEF CountOf
    <3>. QED BY <3>1, <3>2
  <2>. QED BY <2>1 DEF CountInv
<1>5. ProfileInv'
  <2>. SUFFICES ASSUME ~tangled', ~killed'
                PROVE  /\ Quiet' => ProfileOf(Free)'
                       /\ \A q \in Slot : Busy(req[q])' => ProfileOf(req[q])'
    BY DEF ProfileInv
  <2>1. ProfileOf(r)'
    OBVIOUS
  <2>2. ASSUME Quiet' PROVE ProfileOf(Free)'
    <3>1. r.pc = "free"
      BY <1>1, <2>2 DEF Quiet
    <3>. QED BY <2>1, <3>1 DEF ProfileOf, Free, Owned
  <2>3. ASSUME NEW q \in Slot, Busy(req[q])' PROVE ProfileOf(req[q])'
    <3>1. q = s
      BY <1>2, <2>3 DEF Busy
    <3>. QED BY <1>1, <2>1, <3>1 DEF ProfileOf
  <2>. QED BY <2>2, <2>3
<1>. QED BY <1>3, <1>4, <1>5 DEF SInv

\* A step that leaves the database alone, to a point where the counter is not in use.
LEMMA SerialMove ==
    ASSUME SInv, EInv', NEW s \in Slot, NEW r \in Requests, Busy(req[s]),
           req' = [req EXCEPT ![s] = r],
           UNCHANGED <<passphrase, items, count, pending, validated, tangled, killed>>,
           r.pc \notin {"counter", "putCounter", "putItem"},
           ~tangled /\ ~killed => ProfileOf(r)
    PROVE  SInv'
<1>1. ~tangled' => count' >= Cardinality(items') /\ CountOf(r)'
  BY DEF SInv, CountInv, CountOf
<1>2. ~tangled' /\ ~killed => ProfileOf(r)'
  BY DEF ProfileOf, NoRest
<1>3. IsFiniteSet(items')
  BY DEF SInv, CountInv
<1>. QED BY <1>1, <1>2, <1>3, SerialStep

LEMMA SerialEnd ==
    ASSUME SInv, EInv', NEW s \in Slot, Busy(req[s]), End(s),
           req[s].pc \notin {"delete", "delPending"},
           UNCHANGED <<passphrase, items, count, pending, validated, tangled, killed>>
    PROVE  SInv'
<1>1. ~tangled /\ ~killed => ProfileOf(Free)
  BY SerialFacts DEF ProfileOf, Free, Owned
<1>2. Free.pc = "free"
  BY DEF Free
<1>. QED BY <1>1, <1>2, FreeIsRequest, SerialMove DEF End

-----------------------------------------------------------------------------
(* The operations *)

\* A request that arrives when another runs tangles them; one that arrives alone
\* finds the database as the last one left it.
LEMMA ArriveSerial ==
    ASSUME SInv, EInv', NEW s \in Slot, NEW r \in Requests, Arrive(s, r),
           r.pc \in {"exists", "auth", "getPendingToValidate"}, ~r.isNew
    PROVE  SInv'
<1>1. /\ UNCHANGED <<passphrase, items, count, pending, validated, killed>>
      /\ req' = [req EXCEPT ![s] = r]
      /\ tangled' = (tangled \/ ~Quiet)
  BY DEF Arrive, db
<1>2. req'[s] = r /\ \A q \in Slot \ {s} : req'[q] = req[q]
  BY <1>1 DEF SInv, EInv, EmailTypeOK
<1>3. ASSUME ~tangled' PROVE ~tangled /\ Quiet /\ \A q \in Slot \ {s} : req'[q].pc = "free"
  BY <1>1, <1>2, <1>3 DEF Quiet
<1>4. ~tangled' => Alone'
  BY <1>3 DEF Alone, Busy
<1>5. CountInv'
  <2>1. ASSUME ~tangled', NEW q \in Slot PROVE CountOf(req[q])'
    <3>1. CASE q = s
      BY <1>2, <3>1 DEF CountOf
    <3>2. CASE q # s
      BY <1>3, <2>1, <3>2 DEF CountOf
    <3>. QED BY <3>1, <3>2
  <2>. QED BY <1>1, <1>3, <2>1 DEF CountInv, SInv
<1>6. ProfileInv'
  <2>. SUFFICES ASSUME ~tangled', ~killed'
                PROVE  /\ Quiet' => ProfileOf(Free)'
                       /\ \A q \in Slot : Busy(req[q])' => ProfileOf(req[q])'
    BY DEF ProfileInv
  <2>1. ~Quiet'
    BY <1>2 DEF Quiet
  <2>2. ProfileOf(Free)
    BY <1>1, <1>3 DEF SInv, ProfileInv
  <2>3. ASSUME NEW q \in Slot, Busy(req[q])' PROVE ProfileOf(req[q])'
    <3>1. q = s
      BY <1>3, <2>3 DEF Busy
    <3>. QED BY <1>1, <1>2, <2>2, <3>1 DEF ProfileOf, NoRest, Free, Owned
  <2>. QED BY <2>1, <2>3
<1>. QED BY <1>4, <1>5, <1>6 DEF SInv

LEMMA RequestSerial ==
    ASSUME SInv, EInv', NEW s \in Slot, Request(s)
    PROVE  SInv'
<1>1. CASE Save(s)
  <2>1. PICK p \in Pass, k \in Key :
           Arrive(s, [Free EXCEPT !.pc = "exists", !.op = "save", !.pass = p, !.key = k])
    BY <1>1 DEF Save
  <2>. DEFINE r == [Free EXCEPT !.pc = "exists", !.op = "save", !.pass = p, !.key = k]
  <2>2. r \in Requests /\ r.pc = "exists" /\ ~r.isNew
    BY FreeIsRequest DEF Free, Requests, Points, Operations
  <2>. QED BY <2>1, <2>2, ArriveSerial
<1>2. CASE Erase(s)
  <2>1. PICK p \in Pass, k \in Key :
           Arrive(s, [Free EXCEPT !.pc = "auth", !.op = "erase", !.pass = p, !.key = k])
    BY <1>2 DEF Erase
  <2>. DEFINE r == [Free EXCEPT !.pc = "auth", !.op = "erase", !.pass = p, !.key = k]
  <2>2. r \in Requests /\ r.pc = "auth" /\ ~r.isNew
    BY FreeIsRequest DEF Free, Requests, Points, Operations
  <2>. QED BY <2>1, <2>2, ArriveSerial
<1>3. CASE Authorized(s)
  <2>1. PICK p \in Pass, o \in {"eraseProfile", "resend", "changePassphrase"} :
           Arrive(s, [Free EXCEPT !.pc = "auth", !.op = o, !.pass = p])
    BY <1>3 DEF Authorized
  <2>. DEFINE r == [Free EXCEPT !.pc = "auth", !.op = o, !.pass = p]
  <2>2. r \in Requests /\ r.pc = "auth" /\ ~r.isNew
    BY FreeIsRequest DEF Free, Requests, Points, Operations
  <2>. QED BY <2>1, <2>2, ArriveSerial
<1>4. CASE Validate(s)
  <2>1. PICK c \in mailed \cup {0} :
           Arrive(s, [Free EXCEPT !.pc = "getPendingToValidate", !.op = "validate", !.secret = c])
    BY <1>4 DEF Validate
  <2>. DEFINE r == [Free EXCEPT !.pc = "getPendingToValidate", !.op = "validate", !.secret = c]
  <2>2. c \in 0..MaxSecret
    BY EmailConstants DEF SInv, EInv, EmailTypeOK, Secret
  <2>3. r \in Requests /\ r.pc = "getPendingToValidate" /\ ~r.isNew
    BY <2>2, FreeIsRequest DEF Free, Requests, Points, Operations
  <2>. QED BY <2>1, <2>3, ArriveSerial
<1>. QED BY <1>1, <1>2, <1>3, <1>4 DEF Request

\* What a running request is known to be.
LEMMA RunningFacts ==
    ASSUME SInv, NEW s \in Slot
    PROVE  /\ req[s] \in Requests
           /\ HoldsOf(req[s])
           /\ req \in [Slot -> Requests]
           /\ IsFiniteSet(items)
           /\ Cardinality(items) \in Nat
           /\ count \in Nat
<1>1. IsFiniteSet(items) /\ Cardinality(items) \in Nat
  BY FS_CardinalityType DEF SInv, CountInv
<1>2. count \in Nat
  BY EmailConstants DEF SInv, EInv, EmailTypeOK
<1>. QED BY <1>1, <1>2, RequestFacts DEF SInv

\* processPost up to the counter.
LEMMA CheckingSerial ==
    ASSUME SInv, EInv', NEW s \in Slot,
           Exists(s) \/ Check(s) \/ SavePass(s) \/ IsConfirmed(s)
    PROVE  SInv'
<1>. DEFINE Put(r) == req' = [req EXCEPT ![s] = r]
<1>1. CASE Exists(s)
  <2>1. /\ UNCHANGED <<passphrase, items, count, pending, validated, tangled, killed>>
        /\ Busy(req[s]) /\ req[s].pc = "exists"
    BY <1>1 DEF Exists, db, At, Busy
  <2>2. CASE passphrase # None
    <3>. DEFINE r == [req[s] EXCEPT !.pc = "check"]
    <3>1. Put(r)
      BY <1>1, <2>2 DEF Exists, Goto
    <3>2. r \in Requests /\ r.pc = "check" /\ r.isNew = req[s].isNew
      BY RunningFacts DEF Requests, Points
    <3>. HIDE DEF r
    <3>3. ~tangled /\ ~killed => ProfileOf(r)
      BY <2>1, <2>2, <3>2, SerialFacts DEF ProfileOf
    <3>. QED BY <2>1, <3>1, <3>2, <3>3, SerialMove
  <2>3. CASE passphrase = None
    <3>. DEFINE r == [req[s] EXCEPT !.isNew = TRUE, !.pc = "savePass"]
    <3>1. Put(r)
      BY <1>1, <2>3, RunningFacts DEF Exists
    <3>2. r \in Requests /\ r.pc = "savePass"
      BY RunningFacts DEF Requests, Points
    <3>. HIDE DEF r
    <3>3. ~tangled /\ ~killed => ProfileOf(r)
      BY <2>1, <2>3, <3>2, SerialFacts DEF ProfileOf, NoRest, Owned
    <3>. QED BY <2>1, <3>1, <3>2, <3>3, SerialMove
  <2>. QED BY <2>2, <2>3
<1>2. CASE Check(s)
  <2>1. /\ UNCHANGED <<passphrase, items, count, pending, validated, tangled, killed>>
        /\ Busy(req[s]) /\ req[s].pc = "check"
    BY <1>2 DEF Check, At, db, Busy
  <2>2. CASE End(s)
    BY <2>1, <2>2, SerialEnd
  <2>3. CASE Accepted(s, "confirmed")
    <3>. DEFINE r == [req[s] EXCEPT !.pass = None, !.pc = "confirmed"]
    <3>1. Put(r)
      BY <2>3, RunningFacts DEF Accepted
    <3>2. r \in Requests /\ r.pc = "confirmed" /\ r.isNew = req[s].isNew
      BY RunningFacts DEF Requests, Points
    <3>. HIDE DEF r
    <3>3. ~tangled /\ ~killed => ProfileOf(r)
      BY <2>1, <3>2, SerialFacts DEF ProfileOf, Owned
    <3>. QED BY <2>1, <3>1, <3>2, <3>3, SerialMove
  <2>. QED BY <1>2, <2>2, <2>3 DEF Check
<1>3. CASE SavePass(s)
  <2>1. /\ UNCHANGED <<items, count, pending, validated, tangled, killed>>
        /\ Busy(req[s]) /\ req[s].pc = "savePass"
        /\ passphrase' = req[s].pass
    BY <1>3 DEF SavePass, At, Busy
  <2>2. PICK r \in Requests : Put(r) /\ r.pc = "confirmed" /\ r.isNew = req[s].isNew
    <3>. DEFINE x == [req[s] EXCEPT !.pass = None, !.pc = "confirmed"]
    <3>1. Put(x)
      BY <1>3, RunningFacts DEF SavePass, Accepted
    <3>2. x \in Requests /\ x.pc = "confirmed" /\ x.isNew = req[s].isNew
      BY RunningFacts DEF Requests, Points
    <3>. QED BY <3>1, <3>2
  <2>3. passphrase' # None
    BY <2>1, RunningFacts, EmailConstants DEF HoldsOf
  <2>4. ~tangled /\ ~killed => ProfileOf(r)'
    BY <2>1, <2>2, <2>3, SerialFacts DEF ProfileOf, NoRest, Owned
  <2>5. ~tangled => count' >= Cardinality(items') /\ CountOf(r)'
    BY <2>1, <2>2, SerialFacts DEF CountOf
  <2>. QED BY <2>1, <2>2, <2>4, <2>5, RunningFacts, SerialStep
<1>4. CASE IsConfirmed(s)
  <2>1. /\ UNCHANGED <<passphrase, items, count, pending, validated, tangled, killed>>
        /\ Busy(req[s]) /\ req[s].pc = "confirmed"
    BY <1>4 DEF IsConfirmed, At, db, Busy
  <2>2. CASE End(s)
    BY <2>1, <2>2, SerialEnd
  <2>3. CASE req' = [req EXCEPT ![s].isConfirmed = validated, ![s].pc = "item"]
    <3>. DEFINE r == [req[s] EXCEPT !.isConfirmed = validated, !.pc = "item"]
    <3>1. Put(r)
      BY <2>3, RunningFacts
    <3>2. validated \in BOOLEAN
      BY DatabaseFacts DEF SInv
    <3>3. r \in Requests /\ r.pc = "item" /\ r.isNew = req[s].isNew
      BY <3>2, RunningFacts DEF Requests, Points
    <3>. HIDE DEF r
    <3>4. ~tangled /\ ~killed => ProfileOf(r)
      BY <2>1, <3>3, SerialFacts DEF ProfileOf, Owned
    <3>. QED BY <2>1, <3>1, <3>3, <3>4, SerialMove
  <2>. QED BY <1>4, <2>2, <2>3 DEF IsConfirmed
<1>. QED BY <1>1, <1>2, <1>3, <1>4

LEMMA ItemCount ==
    ASSUME IsFiniteSet(items), NEW k
    PROVE  /\ IsFiniteSet(items \cup {k}) /\ IsFiniteSet(items \ {k})
           /\ Cardinality(items) \in Nat
           /\ Cardinality(items \cup {k}) \in Nat /\ Cardinality(items \ {k}) \in Nat
           /\ Cardinality(items \cup {k}) <= Cardinality(items) + 1
           /\ k \in items => /\ items \cup {k} = items
                             /\ Cardinality(items) = Cardinality(items \ {k}) + 1
<1>1. /\ IsFiniteSet(items \cup {k})
      /\ Cardinality(items \cup {k}) = IF k \in items THEN Cardinality(items)
                                                      ELSE Cardinality(items) + 1
  BY FS_AddElement
<1>2. /\ IsFiniteSet(items \ {k})
      /\ Cardinality(items \ {k}) = IF k \in items THEN Cardinality(items) - 1
                                                   ELSE Cardinality(items)
  BY FS_RemoveElement
<1>3. Cardinality(items) \in Nat /\ Cardinality(items \cup {k}) \in Nat
        /\ Cardinality(items \ {k}) \in Nat
  BY <1>1, <1>2, FS_CardinalityType
<1>. QED BY <1>1, <1>2, <1>3

\* The counter and the item: room is made before the item is put.
LEMMA CountingSerial ==
    ASSUME SInv, EInv', NEW s \in Slot,
           CheckItem(s) \/ Counter(s) \/ PutCounter(s) \/ PutItem(s)
    PROVE  SInv'
<1>. DEFINE Put(r) == req' = [req EXCEPT ![s] = r]
<1>1. CASE CheckItem(s)
  <2>1. /\ UNCHANGED <<passphrase, items, count, pending, validated, tangled, killed>>
        /\ Busy(req[s]) /\ req[s].pc = "item" /\ req[s].op = "save"
    BY <1>1, RunningFacts DEF CheckItem, At, db, Busy, HoldsOf
  <2>2. PICK p \in {"putItem", "counter"} :
           Goto(s, p) /\ (p = "putItem" => req[s].key \in items)
    BY <1>1 DEF CheckItem
  <2>3. PICK r \in Requests : /\ Put(r) /\ r.pc = p /\ r.isNew = req[s].isNew
                              /\ r.op = "save" /\ r.key = req[s].key
    <3>. DEFINE x == [req[s] EXCEPT !.pc = p]
    <3>1. Put(x)
      BY <2>2 DEF Goto
    <3>2. /\ x \in Requests /\ x.pc = p /\ x.isNew = req[s].isNew
          /\ x.op = "save" /\ x.key = req[s].key
      BY <2>1, RunningFacts DEF Requests, Points
    <3>. QED BY <3>1, <3>2
  <2>4. ~tangled /\ ~killed => ProfileOf(r)'
    BY <2>1, <2>3, SerialFacts DEF ProfileOf, NoRest, Owned
  <2>5. ~tangled => count' >= Cardinality(items') /\ CountOf(r)'
    <3>1. p = "putItem" => items \cup {r.key} = items
      BY <2>2, <2>3
    <3>. QED BY <2>1, <2>3, <3>1, SerialFacts DEF CountOf
  <2>. QED BY <2>1, <2>3, <2>4, <2>5, RunningFacts, SerialStep
<1>2. CASE Counter(s)
  <2>1. /\ UNCHANGED <<passphrase, items, count, pending, validated, tangled, killed>>
        /\ Busy(req[s]) /\ req[s].pc = "counter"
    BY <1>2 DEF Counter, At, db, Busy
  <2>2. CASE End(s)
    BY <2>1, <2>2, SerialEnd
  <2>3. ASSUME NEW n \in 0..Confirmed, req' = [req EXCEPT ![s].n = n, ![s].pc = "putCounter"],
               ~tangled => n >= IF req[s].op = "save" THEN Cardinality(items) + 1
                                                      ELSE Cardinality(items)
        PROVE  SInv'
    <3>1. PICK r \in Requests : /\ Put(r) /\ r.pc = "putCounter" /\ r.isNew = req[s].isNew
                                /\ r.op = req[s].op /\ r.n = n
      <4>. DEFINE x == [req[s] EXCEPT !.n = n, !.pc = "putCounter"]
      <4>1. Put(x)
        BY <2>3, RunningFacts
      <4>2. /\ x \in Requests /\ x.pc = "putCounter" /\ x.isNew = req[s].isNew
            /\ x.op = req[s].op /\ x.n = n
        BY RunningFacts DEF Requests, Points
      <4>. QED BY <4>1, <4>2
    <3>2. ~tangled /\ ~killed => ProfileOf(r)'
      BY <2>1, <3>1, SerialFacts DEF ProfileOf, NoRest, Owned
    <3>3. ~tangled => count' >= Cardinality(items') /\ CountOf(r)'
      BY <2>1, <2>3, <3>1, SerialFacts DEF CountOf
    <3>. QED BY <2>1, <3>1, <3>2, <3>3, RunningFacts, SerialStep
  <2>4. Limit(req[s].isConfirmed) \in 0..Confirmed
    BY EmailConstants DEF Limit
  <2>5. CASE req[s].op = "save" /\ ~(count + 1 > Limit(req[s].isConfirmed))
    <3>1. count + 1 \in 0..Confirmed
      BY <2>4, <2>5, RunningFacts, EmailConstants
    <3>2. req' = [req EXCEPT ![s].n = count + 1, ![s].pc = "putCounter"]
      BY <1>2, <2>5 DEF Counter
    <3>3. ~tangled => count + 1 >= Cardinality(items) + 1
      BY <2>1, SerialFacts, RunningFacts
    <3>. QED BY <2>3, <2>5, <3>1, <3>2, <3>3
  <2>6. CASE req[s].op = "save" /\ count + 1 > Limit(req[s].isConfirmed)
    <3>1. End(s)
      BY <1>2, <2>6 DEF Counter
    <3>. QED BY <2>2, <3>1
  <2>7. CASE req[s].op # "save"
    <3>. DEFINE n == IF count > 0 THEN count - 1 ELSE count
    <3>1. n \in 0..Confirmed
      BY DatabaseFacts, EmailConstants DEF SInv
    <3>2. req' = [req EXCEPT ![s].n = n, ![s].pc = "putCounter"]
      BY <1>2, <2>7 DEF Counter
    <3>3. ~tangled => n >= Cardinality(items)
      <4>1. ~tangled => count >= Cardinality(items) + 1
        BY <2>1, <2>7, SerialFacts DEF CountOf
      <4>2. count \in Nat /\ Cardinality(items) \in Nat
        BY RunningFacts
      <4>. QED BY <4>1, <4>2
    <3>. QED BY <2>3, <2>7, <3>1, <3>2, <3>3
  <2>. QED BY <2>5, <2>6, <2>7
<1>3. CASE PutCounter(s)
  <2>1. /\ UNCHANGED <<passphrase, items, pending, validated, tangled, killed>>
        /\ Busy(req[s]) /\ req[s].pc = "putCounter"
        /\ count' = req[s].n /\ req[s].n \in Nat
    BY <1>3, RunningFacts, EmailConstants DEF PutCounter, At, Busy, Requests
  <2>2. PICK r \in Requests : /\ Put(r)
                              /\ \/ r = Free
                                 \/ /\ req[s].op = "save" /\ r.pc = "putItem"
                                    /\ r.isNew = req[s].isNew
    <3>1. CASE req[s].op = "save"
      <4>. DEFINE x == [req[s] EXCEPT !.n = 0, !.pc = "putItem"]
      <4>1. Put(x)
        BY <1>3, <3>1, RunningFacts DEF PutCounter
      <4>2. 0 \in 0..Confirmed
        BY EmailConstants
      <4>3. x \in Requests /\ x.pc = "putItem" /\ x.isNew = req[s].isNew
        BY <4>2, RunningFacts DEF Requests, Points
      <4>. QED BY <3>1, <4>1, <4>3
    <3>2. CASE req[s].op # "save"
      <4>1. Put(Free)
        BY <1>3, <3>2 DEF PutCounter, End
      <4>. QED BY <4>1, FreeIsRequest
    <3>. QED BY <3>1, <3>2
  <2>3. ~tangled /\ ~killed => ProfileOf(r)'
    BY <2>1, <2>2, SerialFacts DEF ProfileOf, NoRest, Owned, Free
  <2>4. ~tangled => count' >= Cardinality(items') /\ CountOf(r)'
    <3>1. /\ Cardinality(items \cup {r.key}) \in Nat
          /\ Cardinality(items \cup {r.key}) <= Cardinality(items) + 1
      BY RunningFacts, ItemCount
    <3>2. ~tangled => /\ count' >= Cardinality(items)
                      /\ req[s].op = "save" => count' >= Cardinality(items) + 1
      <4>1. CASE req[s].op = "save"
        <5>1. ~tangled => req[s].n >= Cardinality(items) + 1
          BY <2>1, <4>1, SerialFacts DEF CountOf
        <5>2. Cardinality(items) \in Nat
          BY RunningFacts
        <5>. QED BY <2>1, <5>1, <5>2
      <4>2. CASE req[s].op # "save"
        <5>1. ~tangled => req[s].n >= Cardinality(items)
          BY <2>1, <4>2, SerialFacts DEF CountOf
        <5>. QED BY <2>1, <4>2, <5>1
      <4>. QED BY <4>1, <4>2
    <3>3. Cardinality(items) \in Nat /\ count' \in Nat
      BY <2>1, RunningFacts
    <3>4. ~tangled /\ r.pc = "putItem" => count' >= Cardinality(items \cup {r.key})
      BY <2>2, <3>1, <3>2, <3>3 DEF Free
    <3>5. r.pc \notin {"counter", "putCounter"}
      BY <2>2 DEF Free
    <3>. QED BY <2>1, <3>2, <3>4, <3>5 DEF CountOf
  <2>. QED BY <2>1, <2>2, <2>3, <2>4, RunningFacts, SerialStep
<1>4. CASE PutItem(s)
  <2>1. /\ UNCHANGED <<passphrase, count, pending, validated, tangled, killed>>
        /\ Busy(req[s]) /\ req[s].pc = "putItem"
        /\ items' = items \cup {req[s].key}
    BY <1>4 DEF PutItem, At, Busy
  <2>2. PICK r \in Requests : /\ Put(r)
                              /\ r.pc = "free" \/ (r.pc = "getPending" /\ req[s].isNew)
                              /\ ~r.isNew
    <3>. DEFINE x == [Free EXCEPT !.pc = "getPending", !.op = "save"]
    <3>1. x \in Requests /\ x.pc = "getPending" /\ ~x.isNew
      BY FreeIsRequest DEF Free, Requests, Points, Operations
    <3>2. Free \in Requests /\ Free.pc = "free" /\ ~Free.isNew
      BY FreeIsRequest DEF Free
    <3>3. CASE req[s].isNew /\ ~req[s].isConfirmed
      <4>1. Put(x)
        BY <1>4, <3>3 DEF PutItem, NeedsMail
      <4>. QED BY <3>1, <3>3, <4>1
    <3>4. CASE ~(req[s].isNew /\ ~req[s].isConfirmed)
      <4>1. Put(Free)
        BY <1>4, <3>4 DEF PutItem, End
      <4>. QED BY <3>2, <4>1
    <3>. QED BY <3>3, <3>4
  <2>3. ~tangled /\ ~killed => ProfileOf(r)'
    BY <2>1, <2>2, SerialFacts DEF ProfileOf, NoRest, Owned
  <2>4. ~tangled => count' >= Cardinality(items') /\ CountOf(r)'
    <3>1. ~tangled => count >= Cardinality(items \cup {req[s].key})
      BY <2>1, SerialFacts DEF CountOf
    <3>2. CountOf(r)'
      BY <2>2 DEF CountOf
    <3>3. ~tangled => count' >= Cardinality(items')
      BY <2>1, <3>1
    <3>. QED BY <3>2, <3>3
  <2>5. IsFiniteSet(items')
    BY <2>1, RunningFacts, ItemCount
  <2>. QED BY <2>1, <2>2, <2>3, <2>4, <2>5, SerialStep
<1>. QED BY <1>1, <1>2, <1>3, <1>4

\* A request that is to delete the profile has everything to delete.
LEMMA DeleteProfileSerial ==
    ASSUME SInv, EInv', NEW s \in Slot, DeleteProfile(s), Busy(req[s]),
           req[s].pc \notin {"delete", "delPending"},
           UNCHANGED <<passphrase, items, count, pending, validated, tangled, killed>>
    PROVE  SInv'
<1>. DEFINE x == [Free EXCEPT !.pc = "delete", !.left = Profile]
<1>1. req' = [req EXCEPT ![s] = x]
  BY DEF DeleteProfile
<1>2. x \in Requests /\ x.pc = "delete" /\ ~x.isNew /\ x.left = Profile
  BY FreeIsRequest DEF Free, Requests, Points
<1>. HIDE DEF x
<1>3. ~tangled /\ ~killed => ProfileOf(x)
  BY <1>2, SerialFacts DEF ProfileOf, Owned, Profile
<1>. QED BY <1>1, <1>2, <1>3, SerialMove

\* createVerificationSecret, sendVerificationEmail
LEMMA SecretSerial ==
    ASSUME SInv, EInv', NEW s \in Slot, GetPending(s) \/ PutPending(s) \/ Mail(s)
    PROVE  SInv'
<1>. DEFINE Put(r) == req' = [req EXCEPT ![s] = r]
<1>1. CASE GetPending(s)
  <2>1. /\ UNCHANGED <<passphrase, items, count, pending, validated, tangled, killed>>
        /\ Busy(req[s]) /\ req[s].pc = "getPending"
    BY <1>1 DEF GetPending, At, db, Busy
  <2>2. CASE pending = None
    <3>. DEFINE x == [req[s] EXCEPT !.secret = NewSecret, !.pc = "putPending"]
    <3>1. Put(x)
      BY <1>1, <2>2, RunningFacts DEF GetPending
    <3>2. NewSecret \in 0..MaxSecret
      BY <2>2, FreshSecret, EmailConstants DEF SInv, EInv, Secret
    <3>3. x \in Requests /\ x.pc = "putPending" /\ x.isNew = req[s].isNew
      BY <3>2, RunningFacts DEF Requests, Points
    <3>. HIDE DEF x
    <3>4. ~tangled /\ ~killed => ProfileOf(x)
      BY <2>1, <3>3, SerialFacts DEF ProfileOf, Owned
    <3>. QED BY <2>1, <3>1, <3>3, <3>4, SerialMove
  <2>3. CASE pending # None
    <3>1. DeleteProfile(s)
      BY <1>1, <2>3 DEF GetPending
    <3>. QED BY <2>1, <3>1, DeleteProfileSerial
  <2>. QED BY <2>2, <2>3
<1>2. CASE PutPending(s)
  <2>1. /\ UNCHANGED <<passphrase, items, count, validated, tangled, killed>>
        /\ Busy(req[s]) /\ req[s].pc = "putPending"
        /\ pending' # None
    <3>1. /\ UNCHANGED <<passphrase, items, count, validated, tangled, killed>>
          /\ Busy(req[s]) /\ req[s].pc = "putPending" /\ pending' = req[s].secret
      BY <1>2 DEF PutPending, At, Busy
    <3>2. req[s].secret \in Secret
      BY <3>1, RunningFacts DEF HoldsOf
    <3>3. \A c \in Secret : c # None
      BY EmailConstants DEF Secret
    <3>. QED BY <3>1, <3>2, <3>3
  <2>2. PICK r \in Requests : Put(r) /\ r.pc = "mail" /\ r.isNew = req[s].isNew
    <3>. DEFINE x == [req[s] EXCEPT !.pc = "mail"]
    <3>1. Put(x)
      BY <1>2 DEF PutPending, Goto
    <3>2. x \in Requests /\ x.pc = "mail" /\ x.isNew = req[s].isNew
      BY RunningFacts DEF Requests, Points
    <3>. QED BY <3>1, <3>2
  <2>3. ~tangled /\ ~killed => ProfileOf(r)'
    BY <2>1, <2>2, SerialFacts DEF ProfileOf, NoRest, Owned
  <2>4. ~tangled => count' >= Cardinality(items') /\ CountOf(r)'
    BY <2>1, <2>2, SerialFacts DEF CountOf
  <2>. QED BY <2>1, <2>2, <2>3, <2>4, RunningFacts, SerialStep
<1>3. CASE Mail(s)
  <2>1. /\ UNCHANGED <<passphrase, items, count, pending, validated, tangled, killed>>
        /\ Busy(req[s]) /\ req[s].pc = "mail"
    BY <1>3 DEF Mail, At, db, Busy
  <2>2. End(s) \/ DeleteProfile(s)
    BY <1>3 DEF Mail
  <2>. QED BY <2>1, <2>2, SerialEnd, DeleteProfileSerial
<1>. QED BY <1>1, <1>2, <1>3

\* deleteWholeProfile: what has been deleted stays so, until all is.
LEMMA DeleteSerial ==
    ASSUME SInv, EInv', NEW s \in Slot, NEW d \in Profile, Delete(s, d)
    PROVE  SInv'
<1>1. /\ UNCHANGED <<items, count, tangled, killed>>
      /\ Busy(req[s]) /\ req[s].pc = "delete" /\ d \in req[s].left
      /\ passphrase' = IF d = "passphrase" THEN None ELSE passphrase
      /\ pending' = IF d = "pending" THEN None ELSE pending
      /\ validated' = (validated /\ d # "validated")
  BY DEF Delete, At, Busy
<1>2. PICK r \in Requests :
        /\ req' = [req EXCEPT ![s] = r]
        /\ ~r.isNew \/ r.isNew = req[s].isNew
        /\ \/ r.pc = "free" /\ req[s].left = {d}
           \/ r.pc = "delete" /\ r.left = req[s].left \ {d}
  <2>1. CASE req[s].left = {d}
    <3>1. req' = [req EXCEPT ![s] = Free]
      BY <2>1 DEF Delete, End
    <3>2. Free \in Requests /\ Free.pc = "free" /\ ~Free.isNew
      BY FreeIsRequest DEF Free
    <3>. QED BY <2>1, <3>1, <3>2
  <2>2. CASE req[s].left # {d}
    <3>. DEFINE x == [req[s] EXCEPT !.left = req[s].left \ {d}]
    <3>1. req' = [req EXCEPT ![s] = x]
      BY <2>2, RunningFacts DEF Delete
    <3>2. /\ x \in Requests /\ x.pc = "delete" /\ x.left = req[s].left \ {d}
          /\ x.isNew = req[s].isNew
      BY <1>1, RunningFacts DEF Requests
    <3>. QED BY <3>1, <3>2
  <2>. QED BY <2>1, <2>2
<1>3. ~tangled /\ ~killed => ProfileOf(r)'
  <2>. SUFFICES ASSUME ~tangled, ~killed PROVE ProfileOf(r)'
    OBVIOUS
  <2>1. /\ "passphrase" \notin req[s].left \ {d} => passphrase' = None
        /\ "pending" \notin req[s].left \ {d} => pending' = None
        /\ "validated" \notin req[s].left \ {d} => ~validated'
    BY <1>1, SerialFacts DEF ProfileOf
  <2>2. pending' # None => ~validated'
    BY <1>1, SerialFacts DEF ProfileOf
  <2>3. r.isNew => pending' = None /\ ~validated'
    BY <1>1, <1>2, SerialFacts DEF ProfileOf
  <2>. QED BY <1>2, <2>1, <2>2, <2>3 DEF ProfileOf, NoRest, Owned
<1>4. ~tangled => count' >= Cardinality(items') /\ CountOf(r)'
  BY <1>1, <1>2, SerialFacts DEF CountOf
<1>. QED BY <1>1, <1>2, <1>3, <1>4, RunningFacts, SerialStep

\* authorizeRequest: what goes on has the passphrase, so there is one.
LEMMA AuthorizeSerial ==
    ASSUME SInv, EInv', NEW s \in Slot, Authorize(s)
    PROVE  SInv'
<1>1. /\ UNCHANGED <<passphrase, items, count, pending, validated, tangled, killed>>
      /\ Busy(req[s]) /\ req[s].pc = "auth" /\ req[s].pass # None
      /\ req[s].op \in {"erase", "eraseProfile", "resend", "changePassphrase"}
  BY RunningFacts, EmailConstants DEF Authorize, At, db, Busy, HoldsOf
<1>2. CASE passphrase # req[s].pass
  BY <1>1, <1>2, SerialEnd DEF Authorize
<1>3. CASE passphrase = req[s].pass /\ req[s].op = "eraseProfile"
  BY <1>1, <1>3, DeleteProfileSerial DEF Authorize
<1>4. ASSUME NEW p \in {"delItem", "getPendingToResend", "putPass"}, Accepted(s, p),
             passphrase # None
      PROVE  SInv'
  <2>. DEFINE x == [req[s] EXCEPT !.pass = None, !.pc = p]
  <2>1. req' = [req EXCEPT ![s] = x]
    BY <1>4, RunningFacts DEF Accepted
  <2>2. x \in Requests /\ x.pc = p /\ x.isNew = req[s].isNew
    BY RunningFacts DEF Requests, Points
  <2>. HIDE DEF x
  <2>3. ~tangled /\ ~killed => ProfileOf(x)
    BY <1>1, <1>4, <2>2, SerialFacts DEF ProfileOf, Owned
  <2>. QED BY <1>1, <2>1, <2>2, <2>3, SerialMove
<1>5. CASE passphrase = req[s].pass /\ req[s].op # "eraseProfile"
  <2>1. CASE req[s].op = "erase"
    BY <1>1, <1>4, <1>5, <2>1 DEF Authorize
  <2>2. CASE req[s].op = "resend"
    BY <1>1, <1>4, <1>5, <2>2 DEF Authorize
  <2>3. CASE req[s].op = "changePassphrase"
    BY <1>1, <1>4, <1>5, <2>3 DEF Authorize
  <2>. QED BY <1>1, <1>5, <2>1, <2>2, <2>3
<1>. QED BY <1>2, <1>3, <1>5

\* erase's del: it makes the counter one too many.
LEMMA DelItemSerial ==
    ASSUME SInv, EInv', NEW s \in Slot, DelItem(s)
    PROVE  SInv'
<1>1. /\ UNCHANGED <<passphrase, count, pending, validated, killed>>
      /\ Busy(req[s]) /\ req[s].pc = "delItem"
      /\ items' = items \ {req[s].key}
      /\ tangled' = (tangled \/ req[s].key \notin items)
  BY DEF DelItem, At, Busy
<1>2. PICK r \in Requests :
        req' = [req EXCEPT ![s] = r] /\ r.pc = "counter" /\ r.isNew = req[s].isNew
  <2>. DEFINE x == [req[s] EXCEPT !.key = None, !.pc = "counter"]
  <2>1. req' = [req EXCEPT ![s] = x]
    BY RunningFacts DEF DelItem
  <2>2. x \in Requests /\ x.pc = "counter" /\ x.isNew = req[s].isNew
    BY RunningFacts DEF Requests, Points
  <2>. QED BY <2>1, <2>2
<1>3. ~tangled' /\ ~killed => ProfileOf(r)'
  BY <1>1, <1>2, SerialFacts DEF ProfileOf, NoRest, Owned
<1>4. ~tangled' => count' >= Cardinality(items') /\ CountOf(r)'
  <2>. SUFFICES ASSUME ~tangled' PROVE count' >= Cardinality(items') /\ CountOf(r)'
    OBVIOUS
  <2>1. count >= Cardinality(items) /\ req[s].key \in items
    BY <1>1, SerialFacts
  <2>2. Cardinality(items) = Cardinality(items') + 1 /\ Cardinality(items') \in Nat
    BY <1>1, <2>1, RunningFacts, ItemCount
  <2>3. count' >= Cardinality(items') + 1 /\ count' >= Cardinality(items')
    BY <1>1, <2>1, <2>2, RunningFacts
  <2>. QED BY <1>2, <2>3 DEF CountOf
<1>5. IsFiniteSet(items')
  BY <1>1, RunningFacts, ItemCount
<1>. QED BY <1>1, <1>2, <1>3, <1>4, <1>5, SerialStep

\* resend, validate and changePassphrase.
LEMMA ValidateSerial ==
    ASSUME SInv, EInv', NEW s \in Slot,
           GetPendingToResend(s) \/ GetPendingToValidate(s) \/ PutValidated(s)
             \/ DelPending(s) \/ PutPass(s)
    PROVE  SInv'
<1>. DEFINE Put(r) == req' = [req EXCEPT ![s] = r]
<1>1. CASE GetPendingToResend(s)
  <2>1. /\ UNCHANGED <<passphrase, items, count, pending, validated, tangled, killed>>
        /\ Busy(req[s]) /\ req[s].pc = "getPendingToResend"
    BY <1>1 DEF GetPendingToResend, At, db, Busy
  <2>2. CASE pending = None
    BY <1>1, <2>1, <2>2, SerialEnd DEF GetPendingToResend
  <2>3. CASE pending # None
    <3>. DEFINE x == [req[s] EXCEPT !.secret = pending, !.pc = "mail"]
    <3>1. Put(x)
      BY <1>1, <2>3, RunningFacts DEF GetPendingToResend
    <3>2. pending \in 0..MaxSecret
      BY <2>3, DatabaseFacts, EmailConstants DEF SInv, Secret
    <3>3. x \in Requests /\ x.pc = "mail" /\ x.isNew = req[s].isNew
      BY <3>2, RunningFacts DEF Requests, Points
    <3>. HIDE DEF x
    <3>4. ~tangled /\ ~killed => ProfileOf(x)
      BY <2>1, <3>3, SerialFacts DEF ProfileOf, Owned
    <3>. QED BY <2>1, <3>1, <3>3, <3>4, SerialMove
  <2>. QED BY <2>2, <2>3
<1>2. CASE GetPendingToValidate(s)
  <2>1. /\ UNCHANGED <<passphrase, items, count, pending, validated, tangled, killed>>
        /\ Busy(req[s]) /\ req[s].pc = "getPendingToValidate"
    BY <1>2 DEF GetPendingToValidate, At, db, Busy
  <2>2. CASE End(s)
    BY <2>1, <2>2, SerialEnd
  <2>3. CASE pending # None /\ Goto(s, "putValidated")
    <3>. DEFINE x == [req[s] EXCEPT !.pc = "putValidated"]
    <3>1. Put(x)
      BY <2>3 DEF Goto
    <3>2. x \in Requests /\ x.pc = "putValidated" /\ x.isNew = req[s].isNew
      BY RunningFacts DEF Requests, Points
    <3>. HIDE DEF x
    <3>3. ~tangled /\ ~killed => ProfileOf(x)
      BY <2>1, <2>3, <3>2, SerialFacts DEF ProfileOf, NoRest, Owned
    <3>. QED BY <2>1, <3>1, <3>2, <3>3, SerialMove
  <2>. QED BY <1>2, <2>2, <2>3 DEF GetPendingToValidate
<1>3. CASE PutValidated(s)
  <2>1. /\ UNCHANGED <<passphrase, items, count, pending, tangled, killed>>
        /\ Busy(req[s]) /\ req[s].pc = "putValidated"
    BY <1>3 DEF PutValidated, At, Busy
  <2>2. PICK r \in Requests : Put(r) /\ r.pc = "delPending" /\ r.isNew = req[s].isNew
    <3>. DEFINE x == [req[s] EXCEPT !.pc = "delPending"]
    <3>1. Put(x)
      BY <1>3 DEF PutValidated, Goto
    <3>2. x \in Requests /\ x.pc = "delPending" /\ x.isNew = req[s].isNew
      BY RunningFacts DEF Requests, Points
    <3>. QED BY <3>1, <3>2
  <2>3. ~tangled /\ ~killed => ProfileOf(r)'
    BY <2>1, <2>2, SerialFacts DEF ProfileOf, NoRest, Owned
  <2>4. ~tangled => count' >= Cardinality(items') /\ CountOf(r)'
    BY <2>1, <2>2, SerialFacts DEF CountOf
  <2>. QED BY <2>1, <2>2, <2>3, <2>4, RunningFacts, SerialStep
<1>4. ASSUME Put(Free), Busy(req[s]),
             UNCHANGED <<items, count, tangled, killed>>,
             ~tangled /\ ~killed =>
                 passphrase' # None /\ (pending' # None => ~validated')
      PROVE  SInv'
  <2>1. ~tangled /\ ~killed => ProfileOf(Free)'
    BY <1>4 DEF ProfileOf, NoRest, Owned, Free
  <2>2. ~tangled => count' >= Cardinality(items') /\ CountOf(Free)'
    BY <1>4, SerialFacts DEF CountOf, Free
  <2>. QED BY <1>4, <2>1, <2>2, FreeIsRequest, RunningFacts, SerialStep
<1>5. CASE DelPending(s)
  <2>1. /\ UNCHANGED <<passphrase, items, count, validated, tangled, killed>>
        /\ Busy(req[s]) /\ req[s].pc = "delPending"
        /\ pending' = None /\ Put(Free)
    BY <1>5 DEF DelPending, At, Busy, End
  <2>2. ~tangled /\ ~killed => passphrase # None
    BY <2>1, SerialFacts DEF ProfileOf, Owned
  <2>. QED BY <1>4, <2>1, <2>2
<1>6. CASE PutPass(s)
  <2>1. /\ UNCHANGED <<items, count, pending, validated, tangled, killed>>
        /\ Busy(req[s]) /\ req[s].pc = "putPass"
        /\ passphrase' \in Pass /\ Put(Free)
    BY <1>6 DEF PutPass, At, Busy, End
  <2>2. passphrase' # None
    BY <2>1, EmailConstants
  <2>3. ~tangled /\ ~killed => (pending # None => ~validated)
    BY <2>1, SerialFacts DEF ProfileOf
  <2>. QED BY <1>4, <2>1, <2>2, <2>3
<1>. QED BY <1>1, <1>2, <1>3, <1>5, <1>6

LEMMA ContinueSerial ==
    ASSUME SInv, EInv', NEW s \in Slot, Continue(s)
    PROVE  SInv'
<1>1. CASE Exists(s) \/ Check(s) \/ SavePass(s) \/ IsConfirmed(s)
  BY <1>1, CheckingSerial
<1>2. CASE CheckItem(s) \/ Counter(s) \/ PutCounter(s) \/ PutItem(s)
  BY <1>2, CountingSerial
<1>3. CASE GetPending(s) \/ PutPending(s) \/ Mail(s)
  BY <1>3, SecretSerial
<1>4. CASE Authorize(s)
  BY <1>4, AuthorizeSerial
<1>5. CASE DelItem(s)
  BY <1>5, DelItemSerial
<1>6. CASE GetPendingToResend(s) \/ GetPendingToValidate(s) \/ PutValidated(s)
             \/ DelPending(s) \/ PutPass(s)
  BY <1>6, ValidateSerial
<1>7. CASE \E d \in Profile : Delete(s, d)
  BY <1>7, DeleteSerial
<1>. QED BY <1>1, <1>2, <1>3, <1>4, <1>5, <1>6, <1>7 DEF Continue

\* A kill between the counter and the item leaves a counter that is too great.
LEMMA RestartSerial ==
    ASSUME SInv, EInv', Restart
    PROVE  SInv'
<1>1. /\ UNCHANGED <<passphrase, items, count, pending, validated, mailed, tangled>>
      /\ req' = [s \in Slot |-> Free]
      /\ killed'
  BY DEF Restart, db
<1>2. Alone' /\ ProfileInv'
  BY <1>1 DEF Alone, ProfileInv, Busy, Free
<1>3. CountInv'
  BY <1>1 DEF SInv, CountInv, CountOf, Free
<1>. QED BY <1>2, <1>3 DEF SInv

LEMMA InitSInv == Init => SInv
<1>. SUFFICES ASSUME Init PROVE SInv
  OBVIOUS
<1>1. EInv
  BY InitEInv
<1>2. Alone
  BY DEF Init, Alone, Busy, Free
<1>3. CountInv
  <2>1. IsFiniteSet(items) /\ Cardinality(items) = 0 /\ count = 0
    BY FS_EmptySet DEF Init
  <2>. QED BY <2>1 DEF Init, CountInv, CountOf, Free
<1>4. ProfileInv
  BY DEF Init, ProfileInv, ProfileOf, NoRest, Owned, Busy, Free
<1>. QED BY <1>1, <1>2, <1>3, <1>4 DEF SInv

LEMMA NextSInv == SInv /\ [Next]_emailVars => SInv'
<1>. SUFFICES ASSUME SInv, [Next]_emailVars PROVE SInv'
  OBVIOUS
<1>1. EInv'
  BY NextEInv DEF SInv
<1>2. CASE Restart
  BY <1>1, <1>2, RestartSerial
<1>3. ASSUME NEW s \in Slot, Request(s) PROVE SInv'
  BY <1>1, <1>3, RequestSerial
<1>4. ASSUME NEW s \in Slot, Continue(s) PROVE SInv'
  BY <1>1, <1>4, ContinueSerial
<1>5. CASE UNCHANGED emailVars
  BY <1>1, <1>5 DEF emailVars, SInv, Alone, CountInv, CountOf, ProfileInv, ProfileOf, NoRest, Quiet
<1>. QED BY <1>2, <1>3, <1>4, <1>5 DEF Next

-----------------------------------------------------------------------------
(* The theorems *)

THEOREM SerialInvariance == Spec => []SInv
<1>. QED BY InitSInv, NextSInv, PTL DEF Spec

\* While requests come one at a time and erase what exists, the counter of
\* checkAndUpdateItemCounter is never less than the number of items, at whatever
\* operation a request is, fails or is killed.
THEOREM CounterCovers == Spec => []CountCovers
<1>1. SInv => CountCovers
  BY DEF SInv, CountInv, CountCovers
<1>. QED BY <1>1, SerialInvariance, PTL

\* Between requests that come one at a time the profile is whole or gone:
\* save's rollback, eraseProfile's three deletions in any order, validate.
THEOREM ProfilesAreWhole == Spec => []WholeProfile
<1>1. SInv => WholeProfile
  <2>. SUFFICES ASSUME SInv, Quiet, ~tangled, ~killed
                PROVE  /\ passphrase = None => pending = None /\ ~validated
                       /\ pending # None => ~validated
    BY DEF WholeProfile
  <2>1. ProfileOf(Free)
    BY DEF SInv, ProfileInv
  <2>. QED BY <2>1 DEF ProfileOf, NoRest, Free
<1>. QED BY <1>1, SerialInvariance, PTL
=============================================================================
