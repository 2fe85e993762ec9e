----------------------------- MODULE EmailStore -----------------------------
(***************************************************************************)
(* plugins/emailstore.js: what the requests about one email address do to  *)
(* its keys of the emailstore database.  (No key is shared by two          *)
(* addresses.)                                                             *)
(*                                                                         *)
(* Every action is one LevelDB operation, or the sending of a mail, and    *)
(* what its callback does up to the next one; a request is in a slot until *)
(* its last callback has run.  LevelDB does not fail here; a mail may.     *)
(***************************************************************************)
EXTENDS Integers, FiniteSets

CONSTANTS
    Slot,           \* places for the requests that run at one time
    Pass,           \* passphrases
    Key,            \* keys of items
    None,           \* an absent value
    Unconfirmed,    \* UNCONFIRMED_ITEMS_LIMIT
    Confirmed,      \* CONFIRMED_ITEMS_LIMIT
    MaxSecret,      \* secrets that are told apart: more than there are slots
    CanCrash        \* may the process be killed and started again?

ASSUME EmailConstants ==
    /\ None \notin Pass
    /\ None \notin Key
    /\ Unconfirmed \in Nat
    /\ Confirmed \in Nat
    /\ Unconfirmed <= Confirmed
    /\ IsFiniteSet(Slot)
    /\ MaxSecret \in Nat
    /\ MaxSecret > Cardinality(Slot)
    /\ None \notin 0..MaxSecret
    /\ CanCrash \in BOOLEAN

Secret == 1..MaxSecret

VARIABLES
    passphrase, \* email-to-passphrase-
    items,      \* the keys that have an emailstore- entry
    count,      \* itemscount-
    pending,    \* pending-: the secret
    validated,  \* validated-
    req,        \* the request in every slot
    mailed,     \* the secrets that were sent, but for forgotten ones (history)
    tangled,    \* has a request begun while another was running, or an
                \* erase found no item? (history)
    killed      \* has the process been killed with a request running? (history)

db == <<passphrase, items, count, pending, validated>>
emailVars == <<passphrase, items, count, pending, validated, req, mailed, tangled, killed>>

Points == {"free", "exists", "check", "savePass", "confirmed", "item",
           "counter", "putCounter", "putItem", "getPending", "putPending",
           "mail", "delete", "auth", "delItem", "getPendingToResend",
           "getPendingToValidate", "putValidated", "delPending", "putPass"}

Operations == {"none", "save", "erase", "eraseProfile", "resend", "validate", "changePassphrase"}

Profile == {"passphrase", "pending", "validated"}

\* isNew, isConfirmed: of processPost     n: the counter that is to be put
\* secret: presented, read or generated   left: what deleteWholeProfile has yet to delete
Requests == [pc : Points, op : Operations, pass : Pass \cup {None}, key : Key \cup {None},
             isNew : BOOLEAN, isConfirmed : BOOLEAN, n : 0..Confirmed,
             secret : 0..MaxSecret, left : SUBSET Profile]

Free == [pc |-> "free", op |-> "none", pass |-> None, key |-> None, isNew |-> FALSE,
         isConfirmed |-> TRUE, n |-> 0, secret |-> 0, left |-> {}]

Init ==
    /\ passphrase = None
    /\ items = {}
    /\ count = 0
    /\ pending = None
    /\ validated = FALSE
    /\ req = [s \in Slot |-> Free]
    /\ mailed = {}
    /\ tangled = FALSE
    /\ killed = FALSE

Quiet == \A s \in Slot : req[s].pc = "free"

At(s, p) == req[s].pc = p
Goto(s, p) == req' = [req EXCEPT ![s].pc = p]
End(s) == req' = [req EXCEPT ![s] = Free]

\* (No later step reads the passphrase.)
Accepted(s, p) == req' = [req EXCEPT ![s].pass = None, ![s].pc = p]

(***************************************************************************)
(* The arrival of a request.  retrieve and oldRetrieve only read.          *)
(***************************************************************************)
Arrive(s, r) ==
    /\ At(s, "free")
    /\ req' = [req EXCEPT ![s] = r]
    /\ tangled' = (tangled \/ ~Quiet)
    /\ UNCHANGED <<db, mailed, killed>>

Save(s) ==
    \E p \in Pass, k \in Key :
        Arrive(s, [Free EXCEPT !.pc = "exists", !.op = "save", !.pass = p, !.key = k])

Erase(s) ==
    \E p \in Pass, k \in Key :
        Arrive(s, [Free EXCEPT !.pc = "auth", !.op = "erase", !.pass = p, !.key = k])

Authorized(s) ==
    \E p \in Pass, o \in {"eraseProfile", "resend", "changePassphrase"} :
        Arrive(s, [Free EXCEPT !.pc = "auth", !.op = o, !.pass = p])

\* The code of some mail, or (0) a wrong one.
Validate(s) ==
    \E c \in mailed \cup {0} :
        Arrive(s, [Free EXCEPT !.pc = "getPendingToValidate", !.op = "validate", !.secret = c])

(***************************************************************************)
(* processPost                                                             *)
(***************************************************************************)
Exists(s) ==
    /\ At(s, "exists")
    /\ IF passphrase # None
       THEN Goto(s, "check")
       ELSE req' = [req EXCEPT ![s].isNew = TRUE, ![s].pc = "savePass"]
    /\ UNCHANGED <<db, mailed, tangled, killed>>

Check(s) ==
    /\ At(s, "check")
    /\ IF passphrase = req[s].pass THEN Accepted(s, "confirmed") ELSE End(s)
    /\ UNCHANGED <<db, mailed, tangled, killed>>

SavePass(s) ==
    /\ At(s, "savePass")
    /\ passphrase' = req[s].pass
    /\ Accepted(s, "confirmed")
    /\ UNCHANGED <<items, count, pending, validated, mailed, tangled, killed>>

\* isConfirmed, then checkSizeQuota.  A record within POST_LIMIT is within the
\* quota of a confirmed profile, and may be beyond that of an unconfirmed one.
IsConfirmed(s) ==
    /\ At(s, "confirmed")
    /\ \/ req' = [req EXCEPT ![s].isConfirmed = validated, ![s].pc = "item"]
       \/ ~validated /\ End(s)
    /\ UNCHANGED <<db, mailed, tangled, killed>>

\* A mutant of CheckItem: an existing item is counted, a new one is not.
CheckItemSwapped(s) ==
    /\ At(s, "item")
    /\ Goto(s, IF req[s].key \in items THEN "counter" ELSE "putItem")
    /\ UNCHANGED <<db, mailed, tangled, killed>>

CheckItem(s) ==
    /\ At(s, "item")
    /\ Goto(s, IF req[s].key \in items THEN "putItem" ELSE "counter")
    /\ UNCHANGED <<db, mailed, tangled, killed>>

\* A mutant of Limit: the limit is tested before the counter is incremented.
LimitBeforeIncrement(confirmed) == (IF confirmed THEN Confirmed ELSE Unconfirmed) + 1

Limit(confirmed) == IF confirmed THEN Confirmed ELSE Unconfirmed

\* checkAndUpdateItemCounter, for save and for erase.
Counter(s) ==
    /\ At(s, "counter")
    /\ \/ /\ req[s].op = "save"
          /\ IF count + 1 > Limit(req[s].isConfirmed)
             THEN End(s)
             ELSE req' = [req EXCEPT ![s].n = count + 1, ![s].pc = "putCounter"]
       \/ /\ req[s].op = "erase"
          /\ req' = [req EXCEPT ![s].n = IF count > 0 THEN count - 1 ELSE count,
                                ![s].pc = "putCounter"]
    /\ UNCHANGED <<db, mailed, tangled, killed>>

PutCounter(s) ==
    /\ At(s, "putCounter")
    /\ count' = req[s].n
    /\ IF req[s].op = "save" THEN req' = [req EXCEPT ![s].n = 0, ![s].pc = "putItem"] ELSE End(s)
    /\ UNCHANGED <<passphrase, items, pending, validated, mailed, tangled, killed>>

NeedsMail(s) == req' = [req EXCEPT ![s] = [Free EXCEPT !.pc = "getPending", !.op = "save"]]

PutItem(s) ==
    /\ At(s, "putItem")
    /\ items' = items \cup {req[s].key}
    /\ IF req[s].isNew /\ ~req[s].isConfirmed THEN NeedsMail(s) ELSE End(s)
    /\ UNCHANGED <<passphrase, count, pending, validated, mailed, tangled, killed>>

\* A mutant of DeleteProfile: the validation stays.
DeleteProfileKeepValidated(s) ==
    req' = [req EXCEPT ![s] = [Free EXCEPT !.pc = "delete", !.left = Profile \ {"validated"}]]

\* deleteWholeProfile, of eraseProfile and of save's errorCreating.
DeleteProfile(s) == req' = [req EXCEPT ![s] = [Free EXCEPT !.pc = "delete", !.left = Profile]]

\* Secrets are random.  One that neither the database nor a request holds is
\* taken for a new one, and its old mail is forgotten.
NewSecret == CHOOSE c \in Secret : c # pending /\ \A s \in Slot : req[s].secret # c

\* With a secret there already, createVerificationSecret calls back with
\* neither an error nor a secret, which is an error to its caller.
GetPending(s) ==
    /\ At(s, "getPending")
    /\ \/ /\ pending = None
          /\ req' = [req EXCEPT ![s].secret = NewSecret, ![s].pc = "putPending"]
          /\ mailed' = mailed \ {NewSecret}
       \/ /\ pending # None
          /\ DeleteProfile(s)
          /\ UNCHANGED mailed
    /\ UNCHANGED <<db, tangled, killed>>

PutPending(s) ==
    /\ At(s, "putPending")
    /\ pending' = req[s].secret
    /\ Goto(s, "mail")
    /\ UNCHANGED <<passphrase, items, count, validated, mailed, tangled, killed>>

(***************************************************************************)
(* sendVerificationEmail, for save and for resend, and deleteWholeProfile, *)
(* for save and for eraseProfile: its three dels run in any order.         *)
(***************************************************************************)
\* A mutant of Mail: no rollback.
MailNoRollback(s) ==
    /\ At(s, "mail")
    /\ End(s)
    /\ mailed' \in {mailed, mailed \cup {req[s].secret}}
    /\ UNCHANGED <<db, tangled, killed>>

Mail(s) ==
    /\ At(s, "mail")
    /\ \/ mailed' = mailed \cup {req[s].secret} /\ End(s)
       \/ /\ IF req[s].op = "save" THEN DeleteProfile(s) ELSE End(s)
          /\ UNCHANGED mailed
    /\ UNCHANGED <<db, tangled, killed>>

Delete(s, d) ==
    /\ At(s, "delete")
    /\ d \in req[s].left
    /\ passphrase' = IF d = "passphrase" THEN None ELSE passphrase
    /\ pending' = IF d = "pending" THEN None ELSE pending
    /\ validated' = (validated /\ d # "validated")
    /\ IF req[s].left = {d} THEN End(s) ELSE req' = [req EXCEPT ![s].left = @ \ {d}]
    /\ UNCHANGED <<items, count, mailed, tangled, killed>>

(***************************************************************************)
(* The other requests, most of them behind authorizeRequest                *)
(***************************************************************************)
Authorize(s) ==
    /\ At(s, "auth")
    /\ IF passphrase # req[s].pass THEN End(s)
       ELSE CASE req[s].op = "erase"            -> Accepted(s, "delItem")
              [] req[s].op = "eraseProfile"     -> DeleteProfile(s)
              [] req[s].op = "resend"           -> Accepted(s, "getPendingToResend")
              [] req[s].op = "changePassphrase" -> Accepted(s, "putPass")
    /\ UNCHANGED <<db, mailed, tangled, killed>>

\* LevelDB's del succeeds, whether or not there is an entry.
DelItem(s) ==
    /\ At(s, "delItem")
    /\ items' = items \ {req[s].key}
    /\ tangled' = (tangled \/ req[s].key \notin items)
    /\ req' = [req EXCEPT ![s].key = None, ![s].pc = "counter"]
    /\ UNCHANGED <<passphrase, count, pending, validated, mailed, killed>>

GetPendingToResend(s) ==
    /\ At(s, "getPendingToResend")
    /\ IF pending = None THEN End(s)
       ELSE req' = [req EXCEPT ![s].secret = pending, ![s].pc = "mail"]
    /\ UNCHANGED <<db, mailed, tangled, killed>>

GetPendingToValidate(s) ==
    /\ At(s, "getPendingToValidate")
    /\ IF pending # None /\ pending = req[s].secret THEN Goto(s, "putValidated") ELSE End(s)
    /\ UNCHANGED <<db, mailed, tangled, killed>>

PutValidated(s) ==
    /\ At(s, "putValidated")
    /\ validated' = TRUE
    /\ Goto(s, "delPending")
    /\ UNCHANGED <<passphrase, items, count, pending, mailed, tangled, killed>>

DelPending(s) ==
    /\ At(s, "delPending")
    /\ pending' = None
    /\ End(s)
    /\ UNCHANGED <<passphrase, items, count, validated, mailed, tangled, killed>>

PutPass(s) ==
    /\ At(s, "putPass")
    /\ \E p \in Pass : passphrase' = p
    /\ End(s)
    /\ UNCHANGED <<items, count, pending, validated, mailed, tangled, killed>>

\* The process is killed and started again; LevelDB keeps what was put.
Restart ==
    /\ CanCrash
    /\ ~Quiet
    /\ req' = [s \in Slot |-> Free]
    /\ killed' = TRUE
    /\ UNCHANGED <<db, mailed, tangled>>

(***************************************************************************)
(* The specification                                                       *)
(***************************************************************************)
Request(s) == Save(s) \/ Erase(s) \/ Authorized(s) \/ Validate(s)

Continue(s) ==
    \/ Exists(s) \/ Check(s) \/ SavePass(s) \/ IsConfirmed(s) \/ CheckItem(s)
    \/ Counter(s) \/ PutCounter(s) \/ PutItem(s) \/ GetPending(s) \/ PutPending(s)
    \/ Mail(s) \/ Authorize(s) \/ DelItem(s) \/ GetPendingToResend(s)
    \/ GetPendingToValidate(s) \/ PutValidated(s) \/ DelPending(s) \/ PutPass(s)
    \/ \E d \in Profile : Delete(s, d)

Next == Restart \/ \E s \in Slot : Request(s) \/ Continue(s)

Spec == Init /\ [][Next]_emailVars

(***************************************************************************)
(* Properties                                                              *)
(***************************************************************************)

\* The types of the database and of the requests; the counter stays within
\* the limit of a confirmed profile.
EmailTypeOK ==
    /\ passphrase \in Pass \cup {None}
    /\ items \in SUBSET Key
    /\ count \in 0..Confirmed
    /\ pending \in Secret \cup {None}
    /\ validated \in BOOLEAN
    /\ req \in [Slot -> Requests]
    /\ mailed \in SUBSET Secret
    /\ tangled \in BOOLEAN
    /\ killed \in BOOLEAN

\* Whatever requests run at one time, when all have ended the secret the
\* database waits for is one that was mailed: an address never waits for a code
\* that nobody has (createVerificationSecretAndSendEmail with the rollback of
\* processPost).  A killed process may leave one that was not.
PendingIsMailed == Quiet /\ ~killed => pending \in mailed \cup {None}

\* As long as requests come one at a time and erase what exists, the counter
\* that checkAndUpdateItemCounter tests is never less than the number of items,
\* although the two are put one after the other and the process may be killed
\* between them, or a profile be erased and begun again.
CountCovers == ~tangled => count >= Cardinality(items)

\* When requests come one at a time, between two of them an address without a
\* passphrase waits for no code and is not validated, and one that waits for a
\* code is not validated: what remains of save's rollback, of eraseProfile and
\* of validate is never half a profile.
WholeProfile ==
    Quiet /\ ~tangled /\ ~killed =>
        /\ passphrase = None => pending = None /\ ~validated
        /\ pending # None => ~validated
=============================================================================
