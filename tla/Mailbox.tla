------------------------------- MODULE Mailbox -------------------------------
(***************************************************************************)
(* lib/MessageDb.js with the plugins mailbox and cleaner and the rooms of  *)
(* app/controllers/socket.js: clients leave messages for a public key,     *)
(* and a client that has subscribed with that key gets those that come and *)
(* asks, with "sync", for those that are there.                            *)
(*                                                                         *)
(* A message is the key msg-<to>-<ts> it is stored under.  ts is the       *)
(* microsecond in which addMessage made the key: verifying a signature     *)
(* takes longer, so no two messages share one.                             *)
(***************************************************************************)
EXTENDS Integers, FiniteSets

CONSTANTS
    Sockets,    \* places for the clients that are connected at one time
    PubKeys,    \* the public keys that messages are sent to
    Topics,     \* the rooms that a client may join: these and others ("inv")
    Threshold,  \* config.threshold of the cleaner
    MaxClock    \* when time ends (a bound of the model)

ASSUME MailConstants ==
    /\ PubKeys \subseteq Topics
    /\ Threshold \in Nat
    /\ MaxClock \in Nat

VARIABLES
    clock,      \* microtime.now()
    store,      \* the database
    putting,    \* messages whose put is under way
    announcing, \* those whose put is done and has not called back
    sock,       \* every socket
    cleaner,    \* the task of the cleaner
    announced   \* the messages whose put has called back (history)

mailVars == <<clock, store, putting, announcing, sock, cleaner, announced>>

Time == 1..MaxClock
Message == [to : PubKeys, ts : Time]
Never == MaxClock + 1

\* at:    "ready", or the point of the sync that is running
\* asked: the key it is for, rooms[1] (one client asks for one key)
\* lower, upper: the ends of its range;  list: what it has read
\* got:   the messages that were emitted to the socket (history)
\* since: the time from which the syncs that were answered promise all
\*        messages (history)
Socket == [at : {"away", "ready", "read", "emit"}, rooms : SUBSET Topics,
           asked : SUBSET PubKeys, lower : 0..MaxClock, upper : 0..MaxClock,
           list : SUBSET Message, got : SUBSET Message, since : Int]

Away == [at |-> "away", rooms |-> {}, asked |-> {}, lower |-> 0, upper |-> 0,
         list |-> {}, got |-> {}, since |-> Never]

Cleaner == [at : {"off", "read", "delete"}, limit : Int, dels : SUBSET Message]
NoTask == [at |-> "off", limit |-> 0, dels |-> {}]

MailInit ==
    /\ clock = 0
    /\ store = {}
    /\ putting = {}
    /\ announcing = {}
    /\ sock = [s \in Sockets |-> Away]
    /\ cleaner = NoTask
    /\ announced = {}

-----------------------------------------------------------------------------
(* Messages that come *)

TimePasses ==
    /\ clock < MaxClock
    /\ clock' = clock + 1
    /\ UNCHANGED <<store, putting, announcing, sock, cleaner, announced>>

\* addMessage
AddMessage(to) ==
    /\ clock < MaxClock
    /\ clock' = clock + 1
    /\ putting' = putting \cup {[to |-> to, ts |-> clock']}
    /\ UNCHANGED <<store, announcing, sock, cleaner, announced>>

Written(m) ==
    /\ m \in putting
    /\ putting' = putting \ {m}
    /\ store' = store \cup {m}
    /\ announcing' = announcing \cup {m}
    /\ UNCHANGED <<clock, sock, cleaner, announced>>

\* Mutant: broadcastMessage emits to every socket.
AnnounceToAll(m) ==
    /\ m \in announcing
    /\ announcing' = announcing \ {m}
    /\ announced' = announced \cup {m}
    /\ sock' = [s \in Sockets |->
                  IF sock[s].at # "away" THEN [sock[s] EXCEPT !.got = @ \cup {m}] ELSE sock[s]]
    /\ UNCHANGED <<clock, store, putting, cleaner>>

\* The event "put" of the database, and broadcastMessage to the room.
Announce(m) ==
    /\ m \in announcing
    /\ announcing' = announcing \ {m}
    /\ announced' = announced \cup {m}
    /\ sock' = [s \in Sockets |->
                  IF m.to \in sock[s].rooms THEN [sock[s] EXCEPT !.got = @ \cup {m}] ELSE sock[s]]
    /\ UNCHANGED <<clock, store, putting, cleaner>>

-----------------------------------------------------------------------------
(* Clients *)

Connect(s) ==
    /\ sock[s].at = "away"
    /\ sock' = [sock EXCEPT ![s] = [Away EXCEPT !.at = "ready"]]
    /\ UNCHANGED <<clock, store, putting, announcing, cleaner, announced>>

Disconnect(s) ==
    /\ sock[s].at # "away"
    /\ sock' = [sock EXCEPT ![s] = Away]
    /\ UNCHANGED <<clock, store, putting, announcing, cleaner, announced>>

Subscribe(s, topic) ==
    /\ sock[s].at # "away"
    /\ sock' = [sock EXCEPT ![s].rooms = @ \cup {topic}]
    /\ UNCHANGED <<clock, store, putting, announcing, cleaner, announced>>

\* What is left when the process ends: the database.
MailRestart ==
    /\ putting' = {}
    /\ announcing' = {}
    /\ sock' = [s \in Sockets |-> Away]
    /\ cleaner' = NoTask
    /\ UNCHANGED <<clock, store, announced>>

\* "sync" is refused unless the client has subscribed to one topic.  When that
\* is no public key there is no range of keys, and the callback of the error throws.
RequestSync(s, ts) ==
    /\ sock[s].at = "ready"
    /\ Cardinality(sock[s].rooms) = 1
    /\ \/ /\ sock[s].rooms \subseteq PubKeys
          /\ sock' = [sock EXCEPT ![s].at = "read", ![s].asked = sock[s].rooms,
                                  ![s].lower = ts, ![s].upper = clock]
          /\ UNCHANGED <<clock, store, putting, announcing, cleaner, announced>>
       \/ /\ ~(sock[s].rooms \subseteq PubKeys)
          /\ MailRestart

\* Mutant: the last key of the range is left out.
InRangeOpen(m, q) == m.to \in q.asked /\ q.lower <= m.ts /\ m.ts < q.upper

\* The range of keys that getMessages reads, both ends included.
InRange(m, q) == m.to \in q.asked /\ q.lower <= m.ts /\ m.ts <= q.upper

\* The stream of getMessages reads the database as it is when it starts.
GetMessages(s) ==
    /\ sock[s].at = "read"
    /\ sock' = [sock EXCEPT ![s].at = "emit", ![s].list = {m \in store : InRange(m, sock[s])}]
    /\ UNCHANGED <<clock, store, putting, announcing, cleaner, announced>>

Later(a, b) == IF a < b THEN b ELSE a
Sooner(a, b) == IF a < b THEN a ELSE b

\* The stream ends.  What the cleaner may have removed by now is not promised.
EmitMessages(s) ==
    /\ sock[s].at = "emit"
    /\ LET q == sock[s]
       IN  sock' = [sock EXCEPT ![s] =
                      [q EXCEPT !.at = "ready", !.lower = 0, !.upper = 0, !.list = {},
                                !.got = @ \cup q.list,
                                !.since = Sooner(@, Later(q.lower, clock - Threshold))]]
    /\ UNCHANGED <<clock, store, putting, announcing, cleaner, announced>>

-----------------------------------------------------------------------------
(* cleaner *)

\* Mutant: the threshold is left out.
TickNow ==
    /\ cleaner.at = "off"
    /\ cleaner' = [NoTask EXCEPT !.at = "read", !.limit = clock]
    /\ UNCHANGED <<clock, store, putting, announcing, sock, announced>>

\* onTick, by cron
Tick ==
    /\ cleaner.at = "off"
    /\ cleaner' = [NoTask EXCEPT !.at = "read", !.limit = clock - Threshold]
    /\ UNCHANGED <<clock, store, putting, announcing, sock, announced>>

\* removeUpTo: the keys, then the batch.  The limit has served then.
ReadKeys ==
    /\ cleaner.at = "read"
    /\ cleaner' = [NoTask EXCEPT !.at = "delete", !.dels = {m \in store : m.ts < cleaner.limit}]
    /\ UNCHANGED <<clock, store, putting, announcing, sock, announced>>

DeleteKeys ==
    /\ cleaner.at = "delete"
    /\ store' = store \ cleaner.dels
    /\ cleaner' = NoTask
    /\ UNCHANGED <<clock, putting, announcing, sock, announced>>

-----------------------------------------------------------------------------
Client(s) ==
    \/ Connect(s) \/ Disconnect(s) \/ GetMessages(s) \/ EmitMessages(s)
    \/ \E topic \in Topics : Subscribe(s, topic)
    \/ \E ts \in Time : RequestSync(s, ts)

MailNext ==
    \/ TimePasses \/ MailRestart \/ Tick \/ ReadKeys \/ DeleteKeys
    \/ \E to \in PubKeys : AddMessage(to)
    \/ \E m \in Message : Written(m) \/ Announce(m)
    \/ \E s \in Sockets : Client(s)

MailSpec == MailInit /\ [][MailNext]_mailVars

-----------------------------------------------------------------------------
(* Properties *)

\* Types; and a client is sent messages of the rooms it has joined only, none of
\* which is still to be stored.
MailTypeOK ==
    /\ clock \in 0..MaxClock
    /\ store \cup putting \cup announcing \cup announced \subseteq Message
    /\ sock \in [Sockets -> Socket]
    /\ cleaner \in Cleaner
    /\ \A s \in Sockets : \A m \in sock[s].got : m.to \in sock[s].rooms /\ m \notin putting

\* A client that has subscribed with a key, and whose sync has been answered, has
\* been sent every message to that key from then on: the listed and the
\* announced leave no gap, whatever puts, syncs, clients and the cleaner do in
\* between.  (Not those older than the cleaner's threshold, and not one whose put
\* has yet to call back.)
NothingMissed ==
    \A s \in Sockets, m \in announced :
        m.to \in sock[s].asked /\ m.ts >= sock[s].since => m \in sock[s].got

\* The cleaner removes no message younger than its threshold, although it reads the
\* keys first and deletes them later, while others are put.
KeptUntilOld ==
    [][\A m \in store \ store' : m.ts < clock - Threshold]_mailVars
=============================================================================
