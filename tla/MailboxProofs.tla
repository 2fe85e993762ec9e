--------------------------- MODULE MailboxProofs ---------------------------
(***************************************************************************)
(* Theorems about Mailbox for any number of clients, keys and messages:    *)
(* no client misses a message, although what it is listed and what is      *)
(* announced to it are read at different moments, and the cleaner removes  *)
(* only what is old.                                                       *)
(***************************************************************************)
EXTENDS Mailbox, FiniteSetTheorems, TLAPS

-----------------------------------------------------------------------------
(* The inductive invariant *)

Types ==
    /\ clock \in 0..MaxClock
    /\ store \in SUBSET Message
    /\ putting \in SUBSET Message
    /\ announcing \in SUBSET Message
    /\ announced \in SUBSET Message
    /\ sock \in [Sockets -> Socket]
    /\ cleaner \in Cleaner

\* A message that the cleaner may have removed.
IsOld(m) == m.ts < clock - Threshold

\* What may be announced was stored, and is unless it is old.
Kept == \A m \in announcing \cup announced : m \in store \/ IsOld(m)

\* No message is from the future, and none is read or announced before it is stored.
Past == \A m \in store \cup putting \cup announcing \cup announced : m.ts <= clock

Settled == (store \cup announcing) \cap putting = {}

CleanerOK ==
    /\ cleaner.at = "read" => cleaner.limit <= clock - Threshold
    /\ \A m \in cleaner.dels : IsOld(m)

\* What a client has or will have been sent, apart from what is missing.
Rooms(q) ==
    /\ IsFiniteSet(q.rooms)
    /\ q.asked \subseteq q.rooms
    /\ q.asked = {} => q.since = Never
    /\ q.at \in {"read", "emit"} => q.asked # {}
    /\ \A m \in q.got \cup q.list : m.to \in q.rooms /\ m.ts <= clock /\ m \notin putting

\* The promise, when no sync runs; while one reads; while it emits.
Promise(q) ==
    \A m \in announced : m.to \in q.asked /\ m.ts >= q.since => m \in q.got

Reading(q) ==
    \A m \in announced :
        m.to \in q.asked /\ m.ts >= q.lower => m \in q.got \/ m.ts <= q.upper

Emitting(q) ==
    \A m \in announced :
        m.to \in q.asked /\ m.ts >= q.lower => m \in q.got \/ m \in q.list \/ IsOld(m)

SocketOK(q) ==
    /\ Rooms(q)
    /\ Promise(q)
    /\ q.at = "read" => Reading(q)
    /\ q.at = "emit" => Emitting(q)

MailInv ==
    /\ Types
    /\ Kept
    /\ Past
    /\ Settled
    /\ CleanerOK
    /\ \A s \in Sockets : SocketOK(sock[s])

-----------------------------------------------------------------------------
(* One client *)

LEMMA AwayOK ==
    /\ Types => Away \in Socket
    /\ SocketOK(Away) /\ SocketOK(Away)'
<1>1. IsFiniteSet({})
  BY FS_EmptySet
<1>2. Types => Away \in Socket
  BY MailConstants DEF Away, Socket, Never, Types
<1>. QED BY <1>1, <1>2 DEF Away, SocketOK, Rooms, Promise

\* Time makes messages old and changes nothing else for a client.
LEMMA SocketKept ==
    ASSUME MailInv, NEW s \in Sockets, clock' \in 0..MaxClock, clock' >= clock,
           announced' = announced,
           \A m \in putting' : m \in putting \/ m.ts > clock,
           sock'[s] = sock[s]
    PROVE  SocketOK(sock[s])'
<1>. DEFINE q == sock[s]
<1>1. SocketOK(q) /\ q \in Socket /\ q' = q
  BY DEF MailInv, Types
<1>2. \A m \in Message : IsOld(m) => IsOld(m)'
  BY MailConstants DEF IsOld, Message, Time, MailInv, Types
<1>. HIDE DEF q
<1>3. Rooms(q)'
  <2>1. ASSUME NEW m \in q.got \cup q.list
        PROVE  m.to \in q.rooms /\ m.ts <= clock' /\ m \notin putting'
    <3>1. m \in Message /\ m.ts <= clock /\ m \notin putting /\ m.to \in q.rooms
      BY <1>1 DEF SocketOK, Rooms, Socket
    <3>. QED BY <3>1 DEF Message, Time, MailInv, Types
  <2>. QED BY <1>1, <2>1 DEF SocketOK, Rooms
<1>4. Promise(q)'
  BY <1>1 DEF SocketOK, Promise
<1>5. (q.at = "read" => Reading(q))'
  BY <1>1 DEF SocketOK, Reading
<1>6. (q.at = "emit" => Emitting(q))'
  BY <1>1, <1>2 DEF SocketOK, Emitting, MailInv, Types
<1>. QED BY <1>3, <1>4, <1>5, <1>6 DEF SocketOK, q

\* A step of client s that leaves everything else alone.
LEMMA ClientStep ==
    ASSUME MailInv, NEW s \in Sockets, NEW q \in Socket, SocketOK(q),
           sock' = [sock EXCEPT ![s] = q],
           UNCHANGED <<clock, store, putting, announcing, cleaner, announced>>
    PROVE  MailInv'
<1>1. Types' /\ Kept' /\ Past' /\ Settled' /\ CleanerOK'
  BY DEF MailInv, Types, Kept, Past, Settled, CleanerOK, IsOld
<1>2. ASSUME NEW r \in Sockets PROVE SocketOK(sock[r])'
  <2>1. CASE r = s
    <3>1. sock'[r] = q
      BY <2>1 DEF MailInv, Types
    <3>. QED BY <3>1 DEF SocketOK, Rooms, Promise, Reading, Emitting, IsOld
  <2>2. CASE r # s
    <3>1. sock'[r] = sock[r] /\ clock' \in 0..MaxClock /\ clock' >= clock
      BY <2>2 DEF MailInv, Types
    <3>. QED BY <3>1, SocketKept
  <2>. QED BY <2>1, <2>2
<1>. QED BY <1>1, <1>2 DEF MailInv

LEMMA OwnSocket ==
    ASSUME MailInv, NEW s \in Sockets
    PROVE  sock[s] \in Socket /\ SocketOK(sock[s])
  BY DEF MailInv, Types

LEMMA ComeAndGo ==
    ASSUME MailInv, NEW s \in Sockets, Connect(s) \/ Disconnect(s)
    PROVE  MailInv'
<1>. DEFINE q == IF sock[s].at = "away" THEN [Away EXCEPT !.at = "ready"] ELSE Away
<1>1. q \in Socket /\ SocketOK(q)
  <2>1. Away \in Socket /\ SocketOK(Away)
    BY AwayOK DEF MailInv
  <2>. QED BY <2>1 DEF Away, Socket, SocketOK, Rooms, Promise
<1>2. sock' = [sock EXCEPT ![s] = q]
  BY DEF Connect, Disconnect
<1>. HIDE DEF q
<1>. QED BY <1>1, <1>2, ClientStep DEF Connect, Disconnect

LEMMA Subscribing ==
    ASSUME MailInv, NEW s \in Sockets, NEW topic \in Topics, Subscribe(s, topic)
    PROVE  MailInv'
<1>. DEFINE p == sock[s]
            q == [p EXCEPT !.rooms = @ \cup {topic}]
<1>1. p \in Socket /\ SocketOK(p)
  BY OwnSocket
<1>2. sock' = [sock EXCEPT ![s] = q]
  BY DEF Subscribe
<1>. HIDE DEF p
<1>3. q \in Socket
  BY <1>1 DEF Socket
<1>4. /\ q.rooms = p.rooms \cup {topic} /\ q.at = p.at /\ q.asked = p.asked /\ q.since = p.since
      /\ q.lower = p.lower /\ q.upper = p.upper /\ q.list = p.list /\ q.got = p.got
  BY <1>1 DEF Socket
<1>. HIDE DEF q
<1>5. IsFiniteSet(q.rooms)
  BY <1>1, <1>4, FS_AddElement DEF SocketOK, Rooms
<1>6. Rooms(q)
  BY <1>1, <1>4, <1>5 DEF SocketOK, Rooms
<1>7. SocketOK(q)
  BY <1>1, <1>4, <1>6 DEF SocketOK, Promise, Reading, Emitting
<1>. QED BY <1>2, <1>3, <1>7, ClientStep DEF Subscribe

\* A second sync of a client is for the key of its first: it has one room.
LEMMA Requesting ==
    ASSUME MailInv, NEW s \in Sockets, NEW ts \in Time, RequestSync(s, ts), ~MailRestart
    PROVE  MailInv'
<1>. DEFINE p == sock[s]
            q == [p EXCEPT !.at = "read", !.asked = p.rooms, !.lower = ts, !.upper = clock]
<1>1. p \in Socket /\ SocketOK(p)
  BY OwnSocket
<1>2. /\ sock' = [sock EXCEPT ![s] = q]
      /\ Cardinality(p.rooms) = 1 /\ p.rooms \subseteq PubKeys
      /\ UNCHANGED <<clock, store, putting, announcing, cleaner, announced>>
  BY DEF RequestSync
<1>. HIDE DEF p
<1>3. clock \in 0..MaxClock /\ ts \in 0..MaxClock
  BY DEF MailInv, Types, Time
<1>4. q \in Socket
  BY <1>1, <1>2, <1>3 DEF Socket
<1>5. /\ q.at = "read" /\ q.asked = p.rooms /\ q.lower = ts /\ q.upper = clock
      /\ q.rooms = p.rooms /\ q.since = p.since /\ q.list = p.list /\ q.got = p.got
  BY <1>1 DEF Socket
<1>. HIDE DEF q
<1>6. PICK x : p.rooms = {x}
  BY <1>1, <1>2, FS_Singleton DEF SocketOK, Rooms
<1>7. Rooms(q)
  BY <1>1, <1>5, <1>6 DEF SocketOK, Rooms
<1>8. Promise(q)
  <2>1. CASE p.asked = {}
    <3>1. ASSUME NEW m \in announced PROVE ~(m.ts >= p.since)
      BY <1>1, <2>1, MailConstants DEF SocketOK, Rooms, Never, MailInv, Types, Message, Time
    <3>. QED BY <1>5, <3>1 DEF Promise
  <2>2. CASE p.asked # {}
    <3>1. p.asked = p.rooms
      BY <1>1, <1>6, <2>2 DEF SocketOK, Rooms
    <3>. QED BY <1>1, <1>5, <3>1 DEF SocketOK, Promise
  <2>. QED BY <2>1, <2>2
<1>9. Reading(q)
  BY <1>5 DEF Reading, MailInv, Past
<1>. QED BY <1>2, <1>4, <1>5, <1>7, <1>8, <1>9, ClientStep DEF SocketOK

\* What the stream reads: of the announced messages, all that are not old.
LEMMA Getting ==
    ASSUME MailInv, NEW s \in Sockets, GetMessages(s)
    PROVE  MailInv'
<1>. DEFINE p == sock[s]
            l == {m \in store : InRange(m, p)}
            q == [p EXCEPT !.at = "emit", !.list = l]
<1>1. p \in Socket /\ SocketOK(p)
  BY OwnSocket
<1>2. sock' = [sock EXCEPT ![s] = q] /\ p.at = "read"
  BY DEF GetMessages
<1>3. l \subseteq store /\ \A m \in store : m \in l <=> InRange(m, p)
  OBVIOUS
<1>. HIDE DEF p, l
<1>4. q \in Socket
  BY <1>1, <1>3 DEF Socket, MailInv, Types
<1>5. /\ q.at = "emit" /\ q.list = l /\ q.asked = p.asked /\ q.lower = p.lower
      /\ q.rooms = p.rooms /\ q.since = p.since /\ q.got = p.got
  BY <1>1 DEF Socket
<1>. HIDE DEF q
<1>6. Rooms(q)
  <2>1. ASSUME NEW m \in l PROVE m.to \in p.rooms /\ m.ts <= clock /\ m \notin putting
    BY <1>1, <1>3, <2>1 DEF SocketOK, Rooms, InRange, MailInv, Past, Settled
  <2>. QED BY <1>1, <1>2, <1>5, <2>1 DEF SocketOK, Rooms
<1>7. Emitting(q)
  <2>1. ASSUME NEW m \in announced, m.to \in p.asked, m.ts >= p.lower, m \notin p.got, ~IsOld(m)
        PROVE  m \in l
    <3>1. m \in store /\ m.ts <= p.upper
      BY <1>1, <1>2, <2>1 DEF SocketOK, Reading, MailInv, Kept
    <3>2. m.ts \in Int /\ p.lower \in Int
      BY <1>1, <3>1 DEF MailInv, Types, Message, Time, Socket
    <3>. QED BY <1>3, <2>1, <3>1, <3>2 DEF InRange
  <2>. QED BY <1>5, <2>1 DEF Emitting
<1>8. SocketOK(q)
  BY <1>1, <1>5, <1>6, <1>7 DEF SocketOK, Promise
<1>. QED BY <1>2, <1>4, <1>8, ClientStep DEF GetMessages

\* What the stream emits: the promise is extended to all that is not old now.
LEMMA Emission ==
    ASSUME MailInv, NEW s \in Sockets, EmitMessages(s)
    PROVE  MailInv'
<1>. DEFINE p == sock[s]
            t == Sooner(p.since, Later(p.lower, clock - Threshold))
            q == [p EXCEPT !.at = "ready", !.lower = 0, !.upper = 0, !.list = {},
                           !.got = @ \cup p.list, !.since = t]
<1>1. p \in Socket /\ SocketOK(p)
  BY OwnSocket
<1>2. sock' = [sock EXCEPT ![s] = q] /\ p.at = "emit"
  BY DEF EmitMessages
<1>. HIDE DEF p
<1>3. /\ p.since \in Int /\ p.lower \in Int /\ clock \in Int /\ Threshold \in Int
      /\ clock \in 0..MaxClock /\ 0 \in 0..MaxClock
  BY <1>1, MailConstants DEF Socket, MailInv, Types
<1>4. t \in Int
  BY <1>3 DEF Sooner, Later
<1>5. \A n \in Int : n >= t => n >= p.since \/ (n >= p.lower /\ ~(n < clock - Threshold))
  BY <1>3 DEF Sooner, Later
<1>. HIDE DEF t
<1>6. q \in Socket
  BY <1>1, <1>3, <1>4 DEF Socket
<1>7. /\ q.at = "ready" /\ q.list = {} /\ q.got = p.got \cup p.list /\ q.since = t
      /\ q.rooms = p.rooms /\ q.asked = p.asked
  BY <1>1 DEF Socket
<1>. HIDE DEF q
<1>8. Rooms(q)
  BY <1>1, <1>2, <1>7 DEF SocketOK, Rooms
<1>9. Promise(q)
  <2>1. ASSUME NEW m \in announced, m.to \in p.asked, m.ts >= t
        PROVE  m \in p.got \cup p.list
    <3>1. m.ts \in Int
      BY DEF MailInv, Types, Message, Time
    <3>. QED BY <1>1, <1>2, <1>5, <2>1, <3>1 DEF SocketOK, Promise, Emitting, IsOld
  <2>. QED BY <1>7, <2>1 DEF Promise
<1>. QED BY <1>2, <1>6, <1>7, <1>8, <1>9, ClientStep DEF SocketOK, EmitMessages

-----------------------------------------------------------------------------
(* The database, the cleaner, the process *)

\* Of a step that leaves the sockets alone, these are to be shown.
LEMMA DatabaseStep ==
    ASSUME MailInv, UNCHANGED <<sock, announced>>,
           clock' \in 0..MaxClock, clock' >= clock,
           \A m \in putting' : m \in putting \/ m.ts > clock,
           Types', Kept', Past', Settled', CleanerOK'
    PROVE  MailInv'
  BY SocketKept DEF MailInv

\* Messages stay old.
LEMMA StaysOld ==
    ASSUME MailInv, clock' \in 0..MaxClock, clock' >= clock, NEW m \in Message, IsOld(m)
    PROVE  IsOld(m)'
  BY MailConstants DEF IsOld, Message, Time, MailInv, Types

LEMMA Puts ==
    ASSUME MailInv, \/ TimePasses \/ (\E to \in PubKeys : AddMessage(to))
                    \/ (\E m \in Message : Written(m))
    PROVE  MailInv'
<1>1. clock \in 0..MaxClock /\ clock' \in 0..MaxClock /\ clock' >= clock /\ Threshold \in Nat
  BY MailConstants DEF MailInv, Types, TimePasses, AddMessage, Written
<1>2. UNCHANGED <<sock, announced, cleaner>>
  BY DEF TimePasses, AddMessage, Written
<1>3. store \subseteq store' /\ announcing' \subseteq announcing \cup store'
  BY DEF TimePasses, AddMessage, Written
<1>4. \A m \in putting' : m \in putting \/ (m \in Message /\ m.ts > clock /\ m.ts <= clock')
  BY <1>1 DEF TimePasses, AddMessage, Written, Message, Time, MailInv, Types
<1>5. store' \cup announcing' \subseteq store \cup announcing \cup putting
  BY DEF TimePasses, AddMessage, Written
<1>6. Types'
  BY <1>1, <1>2, <1>4, <1>5 DEF MailInv, Types
<1>7. Kept'
  <2>1. ASSUME NEW m \in announcing' \cup announced' PROVE m \in store' \/ IsOld(m)'
    <3>1. m \in Message
      BY <1>6 DEF Types
    <3>. QED BY <1>1, <1>2, <1>3, <3>1, StaysOld DEF MailInv, Kept
  <2>. QED BY <2>1 DEF Kept
<1>8. Past'
  <2>1. ASSUME NEW m \in store \cup putting \cup announcing \cup announced
        PROVE  m.ts <= clock'
    BY <1>1 DEF MailInv, Types, Past, Message, Time
  <2>. QED BY <1>2, <1>4, <1>5, <2>1 DEF Past
<1>9. Settled'
  <2>1. CASE TimePasses
    BY <2>1 DEF TimePasses, MailInv, Settled
  <2>2. CASE \E to \in PubKeys : AddMessage(to)
    <3>1. PICK to \in PubKeys : AddMessage(to)
      BY <2>2
    <3>2. \A m \in store \cup announcing : m.ts <= clock
      BY DEF MailInv, Past
    <3>3. [to |-> to, ts |-> clock'] \notin store \cup announcing
      BY <1>1, <3>1, <3>2 DEF AddMessage
    <3>. QED BY <3>1, <3>3 DEF AddMessage, MailInv, Settled
  <2>3. CASE \E m \in Message : Written(m)
    BY <2>3 DEF Written, MailInv, Settled
  <2>. QED BY <2>1, <2>2, <2>3
<1>10. CleanerOK'
  <2>1. \A m \in cleaner.dels : IsOld(m)'
    BY <1>1, StaysOld DEF MailInv, CleanerOK, Types, Cleaner
  <2>2. cleaner.limit \in Int
    BY DEF MailInv, Types, Cleaner
  <2>. QED BY <1>1, <1>2, <2>1, <2>2 DEF MailInv, CleanerOK
<1>. QED BY <1>1, <1>2, <1>4, <1>6, <1>7, <1>8, <1>9, <1>10, DatabaseStep

LEMMA Cleaning ==
    ASSUME MailInv, Tick \/ ReadKeys \/ DeleteKeys
    PROVE  MailInv'
<1>1. clock \in 0..MaxClock /\ Threshold \in Nat
  BY MailConstants DEF MailInv, Types
<1>2. UNCHANGED <<clock, putting, announcing, sock, announced>>
  BY DEF Tick, ReadKeys, DeleteKeys
<1>3. cleaner' \in Cleaner /\ store' \subseteq store
  <2>1. CASE Tick
    <3>1. cleaner' = [at |-> "read", limit |-> clock - Threshold, dels |-> {}]
      BY <2>1 DEF Tick, NoTask
    <3>2. clock - Threshold \in Int /\ {} \in SUBSET Message
      BY <1>1
    <3>3. store' = store
      BY <2>1 DEF Tick
    <3>. QED BY <3>1, <3>2, <3>3 DEF Cleaner
  <2>2. CASE ReadKeys
    <3>1. cleaner \in Cleaner /\ {m \in store : m.ts < cleaner.limit} \in SUBSET Message
      BY DEF MailInv, Types
    <3>2. cleaner' = [at |-> "delete", limit |-> 0, dels |-> {m \in store : m.ts < cleaner.limit}]
      BY <2>2 DEF ReadKeys, NoTask
    <3>3. store' = store
      BY <2>2 DEF ReadKeys
    <3>. QED BY <3>1, <3>2, <3>3 DEF Cleaner
  <2>3. CASE DeleteKeys
    BY <2>3 DEF DeleteKeys, NoTask, Cleaner
  <2>. QED BY <2>1, <2>2, <2>3
<1>4. \A m \in Message : IsOld(m)' <=> IsOld(m)
  BY <1>2 DEF IsOld
<1>5. Types' /\ Past' /\ Settled'
  BY <1>1, <1>2, <1>3 DEF MailInv, Types, Past, Settled
<1>6. \A m \in store \ store' : IsOld(m)
  BY DEF Tick, ReadKeys, DeleteKeys, MailInv, CleanerOK
<1>7. Kept'
  BY <1>2, <1>4, <1>6 DEF MailInv, Types, Kept
<1>8. CleanerOK'
  <2>1. CASE Tick
    BY <1>1, <1>2, <2>1 DEF Tick, NoTask, CleanerOK
  <2>2. CASE ReadKeys
    <3>1. ASSUME NEW m \in store, m.ts < cleaner.limit PROVE IsOld(m)'
      BY <1>1, <1>2, <2>2, <3>1
         DEF ReadKeys, MailInv, CleanerOK, Types, Cleaner, Message, Time, IsOld
    <3>2. cleaner'.dels = {m \in store : m.ts < cleaner.limit} /\ cleaner'.at = "delete"
      BY <2>2 DEF ReadKeys, NoTask
    <3>. QED BY <1>2, <3>1, <3>2 DEF MailInv, CleanerOK
  <2>3. CASE DeleteKeys
    BY <2>3 DEF DeleteKeys, NoTask, CleanerOK
  <2>. QED BY <2>1, <2>2, <2>3
<1>. QED BY <1>1, <1>2, <1>5, <1>7, <1>8, DatabaseStep

LEMMA Restarting ==
    ASSUME MailInv, MailRestart, UNCHANGED <<clock, store, announced>>
    PROVE  MailInv'
<1>1. Types' /\ Kept' /\ Past' /\ Settled' /\ CleanerOK'
  <2>1. cleaner' = NoTask /\ NoTask \in Cleaner
    BY DEF MailRestart, NoTask, Cleaner
  <2>2. sock' = [s \in Sockets |-> Away] /\ Away \in Socket
    BY AwayOK DEF MailRestart, MailInv
  <2>. QED BY <2>1, <2>2 DEF MailRestart, NoTask, MailInv, Types, Kept, Past, Settled, CleanerOK, IsOld
<1>2. ASSUME NEW s \in Sockets PROVE SocketOK(sock[s])'
  <2>1. sock'[s] = Away
    BY DEF MailRestart
  <2>. QED BY <2>1, AwayOK DEF SocketOK, Rooms, Promise, Reading, Emitting, Away
<1>. QED BY <1>1, <1>2 DEF MailInv

\* The room of the message gets it; the other clients are not promised it.
LEMMA Announcing ==
    ASSUME MailInv, NEW m \in Message, Announce(m)
    PROVE  MailInv'
<1>1. UNCHANGED <<clock, store, putting, cleaner>> /\ m \in announcing
  BY DEF Announce
<1>2. announced' = announced \cup {m} /\ announcing' = announcing \ {m}
  BY DEF Announce
<1>3. m.ts <= clock /\ m \notin putting
  BY <1>1 DEF MailInv, Past, Settled
<1>4. ASSUME NEW s \in Sockets
      PROVE  sock'[s] \in Socket /\ SocketOK(sock[s])'
  <2>. DEFINE p == sock[s]
              q == IF m.to \in p.rooms THEN [p EXCEPT !.got = @ \cup {m}] ELSE p
  <2>1. p \in Socket /\ SocketOK(p)
    BY OwnSocket
  <2>2. sock'[s] = q
    BY DEF Announce
  <2>. HIDE DEF p
  <2>3. q \in Socket
    BY <2>1 DEF Socket
  <2>4. /\ q.at = p.at /\ q.rooms = p.rooms /\ q.asked = p.asked /\ q.since = p.since
        /\ q.lower = p.lower /\ q.upper = p.upper /\ q.list = p.list
        /\ p.got \subseteq q.got /\ q.got \subseteq p.got \cup {m}
        /\ m.to \in p.rooms => m \in q.got
        /\ m.to \notin p.rooms => q.got = p.got
    BY <2>1 DEF Socket
  <2>. HIDE DEF q
  <2>5. Rooms(q)
    BY <1>3, <2>1, <2>4 DEF SocketOK, Rooms
  <2>6. \A k \in announced' : k.to \in q.asked => k \in announced \/ k \in q.got
    BY <1>2, <2>1, <2>4 DEF SocketOK, Rooms
  <2>7. /\ \A k \in announced' : k.to \in q.asked /\ k.ts >= q.since => k \in q.got
        /\ q.at = "read" =>
             \A k \in announced' : k.to \in q.asked /\ k.ts >= q.lower => k \in q.got \/ k.ts <= q.upper
        /\ q.at = "emit" =>
             \A k \in announced' :
                k.to \in q.asked /\ k.ts >= q.lower => k \in q.got \/ k \in q.list \/ IsOld(k)
    BY <2>1, <2>4, <2>6 DEF SocketOK, Promise, Reading, Emitting
  <2>. QED BY <1>1, <2>2, <2>3, <2>5, <2>7
           DEF SocketOK, Rooms, Promise, Reading, Emitting, IsOld
<1>5. sock' \in [Sockets -> Socket]
  BY <1>4 DEF Announce
<1>6. Types' /\ Kept' /\ Past' /\ Settled' /\ CleanerOK'
  BY <1>1, <1>2, <1>3, <1>5 DEF MailInv, Types, Kept, Past, Settled, CleanerOK, IsOld
<1>. QED BY <1>4, <1>6 DEF MailInv

-----------------------------------------------------------------------------
(* The theorems *)

LEMMA MailInitInv == MailInit => MailInv
<1>. SUFFICES ASSUME MailInit PROVE MailInv
  OBVIOUS
<1>1. NoTask \in Cleaner /\ clock \in 0..MaxClock
  BY MailConstants DEF NoTask, Cleaner, MailInit
<1>2. Away \in Socket
  BY MailConstants, FS_EmptySet DEF Away, Socket, Never
<1>3. Types
  BY <1>1, <1>2 DEF MailInit, Types
<1>4. Kept /\ Past /\ Settled /\ CleanerOK
  BY DEF MailInit, Kept, Past, Settled, CleanerOK, NoTask
<1>. QED BY <1>3, <1>4, AwayOK DEF MailInit, MailInv

LEMMA MailNextInv == MailInv /\ [MailNext]_mailVars => MailInv'
<1>. SUFFICES ASSUME MailInv, [MailNext]_mailVars PROVE MailInv'
  OBVIOUS
<1>1. CASE \/ TimePasses \/ (\E to \in PubKeys : AddMessage(to))
           \/ (\E m \in Message : Written(m))
  BY <1>1, Puts
<1>2. CASE Tick \/ ReadKeys \/ DeleteKeys
  BY <1>2, Cleaning
<1>3. CASE MailRestart
  BY <1>3, Restarting DEF MailRestart
<1>4. CASE \E m \in Message : Announce(m)
  BY <1>4, Announcing
<1>5. ASSUME NEW s \in Sockets, Client(s) PROVE MailInv'
  <2>1. ASSUME NEW ts \in Time, RequestSync(s, ts) PROVE MailInv'
    BY <2>1, <1>3, Requesting
  <2>. QED BY <1>5, <2>1, ComeAndGo, Subscribing, Getting, Emission DEF Client
<1>6. CASE UNCHANGED mailVars
  <2>1. Types' /\ Kept' /\ Past' /\ Settled' /\ CleanerOK'
    BY <1>6 DEF mailVars, MailInv, Types, Kept, Past, Settled, CleanerOK, IsOld
  <2>2. clock' \in 0..MaxClock /\ clock' >= clock
    BY <1>6 DEF mailVars, MailInv, Types
  <2>. QED BY <1>6, <2>1, <2>2, DatabaseStep DEF mailVars
<1>. QED BY <1>1, <1>2, <1>3, <1>4, <1>5, <1>6 DEF MailNext

THEOREM MailInvariance == MailSpec => []MailInv
  BY MailInitInv, MailNextInv, PTL DEF MailSpec

\* A client whose sync has been answered has every message from then on that is
\* not old, for any number of clients, senders, syncs and runs of the cleaner.
THEOREM NoMessageMissed == MailSpec => []NothingMissed
<1>1. MailInv => NothingMissed
  BY DEF MailInv, SocketOK, Promise, NothingMissed
<1>. QED BY <1>1, MailInvariance, PTL

\* Variables keep their types, and a client is sent nothing but stored messages of
\* rooms it has joined.
THEOREM MailTypes == MailSpec => []MailTypeOK
<1>1. MailInv => MailTypeOK
  BY DEF MailInv, Types, SocketOK, Rooms, MailTypeOK
<1>. QED BY <1>1, MailInvariance, PTL

\* What the cleaner deletes was old when it read the keys, and is when it deletes them.
THEOREM OnlyOldRemoved == MailSpec => KeptUntilOld
<1>. DEFINE Removal == \A m \in store \ store' : m.ts < clock - Threshold
<1>1. MailInv /\ [MailNext]_mailVars => [Removal]_mailVars
  <2>. SUFFICES ASSUME MailInv, MailNext PROVE Removal
    OBVIOUS
  <2>1. DeleteKeys \/ store \subseteq store'
    BY DEF MailNext, Client, TimePasses, MailRestart, Tick, ReadKeys, AddMessage, Written,
           Announce, Connect, Disconnect, Subscribe, RequestSync, GetMessages, EmitMessages
  <2>. QED BY <2>1 DEF DeleteKeys, MailInv, CleanerOK, IsOld
<1>. QED BY <1>1, MailInvariance, PTL DEF MailSpec, KeptUntilOld
=============================================================================
