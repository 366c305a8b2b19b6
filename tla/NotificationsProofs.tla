-------------------------- MODULE NotificationsProofs --------------------------
(***************************************************************************)
(* What holds of the notification service for any events, users, audiences *)
(* and any number of notifications.  NtfInv is inductive: beside the       *)
(* properties it says what each of the three processes may rely on between *)
(* two of its steps, while the other two write the same table.             *)
(***************************************************************************)
EXTENDS Notifications, Integers, TLAPS

USE NotificationsAssumption, NtfNoneAssumption

Stored(i) == notification[i] # None

(* An event in the queue is in it once and not in the table.               *)
QueueOK ==
  \A n \in DOMAIN queue :
    /\ ~Stored(queue[n].id)
    /\ \A m \in DOMAIN queue : queue[m].id = queue[n].id => m = n

(* A row is ready because its address came with it or Auth knows its user. *)
AddressOK ==
  \A i \in Ids : Stored(i) /\ Ready(i) =>
    notification[i].type \in AddressedTypes \/ notification[i].user \in KnownUsers

(* What the enricher asks about nobody else has touched since its SELECT.  *)
AskedOK == \A i \in Ids : Asked(i) => Stored(i) /\ ~Ready(i) /\ Unsent(i)

(* The users of an event that is done, or who had their turn in the event  *)
(* under way, have a notification of it.                                   *)
Written(a, u) ==
  \E i \in Films : Stored(i) /\ notification[i].about = a /\ notification[i].user = u
WrittenOK ==
  \A a \in AdminEvents : \A u \in Audience[a] :
    admin[a] = "done" \/ (enr.event = a /\ u \notin enr.todo) => Written(a, u)

(* What the sender has in its transaction, and what an instant job still   *)
(* has to send, is ready and unsent; a transaction is about one user.      *)
SendOK ==
  /\ \A i \in snd.rows : Sendable(i, Types)
  /\ \A i, j \in snd.rows : notification[i].user = notification[j].user
  /\ snd.job = "instant" =>
       \A i \in snd.left : i \in Ids /\ i \notin snd.rows /\ Sendable(i, Types)

(* A mail went to a ready row; the row is marked or still to be committed, *)
(* unless the mark was lost.                                               *)
MailOK ==
  \A i \in Ids :
    /\ mail[i] # "unsent" => Stored(i) /\ Ready(i)
    /\ mail[i] = "sent" => i \in snd.rows \/ ~Unsent(i)
    /\ mail[i] # "twice"

NtfInv ==
  /\ NtfTypeOK /\ QueueOK /\ AddressOK /\ AskedOK /\ WrittenOK /\ SendOK /\ MailOK

Onward ==
  \A i \in Ids : Stored(i) =>
    /\ Stored(i)'
    /\ notification'[i].type = notification[i].type
    /\ notification'[i].user = notification[i].user
    /\ notification'[i].about = notification[i].about
    /\ Ready(i) => Ready(i)'
    /\ ~Unsent(i) => ~Unsent(i)'

------------------------------------------------------------------------------
(* Who writes what.                                                        *)

LEMMA NoneIsNoRow == None \notin Notification
  OBVIOUS

LEMMA RowFields ==
  ASSUME NtfTypeOK, NEW i \in Ids, Stored(i)
  PROVE  /\ notification[i] \in Notification
         /\ notification[i].type \in Types /\ notification[i].user \in Users
         /\ notification[i].about \in AdminEvents \cup {None}
         /\ notification[i].ready \in BOOLEAN /\ notification[i].status \in BOOLEAN
  BY DEF NtfTypeOK, Stored, Notification

(* A row is added where there was none.                                    *)
LEMMA AddedOnward ==
  ASSUME NtfTypeOK, NEW i \in Ids, ~Stored(i), NEW r \in Notification,
         notification' = [notification EXCEPT ![i] = r]
  PROVE  /\ Onward
         /\ notification' \in [Ids -> Notification \cup {None}]
         /\ notification'[i] = r /\ Stored(i)'
         /\ \A j \in Ids : j # i => notification'[j] = notification[j]
  BY DEF NtfTypeOK, Stored, Onward, Ready, Unsent

(* A row becomes ready.                                                    *)
LEMMA ReadiedOnward ==
  ASSUME NtfTypeOK, NEW i \in Ids, Stored(i),
         notification' = [notification EXCEPT ![i].ready = TRUE]
  PROVE  /\ Onward
         /\ notification' \in [Ids -> Notification \cup {None}]
         /\ notification'[i] = [notification[i] EXCEPT !.ready = TRUE]
         /\ Ready(i)' /\ Unsent(i)' = Unsent(i)
         /\ \A j \in Ids : j # i => notification'[j] = notification[j]
<1>1. notification[i] \in Notification /\ notification \in [Ids -> Notification \cup {None}]
  BY RowFields DEF NtfTypeOK
<1>2. notification'[i] = [notification[i] EXCEPT !.ready = TRUE]
  BY <1>1
<1>3. \A j \in Ids : j # i => notification'[j] = notification[j]
  BY <1>1
<1>4. /\ notification'[i] \in Notification
      /\ notification'[i].type = notification[i].type
      /\ notification'[i].user = notification[i].user
      /\ notification'[i].about = notification[i].about
      /\ notification'[i].ready = TRUE
      /\ notification'[i].status = notification[i].status
  BY <1>1, <1>2 DEF Notification
<1>5. notification' \in [Ids -> Notification \cup {None}]
  BY <1>1, <1>3, <1>4
<1>6. Onward
  BY <1>3, <1>4, NoneIsNoRow DEF Onward, Stored, Ready, Unsent
<1> QED
  BY <1>2, <1>3, <1>4, <1>5, <1>6 DEF Ready, Unsent

------------------------------------------------------------------------------
(* What is left alone stays true: each part of the invariant depends on a    *)
(* few of the variables only.                                                *)

LEMMA WrittenStays ==
  ASSUME NtfTypeOK, Onward, NEW a \in AdminEvents, NEW u \in Users, Written(a, u)
  PROVE  Written(a, u)'
  BY DEF Written, Onward, Ids

LEMMA WrittenOKStays ==
  ASSUME NtfTypeOK, WrittenOK, Onward, UNCHANGED admin,
         enr'.event = enr.event, enr'.todo = enr.todo
  PROVE  WrittenOK'
<1> SUFFICES ASSUME NEW a \in AdminEvents, NEW u \in Audience[a],
                    admin[a] = "done" \/ (enr.event = a /\ u \notin enr.todo)
             PROVE  Written(a, u)'
  BY DEF WrittenOK
<1>1. u \in Users
  OBVIOUS
<1>2. Written(a, u)
  BY DEF WrittenOK
<1> QED
  BY <1>1, <1>2, WrittenStays

LEMMA TableStays ==
  ASSUME NtfTypeOK, UNCHANGED notification
  PROVE  /\ Onward
         /\ AddressOK => AddressOK'
         /\ QueueOK /\ UNCHANGED queue => QueueOK'
         /\ AskedOK /\ UNCHANGED enr => AskedOK'
         /\ SendOK /\ UNCHANGED snd => SendOK'
         /\ MailOK /\ UNCHANGED <<mail, snd>> => MailOK'
  BY DEF Onward, Stored, Ready, Unsent, AddressOK, QueueOK, AskedOK, Asked,
         SendOK, Sendable, Is, MailOK

(* ------------------------------ Publishers ------------------------------ *)

LEMMA PublishStep ==
  ASSUME NtfInv, NEW i \in Messages, NEW type \in Types, NEW u \in Users, Publish(i, type, u)
  PROVE  NtfInv'
<1> DEFINE e == [id |-> i, type |-> type, user |-> u]
<1>1. /\ queue \in Seq(Event) /\ e \in Event /\ queue' = Append(queue, e)
      /\ ~Stored(i) /\ ~Queued(i) /\ i \in Ids
      /\ UNCHANGED <<notification, admin, mail, enr, snd>>
  BY DEF NtfInv, NtfTypeOK, Publish, Event, Stored, Ids
<1>2. /\ queue' \in Seq(Event) /\ Len(queue) \in Nat
      /\ DOMAIN queue = 1..Len(queue) /\ DOMAIN queue' = 1..(Len(queue) + 1)
      /\ queue'[Len(queue) + 1] = e
      /\ \A n \in DOMAIN queue : queue'[n] = queue[n]
  BY <1>1
<1>3. NtfTypeOK'
  BY <1>1, <1>2 DEF NtfInv, NtfTypeOK
<1>4. QueueOK'
  <2>1. \A m \in DOMAIN queue :
           /\ queue'[m].id = queue[m].id /\ queue[m].id # i
           /\ notification'[queue[m].id] = None
           /\ \A n \in DOMAIN queue : queue[n].id = queue[m].id => n = m
    BY <1>1, <1>2 DEF Queued, NtfInv, QueueOK, Stored
  <2>2. queue'[Len(queue) + 1].id = i /\ notification'[i] = None
    BY <1>1, <1>2 DEF Stored
  <2>3. \A n \in DOMAIN queue' : n \in DOMAIN queue \/ n = Len(queue) + 1
    BY <1>2
  <2>4. \A n \in DOMAIN queue' : notification'[queue'[n].id] = None
    BY <2>1, <2>2, <2>3
  <2>5. \A n, m \in DOMAIN queue' : queue'[m].id = queue'[n].id => m = n
    BY <2>1, <2>2, <2>3
  <2> QED
    BY <2>4, <2>5 DEF QueueOK, Stored
<1>5. AddressOK' /\ AskedOK' /\ SendOK' /\ MailOK' /\ Onward
  BY <1>1, TableStays DEF NtfInv
<1>6. WrittenOK'
  BY <1>1, <1>5, WrittenOKStays DEF NtfInv
<1> QED
  BY <1>3, <1>4, <1>5, <1>6 DEF NtfInv

LEMMA CreateAdminEventStep ==
  ASSUME NtfInv, NEW a \in AdminEvents, CreateAdminEvent(a)
  PROVE  NtfInv'
<1>1. /\ admin \in [AdminEvents -> {"none", "new", "done"}]
      /\ admin' = [admin EXCEPT ![a] = "new"]
      /\ UNCHANGED <<queue, notification, mail, enr, snd>>
  BY DEF NtfInv, NtfTypeOK, CreateAdminEvent
<1>2. NtfTypeOK'
  BY <1>1 DEF NtfInv, NtfTypeOK
<1>3. QueueOK' /\ AddressOK' /\ AskedOK' /\ SendOK' /\ MailOK'
  BY <1>1, TableStays DEF NtfInv
<1>4. WrittenOK'
  BY <1>1 DEF NtfInv, WrittenOK, Written, Stored
<1> QED
  BY <1>2, <1>3, <1>4 DEF NtfInv

(* ------------------------------- Consumer ------------------------------- *)

(* What is behind the first k elements of a sequence.                        *)
LEMMA SubSeqAt ==
  ASSUME NEW s, NEW m \in Int, NEW n \in Int
  PROVE  \A i \in 1..(n - m + 1) : SubSeq(s, m, n)[i] = s[m + i - 1]
  OBVIOUS

LEMMA Rest ==
  ASSUME NEW S, NEW s \in Seq(S), NEW k \in 1..Len(s)
  PROVE  /\ SubSeq(s, k + 1, Len(s)) \in Seq(S)
         /\ Len(SubSeq(s, k + 1, Len(s))) = Len(s) - k
         /\ \A i \in 1..(Len(s) - k) : SubSeq(s, k + 1, Len(s))[i] = s[k + i]
<1>1. /\ k + 1 \in Int /\ Len(s) \in Int /\ Len(s) - (k + 1) + 1 = Len(s) - k
      /\ \A i \in k + 1 .. Len(s) : s[i] \in S
  OBVIOUS
<1>2. SubSeq(s, k + 1, Len(s)) \in Seq(S)
  BY <1>1
<1>3. Len(SubSeq(s, k + 1, Len(s))) = Len(s) - k
  OBVIOUS
<1>4. \A i \in 1..(Len(s) - k) : k + 1 + i - 1 = k + i
  OBVIOUS
<1>5. ASSUME NEW i \in 1..(Len(s) - k)
      PROVE  SubSeq(s, k + 1, Len(s))[i] = s[(k + 1) + i - 1]
  BY <1>1, SubSeqAt
<1> QED
  BY <1>2, <1>3, <1>4, <1>5

(* A queue cut at its head still holds each event once.                      *)
LEMMA ShorterQueue ==
  ASSUME queue \in Seq(Event), QueueOK, NEW k \in 1..Len(queue), NEW q \in Seq(Event),
         Len(q) = Len(queue) - k, \A n \in 1..(Len(queue) - k) : q[n] = queue[k + n]
  PROVE  \A n \in DOMAIN q :
           /\ k + n \in DOMAIN queue /\ q[n] = queue[k + n]
           /\ \A m \in DOMAIN q : q[m].id = q[n].id => m = n
<1>1. /\ Len(queue) \in Nat /\ k \in Nat /\ k <= Len(queue)
      /\ DOMAIN queue = 1..Len(queue) /\ DOMAIN q = 1..(Len(queue) - k)
  OBVIOUS
<1>2. \A n \in DOMAIN q : k + n \in DOMAIN queue /\ q[n] = queue[k + n]
  BY <1>1
<1>3. ASSUME NEW n \in DOMAIN q, NEW m \in DOMAIN q, q[m].id = q[n].id
      PROVE  m = n
  <2>1. k + m = k + n
    BY <1>2, <1>3 DEF QueueOK
  <2> QED
    BY <1>1, <2>1
<1> QED
  BY <1>2, <1>3

LEMMA ConsumerCrashStep ==
  ASSUME NtfInv, ConsumerCrash
  PROVE  NtfInv'
<1>1. PICK k \in 1..Len(queue) : queue' = SubSeq(queue, k + 1, Len(queue))
  BY DEF ConsumerCrash
<1>2. UNCHANGED <<notification, admin, mail, enr, snd>>
  BY DEF ConsumerCrash
<1>3. /\ queue \in Seq(Event) /\ queue' \in Seq(Event) /\ Len(queue') = Len(queue) - k
      /\ \A n \in 1..(Len(queue) - k) : queue'[n] = queue[k + n]
  BY <1>1, Rest DEF NtfInv, NtfTypeOK
<1>4. QueueOK'
  <2>1. \A n \in DOMAIN queue' :
           /\ k + n \in DOMAIN queue /\ queue'[n] = queue[k + n]
           /\ \A m \in DOMAIN queue' : queue'[m].id = queue'[n].id => m = n
    BY <1>3, ShorterQueue DEF NtfInv
  <2> QED
    BY <1>2, <2>1 DEF QueueOK, Stored, NtfInv
<1>5. AddressOK' /\ AskedOK' /\ SendOK' /\ MailOK' /\ Onward
  BY <1>2, TableStays DEF NtfInv
<1>6. WrittenOK'
  BY <1>2, <1>5, WrittenOKStays DEF NtfInv
<1>7. NtfTypeOK'
  BY <1>2, <1>3 DEF NtfInv, NtfTypeOK
<1> QED
  BY <1>4, <1>5, <1>6, <1>7 DEF NtfInv

(* A row of its own disturbs none of those that are under way.               *)
LEMMA NewRowStays ==
  ASSUME NtfInv, NEW i \in Ids, ~Stored(i), NEW r \in Notification,
         notification' = [notification EXCEPT ![i] = r],
         r.ready => r.type \in AddressedTypes \/ r.user \in KnownUsers
  PROVE  /\ Onward /\ AddressOK'
         /\ notification' \in [Ids -> Notification \cup {None}]
         /\ notification'[i] = r /\ Stored(i)'
         /\ \A j \in Ids : j # i => notification'[j] = notification[j]
         /\ UNCHANGED enr => AskedOK'
         /\ UNCHANGED snd => SendOK'
         /\ UNCHANGED <<mail, snd>> => MailOK'
<1>1. /\ Onward /\ notification' \in [Ids -> Notification \cup {None}]
      /\ notification'[i] = r /\ Stored(i)'
      /\ \A j \in Ids : j # i => notification'[j] = notification[j]
  BY AddedOnward DEF NtfInv
<1>2. AddressOK'
  BY <1>1 DEF NtfInv, AddressOK, Stored, Ready
<1>3. UNCHANGED enr => AskedOK'
  BY <1>1 DEF NtfInv, AskedOK, Asked, Stored, Ready, Unsent
<1>4. ASSUME UNCHANGED snd PROVE SendOK'
  <2>1. \A j \in snd.rows : j \in Ids /\ Sendable(j, Types) /\ notification'[j] = notification[j]
    BY <1>1 DEF NtfInv, NtfTypeOK, SendOK, Sendable, Is, Stored
  <2>2. snd.job = "instant" =>
          \A j \in snd.left : /\ j \in Ids /\ j \notin snd.rows /\ Sendable(j, Types)
                              /\ notification'[j] = notification[j]
    BY <1>1 DEF NtfInv, SendOK, Sendable, Is, Stored
  <2> QED
    BY <1>4, <2>1, <2>2 DEF NtfInv, SendOK, Sendable, Is, Ready, Unsent
<1>5. UNCHANGED <<mail, snd>> => MailOK'
  BY <1>1 DEF NtfInv, MailOK, Stored, Ready, Unsent
<1> QED
  BY <1>1, <1>2, <1>3, <1>4, <1>5

LEMMA HeadOfQueue ==
  ASSUME queue \in Seq(Event), QueueOK, queue # <<>>
  PROVE  /\ Head(queue) = queue[1] /\ Head(queue) \in Event /\ 1 \in DOMAIN queue
         /\ 1 \in 1..Len(queue)
         /\ Tail(queue) \in Seq(Event) /\ Len(Tail(queue)) = Len(queue) - 1
         /\ \A n \in 1..(Len(queue) - 1) : Tail(queue)[n] = queue[1 + n]
         /\ ~Stored(Head(queue).id)
  BY DEF QueueOK

LEMMA CallbackStep ==
  ASSUME NtfInv, Callback
  PROVE  NtfInv'
<1> DEFINE e == Head(queue)
           r == [type |-> e.type, user |-> e.user, about |-> None,
                 ready |-> e.type \in AddressedTypes, status |-> FALSE]
<1>1. /\ queue \in Seq(Event) /\ queue # <<>> /\ queue' = Tail(queue)
      /\ UNCHANGED <<admin, mail, enr, snd>>
      /\ notification' = IF e.type = "new_films" THEN notification
                         ELSE [notification EXCEPT ![e.id] = r]
  BY DEF NtfInv, NtfTypeOK, Callback
<1>2. /\ e = queue[1] /\ e \in Event /\ 1 \in DOMAIN queue /\ 1 \in 1..Len(queue)
      /\ queue' \in Seq(Event) /\ Len(queue') = Len(queue) - 1
      /\ \A n \in 1..(Len(queue) - 1) : queue'[n] = queue[1 + n]
      /\ ~Stored(e.id)
  BY <1>1, HeadOfQueue DEF NtfInv
<1>3. /\ e.id \in Ids /\ e.type \in Types /\ e.user \in Users
      /\ r \in Notification /\ (r.ready => r.type \in AddressedTypes)
  <2>1. /\ e.id \in Ids /\ e.type \in Types /\ e.user \in Users
    BY <1>2 DEF Event, Ids
  <2>2. (e.type \in AddressedTypes) = TRUE \/ (e.type \in AddressedTypes) = FALSE
    OBVIOUS
  <2>3. PICK b \in BOOLEAN : b = (e.type \in AddressedTypes)
    BY <2>2
  <2>4. r = [type |-> e.type, user |-> e.user, about |-> None, ready |-> b, status |-> FALSE]
    BY <2>3, Zenon
  <2>5. r \in Notification /\ r.type = e.type /\ r.ready = b
    <3> HIDE DEF e
    <3> QED
      BY <2>1, <2>4 DEF Notification
  <2> QED
    BY <2>1, <2>3, <2>5
<1>4. /\ Onward /\ AddressOK' /\ AskedOK' /\ SendOK' /\ MailOK'
      /\ notification' \in [Ids -> Notification \cup {None}]
      /\ \A j \in Ids : j # e.id => notification'[j] = notification[j]
  <2>1. CASE e.type = "new_films"
    BY <1>1, <2>1, TableStays DEF NtfInv, NtfTypeOK
  <2>2. CASE e.type # "new_films"
    <3> HIDE DEF e, r
    <3>1. notification' = [notification EXCEPT ![e.id] = r]
      BY <1>1, <2>2
    <3> QED
      BY <1>1, <1>2, <1>3, <3>1, NewRowStays
  <2> QED
    BY <2>1, <2>2
<1>5. WrittenOK'
  BY <1>1, <1>4, WrittenOKStays DEF NtfInv
<1>6. QueueOK'
  <2>1. \A n \in DOMAIN queue' :
           /\ 1 + n \in DOMAIN queue /\ queue'[n] = queue[1 + n]
           /\ \A m \in DOMAIN queue' : queue'[m].id = queue'[n].id => m = n
    <3> HIDE DEF e, r
    <3>1. PICK k : k = 1
      OBVIOUS
    <3>2. /\ k \in 1..Len(queue) /\ Len(queue') = Len(queue) - k
          /\ \A n \in 1..(Len(queue) - k) : queue'[n] = queue[k + n]
      BY <1>1, <1>2, <3>1
    <3>3. \A n \in DOMAIN queue' :
            /\ k + n \in DOMAIN queue /\ queue'[n] = queue[k + n]
            /\ \A m \in DOMAIN queue' : queue'[m].id = queue'[n].id => m = n
      <4>1. queue \in Seq(Event) /\ queue' \in Seq(Event) /\ QueueOK
        BY <1>1, <1>2 DEF NtfInv
      <4> QED
        BY <3>2, <4>1, ShorterQueue
    <3> QED
      BY <3>1, <3>3
  <2>2. ASSUME NEW n \in DOMAIN queue' PROVE notification'[queue'[n].id] = None
    <3> HIDE DEF r
    <3>2. n \in Nat /\ 1 + n # 1 /\ queue'[n] \in Event /\ 1 + n \in DOMAIN queue
      BY <1>2, <2>1
    <3>3. queue[1 + n].id # queue[1].id /\ ~Stored(queue[1 + n].id)
      BY <1>2, <3>2 DEF NtfInv, QueueOK
    <3>1. queue'[n].id # e.id /\ queue'[n].id \in Ids /\ ~Stored(queue[1 + n].id)
      BY <1>2, <2>1, <3>2, <3>3 DEF Event, Ids
    <3> QED
      BY <1>4, <2>1, <3>1 DEF Stored
  <2> QED
    BY <2>1, <2>2 DEF QueueOK, Stored
<1>7. NtfTypeOK'
  BY <1>1, <1>2, <1>4 DEF NtfInv, NtfTypeOK
<1> QED
  BY <1>4, <1>5, <1>6, <1>7 DEF NtfInv

(* ------------------------------- Enricher ------------------------------- *)

LEMMA EnrTyping ==
  ASSUME NtfTypeOK
  PROVE  /\ enr.running \in BOOLEAN /\ enr.likes \subseteq Ids /\ enr.billing \subseteq Ids
         /\ enr.events \subseteq AdminEvents /\ enr.event \in AdminEvents \cup {None}
         /\ enr.todo \subseteq Users /\ enr.film \in Films \cup {None}
         /\ None \notin Ids /\ None \notin AdminEvents
  BY DEF NtfTypeOK

(* An answer takes its row out of what the pass has to ask, and nothing else. *)
LEMMA AnsweredEffect ==
  ASSUME NtfTypeOK, NEW i \in Ids, Answered(i)
  PROVE  /\ enr' \in [running : BOOLEAN, likes : SUBSET Ids, billing : SUBSET Ids,
                      events : SUBSET AdminEvents, event : AdminEvents \cup {None},
                      todo : SUBSET Users, film : Films \cup {None}]
         /\ enr'.event = enr.event /\ enr'.todo = enr.todo
         /\ \A j \in Ids : Asked(j)' => Asked(j) /\ j # i
<1>1. /\ enr'.running = enr.running /\ enr'.likes = enr.likes \ {i}
      /\ enr'.billing = enr.billing \ {i} /\ enr'.events = enr.events
      /\ enr'.event = enr.event /\ enr'.todo = enr.todo
      /\ enr'.film = IF enr.film = i THEN None ELSE enr.film
  BY DEF NtfTypeOK, Answered
<1>2. enr' = [running |-> enr.running, likes |-> enr.likes \ {i},
              billing |-> enr.billing \ {i}, events |-> enr.events, event |-> enr.event,
              todo |-> enr.todo, film |-> IF enr.film = i THEN None ELSE enr.film]
  BY DEF NtfTypeOK, Answered
<1>3. enr' \in [running : BOOLEAN, likes : SUBSET Ids, billing : SUBSET Ids,
                events : SUBSET AdminEvents, event : AdminEvents \cup {None},
                todo : SUBSET Users, film : Films \cup {None}]
  BY <1>2, EnrTyping
<1>4. \A j \in Ids : Asked(j)' => Asked(j) /\ j # i
  BY <1>1, EnrTyping DEF Asked
<1> QED
  BY <1>1, <1>3, <1>4

LEMMA EnrichPassStep ==
  ASSUME NtfInv, EnrichPass
  PROVE  NtfInv'
<1>1. /\ enr' = [running |-> TRUE, likes |-> Unready({"received_likes"}),
                 billing |-> Unready(BillingTypes),
                 events |-> {a \in AdminEvents : admin[a] = "new"},
                 event |-> None, todo |-> {}, film |-> None]
      /\ UNCHANGED <<queue, notification, admin, mail, snd>>
  BY DEF EnrichPass, Asleep
<1>2. NtfTypeOK'
  BY <1>1 DEF NtfInv, NtfTypeOK, Unready
<1>3. QueueOK' /\ AddressOK' /\ SendOK' /\ MailOK'
  BY <1>1, TableStays DEF NtfInv
<1>4. AskedOK'
  <2> SUFFICES ASSUME NEW i \in Ids, Asked(i)'
               PROVE  (Stored(i) /\ ~Ready(i) /\ Unsent(i))'
    BY DEF AskedOK
  <2>1. i \in Unready({"received_likes"}) \cup Unready(BillingTypes)
    BY <1>1 DEF Asked
  <2> QED
    BY <1>1, <2>1 DEF Unready, Is, Stored, Ready, Unsent
<1>5. WrittenOK'
  BY <1>1, EnrTyping DEF NtfInv, WrittenOK, Written, Stored
<1> QED
  BY <1>2, <1>3, <1>4, <1>5 DEF NtfInv

LEMMA EnrichUserByIdStep ==
  ASSUME NtfInv, NEW i \in Ids, EnrichUserById(i)
  PROVE  NtfInv'
<1>1. /\ Asked(i) /\ notification[i].user \in KnownUsers
      /\ notification' = [notification EXCEPT ![i].ready = TRUE]
      /\ Answered(i)
      /\ UNCHANGED <<queue, admin, mail, snd>>
  BY DEF EnrichUserById
<1>2. Stored(i) /\ ~Ready(i) /\ Unsent(i)
  BY <1>1 DEF NtfInv, AskedOK
<1>3. /\ Onward /\ notification' \in [Ids -> Notification \cup {None}]
      /\ Ready(i)' /\ Unsent(i)' = Unsent(i)
      /\ \A j \in Ids : j # i => notification'[j] = notification[j]
  BY <1>1, <1>2, ReadiedOnward DEF NtfInv
<1>4. /\ enr' \in [running : BOOLEAN, likes : SUBSET Ids, billing : SUBSET Ids,
                   events : SUBSET AdminEvents, event : AdminEvents \cup {None},
                   todo : SUBSET Users, film : Films \cup {None}]
      /\ enr'.event = enr.event /\ enr'.todo = enr.todo
      /\ \A j \in Ids : Asked(j)' => Asked(j) /\ j # i
  BY <1>1, AnsweredEffect DEF NtfInv
<1>5. NtfTypeOK'
  BY <1>1, <1>3, <1>4 DEF NtfInv, NtfTypeOK
<1>6. QueueOK'
  <2>1. \A n \in DOMAIN queue : queue[n].id \in Ids /\ queue[n].id # i
    <3>1. \A n \in DOMAIN queue : queue[n] \in Event /\ ~Stored(queue[n].id)
      BY DEF NtfInv, NtfTypeOK, QueueOK
    <3> QED
      BY <1>2, <3>1 DEF Event, Ids
  <2> QED
    BY <1>1, <1>3, <2>1 DEF NtfInv, QueueOK, Stored
<1>7. AddressOK'
  <2> SUFFICES ASSUME NEW j \in Ids, Stored(j)', Ready(j)'
               PROVE  \/ notification'[j].type \in AddressedTypes
                      \/ notification'[j].user \in KnownUsers
    BY DEF AddressOK
  <2>1. CASE j = i
    BY <1>1, <1>2, <1>3, <2>1 DEF Onward
  <2>2. CASE j # i
    BY <1>3, <2>2 DEF NtfInv, AddressOK, Stored, Ready
  <2> QED
    BY <2>1, <2>2
<1>8. AskedOK'
  BY <1>3, <1>4 DEF NtfInv, AskedOK, Stored, Ready, Unsent
<1>9. WrittenOK'
  BY <1>1, <1>3, <1>4, WrittenOKStays DEF NtfInv
<1>10. SendOK'
  <2>1. \A j \in snd.rows : j \in Ids /\ j # i /\ Sendable(j, Types)
    BY <1>2 DEF NtfInv, NtfTypeOK, SendOK, Sendable
  <2>2. snd.job = "instant" =>
          \A j \in snd.left : j \in Ids /\ j # i /\ j \notin snd.rows /\ Sendable(j, Types)
    BY <1>2 DEF NtfInv, SendOK, Sendable
  <2> QED
    BY <1>1, <1>3, <2>1, <2>2 DEF NtfInv, SendOK, Sendable, Is, Ready, Unsent
<1>11. MailOK'
  BY <1>1, <1>2, <1>3 DEF NtfInv, MailOK, Stored, Ready, Unsent
<1> QED
  BY <1>5, <1>6, <1>7, <1>8, <1>9, <1>10, <1>11 DEF NtfInv

LEMMA EnrichUserFailsStep ==
  ASSUME NtfInv, NEW i \in Ids, EnrichUserFails(i)
  PROVE  NtfInv'
<1>1. /\ Asked(i) /\ Answered(i)
      /\ UNCHANGED <<queue, notification, admin, mail, snd>>
  BY DEF EnrichUserFails
<1>2. /\ enr' \in [running : BOOLEAN, likes : SUBSET Ids, billing : SUBSET Ids,
                   events : SUBSET AdminEvents, event : AdminEvents \cup {None},
                   todo : SUBSET Users, film : Films \cup {None}]
      /\ enr'.event = enr.event /\ enr'.todo = enr.todo
      /\ \A j \in Ids : Asked(j)' => Asked(j) /\ j # i
  BY <1>1, AnsweredEffect DEF NtfInv
<1>3. NtfTypeOK'
  BY <1>1, <1>2 DEF NtfInv, NtfTypeOK
<1>4. QueueOK' /\ AddressOK' /\ SendOK' /\ MailOK' /\ Onward
  BY <1>1, TableStays DEF NtfInv
<1>5. AskedOK'
  BY <1>1, <1>2 DEF NtfInv, AskedOK, Stored, Ready, Unsent
<1>6. WrittenOK'
  BY <1>1, <1>2, <1>4, WrittenOKStays DEF NtfInv
<1> QED
  BY <1>3, <1>4, <1>5, <1>6 DEF NtfInv

LEMMA NextEventStep ==
  ASSUME NtfInv, NEW a \in AdminEvents, NextEvent(a)
  PROVE  NtfInv'
<1>1. /\ enr' = [running |-> enr.running, likes |-> enr.likes, billing |-> enr.billing,
                 events |-> enr.events \ {a}, event |-> a, todo |-> Audience[a],
                 film |-> enr.film]
      /\ UNCHANGED <<queue, notification, admin, mail, snd>>
  BY DEF NtfInv, NtfTypeOK, NextEvent
<1>2. NtfTypeOK'
  BY <1>1, EnrTyping DEF NtfInv, NtfTypeOK
<1>3. QueueOK' /\ AddressOK' /\ SendOK' /\ MailOK'
  BY <1>1, TableStays DEF NtfInv
<1>4. AskedOK'
  BY <1>1 DEF NtfInv, AskedOK, Asked, Stored, Ready, Unsent
<1>5. WrittenOK'
  BY <1>1 DEF NtfInv, WrittenOK, Written, Stored
<1> QED
  BY <1>2, <1>3, <1>4, <1>5 DEF NtfInv

LEMMA InsertFilmStep ==
  ASSUME NtfInv, NEW u \in Users, NEW i \in Films, InsertFilm(u, i)
  PROVE  NtfInv'
<1> DEFINE r == [type |-> "new_films", user |-> u, about |-> enr.event,
                 ready |-> FALSE, status |-> FALSE]
<1>1. /\ enr.film = None /\ u \in enr.todo /\ ~Stored(i) /\ i \in Ids
      /\ notification' = [notification EXCEPT ![i] = r]
      /\ UNCHANGED <<queue, admin, mail, snd>>
      /\ enr' = [running |-> enr.running, likes |-> enr.likes, billing |-> enr.billing,
                 events |-> enr.events, event |-> enr.event, todo |-> enr.todo \ {u},
                 film |-> i]
  BY DEF NtfInv, NtfTypeOK, InsertFilm, Stored, Ids
<1>2. r \in Notification /\ ~r.ready /\ ~r.status /\ r.about = enr.event /\ r.user = u
  BY EnrTyping DEF NtfInv, Notification
<1> HIDE DEF r
<1>3. /\ Onward /\ AddressOK' /\ SendOK' /\ MailOK'
      /\ notification' \in [Ids -> Notification \cup {None}]
      /\ notification'[i] = r /\ Stored(i)'
      /\ \A j \in Ids : j # i => notification'[j] = notification[j]
  BY <1>1, <1>2, NewRowStays
<1>4. NtfTypeOK'
  BY <1>1, <1>3, EnrTyping DEF NtfInv, NtfTypeOK
<1>5. QueueOK'
  <2>1. \A n \in DOMAIN queue : queue[n].id \in Ids /\ queue[n].id # i
    <3>1. \A n \in DOMAIN queue : queue[n] \in Event
      BY DEF NtfInv, NtfTypeOK
    <3> QED
      BY <3>1 DEF Event, Ids
  <2> QED
    BY <1>1, <1>3, <2>1 DEF NtfInv, QueueOK, Stored
<1>6. AskedOK'
  <2> SUFFICES ASSUME NEW j \in Ids, Asked(j)'
               PROVE  (Stored(j) /\ ~Ready(j) /\ Unsent(j))'
    BY DEF AskedOK
  <2>1. CASE j = i
    BY <1>2, <1>3, <2>1 DEF Ready, Unsent
  <2>2. CASE j # i
    <3>1. Asked(j)
      BY <1>1, <2>2 DEF Asked
    <3> QED
      BY <1>3, <2>2, <3>1 DEF NtfInv, AskedOK, Stored, Ready, Unsent
  <2> QED
    BY <2>1, <2>2
<1>7. WrittenOK'
  <2> SUFFICES ASSUME NEW a \in AdminEvents, NEW v \in Audience[a],
                      admin[a] = "done" \/ (enr.event = a /\ v \notin enr.todo \ {u})
               PROVE  Written(a, v)'
    BY <1>1 DEF WrittenOK
  <2>1. CASE admin[a] = "done" \/ (enr.event = a /\ v \notin enr.todo)
    BY <2>1, <1>3, WrittenStays DEF NtfInv, WrittenOK
  <2>2. CASE enr.event = a /\ v = u
    BY <1>2, <1>3, <2>2 DEF Written
  <2> QED
    BY <2>1, <2>2
<1> QED
  BY <1>3, <1>4, <1>5, <1>6, <1>7 DEF NtfInv

LEMMA EventDoneStep ==
  ASSUME NtfInv, EventDone
  PROVE  NtfInv'
<1>1. /\ enr.event \in AdminEvents /\ enr.todo = {}
      /\ admin \in [AdminEvents -> {"none", "new", "done"}]
      /\ admin' = [admin EXCEPT ![enr.event] = "done"]
      /\ enr' = [running |-> enr.running, likes |-> enr.likes, billing |-> enr.billing,
                 events |-> enr.events, event |-> None, todo |-> enr.todo, film |-> enr.film]
      /\ UNCHANGED <<queue, notification, mail, snd>>
  BY DEF NtfInv, NtfTypeOK, EventDone
<1>2. NtfTypeOK'
  BY <1>1, EnrTyping DEF NtfInv, NtfTypeOK
<1>3. QueueOK' /\ AddressOK' /\ SendOK' /\ MailOK'
  BY <1>1, TableStays DEF NtfInv
<1>4. AskedOK'
  BY <1>1 DEF NtfInv, AskedOK, Asked, Stored, Ready, Unsent
<1>5. WrittenOK'
  BY <1>1, EnrTyping DEF NtfInv, WrittenOK, Written, Stored
<1> QED
  BY <1>2, <1>3, <1>4, <1>5 DEF NtfInv

(* A pass that comes to its end, and one cut short by a crash: the enricher   *)
(* forgets what it had to do.                                                 *)
LEMMA AsleepStep ==
  ASSUME NtfInv, PassDone \/ EnrichCrash
  PROVE  NtfInv'
<1>1. enr' = Asleep /\ UNCHANGED <<queue, notification, admin, mail, snd>>
  BY DEF PassDone, EnrichCrash
<1>2. NtfTypeOK'
  BY <1>1 DEF NtfInv, NtfTypeOK, Asleep
<1>3. QueueOK' /\ AddressOK' /\ SendOK' /\ MailOK'
  BY <1>1, TableStays DEF NtfInv
<1>4. AskedOK'
  BY <1>1 DEF AskedOK, Asked, Asleep
<1>5. WrittenOK'
  BY <1>1, EnrTyping DEF NtfInv, WrittenOK, Written, Stored, Asleep
<1> QED
  BY <1>2, <1>3, <1>4, <1>5 DEF NtfInv

(* -------------------------------- Sender -------------------------------- *)

LEMMA SndTyping ==
  ASSUME NtfTypeOK
  PROVE  /\ snd = [job |-> snd.job, left |-> snd.left, rows |-> snd.rows]
         /\ snd.job \in {"none", "instant"} \cup DeferredTypes
         /\ snd.left \subseteq Ids \cup Users /\ snd.rows \subseteq Ids
         /\ mail \in [Ids -> MailStates]
  BY DEF NtfTypeOK

(* Rows that are sendable, with no other row in the transaction, have had no *)
(* mail whose mark still counts: the mail is their first.                    *)
LEMMA MailsEffect ==
  ASSUME NtfInv, snd.rows = {}, NEW rows \in SUBSET Ids,
         \A i \in rows : Sendable(i, Types), Mails(rows)
  PROVE  /\ mail' \in [Ids -> MailStates]
         /\ \A i \in Ids : /\ i \in rows => mail'[i] = "sent"
                           /\ i \notin rows => mail'[i] = mail[i]
<1>1. \A i \in rows : mail[i] \in {"unsent", "lost"}
  BY SndTyping DEF NtfInv, MailOK, Sendable, MailStates
<1> QED
  BY <1>1, SndTyping DEF NtfInv, Mails, MailStates

LEMMA MarksLostEffect ==
  ASSUME NtfInv, MarksLost
  PROVE  /\ mail' \in [Ids -> MailStates]
         /\ \A i \in Ids : /\ mail'[i] # "twice"
                           /\ mail'[i] # "unsent" => mail[i] # "unsent"
                           /\ mail'[i] = "sent" => ~Unsent(i)
  BY SndTyping DEF NtfInv, MailOK, MarksLost, MailStates

(* The sender's steps leave the other processes' variables alone; as long as *)
(* it writes no row either, only its own parts of the invariant are at stake. *)
LEMMA SenderOnly ==
  ASSUME NtfInv, UNCHANGED <<queue, notification, admin, enr>>,
         snd' \in [job : {"none", "instant"} \cup DeferredTypes,
                   left : SUBSET (Ids \cup Users), rows : SUBSET Ids],
         mail' \in [Ids -> MailStates], SendOK', MailOK'
  PROVE  NtfInv'
<1>1. QueueOK' /\ AddressOK' /\ AskedOK' /\ Onward
  BY TableStays DEF NtfInv
<1>2. WrittenOK'
  BY <1>1, WrittenOKStays DEF NtfInv
<1>3. NtfTypeOK'
  BY DEF NtfInv, NtfTypeOK
<1> QED
  BY <1>1, <1>2, <1>3 DEF NtfInv

LEMMA InstantJobStep ==
  ASSUME NtfInv, InstantJob
  PROVE  NtfInv'
<1>1. /\ snd.rows = {}
      /\ snd' = [job |-> "instant", left |-> {i \in Ids : Sendable(i, InstantTypes)},
                 rows |-> {}]
      /\ UNCHANGED <<queue, notification, admin, mail, enr>>
  BY DEF InstantJob, NoJob
<1>2. SendOK'
  <2>1. \A i \in Ids : Sendable(i, InstantTypes) => Sendable(i, Types)
    BY DEF NtfInv, NtfTypeOK, Sendable, Is, Notification
  <2> QED
    BY <1>1, <2>1 DEF SendOK, Sendable, Is, Ready, Unsent
<1>3. MailOK'
  BY <1>1 DEF NtfInv, MailOK, Stored, Ready, Unsent
<1> QED
  BY <1>1, <1>2, <1>3, SndTyping, SenderOnly DEF NtfInv

LEMMA DeferredJobStep ==
  ASSUME NtfInv, NEW type \in DeferredTypes, DeferredJob(type)
  PROVE  NtfInv'
<1> DEFINE left == {notification[i].user : i \in {j \in Ids : Sendable(j, {type})}}
<1>1. /\ snd.rows = {}
      /\ snd' = [job |-> type, left |-> left, rows |-> {}]
      /\ UNCHANGED <<queue, notification, admin, mail, enr>>
  BY DEF DeferredJob, NoJob
<1>2. left \subseteq Users
  BY RowFields DEF NtfInv, Sendable, Is, Stored
<1>3. type # "instant"
  BY DEF DeferredTypes
<1> HIDE DEF left
<1>4. SendOK'
  BY <1>1, <1>3 DEF SendOK
<1>5. MailOK'
  BY <1>1 DEF NtfInv, MailOK, Stored, Ready, Unsent
<1> QED
  BY <1>1, <1>2, <1>4, <1>5, SndTyping, SenderOnly DEF NtfInv

LEMMA SendInstantStep ==
  ASSUME NtfInv, NEW i \in Ids, SendInstant(i)
  PROVE  NtfInv'
<1>1. /\ snd.job = "instant" /\ snd.rows = {} /\ i \in snd.left
      /\ Mails({i})
      /\ snd' = [job |-> snd.job, left |-> snd.left \ {i}, rows |-> {i}]
      /\ UNCHANGED <<queue, notification, admin, enr>>
  BY SndTyping DEF NtfInv, SendInstant
<1>2. \A j \in snd.left : j \in Ids /\ Sendable(j, Types)
  BY <1>1 DEF NtfInv, SendOK
<1>3. /\ mail' \in [Ids -> MailStates] /\ mail'[i] = "sent"
      /\ \A j \in Ids : j # i => mail'[j] = mail[j]
  BY <1>1, <1>2, MailsEffect
<1>4. SendOK'
  BY <1>1, <1>2 DEF SendOK, Sendable, Is, Ready, Unsent
<1>5. MailOK'
  <2> SUFFICES ASSUME NEW j \in Ids
               PROVE  /\ mail'[j] # "unsent" => (Stored(j) /\ Ready(j))'
                      /\ mail'[j] = "sent" => j \in snd'.rows \/ ~Unsent(j)'
                      /\ mail'[j] # "twice"
    BY DEF MailOK
  <2>1. CASE j = i
    BY <1>1, <1>2, <1>3, <2>1 DEF Sendable, Is, Stored, Ready
  <2>2. CASE j # i
    BY <1>1, <1>3, <2>2 DEF NtfInv, MailOK, Stored, Ready, Unsent
  <2> QED
    BY <2>1, <2>2
<1> QED
  BY <1>1, <1>3, <1>4, <1>5, SndTyping, SenderOnly DEF NtfInv

LEMMA SendDeferredStep ==
  ASSUME NtfInv, NEW u \in Users, SendDeferred(u)
  PROVE  NtfInv'
<1> DEFINE rows == {i \in Ids : Sendable(i, Types) /\ notification[i].user = u}
<1>1. /\ snd.job \in DeferredTypes /\ snd.rows = {}
      /\ snd' = [job |-> snd.job, left |-> snd.left \ {u}, rows |-> rows]
      /\ UNCHANGED <<queue, notification, admin, enr>>
  BY SndTyping DEF NtfInv, SendDeferred
<1>2. \E some \in SUBSET rows : Mails(some)
  <2>1. CASE Mails({i \in rows : Is(i, {"received_likes"})})
    BY <2>1
  <2>2. CASE \E i \in rows : Mails({i})
    BY <2>2
  <2> QED
    BY <2>1, <2>2 DEF SendDeferred
<1>3. PICK some \in SUBSET rows : Mails(some)
  BY <1>2
<1>4. /\ rows \subseteq Ids
      /\ \A i \in rows : Sendable(i, Types) /\ notification[i].user = u
  OBVIOUS
<1> HIDE DEF rows
<1>5. /\ mail' \in [Ids -> MailStates]
      /\ \A i \in Ids : /\ i \in some => mail'[i] = "sent"
                        /\ i \notin some => mail'[i] = mail[i]
  BY <1>1, <1>3, <1>4, MailsEffect
<1>6. SendOK'
  BY <1>1, <1>4 DEF SendOK, Sendable, Is, Ready, Unsent, DeferredTypes
<1>7. MailOK'
  <2> SUFFICES ASSUME NEW j \in Ids
               PROVE  /\ mail'[j] # "unsent" => (Stored(j) /\ Ready(j))'
                      /\ mail'[j] = "sent" => j \in snd'.rows \/ ~Unsent(j)'
                      /\ mail'[j] # "twice"
    BY DEF MailOK
  <2>1. CASE j \in some
    BY <1>1, <1>3, <1>4, <1>5, <2>1 DEF Sendable, Is, Stored, Ready
  <2>2. CASE j \notin some
    BY <1>1, <1>5, <2>2 DEF NtfInv, MailOK, Stored, Ready, Unsent
  <2> QED
    BY <2>1, <2>2
<1> QED
  BY <1>1, <1>4, <1>5, <1>6, <1>7, SndTyping, SenderOnly DEF NtfInv

LEMMA SendFailsStep ==
  ASSUME NtfInv, SendFails
  PROVE  NtfInv'
<1>1. /\ UNCHANGED <<queue, notification, admin, mail, enr>>
      /\ \E x \in snd.left :
           snd' = [job |-> snd.job, left |-> snd.left \ {x}, rows |-> snd.rows]
  BY SndTyping DEF NtfInv, SendFails
<1>2. PICK x \in snd.left :
        snd' = [job |-> snd.job, left |-> snd.left \ {x}, rows |-> snd.rows]
  BY <1>1
<1>3. SendOK'
  BY <1>1, <1>2 DEF NtfInv, SendOK, Sendable, Is, Ready, Unsent
<1>4. MailOK'
  BY <1>1, <1>2 DEF NtfInv, MailOK, Stored, Ready, Unsent
<1> QED
  BY <1>1, <1>2, <1>3, <1>4, SndTyping, SenderOnly DEF NtfInv

LEMMA SendRollbackStep ==
  ASSUME NtfInv, SendRollback
  PROVE  NtfInv'
<1>1. /\ UNCHANGED <<queue, notification, admin, enr>> /\ MarksLost
      /\ snd' = [job |-> snd.job, left |-> snd.left, rows |-> {}]
  BY SndTyping DEF NtfInv, SendRollback
<1>2. SendOK'
  BY <1>1 DEF NtfInv, SendOK, Sendable, Is, Ready, Unsent
<1>3. MailOK' /\ mail' \in [Ids -> MailStates]
  BY <1>1, MarksLostEffect DEF NtfInv, MailOK, Stored, Ready, Unsent
<1> QED
  BY <1>1, <1>2, <1>3, SndTyping, SenderOnly DEF NtfInv

LEMMA SenderCrashStep ==
  ASSUME NtfInv, SenderCrash
  PROVE  NtfInv'
<1>1. /\ UNCHANGED <<queue, notification, admin, enr>> /\ MarksLost
      /\ snd' = [job |-> "none", left |-> {}, rows |-> {}]
  BY DEF SenderCrash, NoJob
<1>2. SendOK'
  BY <1>1 DEF SendOK
<1>3. MailOK' /\ mail' \in [Ids -> MailStates]
  BY <1>1, MarksLostEffect DEF NtfInv, MailOK, Stored, Ready, Unsent
<1> QED
  BY <1>1, <1>2, <1>3, SenderOnly DEF NtfInv

LEMMA JobDoneStep ==
  ASSUME NtfInv, JobDone
  PROVE  NtfInv'
<1>1. /\ UNCHANGED <<queue, notification, admin, mail, enr>> /\ snd.rows = {}
      /\ snd' = [job |-> "none", left |-> {}, rows |-> {}]
  BY DEF JobDone, NoJob
<1>2. SendOK'
  BY <1>1 DEF SendOK
<1>3. MailOK'
  BY <1>1 DEF NtfInv, MailOK, Stored, Ready, Unsent
<1> QED
  BY <1>1, <1>2, <1>3, SndTyping, SenderOnly DEF NtfInv

(* The commit marks the rows of the transaction; what an instant job still    *)
(* has to send is none of them.                                               *)
LEMMA CommitEffect ==
  ASSUME NtfInv, SendCommit
  PROVE  /\ notification' \in [Ids -> Notification \cup {None}]
         /\ \A i \in Ids : /\ Stored(i)' <=> Stored(i)
                           /\ i \in snd.rows => Stored(i) /\ ~Unsent(i)'
                           /\ i \notin snd.rows => notification'[i] = notification[i]
         /\ \A i \in Ids : Stored(i) =>
              /\ notification'[i].type = notification[i].type
              /\ notification'[i].user = notification[i].user
              /\ notification'[i].about = notification[i].about
              /\ notification'[i].ready = notification[i].ready
<1>1. notification' = [i \in Ids |->
        IF i \in snd.rows THEN [notification[i] EXCEPT !.status = TRUE] ELSE notification[i]]
  BY DEF SendCommit
<1>2. \A i \in snd.rows : i \in Ids /\ Stored(i)
  BY SndTyping DEF NtfInv, SendOK, Sendable, Is, Stored
<1>3. \A i \in Ids : notification[i] \in Notification \cup {None}
  BY DEF NtfInv, NtfTypeOK
<1>4. \A i \in Ids : i \notin snd.rows => notification'[i] = notification[i]
  BY <1>1
<1>5. ASSUME NEW i \in snd.rows
      PROVE  /\ notification'[i] \in Notification /\ notification'[i].status
             /\ notification'[i].type = notification[i].type
             /\ notification'[i].user = notification[i].user
             /\ notification'[i].about = notification[i].about
             /\ notification'[i].ready = notification[i].ready
  <2>1. notification[i] \in Notification
    BY <1>2, <1>3 DEF Stored
  <2>2. notification'[i] = [notification[i] EXCEPT !.status = TRUE]
    BY <1>1, <1>2
  <2> QED
    BY <2>1, <2>2 DEF Notification
<1>6. notification' \in [Ids -> Notification \cup {None}]
  <2>1. \A i \in Ids : notification'[i] \in Notification \cup {None}
    BY <1>3, <1>4, <1>5
  <2> QED
    BY <1>1, <2>1
<1> QED
  BY <1>2, <1>4, <1>5, <1>6, NoneIsNoRow DEF Stored, Unsent

LEMMA SendCommitStep ==
  ASSUME NtfInv, SendCommit
  PROVE  NtfInv'
<1>1. /\ UNCHANGED <<queue, admin, mail, enr>>
      /\ snd' = [job |-> snd.job, left |-> snd.left, rows |-> {}]
  BY SndTyping DEF NtfInv, SendCommit
<1>2. /\ notification' \in [Ids -> Notification \cup {None}]
      /\ \A i \in Ids : /\ Stored(i)' <=> Stored(i)
                        /\ i \in snd.rows => Stored(i) /\ ~Unsent(i)'
                        /\ i \notin snd.rows => notification'[i] = notification[i]
      /\ \A i \in Ids : Stored(i) =>
           /\ notification'[i].type = notification[i].type
           /\ notification'[i].user = notification[i].user
           /\ notification'[i].about = notification[i].about
           /\ notification'[i].ready = notification[i].ready
  BY CommitEffect
<1>3. NtfTypeOK'
  BY <1>1, <1>2, SndTyping DEF NtfInv, NtfTypeOK
<1>4. QueueOK'
  <2>1. \A n \in DOMAIN queue : queue[n] \in Event
    BY DEF NtfInv, NtfTypeOK
  <2>2. \A n \in DOMAIN queue : queue[n].id \in Ids
    BY <2>1 DEF Event, Ids
  <2> QED
    BY <1>1, <1>2, <2>2 DEF NtfInv, QueueOK, Stored
<1>5. AddressOK'
  BY <1>2 DEF NtfInv, AddressOK, Stored, Ready
<1>6. AskedOK'
  <2> SUFFICES ASSUME NEW i \in Ids, Asked(i)
               PROVE  (Stored(i) /\ ~Ready(i) /\ Unsent(i))'
    BY <1>1 DEF AskedOK, Asked
  <2>1. Stored(i) /\ ~Ready(i) /\ Unsent(i)
    BY DEF NtfInv, AskedOK
  <2>2. i \notin snd.rows
    BY <2>1 DEF NtfInv, SendOK, Sendable
  <2> QED
    BY <1>2, <2>1, <2>2 DEF Stored, Ready, Unsent
<1>7. Onward
  BY <1>2 DEF Onward, Stored, Ready, Unsent
<1>8. WrittenOK'
  BY <1>1, <1>7, WrittenOKStays DEF NtfInv
<1>9. SendOK'
  <2>1. snd.job = "instant" =>
          \A i \in snd.left : /\ i \in Ids /\ i \notin snd.rows /\ Sendable(i, Types)
                              /\ notification'[i] = notification[i]
    BY <1>2 DEF NtfInv, SendOK
  <2> QED
    BY <1>1, <2>1 DEF SendOK, Sendable, Is, Ready, Unsent
<1>10. MailOK'
  BY <1>1, <1>2 DEF NtfInv, MailOK, Stored, Ready, Unsent
<1> QED
  BY <1>3, <1>4, <1>5, <1>6, <1>8, <1>9, <1>10 DEF NtfInv

------------------------------------------------------------------------------

LEMMA NtfInvInit == NtfInit => NtfInv
<1> SUFFICES ASSUME NtfInit PROVE NtfInv
  OBVIOUS
<1>1. /\ queue = <<>> /\ notification = [i \in Ids |-> None]
      /\ admin = [a \in AdminEvents |-> "none"] /\ mail = [i \in Ids |-> "unsent"]
      /\ enr = [running |-> FALSE, likes |-> {}, billing |-> {}, events |-> {},
                event |-> None, todo |-> {}, film |-> None]
      /\ snd = [job |-> "none", left |-> {}, rows |-> {}]
  BY DEF NtfInit, Asleep, NoJob
<1>2. NtfTypeOK
  BY <1>1 DEF NtfTypeOK, MailStates
<1> QED
  BY <1>1, <1>2 DEF NtfInv, QueueOK, AddressOK, AskedOK, WrittenOK, SendOK, MailOK,
                    Stored, Asked

LEMMA NtfInvStep == NtfInv /\ [NtfNext]_ntfVars => NtfInv'
<1> SUFFICES ASSUME NtfInv, [NtfNext]_ntfVars PROVE NtfInv'
  OBVIOUS
<1>1. CASE UNCHANGED ntfVars
  <2>1. UNCHANGED <<queue, notification, admin, mail, enr, snd>>
    BY <1>1 DEF ntfVars
  <2>2. SendOK' /\ MailOK'
    BY <2>1, TableStays DEF NtfInv
  <2> QED
    BY <2>1, <2>2, SenderOnly DEF NtfInv, NtfTypeOK
<1>2. CASE Publishers
  BY <1>2, PublishStep, CreateAdminEventStep DEF Publishers
<1>3. CASE Callback \/ ConsumerCrash
  BY <1>3, CallbackStep, ConsumerCrashStep
<1>4. CASE EnrichStep \/ EnrichCrash
  BY <1>4, EnrichPassStep, EventDoneStep, AsleepStep, EnrichUserByIdStep,
     EnrichUserFailsStep, NextEventStep, InsertFilmStep DEF EnrichStep
<1>5. CASE SendStep \/ SenderCrash
  BY <1>5, InstantJobStep, SendFailsStep, SendCommitStep, SendRollbackStep, JobDoneStep,
     SendInstantStep, DeferredJobStep, SendDeferredStep, SenderCrashStep DEF SendStep
<1> QED
  BY <1>1, <1>2, <1>3, <1>4, <1>5 DEF NtfNext

(* The inductive invariant holds in every state of the service.               *)
THEOREM NtfAlways == NtfSpec => []NtfInv
  BY NtfInvInit, NtfInvStep, PTL DEF NtfSpec

(* Every variable has its type, whatever the three processes do to the table  *)
(* between each other's steps and wherever they die.                          *)
THEOREM NtfTypes == NtfSpec => []NtfTypeOK
<1>1. NtfInv => NtfTypeOK
  BY DEF NtfInv
<1> QED
  BY <1>1, NtfAlways, PTL

(* Nobody Auth does not know is mailed, but at an address that came with the  *)
(* event.                                                                     *)
THEOREM UnknownIsNotMailed == NtfSpec => []NobodyUnknownIsMailed
<1>1. NtfInv => NobodyUnknownIsMailed
  BY DEF NtfInv, MailOK, AddressOK, NobodyUnknownIsMailed, Mailed
<1> QED
  BY <1>1, NtfAlways, PTL

(* An event marked as done has a notification for each user of its audience,  *)
(* however often the enricher died over it.                                   *)
THEOREM DoneIsWritten == NtfSpec => []DoneMeansWritten
<1>1. NtfInv => DoneMeansWritten
  BY DEF NtfInv, WrittenOK, Written, Stored, DoneMeansWritten
<1> QED
  BY <1>1, NtfAlways, PTL

(* A second mail of a notification is sent only after the mark of the first   *)
(* was lost with its transaction.                                             *)
THEOREM MailedOnce == NtfSpec => []NoSecondMail
<1>1. NtfInv => NoSecondMail
  BY DEF NtfInv, MailOK, NoSecondMail
<1> QED
  BY <1>1, NtfAlways, PTL

------------------------------------------------------------------------------
(* The refinement of NotificationLife.  Each step of the service stores one   *)
(* notification, completes one, finishes those of a transaction, or is a      *)
(* stutter of what NotificationLife sees of the table.                        *)

lives == [i \in Ids |-> Life(i)]
tos   == [i \in Ids |-> Addressee(i)]

LEMMA UnseenStep ==
  ASSUME UNCHANGED notification
  PROVE  UNCHANGED Lives!lifeVars
  BY DEF Lives!lifeVars, Life, Addressee

LEMMA StoringStep ==
  ASSUME NtfInv, NEW i \in Ids, ~Stored(i), NEW r \in Notification, ~r.status,
         notification' = [notification EXCEPT ![i] = r]
  PROVE  Lives!LifeNext
<1>1. /\ notification'[i] = r /\ Stored(i)' /\ r.user \in Users /\ r # None
      /\ \A j \in Ids : j # i => notification'[j] = notification[j]
  BY AddedOnward, NoneIsNoRow DEF NtfInv, Notification
<1>2. PICK stored : stored = Life(i)'
  OBVIOUS
<1>3. stored \in {"stored", "ready"}
  BY <1>1, <1>2 DEF Life
<1>4. lives' = [lives EXCEPT ![i] = stored] /\ lives[i] = "absent"
  BY <1>1, <1>2 DEF Life, lives, Stored
<1>5. tos' = [tos EXCEPT ![i] = r.user]
  <2>1. \A j \in Ids : Addressee(j)' = IF j = i THEN r.user ELSE Addressee(j)
    BY <1>1 DEF Addressee
  <2> QED
    BY <2>1 DEF tos
<1>6. Lives!Store(i, r.user)
  BY <1>3, <1>4, <1>5 DEF Lives!Store, lives, tos
<1> QED
  BY <1>1, <1>6 DEF Lives!LifeNext

LEMMA CompletingStep ==
  ASSUME NtfInv, NEW i \in Ids, EnrichUserById(i)
  PROVE  Lives!LifeNext
<1>1. /\ Asked(i) /\ notification' = [notification EXCEPT ![i].ready = TRUE]
  BY DEF EnrichUserById
<1>2. Stored(i) /\ ~Ready(i) /\ Unsent(i)
  BY <1>1 DEF NtfInv, AskedOK
<1>3. /\ Onward /\ Ready(i)' /\ Unsent(i)'
      /\ \A j \in Ids : j # i => notification'[j] = notification[j]
  BY <1>1, <1>2, ReadiedOnward DEF NtfInv
<1>4. /\ Stored(i)' /\ notification'[i].user = notification[i].user
  BY <1>2, <1>3 DEF Onward
<1>5. Life(i) = "stored" /\ Life(i)' = "ready"
  BY <1>2, <1>3, <1>4 DEF Life, Stored, Ready, Unsent
<1>6. lives' = [lives EXCEPT ![i] = "ready"] /\ lives[i] = "stored"
  BY <1>3, <1>5 DEF Life, lives
<1>7. tos' = tos
  BY <1>2, <1>3, <1>4 DEF Addressee, tos, Stored
<1>8. Lives!Complete(i)
  BY <1>6, <1>7 DEF Lives!Complete, lives, tos
<1> QED
  BY <1>8 DEF Lives!LifeNext

LEMMA FinishingStep ==
  ASSUME NtfInv, SendCommit
  PROVE  Lives!LifeNext
<1>1. /\ snd.rows # {} /\ snd.rows \subseteq Ids
      /\ \A i \in snd.rows : Stored(i) /\ Ready(i) /\ Unsent(i)
      /\ \A i, j \in snd.rows : notification[i].user = notification[j].user
  BY SndTyping DEF NtfInv, SendCommit, SendOK, Sendable, Is, Stored
<1>2. PICK k \in snd.rows : TRUE
  BY <1>1
<1> DEFINE u == notification[k].user
<1>3. u \in Users
  BY <1>1, RowFields DEF NtfInv
<1>4. /\ \A i \in Ids : /\ Stored(i)' <=> Stored(i)
                        /\ i \in snd.rows => ~Unsent(i)'
                        /\ i \notin snd.rows => notification'[i] = notification[i]
      /\ \A i \in Ids : Stored(i) => notification'[i].user = notification[i].user
  BY CommitEffect
<1>5. \A i \in snd.rows : lives[i] = "ready" /\ tos[i] = u
  BY <1>1 DEF lives, tos, Life, Addressee, Stored, Ready, Unsent
<1>6. lives' = [i \in Ids |-> IF i \in snd.rows THEN "done" ELSE lives[i]]
  <2>1. \A i \in Ids : Life(i)' = IF i \in snd.rows THEN "done" ELSE Life(i)
    BY <1>1, <1>4 DEF Life, Stored, Unsent
  <2> QED
    BY <2>1 DEF lives
<1>7. tos' = tos
  <2>1. \A i \in Ids : Addressee(i)' = Addressee(i)
    BY <1>4 DEF Addressee, Stored
  <2> QED
    BY <2>1 DEF tos
<1>8. snd.rows \in SUBSET {i \in Ids : lives[i] = "ready"}
  BY <1>1, <1>5
<1>9. Lives!Done(u, snd.rows)
  BY <1>5, <1>6, <1>7 DEF Lives!Done, lives, tos
<1> QED
  BY <1>3, <1>8, <1>9 DEF Lives!LifeNext, lives

LEMMA LivesStep ==
  ASSUME NtfInv, [NtfNext]_ntfVars
  PROVE  Lives!LifeNext \/ UNCHANGED Lives!lifeVars
<1>1. CASE UNCHANGED notification
  BY <1>1, UnseenStep
<1>2. CASE Callback /\ notification' # notification
  <2> DEFINE e == Head(queue)
             r == [type |-> e.type, user |-> e.user, about |-> None,
                   ready |-> e.type \in AddressedTypes, status |-> FALSE]
  <2>1. /\ queue \in Seq(Event) /\ queue # <<>>
        /\ notification' = [notification EXCEPT ![e.id] = r]
    BY <1>2 DEF NtfInv, NtfTypeOK, Callback
  <2>2. e \in Event /\ ~Stored(e.id)
    BY <2>1, HeadOfQueue DEF NtfInv
  <2>3. e.id \in Ids /\ r \in Notification /\ ~r.status
    <3>1. e.id \in Ids /\ e.type \in Types /\ e.user \in Users
      BY <2>2 DEF Event, Ids
    <3> QED
      BY <3>1 DEF Notification
  <2> HIDE DEF e, r
  <2> QED
    BY <2>1, <2>2, <2>3, StoringStep
<1>3. ASSUME NEW u \in Users, NEW i \in Films, InsertFilm(u, i)
      PROVE  Lives!LifeNext
  <2> DEFINE r == [type |-> "new_films", user |-> u, about |-> enr.event,
                   ready |-> FALSE, status |-> FALSE]
  <2>1. /\ ~Stored(i) /\ i \in Ids /\ notification' = [notification EXCEPT ![i] = r]
    BY <1>3 DEF InsertFilm, Stored, Ids
  <2>2. r \in Notification /\ ~r.status
    BY EnrTyping DEF NtfInv, Notification
  <2> HIDE DEF r
  <2> QED
    BY <2>1, <2>2, StoringStep
<1>4. CASE UNCHANGED ntfVars
  BY <1>1, <1>4 DEF ntfVars
<1>5. CASE Publishers
  BY <1>1, <1>5 DEF Publishers, Publish, CreateAdminEvent
<1>6. CASE Callback \/ ConsumerCrash
  BY <1>1, <1>2, <1>6 DEF ConsumerCrash
<1>7. CASE EnrichStep \/ EnrichCrash
  <2>1. \/ UNCHANGED notification
        \/ \E i \in Ids : EnrichUserById(i)
        \/ \E u \in Users, i \in Films : InsertFilm(u, i)
    BY <1>7 DEF EnrichStep, EnrichCrash, EnrichPass, EventDone, PassDone,
                EnrichUserFails, NextEvent
  <2> QED
    BY <1>1, <1>3, <2>1, CompletingStep
<1>8. CASE SendStep \/ SenderCrash
  <2>1. UNCHANGED notification \/ SendCommit
    BY <1>8 DEF SendStep, SenderCrash, InstantJob, SendFails, SendRollback, JobDone,
                SendInstant, DeferredJob, SendDeferred
  <2> QED
    BY <1>1, <2>1, FinishingStep
<1> QED
  BY <1>4, <1>5, <1>6, <1>7, <1>8 DEF NtfNext

(* The three processes and the queue implement NotificationLife: a            *)
(* notification stays its user's, goes from stored to ready to done and back  *)
(* nowhere, and a commit finishes rows that are ready, all of one user.       *)
THEOREM ServiceKeepsLives == NtfSpec => KeepsLives
<1>1. NtfInit => Lives!LifeInit
  BY DEF NtfInit, Lives!LifeInit, Life, Addressee
<1>2. NtfInv /\ [NtfNext]_ntfVars => [Lives!LifeNext]_(Lives!lifeVars)
  BY LivesStep
<1> QED
  BY <1>1, <1>2, NtfAlways, PTL DEF NtfSpec, KeepsLives, Lives!LifeSpec

================================================================================
