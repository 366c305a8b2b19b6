----------------------------- MODULE Notifications -----------------------------
(***************************************************************************)
(* The notification service (workers/): the consumer of the RabbitMQ queue *)
(* stores each event as a notification, the enricher asks Auth for the     *)
(* address it goes to and writes one notification per user for an event of *)
(* the admin panel, the sender mails what is ready.  Three processes work  *)
(* on one table; each may die at any moment and is started again.          *)
(***************************************************************************)
EXTENDS Naturals, Sequences, FiniteSets

CONSTANTS Messages,    \* ids of the notifications that come from the queue
          Films,       \* ids of those the enricher writes for new films
          Users,
          KnownUsers,  \* the users Auth has an account of
          Types,       \* the event types in use
          AdminEvents, \* events the admin panel may create
          Audience,    \* user_ids of each of them
          QueueBound,  \* bound: events waiting in the queue
          None

NotificationTypesEnum ==
  {"user_create", "change_password", "new_films", "received_likes",
   "payment_accepted", "payment_refund", "subscription_expires", "subscription_expired"}

ASSUME NotificationsAssumption ==
  /\ Messages \cap Films = {}
  /\ KnownUsers \subseteq Users
  /\ "new_films" \in Types /\ Types \subseteq NotificationTypesEnum
  /\ Audience \in [AdminEvents -> SUBSET Users]

VARIABLES queue,        \* RabbitMQ: the events in instant_events
          notification, \* the table notifications: a row for each id, or None
          admin,        \* the table adminnotifevent: the status of each event
          mail,         \* whether a mail carried its text, and whether the mark of it was lost
          enr,          \* the enricher: what its three tasks still have to do
          snd           \* the sender: its job, what is left of it and its transaction

ntfVars == <<queue, notification, admin, mail, enr, snd>>

Ids == Messages \cup Films
AddressedTypes == {"user_create", "change_password"}
BillingTypes == {"payment_accepted", "payment_refund",
                 "subscription_expires", "subscription_expired"}
InstantTypes == AddressedTypes \cup BillingTypes
DeferredTypes == {"received_likes", "new_films"}
MailStates == {"unsent", "sent", "lost", "twice"}

Event == [id : Messages, type : Types, user : Users]
Notification == [type : Types, user : Users, about : AdminEvents \cup {None},
                 ready : BOOLEAN, status : BOOLEAN]

ASSUME NtfNoneAssumption == None \notin Users \cup Ids \cup AdminEvents \cup Notification

Asleep == [running |-> FALSE, likes |-> {}, billing |-> {}, events |-> {},
           event |-> None, todo |-> {}, film |-> None]
NoJob == [job |-> "none", left |-> {}, rows |-> {}]

NtfTypeOK ==
  /\ queue \in Seq(Event)
  /\ notification \in [Ids -> Notification \cup {None}]
  /\ admin \in [AdminEvents -> {"none", "new", "done"}]
  /\ mail \in [Ids -> MailStates]
  /\ enr \in [running : BOOLEAN, likes : SUBSET Ids, billing : SUBSET Ids,
              events : SUBSET AdminEvents, event : AdminEvents \cup {None},
              todo : SUBSET Users, film : Films \cup {None}]
  /\ snd \in [job : {"none", "instant"} \cup DeferredTypes,
              left : SUBSET (Ids \cup Users), rows : SUBSET Ids]

NtfInit ==
  /\ queue = <<>>
  /\ notification = [i \in Ids |-> None]
  /\ admin = [a \in AdminEvents |-> "none"]
  /\ mail = [i \in Ids |-> "unsent"]
  /\ enr = Asleep
  /\ snd = NoJob

------------------------------------------------------------------------------
Is(i, types) == notification[i] # None /\ notification[i].type \in types
Unsent(i)    == ~notification[i].status
Ready(i)     == notification[i].ready
Queued(i)    == \E n \in DOMAIN queue : queue[n].id = i

(* The publishers: Auth, the billing service and whoever reports likes.     *)
Publish(i, type, u) ==
  /\ Len(queue) < QueueBound
  /\ notification[i] = None /\ ~Queued(i)
  /\ queue' = Append(queue, [id |-> i, type |-> type, user |-> u])
  /\ UNCHANGED <<notification, admin, mail, enr, snd>>

CreateAdminEvent(a) ==
  /\ admin[a] = "none"
  /\ admin' = [admin EXCEPT ![a] = "new"]
  /\ UNCHANGED <<queue, notification, mail, enr, snd>>

------------------------------------------------------------------------------
(* Mutated form of Callback: ready is left null where it is not TRUE.       *)
CallbackNull ==
  LET e == Head(queue) IN
  /\ queue # <<>>
  /\ notification' =
       IF e.type = "new_films" THEN notification
       ELSE [notification EXCEPT ![e.id] =
               [type |-> e.type, user |-> e.user, about |-> None,
                ready |-> IF e.type \in AddressedTypes THEN TRUE ELSE None,
                status |-> FALSE]]
  /\ queue' = Tail(queue)
  /\ UNCHANGED <<admin, mail, enr, snd>>

(* rabbit_worker: what comes with a name and an address is ready at once;   *)
(* a new_films event matches no branch and is dropped.                      *)
Callback ==
  LET e == Head(queue) IN
  /\ queue # <<>>
  /\ notification' =
       IF e.type = "new_films" THEN notification
       ELSE [notification EXCEPT ![e.id] =
               [type |-> e.type, user |-> e.user, about |-> None,
                ready |-> e.type \in AddressedTypes, status |-> FALSE]]
  /\ queue' = Tail(queue)
  /\ UNCHANGED <<admin, mail, enr, snd>>

(* With auto_ack the broker forgets an event as it delivers it, and delivers *)
(* ahead of the callback: what the consumer held when it died is lost.       *)
ConsumerCrash ==
  /\ \E n \in 1..Len(queue) : queue' = SubSeq(queue, n + 1, Len(queue))
  /\ UNCHANGED <<notification, admin, mail, enr, snd>>

------------------------------------------------------------------------------
(* enrichment_worker: three tasks on one session, each undisturbed from one *)
(* await to the next; a pass begins with the three SELECTs.                 *)
Unready(types) == {i \in Ids : Is(i, types) /\ Unsent(i) /\ ~Ready(i)}

(* Mutated form of EnrichPass: a type of the filter of enrich_billing is    *)
(* missing.                                                                 *)
EnrichPassShort ==
  /\ ~enr.running
  /\ enr' = [Asleep EXCEPT !.running = TRUE,
                           !.likes   = Unready({"received_likes"}),
                           !.billing = Unready({"payment_refund", "subscription_expires"}),
                           !.events  = {a \in AdminEvents : admin[a] = "new"}]
  /\ UNCHANGED <<queue, notification, admin, mail, snd>>

EnrichPass ==
  /\ ~enr.running
  /\ enr' = [Asleep EXCEPT !.running = TRUE,
                           !.likes   = Unready({"received_likes"}),
                           !.billing = Unready(BillingTypes),
                           !.events  = {a \in AdminEvents : admin[a] = "new"}]
  /\ UNCHANGED <<queue, notification, admin, mail, snd>>

Asked(i) == i \in enr.likes \cup enr.billing \cup ({enr.film} \ {None})

Answered(i) ==
  enr' = [enr EXCEPT !.likes = @ \ {i}, !.billing = @ \ {i},
                     !.film = IF @ = i THEN None ELSE @]

EnrichUserById(i) ==
  /\ Asked(i)
  /\ notification[i].user \in KnownUsers
  /\ notification' = [notification EXCEPT ![i].ready = TRUE]
  /\ Answered(i)
  /\ UNCHANGED <<queue, admin, mail, snd>>

(* Mutated form of EnrichUserFails: the answer of Auth is not looked at.    *)
EnrichUserUnchecked(i) ==
  /\ Asked(i)
  /\ notification' = [notification EXCEPT ![i].ready = TRUE]
  /\ Answered(i)
  /\ UNCHANGED <<queue, admin, mail, snd>>

(* Auth answers something else than 200, or the request fails.              *)
EnrichUserFails(i) ==
  /\ Asked(i)
  /\ Answered(i)
  /\ UNCHANGED <<queue, notification, admin, mail, snd>>

NextEvent(a) ==
  /\ enr.event = None /\ a \in enr.events
  /\ enr' = [enr EXCEPT !.event = a, !.events = @ \ {a}, !.todo = Audience[a]]
  /\ UNCHANGED <<queue, notification, admin, mail, snd>>

InsertFilm(u, i) ==
  /\ enr.film = None /\ u \in enr.todo
  /\ notification[i] = None
  /\ notification' = [notification EXCEPT ![i] =
       [type |-> "new_films", user |-> u, about |-> enr.event,
        ready |-> FALSE, status |-> FALSE]]
  /\ enr' = [enr EXCEPT !.todo = @ \ {u}, !.film = i]
  /\ UNCHANGED <<queue, admin, mail, snd>>

(* Mutated form of EventDone: the event is marked before its last user.     *)
EventDoneEarly ==
  /\ enr.event # None /\ enr.film = None
  /\ admin' = [admin EXCEPT ![enr.event] = "done"]
  /\ IF enr.todo = {} THEN enr' = [enr EXCEPT !.event = None] ELSE UNCHANGED enr
  /\ UNCHANGED <<queue, notification, mail, snd>>

EventDone ==
  /\ enr.event # None /\ enr.todo = {} /\ enr.film = None
  /\ admin' = [admin EXCEPT ![enr.event] = "done"]
  /\ enr' = [enr EXCEPT !.event = None]
  /\ UNCHANGED <<queue, notification, mail, snd>>

Busy == {i \in Ids : Asked(i)} # {} \/ enr.events # {} \/ enr.event # None

PassDone ==
  /\ enr.running /\ ~Busy
  /\ enr' = Asleep
  /\ UNCHANGED <<queue, notification, admin, mail, snd>>

(* An event cut short is begun again from its first user.  Bound: only as   *)
(* long as there are ids left to do so.                                     *)
RoomToRedo ==
  Cardinality({i \in Films : notification[i] = None}) >=
    Cardinality({au \in AdminEvents \X Users : admin[au[1]] # "done" /\ au[2] \in Audience[au[1]]})

EnrichCrash ==
  /\ enr.running /\ Busy /\ RoomToRedo
  /\ enr' = Asleep
  /\ UNCHANGED <<queue, notification, admin, mail, snd>>

------------------------------------------------------------------------------
(* sender_worker: one job after another, each a SELECT, then for each row   *)
(* or user a mail and a commit.                                             *)
(* Mutated form of Sendable: the filter of the queries forgets the status.  *)
SendableAgain(i, types) == Is(i, types) /\ Ready(i)

Sendable(i, types) == Is(i, types) /\ Ready(i) /\ Unsent(i)

(* A mail after one that was not lost is a second one.                      *)
Mails(rows) ==
  mail' = [i \in Ids |-> IF i \notin rows THEN mail[i]
                         ELSE IF mail[i] \in {"unsent", "lost"} THEN "sent" ELSE "twice"]

(* The transaction does not come to its commit; the mail stays sent.        *)
MarksLost ==
  mail' = [i \in Ids |-> IF i \in snd.rows /\ mail[i] = "sent" THEN "lost" ELSE mail[i]]

InstantJob ==
  /\ snd = NoJob
  /\ snd' = [NoJob EXCEPT !.job = "instant", !.left = {i \in Ids : Sendable(i, InstantTypes)}]
  /\ UNCHANGED <<queue, notification, admin, mail, enr>>

SendInstant(i) ==
  /\ snd.job = "instant" /\ snd.rows = {} /\ i \in snd.left
  /\ Mails({i})
  /\ snd' = [snd EXCEPT !.left = @ \ {i}, !.rows = {i}]
  /\ UNCHANGED <<queue, notification, admin, enr>>

DeferredJob(type) ==
  /\ snd = NoJob
  /\ snd' = [NoJob EXCEPT !.job = type,
       !.left = {notification[i].user : i \in {j \in Ids : Sendable(j, {type})}}]
  /\ UNCHANGED <<queue, notification, admin, mail, enr>>

(* Mutated form of SendDeferred: the second query forgets the user too.      *)
SendDeferredToAll(u) ==
  LET rows == {i \in Ids : Sendable(i, Types)} IN
  /\ snd.job \in DeferredTypes /\ snd.rows = {} /\ u \in snd.left
  /\ \E i \in rows : Mails({i})
  /\ snd' = [snd EXCEPT !.left = @ \ {u}, !.rows = rows]
  /\ UNCHANGED <<queue, notification, admin, enr>>

(* The second query does not ask for the type: it takes everything the user *)
(* has ready.  One mail counts the likes, or carries the text of one row.   *)
SendDeferred(u) ==
  LET rows == {i \in Ids : Sendable(i, Types) /\ notification[i].user = u} IN
  /\ snd.job \in DeferredTypes /\ snd.rows = {} /\ u \in snd.left
  /\ \/ /\ snd.job = "received_likes"
        /\ Mails({i \in rows : Is(i, {"received_likes"})})
     \/ /\ snd.job = "new_films"
        /\ \E i \in rows : Mails({i})
  /\ snd' = [snd EXCEPT !.left = @ \ {u}, !.rows = rows]
  /\ UNCHANGED <<queue, notification, admin, enr>>

SendFails ==
  /\ snd.rows = {}
  /\ \E x \in snd.left : snd' = [snd EXCEPT !.left = @ \ {x}]
  /\ UNCHANGED <<queue, notification, admin, mail, enr>>

SendCommit ==
  /\ snd.rows # {}
  /\ notification' = [i \in Ids |->
       IF i \in snd.rows THEN [notification[i] EXCEPT !.status = TRUE] ELSE notification[i]]
  /\ snd' = [snd EXCEPT !.rows = {}]
  /\ UNCHANGED <<queue, admin, mail, enr>>

SendRollback ==
  /\ snd.rows # {}
  /\ snd' = [snd EXCEPT !.rows = {}]
  /\ MarksLost
  /\ UNCHANGED <<queue, notification, admin, enr>>

JobDone ==
  /\ snd.job # "none" /\ snd.rows = {} /\ snd.left = {}
  /\ snd' = NoJob
  /\ UNCHANGED <<queue, notification, admin, mail, enr>>

SenderCrash ==
  /\ snd.rows # {} \/ snd.left # {}
  /\ snd' = NoJob
  /\ MarksLost
  /\ UNCHANGED <<queue, notification, admin, enr>>

------------------------------------------------------------------------------
Publishers ==
  \/ \E i \in Messages, type \in Types, u \in Users : Publish(i, type, u)
  \/ \E a \in AdminEvents : CreateAdminEvent(a)

EnrichStep ==
  \/ EnrichPass \/ EventDone \/ PassDone
  \/ \E i \in Ids : EnrichUserById(i) \/ EnrichUserFails(i)
  \/ \E a \in AdminEvents : NextEvent(a)
  \/ \E u \in Users, i \in Films : InsertFilm(u, i)

SendStep ==
  \/ InstantJob \/ SendFails \/ SendCommit \/ SendRollback \/ JobDone
  \/ \E i \in Ids : SendInstant(i)
  \/ \E type \in DeferredTypes : DeferredJob(type)
  \/ \E u \in Users : SendDeferred(u)

NtfNext ==
  \/ Publishers
  \/ Callback \/ ConsumerCrash
  \/ EnrichStep \/ EnrichCrash
  \/ SendStep \/ SenderCrash

(* What may go wrong beyond the processes' control, and comes to an end: a   *)
(* process dies, Auth does not answer for a user it knows, the mail server   *)
(* or the database fails the sender.                                         *)
Outage ==
  \/ EnrichCrash \/ SenderCrash \/ SendFails \/ SendRollback
  \/ \E i \in Ids : EnrichUserFails(i) /\ notification[i].user \in KnownUsers

(* The two loops run for ever and the schedule comes back to the instant job. *)
NtfFairness ==
  /\ WF_ntfVars(EnrichStep) /\ WF_ntfVars(SendStep) /\ SF_ntfVars(InstantJob)
  /\ <>[][~Outage]_ntfVars

NtfSpec == NtfInit /\ [][NtfNext]_ntfVars
NtfFairSpec == NtfSpec /\ NtfFairness

------------------------------------------------------------------------------
(* PROPERTIES *)

Mailed == {i \in Ids : mail[i] # "unsent"}

(* What needed Auth to find its address is mail to users of Auth only:    *)
(* the tasks that share a session, the inserts half way through an event    *)
(* and the rows the sender takes along never let a row through unanswered.  *)
NobodyUnknownIsMailed ==
  \A i \in Mailed :
    notification[i].type \in AddressedTypes \/ notification[i].user \in KnownUsers

(* An event of the admin panel is marked as done only when each of its users *)
(* has a notification of it, however often the enricher died over it.        *)
DoneMeansWritten ==
  \A a \in AdminEvents : admin[a] = "done" =>
    \A u \in Audience[a] : \E i \in Films :
      notification[i] # None /\ notification[i].about = a /\ notification[i].user = u

(* No notification is mailed a second time unless the mark of the first mail  *)
(* was lost with its transaction: neither the enricher, nor the commit of     *)
(* another row, nor a job that takes along rows of other types makes a mailed *)
(* row sendable again.                                                        *)
NoSecondMail == \A i \in Ids : mail[i] # "twice"

(* The service as a whole keeps what NotificationLife promises of each        *)
(* notification, with three processes writing the table.                      *)
Life(i) ==
  IF notification[i] = None THEN "absent"
  ELSE IF notification[i].status THEN "done"
  ELSE IF notification[i].ready THEN "ready" ELSE "stored"

Addressee(i) == IF notification[i] = None THEN None ELSE notification[i].user

Lives == INSTANCE NotificationLife WITH
           life <- [i \in Ids |-> Life(i)], to <- [i \in Ids |-> Addressee(i)]
KeepsLives == Lives!LifeSpec

(* A stored notification of the instant kind does not wait for ever: it is   *)
(* enriched, picked up by a job and marked, if Auth knows the user or the    *)
(* address came with the event.                                              *)
InstantIsServed ==
  \A i \in Messages :
    (Is(i, InstantTypes) /\ (Is(i, AddressedTypes) \/ notification[i].user \in KnownUsers))
      ~> (notification[i] # None /\ notification[i].status)

------------------------------------------------------------------------------
(* What the repository says of the notifications and the sender does not keep. *)

(* "Is it done, that is, if True it has been sent": a notification is marked *)
(* only after a mail carried it.                                             *)
StatusMeansSent ==
  \A i \in Ids : notification[i] # None /\ notification[i].status => i \in Mailed

==============================================================================
