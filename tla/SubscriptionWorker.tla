-------------------------- MODULE SubscriptionWorker --------------------------
(***************************************************************************)
(* The subscription worker: billing/main_worker.py and                     *)
(* billing/worker_core/worker_service.py.  A process of its own, it grants *)
(* the role subscriber through Auth to users whose subscription runs,      *)
(* revokes it when the time is up and warns users a day before: one pass   *)
(* after another, each a SELECT, then for each row found a request to Auth,*)
(* a commit and an event.  Module Billing runs it beside the API.          *)
(***************************************************************************)
EXTENDS BillingTables, FiniteSets

CONSTANTS Limit,       \* rows a SELECT returns at most
          WarnWindow,  \* how long before the end a user is warned
          KnownUsers   \* the users Auth has an account of

ASSUME WorkerAssumption ==
  /\ Limit \in Nat \ {0} /\ WarnWindow \in Nat
  /\ KnownUsers \subseteq Users

VARIABLES roles, \* Auth: the users who hold the role subscriber
          wrk    \* the worker: its place, the rows left, the row in hand

workerOwn == <<roles, wrk>>
workerVars == <<tableVars, workerOwn>>

WorkerPC == {"post_select", "post", "post_commit",
             "del_select", "del", "del_commit", "expired_event",
             "exp_select", "exp", "expires_event"}

Start == [pc |-> "post_select", batch |-> {}, user |-> None]

WorkerTypeOK ==
  /\ TablesTypeOK
  /\ roles \subseteq Users
  /\ wrk \in [pc : WorkerPC, batch : SUBSET Users, user : Users \cup {None}]

WorkerInit ==
  /\ TablesInit
  /\ roles = {}
  /\ wrk = Start

------------------------------------------------------------------------------
HasRow(u)    == userstatus[u] # None
IsRunning(u) == HasRow(u) /\ Running(userstatus[u], now)
IsOver(u)    == HasRow(u) /\ Over(userstatus[u], now)
IsActual(u)  == HasRow(u) /\ userstatus[u].actual
EndsSoon(u)  == HasRow(u) /\ userstatus[u].expires_at < now + WarnWindow

WorkerAt(pc) == wrk.pc = pc

(* SELECT ... LIMIT without an ORDER BY, then on to the rows it returned.   *)
Select(found, pc) ==
  /\ \E batch \in SUBSET found :
        /\ Cardinality(batch) <= Limit
        /\ batch # found => Cardinality(batch) = Limit
        /\ wrk' = [Start EXCEPT !.pc = pc, !.batch = batch]
  /\ UNCHANGED <<tableVars, roles>>

RowInHand(u, pc) ==
  wrk' = [wrk EXCEPT !.pc = pc, !.batch = @ \ {u}, !.user = u]
RowDone(pc) == wrk' = [wrk EXCEPT !.pc = pc, !.user = None]

(* A request to Auth that is refused is logged and the row left as it is.   *)
Refused(pc) ==
  /\ WorkerAt(pc)
  /\ \E u \in wrk.batch : wrk' = [wrk EXCEPT !.batch = @ \ {u}]
  /\ UNCHANGED <<tableVars, roles>>

PassDone(pc, next) ==
  /\ WorkerAt(pc) /\ wrk.batch = {}
  /\ wrk' = [wrk EXCEPT !.pc = next]
  /\ UNCHANGED <<tableVars, roles>>

------------------------------------------------------------------------------
(* Mutated form of PostSelect: the filter of expires_subscriber is copied.  *)
PostSelectUnwarned ==
  /\ WorkerAt("post_select")
  /\ Select({u \in Users : IsRunning(u) /\ ~IsActual(u) /\ ~userstatus[u].expires_status},
            "post")

(* post_subscriber: grant the role to whoever's subscription runs and whose *)
(* row does not say so yet.  Auth refuses users it has no account of.       *)
PostSelect ==
  /\ WorkerAt("post_select")
  /\ Select({u \in Users : IsRunning(u) /\ ~IsActual(u)}, "post")

PostGranted(u) ==
  /\ WorkerAt("post") /\ u \in wrk.batch
  /\ u \in KnownUsers
  /\ roles' = roles \cup {u}
  /\ RowInHand(u, "post_commit")
  /\ UNCHANGED tableVars

PostRefused == Refused("post")

PostCommit ==
  /\ WorkerAt("post_commit")
  /\ userstatus' = [userstatus EXCEPT ![wrk.user].actual = TRUE]
  /\ RowDone("post")
  /\ UNCHANGED <<now, published, roles>>

PostDone == PassDone("post", "del_select")

------------------------------------------------------------------------------
(* Mutated forms of DelSelect: the mark of expires_subscriber is copied, or *)
(* its condition on the time.                                               *)
DelSelectSoon ==
  /\ WorkerAt("del_select")
  /\ Select({u \in Users : IsActual(u) /\ EndsSoon(u)}, "del")

DelSelectUnwarned ==
  /\ WorkerAt("del_select")
  /\ Select({u \in Users : IsActual(u) /\ IsOver(u) /\ ~userstatus[u].expires_status}, "del")

(* del_subscriber: revoke the role of whoever's time is up.  Auth refuses   *)
(* to revoke a role the user does not hold.                                 *)
DelSelect ==
  /\ WorkerAt("del_select")
  /\ Select({u \in Users : IsActual(u) /\ IsOver(u)}, "del")

DelRevoked(u) ==
  /\ WorkerAt("del") /\ u \in wrk.batch
  /\ u \in roles
  /\ roles' = roles \ {u}
  /\ RowInHand(u, "del_commit")
  /\ UNCHANGED tableVars

DelRefused == Refused("del")

DelCommit ==
  /\ WorkerAt("del_commit")
  /\ userstatus' = [userstatus EXCEPT ![wrk.user].actual = FALSE,
                                      ![wrk.user].expires_status = TRUE]
  /\ wrk' = [wrk EXCEPT !.pc = "expired_event"]
  /\ UNCHANGED <<now, published, roles>>

DelPublish ==
  /\ WorkerAt("expired_event")
  /\ PostEvent(wrk.user, "subscription_expired")
  /\ RowDone("del")
  /\ UNCHANGED <<now, userstatus, roles>>

DelDone == PassDone("del", "exp_select")

------------------------------------------------------------------------------
(* expires_subscriber: warn, once, whoever has less than a day left.        *)
ExpSelect ==
  /\ WorkerAt("exp_select")
  /\ Select({u \in Users : EndsSoon(u) /\ ~userstatus[u].expires_status}, "exp")

ExpCommit ==
  /\ WorkerAt("exp")
  /\ \E u \in wrk.batch :
        /\ userstatus' = [userstatus EXCEPT ![u].expires_status = TRUE]
        /\ RowInHand(u, "expires_event")
  /\ UNCHANGED <<now, published, roles>>

ExpPublish ==
  /\ WorkerAt("expires_event")
  /\ PostEvent(wrk.user, "subscription_expires")
  /\ RowDone("exp")
  /\ UNCHANGED <<now, userstatus, roles>>

ExpDone == PassDone("exp", "post_select")

(* Any exception ends the process, docker starts it again; what Auth did    *)
(* stays done, what was not committed is lost.                              *)
WorkerCrash ==
  /\ wrk # Start
  /\ wrk' = Start
  /\ UNCHANGED <<tableVars, roles>>

------------------------------------------------------------------------------
WorkerStep ==
  \/ PostSelect \/ PostRefused \/ PostCommit \/ PostDone
  \/ DelSelect \/ DelRefused \/ DelCommit \/ DelPublish \/ DelDone
  \/ ExpSelect \/ ExpCommit \/ ExpPublish \/ ExpDone
  \/ \E u \in Users : PostGranted(u) \/ DelRevoked(u)

WorkerNext == WorkerStep \/ WorkerCrash

(* The worker loops for ever, Auth does not refuse for ever what it can do, *)
(* and the crashes come to an end (a loop that ends regularly looks like    *)
(* one).  No user is obliged to anything.                                   *)
WorkerFairness ==
  /\ WF_workerVars(WorkerStep)
  /\ \A u \in Users : SF_workerVars(PostGranted(u)) /\ SF_workerVars(DelRevoked(u))
  /\ <>[][WorkerCrash => ExpDone]_workerVars

------------------------------------------------------------------------------
(* PROPERTIES *)

(* Whoever pays gets the role: a running subscription of a user Auth knows, *)
(* as long as the worker has not marked it as granted, leads to the role    *)
(* unless it ends first.  (The rows Auth refuses must leave room in a       *)
(* batch.)                                                                  *)
PayerGetsRole ==
  \A u \in KnownUsers :
    (IsRunning(u) /\ ~IsActual(u)) ~> (u \in roles \/ ~IsRunning(u))

(* Time that is up is taken back: a role the worker granted and marked as   *)
(* granted does not outlive the subscription for ever, whatever the worker  *)
(* is doing when the time runs out and however often it crashes then.       *)
MarkedRoleIsRevoked ==
  \A u \in Users :
    (u \in roles /\ IsActual(u) /\ IsOver(u)) ~> (u \notin roles \/ ~IsOver(u))

------------------------------------------------------------------------------
(* What the repository says of the worker and the worker does not keep. *)

(* "If True, the subscription is granted": a running subscription that is   *)
(* marked so has the role, but while the worker is between revoking it and  *)
(* taking the mark down.  A renewal that read the row before the revocation *)
(* writes a new end and leaves the mark; when the worker then dies, nothing *)
(* ever looks at the row again before that end.                             *)
FlagMeansGranted ==
  \A u \in Users :
    IsActual(u) /\ IsRunning(u) => u \in roles \/ (WorkerAt("del_commit") /\ wrk.user = u)

(* "It revokes the role if the paid time is over": a role is not kept for   *)
(* ever after the subscription ended.                                       *)
RoleIsRevoked ==
  \A u \in Users : (u \in roles /\ IsOver(u)) ~> (u \notin roles \/ ~IsOver(u))

==============================================================================
