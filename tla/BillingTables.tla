---------------------------- MODULE BillingTables ----------------------------
(***************************************************************************)
(* What the billing API and the subscription worker share: the clock, the  *)
(* userstatus table of the billing database and the notification events    *)
(* they publish (billing/models/models_pg.py, services/billing_service.py, *)
(* worker_core/worker_service.py).  Each side works on the table through   *)
(* its own SQLAlchemy session: it reads a row at one moment and, at its    *)
(* commit, writes only the columns whose value it changed.                 *)
(***************************************************************************)
EXTENDS Naturals

CONSTANTS Users,      \* user ids, as the callers of the API give them
          None,       \* the absence of a row, a user or a payment
          Horizon     \* bound: the clock stops here

ASSUME HorizonAssumption == Horizon \in Nat

VARIABLES now,        \* the time, in ticks
          userstatus, \* the table: a row for each user, or None
          published   \* the <<user, event>> pairs handed to RabbitMQ so far

tableVars == <<now, userstatus, published>>

StatusEnum == {"succeeded", "canceled", "pending", "refund"}

Events == {"payment_accepted", "payment_refund",
           "subscription_expires", "subscription_expired"}

UserStatus == [expires_at : Nat, actual : BOOLEAN, expires_status : BOOLEAN]

ASSUME NoneAssumption == None \notin Users \cup UserStatus

TablesTypeOK ==
  /\ now \in Nat
  /\ userstatus \in [Users -> UserStatus \cup {None}]
  /\ published \subseteq Users \X Events

TablesInit ==
  /\ now = 0
  /\ userstatus = [u \in Users |-> None]
  /\ published = {}

------------------------------------------------------------------------------
(* Mutated form of NewUserStatus: expires_at stays null.                    *)
NewUserStatusNull(t) ==
  [expires_at |-> None, actual |-> FALSE, expires_status |-> FALSE]

(* A row as it is inserted for a user who has none, its expires_at set to   *)
(* the current time before anything else happens to it.                     *)
NewUserStatus(t) ==
  [expires_at |-> t, actual |-> FALSE, expires_status |-> FALSE]

Running(row, t) == row.expires_at > t
Over(row, t)    == row.expires_at < t

(* A succeeded payment prolongs a running subscription; one that is over    *)
(* starts again now and is handed to the worker (actual = False).           *)
Prolonged(row, t, days) ==
  IF Running(row, t)
  THEN [row EXCEPT !.expires_at = row.expires_at + days]
  ELSE [row EXCEPT !.expires_at = t + days, !.actual = FALSE]

(* The UPDATE a session sends for a row it loaded as old and changed to     *)
(* new: the columns that differ, over whatever the row holds by then.       *)
Updated(row, old, new) ==
  [expires_at     |-> IF new.expires_at # old.expires_at
                      THEN new.expires_at ELSE row.expires_at,
   actual         |-> IF new.actual # old.actual
                      THEN new.actual ELSE row.actual,
   expires_status |-> row.expires_status]

(* An event is published, or the exception RabbitMQ raises is swallowed.    *)
PostEvent(u, event) ==
  published' \in {published, published \cup {<<u, event>>}}

Tick ==
  /\ now < Horizon
  /\ now' = now + 1
  /\ UNCHANGED <<userstatus, published>>

==============================================================================
