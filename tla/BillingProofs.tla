----------------------------- MODULE BillingProofs -----------------------------
(***************************************************************************)
(* The API and the worker together: nobody becomes a subscriber without a  *)
(* payment that succeeded, and a subscription of one payment that is       *)
(* marked as granted is granted.  ApiInv survives the worker's commits,    *)
(* the worker finds in the table only what the API may write there, and a  *)
(* payment once credited stays on record while the worker goes from its    *)
(* SELECT to Auth.                                                         *)
(***************************************************************************)
EXTENDS Billing, BillingApiProofs

USE WorkerAssumption

(* What the worker has in hand, and whom it is about to grant the role.     *)
InHand ==
  /\ \A u \in wrk.batch : HasRow(u)
  /\ wrk.pc \in {"post_commit", "del_commit", "expired_event", "expires_event"} =>
       wrk.user \in Users /\ HasRow(wrk.user)

Payers == {u \in Users : Credited(u) # {}}

GrantsArePaid == wrk.pc \in {"post", "post_commit"} => wrk.batch \subseteq Payers

BillingInv == ApiInv /\ WorkerTypeOK /\ InHand /\ GrantsArePaid /\ roles \subseteq Payers

------------------------------------------------------------------------------
(* A step of the worker changes at most the two flags of one row.           *)
FlagsOnly ==
  /\ UNCHANGED <<now, apiOwn>>
  /\ \A u \in Users :
       /\ userstatus'[u] # None <=> userstatus[u] # None
       /\ userstatus[u] # None => userstatus'[u].expires_at = userstatus[u].expires_at

LEMMA MarkedRow ==
  ASSUME NEW row \in UserStatus
  PROVE  /\ [row EXCEPT !.actual = TRUE] \in UserStatus
         /\ [row EXCEPT !.actual = TRUE].expires_at = row.expires_at
         /\ [row EXCEPT !.actual = FALSE, !.expires_status = TRUE] \in UserStatus
         /\ [row EXCEPT !.actual = FALSE, !.expires_status = TRUE].expires_at = row.expires_at
         /\ [row EXCEPT !.expires_status = TRUE] \in UserStatus
         /\ [row EXCEPT !.expires_status = TRUE].expires_at = row.expires_at
  BY DEF UserStatus

(* The three commits of the worker replace one row by the same row with     *)
(* other flags.                                                             *)
LEMMA OneRow ==
  ASSUME TablesTypeOK, NEW u \in Users, HasRow(u), NEW marked \in UserStatus,
         marked.expires_at = userstatus[u].expires_at,
         userstatus' = [userstatus EXCEPT ![u] = marked], UNCHANGED <<now, apiOwn>>
  PROVE  FlagsOnly /\ userstatus' \in [Users -> UserStatus \cup {None}]
<1>1. marked # None /\ userstatus'[u] = marked
      /\ \A v \in Users : v # u => userstatus'[v] = userstatus[v]
  BY NoneAssumption DEF TablesTypeOK
<1>2. userstatus' \in [Users -> UserStatus \cup {None}]
  BY DEF TablesTypeOK
<1> HIDE DEF apiOwn
<1> QED
  BY <1>1, <1>2 DEF FlagsOnly, HasRow

LEMMA WorkerKeepsRows ==
  ASSUME BillingInv, WorkerNext, UNCHANGED apiOwn
  PROVE  /\ FlagsOnly /\ userstatus' \in [Users -> UserStatus \cup {None}]
         /\ published' \subseteq Users \X Events
<1>t. TablesTypeOK /\ InHand /\ wrk.batch \subseteq Users
  BY DEF BillingInv, WorkerTypeOK
<1>0. ASSUME UNCHANGED userstatus, UNCHANGED now
      PROVE  FlagsOnly /\ userstatus' \in [Users -> UserStatus \cup {None}]
  BY <1>0, <1>t DEF FlagsOnly, TablesTypeOK
<1>a. ASSUME UNCHANGED tableVars
      PROVE  /\ FlagsOnly /\ userstatus' \in [Users -> UserStatus \cup {None}]
             /\ published' \subseteq Users \X Events
  BY <1>0, <1>a, <1>t DEF tableVars, TablesTypeOK
<1>1. CASE PostCommit
  <2> DEFINE u == wrk.user
             marked == [userstatus[u] EXCEPT !.actual = TRUE]
  <2>1. u \in Users /\ HasRow(u) /\ userstatus[u] \in UserStatus
    BY <1>1, <1>t DEF PostCommit, WorkerAt, InHand, HasRow, TablesTypeOK
  <2>2. marked \in UserStatus /\ marked.expires_at = userstatus[u].expires_at
    BY <2>1, MarkedRow
  <2>3. userstatus' = [userstatus EXCEPT ![u] = marked] /\ UNCHANGED <<now, published>>
    BY <1>1 DEF PostCommit
  <2> QED
    BY <1>t, <2>1, <2>2, <2>3, OneRow DEF TablesTypeOK
<1>2. CASE DelCommit
  <2> DEFINE u == wrk.user
             marked == [userstatus[u] EXCEPT !.actual = FALSE, !.expires_status = TRUE]
  <2>1. u \in Users /\ HasRow(u) /\ userstatus[u] \in UserStatus
    BY <1>2, <1>t DEF DelCommit, WorkerAt, InHand, HasRow, TablesTypeOK
  <2>2. marked \in UserStatus /\ marked.expires_at = userstatus[u].expires_at
    BY <2>1, MarkedRow
  <2>3. userstatus' = [userstatus EXCEPT ![u] = marked] /\ UNCHANGED <<now, published>>
    BY <1>2, <1>t DEF DelCommit, TablesTypeOK
  <2> QED
    BY <1>t, <2>1, <2>2, <2>3, OneRow DEF TablesTypeOK
<1>3. CASE ExpCommit
  <2>1. PICK u \in wrk.batch : userstatus' = [userstatus EXCEPT ![u].expires_status = TRUE]
    BY <1>3 DEF ExpCommit
  <2> DEFINE marked == [userstatus[u] EXCEPT !.expires_status = TRUE]
  <2>2. u \in Users /\ HasRow(u) /\ userstatus[u] \in UserStatus
    BY <1>t DEF InHand, HasRow, TablesTypeOK
  <2>3. marked \in UserStatus /\ marked.expires_at = userstatus[u].expires_at
    BY <2>2, MarkedRow
  <2>4. userstatus' = [userstatus EXCEPT ![u] = marked] /\ UNCHANGED <<now, published>>
    BY <1>3, <2>1 DEF ExpCommit
  <2> QED
    BY <1>t, <2>2, <2>3, <2>4, OneRow DEF TablesTypeOK
<1>4. CASE DelPublish \/ ExpPublish
  <2>1. wrk.user \in Users /\ UNCHANGED <<now, userstatus>>
    BY <1>4, <1>t DEF DelPublish, ExpPublish, WorkerAt, InHand
  <2>2. PostEvent(wrk.user, "subscription_expired") \/ PostEvent(wrk.user, "subscription_expires")
    BY <1>4 DEF DelPublish, ExpPublish
  <2>3. published' \subseteq Users \X Events
    BY <1>t, <2>1, <2>2 DEF PostEvent, Events, TablesTypeOK
  <2> QED
    BY <1>0, <2>1, <2>3
<1>5. ASSUME NEW u \in Users, PostGranted(u) \/ DelRevoked(u) PROVE UNCHANGED tableVars
  BY <1>5 DEF PostGranted, DelRevoked
<1>6. PostSelect \/ DelSelect \/ ExpSelect => UNCHANGED tableVars
  BY DEF PostSelect, DelSelect, ExpSelect, Select
<1>7. PostRefused \/ DelRefused \/ PostDone \/ DelDone \/ ExpDone \/ WorkerCrash
        => UNCHANGED tableVars
  BY DEF PostRefused, DelRefused, Refused, PostDone, DelDone, ExpDone, PassDone, WorkerCrash
<1> QED
  BY <1>a, <1>1, <1>2, <1>3, <1>4, <1>5, <1>6, <1>7 DEF WorkerNext, WorkerStep

(* ApiInv depends on the flags of no row.                                   *)
LEMMA WorkerKeepsApiInv ==
  ASSUME BillingInv, WorkerNext, UNCHANGED apiOwn
  PROVE  ApiInv'
<1>t. /\ ApiTypeOK /\ TablesTypeOK /\ YooOK /\ BooksOK /\ DeletedPairRecorded
      /\ RunningMeansPaid /\ \A r \in Requests : RequestOK(req[r])
  BY DEF BillingInv, ApiInv, ApiTypeOK
<1>u. UNCHANGED <<now, payment, pair, yoo, req>> /\ FlagsOnly
  BY WorkerKeepsRows DEF FlagsOnly, apiOwn
<1>1. ApiTypeOK'
  BY <1>t, <1>u, WorkerKeepsRows DEF ApiTypeOK, TablesTypeOK
<1>2. Onward
  BY <1>t, <1>u DEF Onward, FlagsOnly, HasStatus, TablesTypeOK
<1>q. \A r \in Requests : req'[r] = req[r] /\ req[r] \in Request
  BY <1>t, <1>u DEF ApiTypeOK
<1>3. \A r \in Requests : req'[r] = req[r] => RequestOK(req[r])'
  BY <1>t, <1>q, <1>1, <1>2, OnwardKeepsRequests
<1>4. YooOK' /\ DeletedPairRecorded'
  BY <1>t, <1>u DEF YooOK, DeletedPairRecorded
<1>5. BooksOK'
  BY <1>t, <1>u, ApiAssumption DEF BooksOK, FlagsOnly
<1>6. RunningMeansPaid'
  BY <1>t, <1>u DEF RunningMeansPaid, FlagsOnly, Running, SucceededOf, HasStatus
<1> QED
  BY <1>1, <1>q, <1>3, <1>4, <1>5, <1>6 DEF ApiInv

(* What was credited stays so, in either process's steps.                   *)
LEMMA CreditedStays ==
  ASSUME Onward
  PROVE  Payers \subseteq Payers'
  BY DEF Onward, Payers, Credited, PaymentsOf

------------------------------------------------------------------------------
(* Beside the API: a row the worker has in hand stays, a credited payment   *)
(* stays credited.                                                          *)
LEMMA ApiStep ==
  ASSUME BillingInv, [ApiSystemNext]_apiVars, UNCHANGED workerOwn
  PROVE  BillingInv'
<1>1. ApiInv' /\ Onward /\ ApiTypeOK'
  BY InvStep, StepsGoOnward DEF BillingInv, ApiInv
<1>2. WorkerTypeOK'
  BY <1>1 DEF BillingInv, WorkerTypeOK, ApiTypeOK, workerOwn
<1>3. InHand'
  BY <1>1 DEF BillingInv, WorkerTypeOK, InHand, HasRow, workerOwn, Onward
<1>4. GrantsArePaid' /\ roles' \subseteq Payers'
  BY <1>1, CreditedStays DEF BillingInv, GrantsArePaid, workerOwn
<1> QED
  BY <1>1, <1>2, <1>3, <1>4 DEF BillingInv

(* The worker grants the role to whom it found running, which by ApiInv is  *)
(* somebody who paid.                                                       *)
LEMMA WorkerStepKeeps ==
  ASSUME BillingInv, WorkerNext, UNCHANGED apiOwn
  PROVE  BillingInv'
<1> DEFINE Kept == /\ roles' \subseteq Users
                   /\ wrk' \in [pc : WorkerPC, batch : SUBSET Users, user : Users \cup {None}]
                   /\ InHand' /\ GrantsArePaid' /\ roles' \subseteq Payers'
<1> USE DEF WorkerAt, WorkerPC, InHand, HasRow, GrantsArePaid
<1>t. /\ WorkerTypeOK /\ TablesTypeOK /\ InHand /\ GrantsArePaid /\ roles \subseteq Payers
      /\ RunningMeansPaid
  BY DEF BillingInv, WorkerTypeOK, ApiInv
<1>u. /\ \A u \in Users : userstatus[u] # None => userstatus'[u] # None
      /\ Payers' = Payers
  BY WorkerKeepsRows DEF FlagsOnly, Payers, Credited, HasStatus, PaymentsOf, apiOwn
<1>v. ApiInv' /\ TablesTypeOK'
  BY WorkerKeepsApiInv DEF ApiInv, ApiTypeOK
<1>k. SUFFICES Kept
  BY <1>k, <1>v DEF BillingInv, WorkerTypeOK
<1> USE DEF WorkerTypeOK
<1>1. CASE PostSelect
  <2>1. \A u \in Users : IsRunning(u) => userstatus[u] # None /\ u \in Payers
    BY <1>t DEF IsRunning, RunningMeansPaid, Payers, Credited, SucceededOf
  <2> QED
    BY <1>1, <1>t, <1>u, <2>1 DEF PostSelect, Select, Start
<1>2. ASSUME NEW u \in Users, PostGranted(u) PROVE Kept
  BY <1>2, <1>t, <1>u DEF PostGranted, RowInHand
<1>3. CASE PostRefused \/ DelRefused
  BY <1>3, <1>t, <1>u DEF PostRefused, DelRefused, Refused
<1>4. CASE PostCommit
  <2>1. /\ wrk' = [wrk EXCEPT !.pc = "post", !.user = None] /\ UNCHANGED roles
        /\ wrk.pc = "post_commit"
    BY <1>4 DEF PostCommit, RowDone
  <2> QED
    BY <1>t, <1>u, <2>1
<1>5. CASE PostDone \/ DelDone \/ ExpDone
  BY <1>5, <1>t, <1>u DEF PostDone, DelDone, ExpDone, PassDone
<1>6. CASE DelSelect \/ ExpSelect
  <2>1. PICK batch \in SUBSET Users, pc \in {"del", "exp"} :
          /\ \A u \in batch : userstatus[u] # None
          /\ wrk' = [Start EXCEPT !.pc = pc, !.batch = batch]
          /\ UNCHANGED <<tableVars, roles>>
    BY <1>6 DEF DelSelect, ExpSelect, Select, IsActual, EndsSoon
  <2> QED
    BY <1>t, <1>u, <2>1 DEF Start, tableVars
<1>7. ASSUME NEW u \in Users, DelRevoked(u) PROVE Kept
  BY <1>7, <1>t, <1>u DEF DelRevoked, RowInHand
<1>8. CASE DelCommit
  <2>1. wrk.pc = "del_commit" /\ wrk' = [wrk EXCEPT !.pc = "expired_event"] /\ UNCHANGED roles
    BY <1>8 DEF DelCommit
  <2> QED
    BY <1>t, <1>u, <2>1
<1>9. CASE DelPublish \/ ExpPublish
  BY <1>9, <1>t, <1>u DEF DelPublish, ExpPublish, RowDone
<1>10. CASE ExpCommit
  <2>1. PICK u \in wrk.batch :
          wrk' = [wrk EXCEPT !.pc = "expires_event", !.user = u, !.batch = @ \ {u}]
    BY <1>10 DEF ExpCommit, RowInHand
  <2>2. wrk.pc = "exp" /\ UNCHANGED roles /\ u \in Users /\ userstatus[u] # None
    BY <1>10, <1>t DEF ExpCommit
  <2> QED
    BY <1>t, <1>u, <2>1, <2>2
<1>11. CASE WorkerCrash
  BY <1>11, <1>t, <1>u DEF WorkerCrash, Start
<1> QED
  BY <1>1, <1>2, <1>3, <1>4, <1>5, <1>6, <1>7, <1>8, <1>9, <1>10, <1>11
  DEF WorkerNext, WorkerStep

LEMMA BillingInvInit == Init => BillingInv
<1> SUFFICES ASSUME Init PROVE BillingInv
  OBVIOUS
<1>1. ApiInv
  BY InvInit DEF Init
<1> QED
  BY <1>1 DEF Init, WorkerInit, TablesInit, Start, BillingInv, WorkerTypeOK, WorkerPC, ApiInv,
       ApiTypeOK, InHand, GrantsArePaid, WorkerAt

LEMMA BillingInvStep == BillingInv /\ [Next]_vars => BillingInv'
<1> SUFFICES ASSUME BillingInv, [Next]_vars PROVE BillingInv'
  OBVIOUS
<1>1. CASE ApiNext /\ UNCHANGED workerOwn
  BY <1>1, ApiStep DEF ApiSystemNext
<1>2. CASE WorkerNext /\ UNCHANGED apiOwn
  BY <1>2, WorkerStepKeeps
<1>3. CASE Tick /\ UNCHANGED <<apiOwn, workerOwn>>
  BY <1>3, ApiStep DEF ApiSystemNext
<1>4. CASE UNCHANGED vars
  BY <1>4, ApiStep DEF vars, apiVars
<1> QED
  BY <1>1, <1>2, <1>3, <1>4 DEF Next

(* Whatever the API, the worker, YooKassa and the payers do to each other's *)
(* timing, what one process reads of the other's is what it may rely on.    *)
THEOREM BillingInvariant == Spec => []BillingInv
  BY BillingInvInit, BillingInvStep, PTL DEF Spec

(* The system as a whole keeps its types: the two processes write one table.*)
THEOREM BillingTypeCorrect == Spec => []TypeOK
<1>1. BillingInv => TypeOK
  BY DEF BillingInv, ApiInv, TypeOK
<1> QED
  BY <1>1, BillingInvariant, PTL

(* Nobody holds the role subscriber who never had a payment that succeeded. *)
THEOREM SubscribersPaid == Spec => []SubscriberHasPaid
<1>1. BillingInv => SubscriberHasPaid
  BY DEF BillingInv, Payers, SubscriberHasPaid
<1> QED
  BY <1>1, BillingInvariant, PTL

------------------------------------------------------------------------------
(* What the API promises when it runs alone, it still promises beside the   *)
(* worker: a step of the system is one of the API, or one of the worker,    *)
(* and the worker's leave alone what the promises speak of.                 *)
LEMMA StepOfEither ==
  ASSUME [Next]_vars
  PROVE  [ApiSystemNext]_apiVars \/ (WorkerNext /\ UNCHANGED apiOwn)
  BY DEF Next, vars, apiVars, ApiSystemNext

LEMMA WorkerKeepsDays ==
  ASSUME BillingInv, DaysInv, WorkerNext, UNCHANGED apiOwn
  PROVE  DaysInv'
<1>1. UNCHANGED <<now, payment, req>> /\ FlagsOnly
  BY WorkerKeepsRows DEF FlagsOnly, apiOwn
<1>2. NoTimeWithoutMoney'
  <2> SUFFICES ASSUME NEW u \in Users, userstatus'[u] # None
               PROVE  userstatus'[u].expires_at <= now' + Bought(u)'
    BY DEF NoTimeWithoutMoney, Bought
  <2>1. Bought(u)' = Bought(u)
    BY <1>1 DEF Bought, Credited, PaymentsOf, HasStatus
  <2>2. userstatus[u] # None /\ userstatus'[u].expires_at = userstatus[u].expires_at
    BY <1>1 DEF FlagsOnly
  <2>3. userstatus[u].expires_at <= now + Bought(u)
    BY <2>2 DEF DaysInv, NoTimeWithoutMoney, Bought
  <2> QED
    BY <1>1, <2>1, <2>2, <2>3
<1>3. ASSUME NEW r \in Requests PROVE PromiseOK(req[r])'
  BY <1>1 DEF DaysInv, PromiseOK, DueTo, Bought, Credited, PaymentsOf, HasStatus
<1> QED
  BY <1>2, <1>3 DEF DaysInv

LEMMA WorkerKeepsNotices ==
  ASSUME BillingInv, NoticesInv, WorkerNext, UNCHANGED apiOwn
  PROVE  NoticesInv'
<1>1. UNCHANGED <<payment, req>>
  BY DEF apiOwn
<1>2. \/ UNCHANGED published
      \/ PostEvent(wrk.user, "subscription_expired")
      \/ PostEvent(wrk.user, "subscription_expires")
  BY DEF WorkerNext, WorkerStep, PostSelect, PostGranted, PostRefused, PostCommit, PostDone,
         DelSelect, DelRevoked, DelRefused, DelCommit, DelPublish, DelDone, ExpSelect, ExpCommit,
         ExpPublish, ExpDone, WorkerCrash, Select, Refused, PassDone, tableVars
<1>3. \A u \in Users, event \in {"payment_accepted", "payment_refund"} :
         <<u, event>> \in published' => <<u, event>> \in published
  BY <1>2 DEF PostEvent
<1> QED
  BY <1>1, <1>3 DEF NoticesInv, Refunded, HasStatus, PaymentsOf, At

LEMMA WorkerKeepsLedger ==
  ASSUME UNCHANGED apiOwn
  PROVE  UNCHANGED Ledger!ledgerVars
<1>1. payment' = payment /\ yoo' = yoo
  BY DEF apiOwn
<1>2. [p \in Payments |-> Money(p)]' = [p \in Payments |-> Money(p)]
  BY <1>1 DEF Money
<1>3. [p \in Payments |-> Entry(p)]' = [p \in Payments |-> Entry(p)]
  BY <1>1 DEF Entry
<1> QED
  BY <1>2, <1>3 DEF Ledger!ledgerVars

(* Beside the worker, which reads and flags the same rows, the API neither  *)
(* credits a payment twice ...                                              *)
THEOREM DeployedTimeIsPaidFor == Spec => []NoTimeWithoutMoney
<1>1. Init => DaysInv
  BY DaysInit DEF Init
<1>2. BillingInv /\ DaysInv /\ [Next]_vars => DaysInv'
  BY StepOfEither, DaysInvStep, WorkerKeepsDays DEF BillingInv
<1>3. DaysInv => NoTimeWithoutMoney
  BY DEF DaysInv
<1> QED
  BY <1>1, <1>2, <1>3, BillingInvariant, PTL DEF Spec

(* ... nor leaves time running on refunded or unpaid payments alone ...     *)
THEOREM DeployedRunningIsPaid == Spec => []RunningMeansPaid
<1>1. BillingInv => RunningMeansPaid
  BY DEF BillingInv, ApiInv
<1> QED
  BY <1>1, BillingInvariant, PTL

(* ... nor tells of a refund whose money did not go back ...                *)
THEOREM DeployedRefundNoticesTrue == Spec => []RefundNoticeIsTrue
<1>1. Init => NoticesInv
  BY DEF Init, ApiInit, TablesInit, NoticesInv, At, Idle
<1>2. BillingInv /\ NoticesInv /\ [Next]_vars => NoticesInv'
  BY StepOfEither, NoticesStep, WorkerKeepsNotices DEF BillingInv
<1>3. BillingInv /\ NoticesInv => RefundNoticeIsTrue
  BY NoticesAreTrue DEF BillingInv
<1> QED
  BY <1>1, <1>2, <1>3, BillingInvariant, PTL DEF Spec

(* ... nor makes an entry in the books that PaymentLedger does not allow.   *)
THEOREM DeployedKeepsLedger == Spec => KeepsLedger
<1>1. Init => Ledger!LedgerInit
  BY DEF Init, ApiInit, Ledger!LedgerInit, Money, Entry
<1>2. BillingInv /\ [Next]_vars => [Ledger!LedgerNext]_(Ledger!ledgerVars)
  BY StepOfEither, LedgerStep, WorkerKeepsLedger DEF BillingInv
<1> QED
  BY <1>1, <1>2, BillingInvariant, PTL DEF Spec, KeepsLedger, Ledger!LedgerSpec

------------------------------------------------------------------------------
(* What the API does to a row that is marked as granted: it never raises    *)
(* the mark, and makes a marked row run only by a payment that is not the   *)
(* first.                                                                   *)
LEMMA CommitRaisesNoFlag ==
  ASSUME BillingInv, FlagInv, NEW r \in Requests, PostPaymentPg(r), Onward,
         NEW u \in Users, IsActual(u)'
  PROVE  IsActual(u) /\ (IsRunning(u)' /\ PaidOnce(u)' => IsRunning(u))
<1> DEFINE p == req[r].pay
           old == req[r].old
           new == req[r].new
<1>t. ApiTypeOK /\ TablesTypeOK /\ RequestOK(req[r])
  BY DEF BillingInv, ApiInv, ApiTypeOK
<1>1. /\ At(r, "post_payment") /\ payment[p] = None /\ now' = now
      /\ old = None => userstatus[Owner[p]] = None
      /\ payment' = [payment EXCEPT
           ![p] = [status |-> req[r].status, created_at |-> req[r].at]]
      /\ userstatus' = [userstatus EXCEPT
           ![Owner[p]] = IF old = None THEN new ELSE Updated(userstatus[Owner[p]], old, new)]
  BY DEF PostPaymentPg, Conflict
<1>2. /\ p \in Payments /\ Owner[p] \in Users /\ payment'[p] # None
      /\ payment'[p].status = req[r].status /\ new \in UserStatus
      /\ old # None => userstatus[Owner[p]] # None
      /\ req[r].status # "succeeded" /\ old # None => new.expires_at = old.expires_at
  <2>1. /\ p \in Payments /\ Owner[p] \in Users /\ new \in UserStatus
        /\ [status |-> req[r].status, created_at |-> req[r].at] \in Row
    BY <1>1, PostedRows DEF BillingInv
  <2>2. [status |-> req[r].status, created_at |-> req[r].at] # None
    BY <2>1, RowAssumption
  <2>3. payment'[p] = [status |-> req[r].status, created_at |-> req[r].at]
    BY <1>1, <2>1, <1>t DEF ApiTypeOK
  <2>4. /\ old # None => userstatus[Owner[p]] # None
        /\ req[r].status # "succeeded" /\ old # None => new.expires_at = old.expires_at
    BY <1>1, <1>t DEF At, RequestOK
  <2> QED
    BY <2>1, <2>2, <2>3, <2>4
<1>3. new.actual => old # None /\ old.actual
  BY <1>1 DEF FlagInv
<1>4. CASE u # Owner[p]
  BY <1>1, <1>2, <1>4, <1>t DEF IsActual, IsRunning, HasRow, TablesTypeOK
<1>5. CASE u = Owner[p]
  <2>1. old # None /\ userstatus[u] # None /\ userstatus[u] \in UserStatus
    <3>1. userstatus'[u] # None /\ userstatus'[u].actual
      BY DEF IsActual, HasRow
    <3>2. old = None => userstatus'[u] = new
      BY <1>1, <1>2, <1>5, <1>t DEF TablesTypeOK
    <3>3. old # None
      BY <1>3, <3>1, <3>2
    <3> QED
      BY <1>2, <1>5, <3>3, <1>t DEF TablesTypeOK
  <2>2. userstatus'[u] = Updated(userstatus[u], old, new)
    BY <1>1, <1>2, <1>5, <2>1, <1>t DEF TablesTypeOK
  <2>3. IsActual(u)
    <3>1. userstatus'[u].actual = IF new.actual # old.actual THEN new.actual
                                  ELSE userstatus[u].actual
      BY <2>2 DEF Updated
    <3>2. userstatus'[u].actual
      BY DEF IsActual
    <3>3. userstatus[u].actual
      BY <1>3, <3>1, <3>2
    <3> QED
      BY <2>1, <3>3 DEF IsActual, HasRow
  <2>4. CASE req[r].status = "succeeded"
    <3>1. PICK q \in PaymentsOf(u) : HasStatus(q, "succeeded") \/ HasStatus(q, "refund")
      BY <2>3 DEF FlagInv, Credited
    <3>2. q # p /\ q \in Credited(u)'
      BY <1>1, <3>1 DEF HasStatus, Credited, PaymentsOf, Onward
    <3>3. p \in Credited(u)'
      BY <1>2, <1>5, <2>4 DEF Credited, PaymentsOf, HasStatus
    <3> QED
      BY <2>3, <3>2, <3>3 DEF PaidOnce
  <2>5. CASE req[r].status # "succeeded"
    <3>1. userstatus'[u].expires_at = userstatus[u].expires_at
      BY <1>2, <2>1, <2>2, <2>5 DEF Updated
    <3> QED
      BY <1>1, <2>1, <2>3, <3>1 DEF IsRunning, HasRow, Running
  <2> QED
    BY <2>4, <2>5
<1> QED
  BY <1>4, <1>5

LEMMA ApiRaisesNoFlag ==
  ASSUME BillingInv, FlagInv, [ApiSystemNext]_apiVars, NEW u \in Users, IsActual(u)'
  PROVE  IsActual(u) /\ (IsRunning(u)' /\ PaidOnce(u)' => IsRunning(u))
<1>t. /\ ApiTypeOK /\ TablesTypeOK /\ TablesTypeOK' /\ Onward
      /\ \A r \in Requests : RequestOK(req[r])
  BY TypeStep, StepsGoOnward DEF BillingInv, ApiInv, ApiTypeOK
<1>1. CASE UNCHANGED <<userstatus, payment>>
  BY <1>1, <1>t DEF IsActual, IsRunning, HasRow, Running, Onward, TablesTypeOK, UserStatus
<1>2. ASSUME NEW r \in Requests, PostPaymentPg(r)
      PROVE  IsActual(u) /\ (IsRunning(u)' /\ PaidOnce(u)' => IsRunning(u))
  BY <1>2, <1>t, CommitRaisesNoFlag
<1>3. ASSUME NEW r \in Requests, RefundCommit(r)
      PROVE  IsActual(u) /\ (IsRunning(u)' => IsRunning(u))
  <2> DEFINE w == req[r].user
  <2>1. /\ now' = now /\ userstatus' = [userstatus EXCEPT ![w].expires_at = req[r].at]
        /\ w \in Users /\ userstatus[w] \in UserStatus /\ req[r].at <= now
    <3>1. /\ At(r, "refund_commit") /\ req[r].at <= now
          /\ now' = now /\ userstatus' = [userstatus EXCEPT ![w].expires_at = req[r].at]
      BY <1>3, <1>t DEF RefundCommit, At, RequestOK, RefundPC
    <3>2. w \in Users /\ userstatus[w] \in UserStatus
      BY <3>1, RefundedRows DEF BillingInv
    <3> QED
      BY <3>1, <3>2
  <2>2. userstatus[w] # None /\ req[r].at \in Nat
    BY <1>3, <1>t, <2>1, NoneAssumption DEF ApiTypeOK, Request
  <2>3. CASE u = w
    <3>1. /\ userstatus'[u].actual = userstatus[u].actual
          /\ userstatus'[u].expires_at = req[r].at
      BY <2>1, <2>3, <1>t DEF TablesTypeOK, UserStatus
    <3>2. IsActual(u)
      BY <2>2, <2>3, <3>1 DEF IsActual, HasRow
    <3>3. ~IsRunning(u)'
      BY <2>1, <2>2, <3>1, <1>t DEF IsRunning, Running, TablesTypeOK
    <3> QED
      BY <3>2, <3>3
  <2>4. CASE u # w
    <3>1. userstatus'[u] = userstatus[u]
      BY <2>1, <2>4, <1>t DEF TablesTypeOK
    <3> QED
      BY <2>1, <3>1 DEF IsActual, IsRunning, HasRow, Running
  <2> QED
    BY <2>3, <2>4
<1> QED
  BY <1>1, <1>2, <1>3, OnlyCommitsWrite

(* What was paid twice stays so.                                            *)
LEMMA PaidOnceBefore ==
  ASSUME Onward, NEW u \in Users, PaidOnce(u)'
  PROVE  PaidOnce(u)
  BY DEF Onward, PaidOnce, Credited, PaymentsOf

(* A return starts from a row that is new and unmarked, or from the row it  *)
(* read; prolonging never raises the mark.                                  *)
LEMMA PaidRaisesNoFlag ==
  ASSUME NEW row \in UserStatus, NEW status, NEW days, Paid(row, status, days).actual
  PROVE  row.actual
<1>1. CASE status = "succeeded" /\ ~Running(row, now)
  BY <1>1 DEF Paid, Prolonged, UserStatus
<1>2. CASE status = "succeeded" /\ Running(row, now)
  BY <1>2 DEF Paid, Prolonged, UserStatus
<1>3. CASE status # "succeeded"
  BY <1>3 DEF Paid
<1> QED
  BY <1>1, <1>2, <1>3

LEMMA ApiKeepsFlagInv ==
  ASSUME BillingInv, FlagInv, [ApiSystemNext]_apiVars, UNCHANGED workerOwn
  PROVE  FlagInv'
<1>t. ApiInv /\ ApiTypeOK /\ TablesTypeOK /\ NewUserStatus(now) \in UserStatus
  BY DEF BillingInv, ApiInv, ApiTypeOK, TablesTypeOK, NewUserStatus, UserStatus
<1>o. Onward
  BY <1>t, StepsGoOnward
<1>w. wrk' = wrk /\ roles' = roles
  BY DEF workerOwn
<1>1. ASSUME NEW u \in Users, FirstFlagStands(u)'
      PROVE  FirstFlagStands(u)
  <2>1. PaidOnce(u)' /\ IsActual(u)' /\ IsRunning(u)'
    BY <1>1 DEF FirstFlagStands
  <2> QED
    BY <2>1, <1>o, ApiRaisesNoFlag, PaidOnceBefore DEF FirstFlagStands
<1>2. FirstFlagMeansGranted'
  <2> SUFFICES ASSUME NEW u \in Users, FirstFlagStands(u)' PROVE u \in roles'
    BY DEF FirstFlagMeansGranted
  <2> QED
    BY <1>1, <1>w DEF FlagInv, FirstFlagMeansGranted
<1>3. ASSUME NEW u \in Users, ToRevoke(u)'
      PROVE  ~FirstFlagStands(u)'
  <2>1. ToRevoke(u)
    BY <1>3, <1>w DEF ToRevoke, WorkerAt
  <2> QED
    BY <2>1, <1>1 DEF FlagInv
<1>4. ASSUME NEW u \in Users, IsActual(u)'
      PROVE  Credited(u)' # {}
  <2>1. Credited(u) # {}
    BY <1>4, ApiRaisesNoFlag DEF FlagInv
  <2> QED
    BY <2>1, <1>o DEF Onward, Credited, PaymentsOf
<1>5. WorkerAt("post_commit")' => wrk'.user \in roles'
  BY <1>w DEF FlagInv, WorkerAt
<1>6. ASSUME NEW q \in Requests, At(q, "post_payment")', req'[q].new.actual
      PROVE  req'[q].old # None /\ req'[q].old.actual
  <2>1. CASE req'[q] = req[q]
    BY <1>6, <2>1 DEF FlagInv, At
  <2>2. CASE GetOrPostUserstatus(q)
    <3> DEFINE p == req[q].pay
               row == userstatus[Owner[p]]
               from == IF row = None THEN NewUserStatus(now) ELSE row
    <3>1. /\ At(q, "userstatus") /\ req'[q].old = row
          /\ req'[q].new = Paid(from, req[q].status, Days[p])
      BY <2>2, <1>t DEF GetOrPostUserstatus, ApiTypeOK, Request
    <3>2. Owner[p] \in Users
      BY <3>1, <1>t, ApiAssumption DEF ApiInv, At, RequestOK, BuyPC
    <3>3. from \in UserStatus
      BY <3>2, <1>t DEF TablesTypeOK
    <3>4. from.actual
      BY <1>6, <3>1, <3>3, PaidRaisesNoFlag
    <3> QED
      BY <3>1, <3>4 DEF NewUserStatus
  <2>3. CASE RefundCommit(q) /\ At(q, "post_refund")'
    BY <1>6, <2>3 DEF At
  <2> QED
    BY <1>6, <1>t, <2>1, <2>2, <2>3, ComesThere
<1> QED
  BY <1>2, <1>3, <1>4, <1>5, <1>6 DEF FlagInv

(* The worker raises the mark of a row whose user holds the role, and takes *)
(* the role of whom it saw end, or of who has paid again since, but not of  *)
(* one who holds it on one payment.                                         *)
LEMMA WorkerKeepsFlagInv ==
  ASSUME BillingInv, FlagInv, WorkerNext, UNCHANGED apiOwn
  PROVE  FlagInv'
<1>t. /\ TablesTypeOK /\ TablesTypeOK' /\ InHand /\ roles \subseteq Payers
      /\ wrk \in [pc : WorkerPC, batch : SUBSET Users, user : Users \cup {None}]
  BY WorkerKeepsApiInv DEF BillingInv, WorkerTypeOK, ApiInv, ApiTypeOK
<1>u. now' = now /\ payment' = payment /\ req' = req /\ FlagsOnly
  BY WorkerKeepsRows DEF FlagsOnly, apiOwn
<1>s. ASSUME NEW u \in Users
      PROVE  /\ FirstFlagStands(u)' <=> PaidOnce(u) /\ IsActual(u)' /\ IsRunning(u)
             /\ (Credited(u) # {}) <=> (Credited(u)' # {})
  <2>1. Credited(u)' = Credited(u)
    BY <1>u DEF Credited, PaymentsOf, HasStatus
  <2>2. PaidOnce(u)' <=> PaidOnce(u)
    BY <2>1 DEF PaidOnce
  <2>3. IsRunning(u)' <=> IsRunning(u)
    BY <1>u DEF FlagsOnly, IsRunning, HasRow, Running
  <2> QED
    BY <2>1, <2>2, <2>3 DEF FirstFlagStands
<1> DEFINE Kept == /\ \A u \in Users : FirstFlagStands(u)' => u \in roles'
                   /\ \A u \in Users : ToRevoke(u)' => ~FirstFlagStands(u)'
                   /\ \A u \in Users : IsActual(u)' => Credited(u) # {}
                   /\ wrk'.pc = "post_commit" => wrk'.user \in roles'
<1>k. SUFFICES Kept
  <2>1. FirstFlagMeansGranted'
    BY <1>k DEF FirstFlagMeansGranted
  <2>2. \A u \in Users : IsActual(u)' => Credited(u)' # {}
    BY <1>k, <1>s
  <2>3. \A r \in Requests :
          At(r, "post_payment")' /\ req'[r].new.actual => req'[r].old # None /\ req'[r].old.actual
    BY <1>u DEF FlagInv, At
  <2>4. WorkerAt("post_commit")' => wrk'.user \in roles'
    BY <1>k DEF WorkerAt
  <2> QED
    BY <1>k, <2>1, <2>2, <2>3, <2>4 DEF FlagInv
<1>f. /\ \A u \in Users : FirstFlagStands(u) => u \in roles
      /\ \A u \in Users : ToRevoke(u) => ~FirstFlagStands(u)
      /\ \A u \in Users : IsActual(u) => Credited(u) # {}
      /\ wrk.pc = "post_commit" => wrk.user \in roles
  BY DEF FlagInv, FirstFlagMeansGranted, WorkerAt
(* A step that raises no mark, takes no role and picks for revocation only  *)
(* rows that do not run.                                                    *)
<1>d. ASSUME \A u \in Users : IsActual(u)' => IsActual(u), roles \subseteq roles',
             \A u \in Users : ToRevoke(u)' => ToRevoke(u) \/ ~IsRunning(u),
             wrk'.pc = "post_commit" => wrk'.user \in roles'
      PROVE  Kept
  BY <1>d, <1>f, <1>s DEF FirstFlagStands
<1>a. (UNCHANGED userstatus) => \A u \in Users : IsActual(u)' => IsActual(u)
  BY DEF IsActual, HasRow
<1> HIDE DEF Kept
<1>1. CASE PostSelect
  <2>1. UNCHANGED userstatus /\ UNCHANGED roles /\ wrk'.pc = "post"
    BY <1>1 DEF PostSelect, Select, Start, tableVars
  <2> QED
    BY <2>1, <1>a, <1>d DEF ToRevoke, WorkerAt
<1>2. ASSUME NEW u \in Users, PostGranted(u) PROVE Kept
  <2>1. UNCHANGED userstatus /\ roles' = roles \cup {u} /\ wrk'.pc = "post_commit" /\ wrk'.user = u
    BY <1>2, <1>t DEF PostGranted, RowInHand, tableVars
  <2> QED
    BY <2>1, <1>a, <1>d DEF ToRevoke, WorkerAt
<1>3. CASE PostRefused \/ DelRefused
  <2>1. /\ UNCHANGED userstatus /\ UNCHANGED roles
        /\ wrk'.pc = wrk.pc /\ wrk.pc \in {"post", "del"} /\ wrk'.batch \subseteq wrk.batch
    BY <1>3, <1>t DEF PostRefused, DelRefused, Refused, WorkerAt, tableVars
  <2> QED
    BY <2>1, <1>a, <1>d DEF ToRevoke, WorkerAt
<1>4. CASE PostCommit
  <2> DEFINE w == wrk.user
  <2>1. /\ wrk.pc = "post_commit" /\ wrk'.pc = "post" /\ UNCHANGED roles
        /\ userstatus' = [userstatus EXCEPT ![w].actual = TRUE]
    BY <1>4, <1>t DEF PostCommit, RowDone, WorkerAt
  <2>2. \A u \in Users : u # w => userstatus'[u] = userstatus[u]
    BY <2>1, <1>t DEF TablesTypeOK
  <2>3. \A u \in Users : u # w /\ IsActual(u)' => IsActual(u)
    BY <2>2 DEF IsActual, HasRow
  <2>4. w \in roles /\ Credited(w) # {}
    BY <2>1, <1>f, <1>t DEF Payers
  <2>5. \A u \in Users : IsActual(u)' => Credited(u) # {}
    BY <2>3, <2>4, <1>f
  <2>6. \A u \in Users : FirstFlagStands(u)' => u \in roles'
    BY <2>1, <2>3, <2>4, <1>s, <1>f DEF FirstFlagStands
  <2> QED
    BY <2>1, <2>5, <2>6 DEF Kept, ToRevoke, WorkerAt
<1>5. CASE PostDone \/ DelDone \/ ExpDone
  <2>1. /\ UNCHANGED userstatus /\ UNCHANGED roles
        /\ wrk'.pc \in {"del_select", "exp_select", "post_select"}
    BY <1>5, <1>t DEF PostDone, DelDone, ExpDone, PassDone, tableVars
  <2> QED
    BY <2>1, <1>a, <1>d DEF ToRevoke, WorkerAt
<1>6. CASE DelSelect
  <2>1. /\ UNCHANGED userstatus /\ UNCHANGED roles /\ wrk'.pc = "del"
        /\ \A u \in wrk'.batch : IsOver(u)
    BY <1>6 DEF DelSelect, Select, Start, tableVars
  <2>2. \A u \in Users : IsOver(u) => ~IsRunning(u)
    BY <1>t DEF IsOver, IsRunning, HasRow, Over, Running, TablesTypeOK, UserStatus
  <2> QED
    BY <2>1, <2>2, <1>a, <1>d DEF ToRevoke, WorkerAt
<1>7. ASSUME NEW u \in Users, DelRevoked(u) PROVE Kept
  <2>1. /\ UNCHANGED userstatus /\ roles' = roles \ {u} /\ wrk.pc = "del" /\ u \in wrk.batch
        /\ wrk'.pc = "del_commit" /\ wrk'.user = u /\ wrk'.batch \subseteq wrk.batch
    BY <1>7, <1>t DEF DelRevoked, RowInHand, WorkerAt, tableVars
  <2>2. \A v \in Users : IsActual(v)' => IsActual(v)
    BY <2>1, <1>a
  <2>3. ToRevoke(u)
    BY <2>1 DEF ToRevoke
  <2>4. \A v \in Users : FirstFlagStands(v)' => FirstFlagStands(v)
    BY <2>2, <1>s DEF FirstFlagStands
  <2>5. \A v \in Users : ToRevoke(v)' => ToRevoke(v)
    BY <2>1 DEF ToRevoke, WorkerAt
  <2> QED
    BY <2>1, <2>2, <2>3, <2>4, <2>5, <1>f DEF Kept
<1>8. CASE DelCommit
  <2> DEFINE w == wrk.user
             marked == [userstatus[w] EXCEPT !.actual = FALSE, !.expires_status = TRUE]
  <2>1. /\ wrk.pc = "del_commit" /\ wrk'.pc = "expired_event" /\ UNCHANGED roles
        /\ wrk'.batch = wrk.batch
    BY <1>8, <1>t DEF DelCommit, WorkerAt
  <2>2. w \in Users /\ HasRow(w) /\ userstatus[w] \in UserStatus
    BY <2>1, <1>t DEF InHand, HasRow, TablesTypeOK
  <2>3. userstatus' = [userstatus EXCEPT ![w] = marked]
    BY <1>8, <2>2, <1>t DEF DelCommit, TablesTypeOK
  <2>4. ~marked.actual
    BY <2>2 DEF UserStatus
  <2>5. \A v \in Users : IsActual(v)' => IsActual(v)
    BY <2>2, <2>3, <2>4, <1>t DEF IsActual, HasRow, TablesTypeOK
  <2> QED
    BY <2>1, <2>5, <1>d DEF ToRevoke, WorkerAt
<1>9. CASE DelPublish \/ ExpPublish
  <2>1. /\ UNCHANGED userstatus /\ UNCHANGED roles /\ wrk'.batch = wrk.batch
        /\ \/ wrk.pc = "expired_event" /\ wrk'.pc = "del"
           \/ wrk'.pc = "exp"
    BY <1>9, <1>t DEF DelPublish, ExpPublish, RowDone, WorkerAt
  <2> QED
    BY <2>1, <1>a, <1>d DEF ToRevoke, WorkerAt
<1>10. CASE ExpSelect
  <2>1. UNCHANGED userstatus /\ UNCHANGED roles /\ wrk'.pc = "exp"
    BY <1>10 DEF ExpSelect, Select, Start, tableVars
  <2> QED
    BY <2>1, <1>a, <1>d DEF ToRevoke, WorkerAt
<1>11. CASE ExpCommit
  <2>1. PICK w \in wrk.batch : /\ userstatus' = [userstatus EXCEPT ![w].expires_status = TRUE]
                               /\ RowInHand(w, "expires_event")
    BY <1>11 DEF ExpCommit
  <2>2. wrk'.pc = "expires_event" /\ UNCHANGED roles
    BY <1>11, <2>1, <1>t DEF ExpCommit, RowInHand
  <2>3. w \in Users /\ HasRow(w) /\ userstatus[w] \in UserStatus
    BY <1>t DEF InHand, HasRow, TablesTypeOK
  <2>4. userstatus'[w].actual = userstatus[w].actual
    BY <2>1, <2>3, <1>t DEF TablesTypeOK, UserStatus
  <2>5. \A v \in Users : v # w => userstatus'[v] = userstatus[v]
    BY <2>1, <1>t DEF TablesTypeOK
  <2>6. \A v \in Users : IsActual(v)' => IsActual(v)
    BY <2>3, <2>4, <2>5 DEF IsActual, HasRow
  <2> QED
    BY <2>2, <2>6, <1>d DEF ToRevoke, WorkerAt
<1>12. CASE WorkerCrash
  <2>1. UNCHANGED userstatus /\ UNCHANGED roles /\ wrk'.pc = "post_select"
    BY <1>12 DEF WorkerCrash, Start, tableVars
  <2> QED
    BY <2>1, <1>a, <1>d DEF ToRevoke, WorkerAt
<1> QED
  BY <1>1, <1>2, <1>3, <1>4, <1>5, <1>6, <1>7, <1>8, <1>9, <1>10, <1>11, <1>12
  DEF WorkerNext, WorkerStep

(* A subscription of one payment that the worker has marked as granted is   *)
(* granted, however often the worker dies and whatever returns, failures    *)
(* and refunds the API is in the middle of.                                 *)
THEOREM FirstFlagIsGranted == Spec => []FirstFlagMeansGranted
<1>1. Init => FlagInv
  BY DEF Init, ApiInit, WorkerInit, TablesInit, Start, Idle, FlagInv, FirstFlagMeansGranted,
         FirstFlagStands, ToRevoke, IsActual, HasRow, WorkerAt, At
<1>2. BillingInv /\ FlagInv /\ [Next]_vars => FlagInv'
  <2> SUFFICES ASSUME BillingInv, FlagInv, [Next]_vars PROVE FlagInv'
    OBVIOUS
  <2>1. ([ApiSystemNext]_apiVars /\ UNCHANGED workerOwn) \/ (WorkerNext /\ UNCHANGED apiOwn)
    BY DEF Next, vars, apiVars, ApiSystemNext
  <2> QED
    BY <2>1, ApiKeepsFlagInv, WorkerKeepsFlagInv
<1>3. FlagInv => FirstFlagMeansGranted
  BY DEF FlagInv
<1> QED
  BY <1>1, <1>2, <1>3, BillingInvariant, PTL DEF Spec

==============================================================================
