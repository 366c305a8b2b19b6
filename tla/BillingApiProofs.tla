---------------------------- MODULE BillingApiProofs ----------------------------
(***************************************************************************)
(* What holds of the billing API for any number of users, payments and     *)
(* concurrent requests, any tariffs and any clock.  ApiInv is inductive:   *)
(* each of its parts has a lemma below, with one step for each action.     *)
(***************************************************************************)
EXTENDS BillingApi, SumTheorems, TLAPS

USE HorizonAssumption, NoneAssumption, ApiAssumption, RowAssumption

(* What the helpers on rows compute are rows. *)
LEMMA ProlongedTyping ==
  ASSUME NEW row \in UserStatus, NEW t \in Nat, NEW days \in Nat
  PROVE  Prolonged(row, t, days) \in UserStatus
<1>1. row.expires_at + days \in Nat /\ t + days \in Nat
  BY DEF UserStatus
<1>2. \A n \in Nat : /\ [row EXCEPT !.expires_at = n] \in UserStatus
                     /\ [row EXCEPT !.expires_at = n, !.actual = FALSE] \in UserStatus
  BY DEF UserStatus
<1> QED
  BY <1>1, <1>2 DEF Prolonged

LEMMA UpdatedTyping ==
  ASSUME NEW row \in UserStatus, NEW old \in UserStatus, NEW new \in UserStatus
  PROVE  Updated(row, old, new) \in UserStatus
<1>1. row.expires_at \in Nat /\ new.expires_at \in Nat
  BY DEF UserStatus
<1>2. row.actual \in BOOLEAN /\ new.actual \in BOOLEAN /\ row.expires_status \in BOOLEAN
  BY DEF UserStatus
<1> QED
  BY <1>1, <1>2 DEF Updated, UserStatus

LEMMA IdleIsRequest == Idle \in Request /\ RequestOK(Idle) /\ Idle.pc = "idle"
  BY DEF Idle, Request, RequestOK, BuyPC, RefundPC

(* The rows a commit of buy_return and a commit of a refund work on.        *)
LEMMA PostedRows ==
  ASSUME ApiInv, NEW r \in Requests, At(r, "post_payment")
  PROVE  LET p   == req[r].pay
             u   == Owner[p]
             old == req[r].old
             new == req[r].new
         IN /\ p \in Payments /\ u \in Users /\ new \in UserStatus
            /\ [status |-> req[r].status, created_at |-> req[r].at] \in Row
            /\ old # None => /\ old \in UserStatus /\ userstatus[u] \in UserStatus
                             /\ Updated(userstatus[u], old, new) \in UserStatus
<1> DEFINE p == req[r].pay
           u == Owner[p]
<1>t. ApiTypeOK /\ TablesTypeOK /\ RequestOK(req[r]) /\ req[r] \in Request
  BY DEF ApiInv, ApiTypeOK
<1>1. /\ p \in Payments /\ u \in Users /\ req[r].new \in UserStatus
      /\ [status |-> req[r].status, created_at |-> req[r].at] \in Row
  BY <1>t DEF At, RequestOK, BuyPC, Row, Request, StatusEnum
<1>2. ASSUME req[r].old # None
      PROVE  req[r].old \in UserStatus /\ userstatus[u] \in UserStatus
  BY <1>1, <1>2, <1>t DEF At, RequestOK, Request, TablesTypeOK
<1> QED
  BY <1>1, <1>2, UpdatedTyping

LEMMA RefundedRows ==
  ASSUME ApiInv, NEW r \in Requests, At(r, "refund_commit")
  PROVE  LET p == req[r].pay
             u == req[r].user
         IN /\ p \in Payments /\ u \in Users /\ Owner[p] = u
            /\ userstatus[u] \in UserStatus /\ payment[p] \in Row
            /\ [userstatus[u] EXCEPT !.expires_at = req[r].at] \in UserStatus
            /\ [payment[p] EXCEPT !.status = "refund"] \in Row
<1> DEFINE p == req[r].pay
           u == req[r].user
<1>t. ApiTypeOK /\ TablesTypeOK /\ BooksOK /\ RequestOK(req[r]) /\ req[r] \in Request
  BY DEF ApiInv, ApiTypeOK
<1>1. u \in Users /\ p \in Payments /\ Owner[p] = u /\ payment[p] \in Row
  BY <1>t DEF At, RequestOK, RefundPC, PaymentsOf, HasStatus, ApiTypeOK
<1>2. userstatus[u] \in UserStatus /\ req[r].at \in Nat
  BY <1>t, <1>1 DEF BooksOK, Request, TablesTypeOK
<1>3. [userstatus[u] EXCEPT !.expires_at = req[r].at] \in UserStatus
  BY <1>2 DEF UserStatus
<1>4. [payment[p] EXCEPT !.status = "refund"] \in Row
  BY <1>1 DEF Row, StatusEnum
<1> QED
  BY <1>1, <1>2, <1>3, <1>4

(* Every step keeps the types. *)
LEMMA TypeStep == ApiInv /\ [ApiSystemNext]_apiVars => ApiTypeOK'
<1> SUFFICES ASSUME ApiInv, [ApiSystemNext]_apiVars PROVE ApiTypeOK'
  OBVIOUS
<1> USE DEF ApiTypeOK, TablesTypeOK, tableVars
<1>t. ApiTypeOK
  BY DEF ApiInv
<1>r. ASSUME NEW r \in Requests PROVE RequestOK(req[r]) /\ req[r] \in Request
  BY <1>t DEF ApiInv
<1>f. ASSUME NEW r \in Requests, Finish(r) PROVE req' \in [Requests -> Request]
  BY <1>f, <1>t, IdleIsRequest DEF Finish
<1>g. ASSUME NEW r \in Requests, NEW pc \in BuyPC \cup RefundPC, Goto(r, pc)
      PROVE  req' \in [Requests -> Request]
  BY <1>g, <1>t, <1>r DEF Goto, Request, Idle
<1>1. ASSUME NEW r \in Requests, NEW p \in Payments, YooPaymentCreate(r, p)
      PROVE  ApiTypeOK'
  <2>1. [Idle EXCEPT !.pc = "create_pair", !.pay = p] \in Request
    BY DEF Idle, Request, BuyPC
  <2>2. yoo' \in [Payments -> YooPayment]
    BY <1>1, <1>t DEF YooPaymentCreate, YooPayment
  <2> QED
    BY <1>1, <1>t, <2>1, <2>2 DEF YooPaymentCreate
<1>2. ASSUME NEW r \in Requests, CreatePairId(r) PROVE ApiTypeOK'
  BY <1>2, <1>t, <1>f DEF CreatePairId, PairState
<1>3. ASSUME NEW r \in Requests, NEW p \in Payments, GetYooId(r, p)
      PROVE  ApiTypeOK'
  <2>1. [Idle EXCEPT !.pc = "yoo_get", !.pay = p] \in Request
    BY DEF Idle, Request, BuyPC
  <2> QED
    BY <1>3, <1>t, <2>1 DEF GetYooId
<1>4. ASSUME NEW r \in Requests, YooPaymentGet(r) PROVE ApiTypeOK'
  <2>1. At(r, "yoo_get") /\ yoo[req[r].pay] \in YooPayment /\ yoo[req[r].pay].status # "none"
    BY <1>4, <1>t, <1>r DEF YooPaymentGet, At, RequestOK, BuyPC
  <2>2. yoo[req[r].pay].status \in StatusEnum
    BY <2>1 DEF YooPayment, StatusEnum
  <2>3. req' \in [Requests -> Request]
    BY <1>4, <1>t, <1>r, <1>f, <2>2 DEF YooPaymentGet, Request, BuyPC
  <2> QED
    BY <1>4, <1>t, <2>3 DEF YooPaymentGet
<1>5. ASSUME NEW r \in Requests, GetOrPostUserstatus(r) PROVE ApiTypeOK'
  <2> DEFINE p   == req[r].pay
             row == userstatus[Owner[p]]
             new == Paid(IF row = None THEN NewUserStatus(now) ELSE row, req[r].status, Days[p])
  <2>1. p \in Payments /\ row \in UserStatus \cup {None} /\ Days[p] \in Nat /\ now \in Nat
    BY <1>5, <1>t, <1>r DEF GetOrPostUserstatus, At, RequestOK, BuyPC
  <2>2. NewUserStatus(now) \in UserStatus
    BY <2>1 DEF NewUserStatus, UserStatus
  <2>3. new \in UserStatus
    BY <2>1, <2>2, ProlongedTyping DEF Paid
  <2>4. [req[r] EXCEPT !.pc = "post_payment", !.old = row, !.new = new, !.at = now]
           \in Request
    BY <1>r, <2>1, <2>3 DEF Request, BuyPC
  <2>5. req' \in [Requests -> Request]
    BY <1>5, <1>t, <2>4 DEF GetOrPostUserstatus
  <2> QED
    BY <1>5, <1>t, <2>5 DEF GetOrPostUserstatus
<1>6. ASSUME NEW r \in Requests, PostPaymentPg(r) PROVE ApiTypeOK'
  <2>1. At(r, "post_payment")
    BY <1>6 DEF PostPaymentPg
  <2>2. payment' \in [Payments -> Row \cup {None}]
    BY <1>6, <1>t, <2>1, PostedRows DEF PostPaymentPg
  <2>3. userstatus' \in [Users -> UserStatus \cup {None}]
    BY <1>6, <1>t, <2>1, PostedRows DEF PostPaymentPg
  <2> QED
    BY <1>6, <1>t, <1>g, <2>2, <2>3 DEF PostPaymentPg, BuyPC
<1>7. ASSUME NEW r \in Requests, PostPaymentRejected(r) PROVE ApiTypeOK'
  BY <1>7, <1>t, <1>f DEF PostPaymentRejected
<1>8. ASSUME NEW r \in Requests, PostEventAccepted(r) PROVE ApiTypeOK'
  <2>1. Owner[req[r].pay] \in Users
    BY <1>8, <1>r DEF PostEventAccepted, At, RequestOK, BuyPC
  <2> QED
    BY <1>8, <1>t, <1>g, <2>1 DEF PostEventAccepted, PostEvent, Events, BuyPC
<1>9. ASSUME NEW r \in Requests, DelRedisPair(r) PROVE ApiTypeOK'
  BY <1>9, <1>t, <1>f DEF DelRedisPair, PairState
<1>10. ASSUME NEW r \in Requests, NEW u \in Users, BeginRefund(r, u)
       PROVE  ApiTypeOK'
  <2>1. [Idle EXCEPT !.pc = "get_payment", !.user = u] \in Request
    BY DEF Idle, Request, RefundPC
  <2> QED
    BY <1>10, <1>t, <2>1 DEF BeginRefund
<1>11. ASSUME NEW r \in Requests, GetPaymentByUserid(r) PROVE ApiTypeOK'
  <2>1. req' \in [Requests -> Request]
    BY <1>11, <1>t, <1>r, <1>f
    DEF GetPaymentByUserid, Latest, SucceededOf, PaymentsOf, Request, RefundPC
  <2> QED
    BY <1>11, <1>t, <2>1 DEF GetPaymentByUserid
<1>12. ASSUME NEW r \in Requests, RefundProcess(r) PROVE ApiTypeOK'
  <2>1. req' \in [Requests -> Request]
    BY <1>12, <1>t, <1>r, <1>f DEF RefundProcess, Request, RefundPC
  <2>2. yoo' \in [Payments -> YooPayment]
    BY <1>12, <1>t DEF RefundProcess, YooPayment
  <2> QED
    BY <1>12, <1>t, <2>1, <2>2 DEF RefundProcess
<1>13. ASSUME NEW r \in Requests, RefundCommit(r) PROVE ApiTypeOK'
  BY <1>13, <1>t, <1>g, RefundedRows DEF RefundCommit, RefundPC
<1>14. ASSUME NEW r \in Requests, PostEventRefund(r) PROVE ApiTypeOK'
  <2>1. req[r].user \in Users
    BY <1>14, <1>r DEF PostEventRefund, At, RequestOK, RefundPC
  <2> QED
    BY <1>14, <1>t, <1>f, <2>1 DEF PostEventRefund, PostEvent, Events
<1>15. ASSUME NEW r \in Requests, RequestFails(r) PROVE ApiTypeOK'
  BY <1>15, <1>t, <1>f DEF RequestFails
<1>16. ASSUME NEW p \in Payments,
              EnterCard(p) \/ Capture(p) \/ Cancel(p) \/ RefundSettles(p) \/ PairExpires(p)
       PROVE  ApiTypeOK'
  <2>1. CASE EnterCard(p)
    BY <2>1, <1>t DEF EnterCard, YooPayment
  <2>2. CASE Capture(p)
    BY <2>2, <1>t DEF Capture, YooPayment
  <2>3. CASE Cancel(p)
    BY <2>3, <1>t DEF Cancel, YooPayment
  <2>4. CASE RefundSettles(p)
    BY <2>4, <1>t DEF RefundSettles, YooPayment
  <2>5. CASE PairExpires(p)
    BY <2>5, <1>t DEF PairExpires, PairState
  <2> QED
    BY <1>16, <2>1, <2>2, <2>3, <2>4, <2>5
<1>17. CASE Tick /\ UNCHANGED apiOwn
  BY <1>17, <1>t DEF Tick, apiOwn
<1>18. CASE UNCHANGED apiVars
  BY <1>18, <1>t DEF apiVars, apiOwn
<1> QED
  BY <1>1, <1>2, <1>3, <1>4, <1>5, <1>6, <1>7, <1>8, <1>9, <1>10, <1>11, <1>12,
     <1>13, <1>14, <1>15, <1>16, <1>17, <1>18
  DEF ApiSystemNext, ApiNext, StartRequest, RequestStep, Environment,
      GetYooIdNotFound, RefundDenied

(* The steps that leave the tables, the clock and YooKassa alone.           *)
Quiet == UNCHANGED <<now, userstatus, payment, yoo>>

LEMMA QuietSteps ==
  /\ \A r \in Requests :
       \/ CreatePairId(r) \/ YooPaymentGet(r) \/ GetOrPostUserstatus(r)
       \/ PostPaymentRejected(r) \/ PostEventAccepted(r) \/ DelRedisPair(r)
       \/ GetPaymentByUserid(r) \/ PostEventRefund(r) \/ RequestFails(r)
       \/ \E p \in Payments : GetYooId(r, p) \/ GetYooIdNotFound(r, p)
       \/ \E u \in Users : BeginRefund(r, u) \/ RefundDenied(r, u)
       => Quiet
  /\ \A p \in Payments : PairExpires(p) => Quiet
  /\ UNCHANGED apiVars => Quiet
  BY DEF Quiet, tableVars, apiVars, apiOwn, CreatePairId, YooPaymentGet,
         GetOrPostUserstatus, PostPaymentRejected, PostEventAccepted, DelRedisPair,
         GetPaymentByUserid, PostEventRefund, RequestFails, GetYooId,
         GetYooIdNotFound, BeginRefund, RefundDenied, PairExpires

(* What never goes back: a request may rely on it across any number of      *)
(* steps of the others.                                                     *)
Onward ==
  /\ now <= now'
  /\ \A u \in Users : userstatus[u] # None => userstatus'[u] # None
  /\ \A p \in Payments :
       /\ payment[p] # None => payment'[p] # None
       /\ HasStatus(p, "succeeded") \/ HasStatus(p, "refund") =>
            (HasStatus(p, "succeeded") \/ HasStatus(p, "refund"))'
       /\ yoo[p].status # "none" => yoo'[p].status # "none"
       /\ yoo[p].status = "succeeded" => yoo'[p].status = "succeeded"
       /\ yoo[p].refund = "succeeded" => yoo'[p].refund = "succeeded"

LEMMA StepsGoOnward == ApiInv /\ [ApiSystemNext]_apiVars => Onward
<1> SUFFICES ASSUME ApiInv, [ApiSystemNext]_apiVars PROVE Onward
  OBVIOUS
<1> USE DEF Onward, HasStatus
<1>t. ApiTypeOK /\ ApiTypeOK'
  BY TypeStep DEF ApiInv
<1>0. CASE Quiet
  BY <1>0, <1>t DEF Quiet, ApiTypeOK, TablesTypeOK
<1>1. ASSUME NEW r \in Requests, NEW p \in Payments, YooPaymentCreate(r, p)
      PROVE  Onward
  BY <1>1, <1>t DEF YooPaymentCreate, ApiTypeOK, TablesTypeOK, tableVars, YooPayment
<1>2. ASSUME NEW r \in Requests, PostPaymentPg(r) PROVE Onward
  <2>1. At(r, "post_payment") /\ payment[req[r].pay] = None
    BY <1>2 DEF PostPaymentPg, Conflict
  <2> QED
    BY <1>2, <1>t, <2>1, PostedRows DEF PostPaymentPg, ApiTypeOK, TablesTypeOK
<1>3. ASSUME NEW r \in Requests, RefundProcess(r) PROVE Onward
  BY <1>3, <1>t DEF RefundProcess, ApiTypeOK, TablesTypeOK, tableVars, YooPayment
<1>4. ASSUME NEW r \in Requests, RefundCommit(r) PROVE Onward
  <2> DEFINE p == req[r].pay
  <2>1. p \in Payments /\ payment[p] \in Row
    BY <1>4, RefundedRows DEF RefundCommit
  <2>2. payment' = [payment EXCEPT ![p].status = "refund"] /\ payment'[p].status = "refund"
    BY <1>4, <1>t, <2>1 DEF RefundCommit, ApiTypeOK, Row
  <2>3. payment'[p] # None
    BY <1>4, <1>t, RefundedRows DEF RefundCommit, ApiTypeOK
  <2>4. \A u \in Users : userstatus[u] # None => userstatus'[u] # None
    BY <1>4, <1>t, RefundedRows DEF RefundCommit, ApiTypeOK, TablesTypeOK
  <2> QED
    BY <1>4, <1>t, <2>1, <2>2, <2>3, <2>4 DEF RefundCommit, ApiTypeOK, TablesTypeOK
<1>5. ASSUME NEW p \in Payments,
             EnterCard(p) \/ Capture(p) \/ Cancel(p) \/ RefundSettles(p)
      PROVE  Onward
  <2>1. UNCHANGED <<now, userstatus, payment>>
    BY <1>5 DEF EnterCard, Capture, Cancel, RefundSettles, tableVars
  <2>2. \A q \in Payments \ {p} : yoo'[q] = yoo[q]
    BY <1>5, <1>t DEF EnterCard, Capture, Cancel, RefundSettles, ApiTypeOK
  <2>3. CASE EnterCard(p)
    BY <2>1, <2>2, <2>3, <1>t DEF EnterCard, ApiTypeOK, TablesTypeOK, YooPayment
  <2>4. CASE Capture(p)
    BY <2>1, <2>2, <2>4, <1>t DEF Capture, ApiTypeOK, TablesTypeOK, YooPayment
  <2>5. CASE Cancel(p)
    BY <2>1, <2>2, <2>5, <1>t DEF Cancel, ApiTypeOK, TablesTypeOK, YooPayment
  <2>6. CASE RefundSettles(p)
    BY <2>1, <2>2, <2>6, <1>t DEF RefundSettles, ApiTypeOK, TablesTypeOK, YooPayment
  <2> QED
    BY <1>5, <2>3, <2>4, <2>5, <2>6
<1>6. CASE Tick /\ UNCHANGED apiOwn
  BY <1>6, <1>t DEF Tick, apiOwn, ApiTypeOK, TablesTypeOK
<1>7. CASE Environment
  BY <1>7, <1>0, <1>5, QuietSteps DEF Environment
<1>8. ASSUME NEW r \in Requests, StartRequest(r) PROVE Onward
  BY <1>8, <1>0, <1>1, QuietSteps DEF StartRequest
<1>9. ASSUME NEW r \in Requests, RequestStep(r) \/ RequestFails(r) PROVE Onward
  BY <1>9, <1>0, <1>2, <1>3, <1>4, QuietSteps DEF RequestStep
<1> QED
  BY <1>0, <1>6, <1>7, <1>8, <1>9, QuietSteps DEF ApiSystemNext, ApiNext

(* What a request relies on still holds after steps that are not its own.   *)
LEMMA OnwardKeepsRequests ==
  ASSUME Onward, ApiTypeOK, ApiTypeOK', NEW q \in Request, RequestOK(q)
  PROVE  RequestOK(q)'
  BY DEF Onward, RequestOK, ApiTypeOK, TablesTypeOK, PaymentsOf, BuyPC, RefundPC, Request,
         UserStatus

(* Every request finds at each of its steps what the step relies on.        *)
RequestsOK == \A r \in Requests : RequestOK(req[r])

LEMMA RequestsStep == ApiInv /\ [ApiSystemNext]_apiVars => RequestsOK'
<1> SUFFICES ASSUME ApiInv, [ApiSystemNext]_apiVars PROVE RequestsOK'
  OBVIOUS
<1>t. ApiTypeOK /\ ApiTypeOK' /\ Onward /\ YooOK /\ BooksOK
  BY TypeStep, StepsGoOnward DEF ApiInv
<1>q. /\ req \in [Requests -> Request] /\ req' \in [Requests -> Request]
      /\ \A q \in Requests : RequestOK(req[q])
      /\ \A q \in Requests : req'[q] = req[q] => RequestOK(req[q])'
  BY <1>t, OnwardKeepsRequests DEF ApiInv, ApiTypeOK
<1>a. ASSUME NEW r \in Requests, \A q \in Requests \ {r} : req'[q] = req[q],
             RequestOK(req[r])'
      PROVE  RequestsOK'
  BY <1>a, <1>q DEF RequestsOK
<1>u. ASSUME req' = req PROVE RequestsOK'
  BY <1>u, <1>q DEF RequestsOK
<1>f. ASSUME NEW r \in Requests, Finish(r) PROVE RequestsOK'
  <2>1. req'[r] = Idle /\ \A q \in Requests \ {r} : req'[q] = req[q]
    BY <1>f, <1>q DEF Finish
  <2>2. RequestOK(req[r])'
    BY <2>1 DEF RequestOK, Idle, BuyPC, RefundPC
  <2> QED
    BY <1>a, <2>1, <2>2
<1>1. ASSUME NEW r \in Requests, NEW p \in Payments, YooPaymentCreate(r, p)
      PROVE  RequestsOK'
  <2>1. req' = [req EXCEPT ![r] = [Idle EXCEPT !.pc = "create_pair", !.pay = p]]
    BY <1>1 DEF YooPaymentCreate
  <2>2. yoo'[p].status = "pending"
    BY <1>1, <1>t DEF YooPaymentCreate, ApiTypeOK, YooPayment
  <2>3. RequestOK(req[r])'
    BY <2>1, <2>2, <1>q DEF RequestOK, Idle, BuyPC, RefundPC
  <2> QED
    BY <1>a, <1>q, <2>1, <2>3
<1>2. ASSUME NEW r \in Requests, NEW p \in Payments, GetYooId(r, p)
      PROVE  RequestsOK'
  <2>1. req' = [req EXCEPT ![r] = [Idle EXCEPT !.pc = "yoo_get", !.pay = p]]
    BY <1>2 DEF GetYooId
  <2>2. yoo'[p].status # "none"
    BY <1>2, <1>t DEF GetYooId, YooOK
  <2>3. RequestOK(req[r])'
    BY <2>1, <2>2, <1>q DEF RequestOK, Idle, BuyPC, RefundPC
  <2> QED
    BY <1>a, <1>q, <2>1, <2>3
<1>3. ASSUME NEW r \in Requests, YooPaymentGet(r) PROVE RequestsOK'
  <2> DEFINE p == req[r].pay
  <2>1. At(r, "yoo_get") /\ p \in Payments /\ yoo[p].status # "none" /\ yoo' = yoo
    BY <1>3, <1>q DEF YooPaymentGet, At, RequestOK, BuyPC
  <2>2. CASE yoo[p].card
    <3>1. req' = [req EXCEPT ![r].pc = "userstatus", ![r].status = yoo[p].status]
      BY <1>3, <2>2 DEF YooPaymentGet
    <3>2. /\ req'[r].pc = "userstatus" /\ req'[r].pay = p
          /\ req'[r].status = yoo'[p].status
      BY <3>1, <1>q, <2>1 DEF Request
    <3>3. RequestOK(req[r])'
      BY <3>2, <2>1, <1>t DEF RequestOK, BuyPC, RefundPC, ApiTypeOK, YooPayment
    <3> QED
      BY <1>a, <1>q, <3>1, <3>3
  <2>3. CASE ~yoo[p].card
    BY <1>3, <1>f, <2>3 DEF YooPaymentGet
  <2> QED
    BY <2>2, <2>3
<1>4. ASSUME NEW r \in Requests, GetOrPostUserstatus(r) PROVE RequestsOK'
  <2> DEFINE p   == req[r].pay
             row == userstatus[Owner[p]]
             got == IF row = None THEN NewUserStatus(now) ELSE row
             new == Paid(got, req[r].status, Days[p])
  <2>1. At(r, "userstatus") /\ p \in Payments /\ RequestOK(req[r])
    BY <1>4, <1>q DEF GetOrPostUserstatus, At, RequestOK, BuyPC
  <2>2. /\ req' = [req EXCEPT ![r] = [@ EXCEPT !.pc = "post_payment", !.old = row,
                                               !.new = new, !.at = now]]
        /\ UNCHANGED <<now, userstatus, payment, yoo>>
    BY <1>4 DEF GetOrPostUserstatus, tableVars
  <2>3. /\ req'[r].pc = "post_payment" /\ req'[r].pay = p
        /\ req'[r].status = req[r].status
        /\ req'[r].old = row /\ req'[r].new = new
    BY <2>2, <1>q DEF Request
  <2>4. now \in Nat /\ row \in UserStatus \cup {None} /\ got \in UserStatus
    BY <2>1, <1>t DEF ApiTypeOK, TablesTypeOK, NewUserStatus, UserStatus
  <2>5. new \in UserStatus
    BY <2>1, <2>4, ProlongedTyping DEF Paid
  <2>6. req[r].status # "succeeded" =>
          IF row = None THEN new.expires_at <= now ELSE new.expires_at = row.expires_at
    BY <2>4 DEF Paid, NewUserStatus
  <2>7. RequestOK(req[r])'
    BY <2>1, <2>2, <2>3, <2>5, <2>6 DEF RequestOK, BuyPC, RefundPC, At
  <2> QED
    BY <1>a, <1>q, <2>2, <2>7
<1>5. ASSUME NEW r \in Requests, PostPaymentPg(r) PROVE RequestsOK'
  <2>1. At(r, "post_payment") /\ req[r].pay \in Payments /\ RequestOK(req[r])
    BY <1>5, <1>q DEF PostPaymentPg, At, RequestOK, BuyPC
  <2>2. req'[r].pc = "accepted" /\ req'[r].pay = req[r].pay
    BY <1>5, <1>q DEF PostPaymentPg, Goto, Idle
  <2>3. yoo'[req[r].pay].status # "none" /\ payment'[req[r].pay] # None
    BY <1>5, <1>t, <2>1, PostedRows DEF PostPaymentPg, RequestOK, At, BuyPC, ApiTypeOK
  <2>4. RequestOK(req[r])'
    BY <2>1, <2>2, <2>3 DEF RequestOK, BuyPC, RefundPC
  <2> QED
    BY <1>a, <1>q, <1>5, <2>4 DEF PostPaymentPg, Goto
<1>6. ASSUME NEW r \in Requests, PostEventAccepted(r) PROVE RequestsOK'
  <2>1. At(r, "accepted") /\ RequestOK(req[r]) /\ UNCHANGED <<payment, yoo>>
    BY <1>6, <1>q DEF PostEventAccepted
  <2>2. req'[r].pc = "del_pair" /\ req'[r].pay = req[r].pay
    BY <1>6, <1>q DEF PostEventAccepted, Goto, Idle
  <2>3. RequestOK(req[r])'
    BY <2>1, <2>2 DEF At, RequestOK, BuyPC, RefundPC
  <2> QED
    BY <1>a, <1>q, <1>6, <2>3 DEF PostEventAccepted, Goto
<1>7. ASSUME NEW r \in Requests, NEW u \in Users, BeginRefund(r, u)
      PROVE  RequestsOK'
  <2>1. req' = [req EXCEPT ![r] = [Idle EXCEPT !.pc = "get_payment", !.user = u]]
    BY <1>7 DEF BeginRefund
  <2>2. RequestOK(req[r])'
    BY <2>1, <1>q DEF RequestOK, Idle, BuyPC, RefundPC
  <2> QED
    BY <1>a, <1>q, <2>1, <2>2
<1>8. ASSUME NEW r \in Requests, GetPaymentByUserid(r) PROVE RequestsOK'
  <2>1. At(r, "get_payment") /\ req[r].user \in Users /\ UNCHANGED payment
    BY <1>8, <1>q DEF GetPaymentByUserid, At, RequestOK, RefundPC
  <2>2. CASE \E p \in SucceededOf(req[r].user) :
               req' = [req EXCEPT ![r].pc = "refund", ![r].pay = p]
    <3>1. PICK p \in SucceededOf(req[r].user) :
                 req' = [req EXCEPT ![r].pc = "refund", ![r].pay = p]
      BY <2>2
    <3>2. req'[r].pc = "refund" /\ req'[r].pay = p /\ req'[r].user = req[r].user
      BY <3>1, <1>q DEF Request
    <3>3. RequestOK(req[r])'
      BY <3>2, <2>1 DEF RequestOK, BuyPC, RefundPC, SucceededOf, PaymentsOf, HasStatus
    <3> QED
      BY <1>a, <1>q, <3>1, <3>3
  <2>3. CASE Finish(r)
    BY <1>f, <2>3
  <2> QED
    BY <1>8, <2>2, <2>3 DEF GetPaymentByUserid, Latest
<1>9. ASSUME NEW r \in Requests, RefundProcess(r) PROVE RequestsOK'
  <2> DEFINE p == req[r].pay
  <2>1. At(r, "refund") /\ RequestOK(req[r]) /\ p \in Payments
    BY <1>9, <1>q DEF RefundProcess, At, RequestOK, RefundPC, PaymentsOf
  <2>2. CASE /\ yoo' = [yoo EXCEPT ![p].refund = "succeeded"]
             /\ req' = [req EXCEPT ![r].pc = "refund_commit", ![r].at = now]
    <3>1. /\ req'[r].pc = "refund_commit" /\ req'[r].pay = p
          /\ req'[r].user = req[r].user /\ req'[r].at = now
      BY <2>2, <1>q DEF Request
    <3>2. yoo'[p].refund = "succeeded" /\ UNCHANGED <<now, payment>> /\ now \in Nat
      BY <2>2, <1>9, <2>1, <1>t
      DEF RefundProcess, tableVars, ApiTypeOK, TablesTypeOK, YooPayment
    <3>3. RequestOK(req[r])'
      BY <3>1, <3>2, <2>1 DEF At, RequestOK, BuyPC, RefundPC, HasStatus
    <3> QED
      BY <1>a, <1>q, <2>2, <3>3
  <2>3. CASE Finish(r)
    BY <1>f, <2>3
  <2> QED
    BY <1>9, <2>2, <2>3 DEF RefundProcess
<1>10. ASSUME NEW r \in Requests, RefundCommit(r) PROVE RequestsOK'
  <2> DEFINE p == req[r].pay
  <2>1. At(r, "refund_commit") /\ RequestOK(req[r]) /\ p \in Payments
    BY <1>10, <1>q DEF RefundCommit, At, RequestOK, RefundPC, PaymentsOf
  <2>2. /\ req'[r].pc = "post_refund" /\ req'[r].pay = p
        /\ req'[r].user = req[r].user
    BY <1>10, <1>q DEF RefundCommit, Goto, Idle
  <2>3. payment'[p] # None /\ payment'[p].status \in {"succeeded", "refund"}
    BY <1>t, <2>1 DEF Onward, HasStatus, RequestOK, At, RefundPC
  <2>4. p \in PaymentsOf(req[r].user) /\ req[r].user \in Users
    BY <2>1 DEF At, RequestOK, RefundPC
  <2>5. RequestOK(req[r])'
    BY <2>2, <2>3, <2>4 DEF RequestOK, BuyPC, RefundPC, PaymentsOf, HasStatus
  <2> QED
    BY <1>a, <1>q, <1>10, <2>5 DEF RefundCommit, Goto
<1>11. ASSUME NEW r \in Requests,
              \/ CreatePairId(r) \/ PostPaymentRejected(r) \/ DelRedisPair(r)
              \/ PostEventRefund(r) \/ RequestFails(r)
       PROVE  RequestsOK'
  BY <1>11, <1>f DEF CreatePairId, PostPaymentRejected, DelRedisPair, PostEventRefund,
                     RequestFails
<1>12. ASSUME NEW r \in Requests,
              \/ \E p \in Payments : GetYooIdNotFound(r, p)
              \/ \E u \in Users : RefundDenied(r, u)
       PROVE  RequestsOK'
  BY <1>12, <1>u DEF GetYooIdNotFound, RefundDenied, apiVars, apiOwn
<1>13. CASE Environment \/ (Tick /\ UNCHANGED apiOwn) \/ UNCHANGED apiVars
  BY <1>13, <1>u DEF Environment, EnterCard, Capture, Cancel, RefundSettles, PairExpires,
                     apiVars, apiOwn
<1> QED
  BY <1>1, <1>2, <1>3, <1>4, <1>5, <1>6, <1>7, <1>8, <1>9, <1>10, <1>11, <1>12, <1>13
  DEF ApiSystemNext, ApiNext, StartRequest, RequestStep

(* A pair leads to a payment that exists, and money goes back only from a   *)
(* payment that was captured.                                               *)
LEMMA YooStep == ApiInv /\ [ApiSystemNext]_apiVars => YooOK'
<1> SUFFICES ASSUME ApiInv, [ApiSystemNext]_apiVars PROVE YooOK'
  OBVIOUS
<1> USE DEF YooOK
<1>t. ApiTypeOK /\ ApiTypeOK' /\ YooOK /\ Onward /\ \A r \in Requests : RequestOK(req[r])
  BY TypeStep, StepsGoOnward DEF ApiInv
<1>0. CASE UNCHANGED yoo /\ \A p \in Payments : pair'[p] # "none" => pair[p] # "none"
  BY <1>0, <1>t
<1>1. ASSUME NEW r \in Requests, CreatePairId(r) PROVE YooOK'
  <2>1. req[r].pay \in Payments /\ yoo[req[r].pay].status # "none"
    BY <1>1, <1>t DEF CreatePairId, At, RequestOK, BuyPC
  <2> QED
    BY <1>1, <1>t, <2>1 DEF CreatePairId, ApiTypeOK
<1>2. ASSUME NEW r \in Requests, DelRedisPair(r) PROVE YooOK'
  BY <1>2, <1>t, <1>0 DEF DelRedisPair, ApiTypeOK
<1>3. ASSUME NEW p \in Payments,
             \/ EnterCard(p) \/ Capture(p) \/ Cancel(p) \/ RefundSettles(p)
             \/ \E r \in Requests : YooPaymentCreate(r, p)
      PROVE  YooOK'
  <2>1. UNCHANGED pair /\ \A q \in Payments \ {p} : yoo'[q] = yoo[q]
    BY <1>3, <1>t DEF EnterCard, Capture, Cancel, RefundSettles, YooPaymentCreate, ApiTypeOK
  <2>2. yoo'[p].refund # "no" => yoo'[p].status = "succeeded"
    <3>1. yoo[p].refund # "no" => yoo'[p].status = "succeeded"
      BY <1>t DEF Onward
    <3>2. yoo'[p].refund = yoo[p].refund \/ RefundSettles(p)
      BY <1>3, <1>t DEF EnterCard, Capture, Cancel, YooPaymentCreate, ApiTypeOK, YooPayment
    <3> QED
      BY <3>1, <3>2 DEF RefundSettles
  <2> QED
    BY <1>t, <2>1, <2>2 DEF Onward
<1>4. ASSUME NEW r \in Requests, RefundProcess(r) PROVE YooOK'
  BY <1>4, <1>t DEF RefundProcess, ApiTypeOK, YooPayment
<1>5. ASSUME NEW p \in Payments, PairExpires(p) PROVE YooOK'
  BY <1>5, <1>t, <1>0 DEF PairExpires, ApiTypeOK
<1>6. ASSUME NEW r \in Requests,
             \/ YooPaymentGet(r) \/ GetOrPostUserstatus(r) \/ PostPaymentPg(r)
             \/ PostPaymentRejected(r) \/ PostEventAccepted(r) \/ GetPaymentByUserid(r)
             \/ RefundCommit(r) \/ PostEventRefund(r) \/ RequestFails(r)
             \/ \E p \in Payments : GetYooId(r, p) \/ GetYooIdNotFound(r, p)
             \/ \E u \in Users : BeginRefund(r, u) \/ RefundDenied(r, u)
      PROVE  YooOK'
  BY <1>6, <1>0
  DEF YooPaymentGet, GetOrPostUserstatus, PostPaymentPg, PostPaymentRejected,
      PostEventAccepted, GetPaymentByUserid, RefundCommit, PostEventRefund, RequestFails,
      GetYooId, GetYooIdNotFound, BeginRefund, RefundDenied, apiVars, apiOwn
<1>7. CASE (Tick /\ UNCHANGED apiOwn) \/ UNCHANGED apiVars
  BY <1>7, <1>0 DEF apiVars, apiOwn
<1>8. CASE Environment
  BY <1>8, <1>3, <1>5 DEF Environment
<1>9. ASSUME NEW r \in Requests, StartRequest(r) PROVE YooOK'
  BY <1>9, <1>3, <1>6 DEF StartRequest
<1>10. ASSUME NEW r \in Requests, RequestStep(r) \/ RequestFails(r) PROVE YooOK'
  BY <1>10, <1>1, <1>2, <1>4, <1>6 DEF RequestStep
<1> QED
  BY <1>7, <1>8, <1>9, <1>10 DEF ApiSystemNext, ApiNext

(* Only a commit of buy_return and a commit of a refund write the tables.   *)
LEMMA OnlyCommitsWrite ==
  [ApiSystemNext]_apiVars =>
    \/ UNCHANGED <<userstatus, payment>>
    \/ \E r \in Requests : PostPaymentPg(r) \/ RefundCommit(r)
<1> SUFFICES ASSUME [ApiSystemNext]_apiVars,
                    ~\E r \in Requests : PostPaymentPg(r) \/ RefundCommit(r)
             PROVE  UNCHANGED <<userstatus, payment>>
  OBVIOUS
<1>1. ASSUME NEW r \in Requests, NEW p \in Payments, YooPaymentCreate(r, p) \/ RefundProcess(r)
      PROVE  UNCHANGED <<userstatus, payment>>
  BY <1>1 DEF YooPaymentCreate, RefundProcess, tableVars
<1>2. CASE Environment \/ (Tick /\ UNCHANGED apiOwn)
  BY <1>2 DEF Environment, EnterCard, Capture, Cancel, RefundSettles, PairExpires,
              Tick, apiOwn, tableVars
<1>3. Quiet => UNCHANGED <<userstatus, payment>>
  BY DEF Quiet
<1>4. ASSUME NEW r \in Requests, StartRequest(r) PROVE UNCHANGED <<userstatus, payment>>
  BY <1>4, <1>1, <1>3, QuietSteps DEF StartRequest
<1>5. ASSUME NEW r \in Requests, RequestStep(r) \/ RequestFails(r)
      PROVE  UNCHANGED <<userstatus, payment>>
  <2>1. RefundProcess(r) => UNCHANGED <<userstatus, payment>>
    BY DEF RefundProcess, tableVars
  <2> QED
    BY <1>5, <1>3, <2>1, QuietSteps DEF RequestStep
<1> QED
  BY <1>2, <1>3, <1>4, <1>5, QuietSteps DEF ApiSystemNext, ApiNext

(* The books agree with YooKassa.                                           *)
LEMMA BooksStep == ApiInv /\ [ApiSystemNext]_apiVars => BooksOK'
<1> SUFFICES ASSUME ApiInv, [ApiSystemNext]_apiVars, NEW p \in Payments, payment'[p] # None
             PROVE  /\ userstatus'[Owner[p]] # None
                    /\ payment'[p].status \in {"succeeded", "refund"} =>
                         yoo'[p].status = "succeeded"
                    /\ payment'[p].status = "refund" => yoo'[p].refund = "succeeded"
  BY DEF BooksOK
<1>t. /\ ApiTypeOK /\ ApiTypeOK' /\ Onward /\ BooksOK
      /\ \A r \in Requests : RequestOK(req[r])
      /\ Owner[p] \in Users
  BY TypeStep, StepsGoOnward DEF ApiInv
<1>0. CASE payment'[p] = payment[p]
  BY <1>0, <1>t DEF BooksOK, Onward
<1>1. ASSUME NEW r \in Requests, PostPaymentPg(r), payment'[p] # payment[p]
      PROVE  /\ userstatus'[Owner[p]] # None
             /\ payment'[p].status \in {"succeeded", "refund"} =>
                  yoo'[p].status = "succeeded"
             /\ payment'[p].status = "refund" => yoo'[p].refund = "succeeded"
  <2>1. At(r, "post_payment") /\ RequestOK(req[r])
    BY <1>1, <1>t DEF PostPaymentPg
  <2>2. p = req[r].pay /\ payment'[p].status = req[r].status
    BY <1>1, <1>t DEF PostPaymentPg, ApiTypeOK
  <2>3. userstatus'[Owner[p]] # None
    BY <1>1, <1>t, <2>1, <2>2, PostedRows DEF PostPaymentPg, ApiTypeOK, TablesTypeOK
  <2> QED
    BY <1>1, <2>1, <2>2, <2>3 DEF PostPaymentPg, At, RequestOK
<1>2. ASSUME NEW r \in Requests, RefundCommit(r), payment'[p] # payment[p]
      PROVE  /\ userstatus'[Owner[p]] # None
             /\ payment'[p].status \in {"succeeded", "refund"} =>
                  yoo'[p].status = "succeeded"
             /\ payment'[p].status = "refund" => yoo'[p].refund = "succeeded"
  <2>1. At(r, "refund_commit") /\ RequestOK(req[r])
    BY <1>2, <1>t DEF RefundCommit
  <2>2. p = req[r].pay /\ UNCHANGED yoo
    BY <1>2, <1>t DEF RefundCommit, ApiTypeOK
  <2>3. yoo[p].refund = "succeeded" /\ yoo[p].status = "succeeded"
    BY <2>1, <2>2 DEF At, RequestOK, ApiInv, YooOK
  <2>4. userstatus'[Owner[p]] # None
    BY <1>t, <2>1, <2>2 DEF At, RequestOK, RefundPC, HasStatus, BooksOK, Onward
  <2> QED
    BY <2>2, <2>3, <2>4
<1>3. payment' = payment \/ \E r \in Requests : PostPaymentPg(r) \/ RefundCommit(r)
  BY OnlyCommitsWrite
<1> QED
  BY <1>0, <1>1, <1>2, <1>3

(* A pair is deleted only by a request that has recorded its payment.       *)
LEMMA DeletedStep == ApiInv /\ [ApiSystemNext]_apiVars => DeletedPairRecorded'
<1> SUFFICES ASSUME ApiInv, [ApiSystemNext]_apiVars, NEW p \in Payments,
                    pair'[p] = "deleted"
             PROVE  payment'[p] # None
  BY DEF DeletedPairRecorded
<1>t. ApiTypeOK /\ Onward /\ DeletedPairRecorded /\ \A r \in Requests : RequestOK(req[r])
  BY StepsGoOnward DEF ApiInv
<1>1. CASE pair[p] = "deleted"
  BY <1>1, <1>t DEF DeletedPairRecorded, Onward
<1>2. ASSUME NEW r \in Requests, DelRedisPair(r), pair[p] # "deleted"
      PROVE  payment'[p] # None
  <2>1. p = req[r].pay /\ At(r, "del_pair") /\ RequestOK(req[r])
    BY <1>2, <1>t DEF DelRedisPair, ApiTypeOK
  <2> QED
    BY <1>t, <2>1 DEF At, RequestOK, Onward
<1>3. ASSUME NEW r \in Requests, CreatePairId(r) PROVE pair[p] = "deleted"
  BY <1>3, <1>t DEF CreatePairId, ApiTypeOK
<1>4. ASSUME NEW q \in Payments, PairExpires(q) PROVE pair[p] = "deleted"
  BY <1>4, <1>t DEF PairExpires, ApiTypeOK
<1>5. CASE UNCHANGED pair
  BY <1>5, <1>1
<1>6. CASE Environment \/ (Tick /\ UNCHANGED apiOwn) \/ UNCHANGED apiVars
  BY <1>6, <1>1, <1>4, <1>5
  DEF Environment, EnterCard, Capture, Cancel, RefundSettles, apiOwn, apiVars
<1>7. ASSUME NEW r \in Requests, StartRequest(r) PROVE UNCHANGED pair
  BY <1>7 DEF StartRequest, YooPaymentCreate, GetYooId, GetYooIdNotFound, BeginRefund,
              RefundDenied, apiVars, apiOwn
<1>8. ASSUME NEW r \in Requests, RequestStep(r) \/ RequestFails(r)
      PROVE  UNCHANGED pair \/ CreatePairId(r) \/ DelRedisPair(r)
  BY <1>8 DEF RequestStep, YooPaymentGet, GetOrPostUserstatus, PostPaymentPg,
              PostPaymentRejected, PostEventAccepted, GetPaymentByUserid, RefundProcess,
              RefundCommit, PostEventRefund, RequestFails
<1> QED
  BY <1>1, <1>2, <1>3, <1>5, <1>6, <1>7, <1>8 DEF ApiSystemNext, ApiNext

(* No subscription runs that nobody paid for.                               *)
LEMMA RunningStep == ApiInv /\ [ApiSystemNext]_apiVars => RunningMeansPaid'
<1> SUFFICES ASSUME ApiInv, [ApiSystemNext]_apiVars, NEW u \in Users,
                    userstatus'[u] # None, userstatus'[u].expires_at > now'
             PROVE  \E p \in PaymentsOf(u) : payment'[p] # None /\ payment'[p].status = "succeeded"
  BY DEF RunningMeansPaid, Running, SucceededOf, HasStatus, PaymentsOf
<1>t. /\ ApiTypeOK /\ ApiTypeOK' /\ TablesTypeOK /\ TablesTypeOK' /\ Onward
      /\ RunningMeansPaid /\ \A r \in Requests : RequestOK(req[r])
  BY TypeStep, StepsGoOnward DEF ApiInv, ApiTypeOK
<1>b. ASSUME userstatus[u] # None, userstatus'[u].expires_at = userstatus[u].expires_at
      PROVE  \E p \in PaymentsOf(u) : HasStatus(p, "succeeded")
  BY <1>b, <1>t DEF TablesTypeOK, UserStatus, Onward, RunningMeansPaid, Running, SucceededOf
<1>1. CASE UNCHANGED <<userstatus, payment>>
  BY <1>1, <1>b DEF HasStatus
<1>2. ASSUME NEW r \in Requests, PostPaymentPg(r)
      PROVE  \E p \in PaymentsOf(u) : payment'[p] # None /\ payment'[p].status = "succeeded"
  <2> DEFINE p == req[r].pay
             old == req[r].old
             new == req[r].new
  <2>1. /\ At(r, "post_payment") /\ RequestOK(req[r]) /\ payment[p] = None /\ now' = now
        /\ payment' = [payment EXCEPT
             ![p] = [status |-> req[r].status, created_at |-> req[r].at]]
        /\ userstatus' = [userstatus EXCEPT
             ![Owner[p]] = IF old = None THEN new ELSE Updated(userstatus[Owner[p]], old, new)]
    BY <1>2, <1>t DEF PostPaymentPg, Conflict
  <2>2. p \in Payments /\ payment'[p] # None /\ payment'[p].status = req[r].status
    BY <2>1, <1>t, PostedRows DEF ApiTypeOK
  <2>3. ASSUME NEW q \in Payments, HasStatus(q, "succeeded")
        PROVE  payment'[q] # None /\ payment'[q].status = "succeeded"
    BY <2>1, <2>3, <1>t DEF HasStatus, ApiTypeOK
  <2>4. CASE u = Owner[p] /\ req[r].status = "succeeded"
    BY <2>2, <2>4 DEF PaymentsOf
  <2>5. CASE u = Owner[p] /\ req[r].status # "succeeded"
    <3>1. CASE old = None
      <4>1. new \in UserStatus /\ new.expires_at <= now /\ userstatus'[u] = new
        BY <2>1, <2>5, <3>1, <1>t DEF At, RequestOK, TablesTypeOK
      <4> QED
        BY <4>1, <2>1, <1>t DEF TablesTypeOK, UserStatus
    <3>2. CASE old # None
      <4>1. userstatus[u] # None /\ new.expires_at = old.expires_at
        BY <2>1, <2>5, <3>2 DEF At, RequestOK
      <4>2. userstatus'[u].expires_at = userstatus[u].expires_at
        BY <2>1, <2>5, <3>2, <4>1, <1>t DEF Updated, TablesTypeOK
      <4> QED
        BY <1>b, <2>3, <4>1, <4>2 DEF PaymentsOf
    <3> QED
      BY <3>1, <3>2
  <2>6. CASE u # Owner[p]
    BY <2>1, <2>3, <2>6, <1>b, <1>t DEF TablesTypeOK, PaymentsOf
  <2> QED
    BY <2>4, <2>5, <2>6
<1>3. ASSUME NEW r \in Requests, RefundCommit(r)
      PROVE  \E p \in PaymentsOf(u) : payment'[p] # None /\ payment'[p].status = "succeeded"
  <2> DEFINE p == req[r].pay
             w == req[r].user
  <2>1. /\ At(r, "refund_commit") /\ RequestOK(req[r]) /\ now' = now
        /\ userstatus' = [userstatus EXCEPT ![w].expires_at = req[r].at]
        /\ payment' = [payment EXCEPT ![p].status = "refund"]
    BY <1>3, <1>t DEF RefundCommit
  <2>2. /\ w \in Users /\ p \in Payments /\ Owner[p] = w
        /\ userstatus[w] \in UserStatus /\ req[r].at <= now
    BY <2>1, RefundedRows DEF At, RequestOK
  <2>3. CASE u = w
    <3>1. userstatus'[u].expires_at = req[r].at
      BY <2>1, <2>2, <2>3, <1>t DEF TablesTypeOK, UserStatus
    <3> QED
      BY <3>1, <2>1, <2>2, <1>t DEF TablesTypeOK, ApiTypeOK, Request
  <2>4. CASE u # w
    <3>1. userstatus'[u] = userstatus[u]
      BY <2>1, <2>2, <2>4, <1>t DEF TablesTypeOK
    <3>2. \A q \in PaymentsOf(u) : payment'[q] = payment[q]
      BY <2>1, <2>2, <2>4, <1>t DEF PaymentsOf, ApiTypeOK
    <3> QED
      BY <1>b, <3>1, <3>2 DEF HasStatus
  <2> QED
    BY <2>3, <2>4
<1> QED
  BY <1>1, <1>2, <1>3, OnlyCommitsWrite

LEMMA InvInit == ApiInit => ApiInv
<1> SUFFICES ASSUME ApiInit PROVE ApiInv
  OBVIOUS
<1>1. ApiTypeOK
  BY IdleIsRequest DEF ApiInit, TablesInit, ApiTypeOK, TablesTypeOK, PairState, YooPayment
<1>2. YooOK /\ BooksOK /\ DeletedPairRecorded /\ RunningMeansPaid
  BY DEF ApiInit, TablesInit, YooOK, BooksOK, DeletedPairRecorded, RunningMeansPaid
<1>3. \A r \in Requests : RequestOK(req[r])
  BY IdleIsRequest DEF ApiInit
<1> QED
  BY <1>1, <1>2, <1>3 DEF ApiInv

LEMMA InvStep == ApiInv /\ [ApiSystemNext]_apiVars => ApiInv'
  BY TypeStep, YooStep, BooksStep, RequestsStep, DeletedStep, RunningStep
  DEF ApiInv, RequestsOK

------------------------------------------------------------------------------
(* Whatever requests overlap, fail or are repeated, each of them finds at   *)
(* its next step what it relies on.                                         *)
THEOREM ApiInvariant == ApiSpec => []ApiInv
<1> QED
  BY InvInit, InvStep, PTL DEF ApiSpec

(* The tables, Redis, YooKassa's payments and the requests keep their types:*)
(* in particular a commit never writes a status or a row that is no row.    *)
THEOREM ApiTypeCorrect == ApiSpec => []ApiTypeOK
<1>1. ApiInv => ApiTypeOK
  BY DEF ApiInv
<1> QED
  BY <1>1, ApiInvariant, PTL

(* No subscription runs on refunded or unpaid payments alone.               *)
THEOREM RunningIsPaid == ApiSpec => []RunningMeansPaid
<1>1. ApiInv => RunningMeansPaid
  BY DEF ApiInv
<1> QED
  BY <1>1, ApiInvariant, PTL

(* buy_return gives up a pair only once its payment is on record.           *)
THEOREM DeletedIsRecorded == ApiSpec => []DeletedPairRecorded
<1>1. ApiInv => DeletedPairRecorded
  BY DEF ApiInv
<1> QED
  BY <1>1, ApiInvariant, PTL

------------------------------------------------------------------------------
(* The steps of the API as steps of the ledger: one payment's money moves,  *)
(* or one payment's entry is made or reversed, or the ledger sees nothing.  *)
LEMMA LedgerStep ==
  ApiInv /\ [ApiSystemNext]_apiVars => [Ledger!LedgerNext]_(Ledger!ledgerVars)
<1> SUFFICES ASSUME ApiInv, [ApiSystemNext]_apiVars
             PROVE  [Ledger!LedgerNext]_(Ledger!ledgerVars)
  OBVIOUS
<1> DEFINE money == [p \in Payments |-> Money(p)]
           entry == [p \in Payments |-> Entry(p)]
<1>t. /\ ApiTypeOK /\ ApiTypeOK' /\ YooOK /\ BooksOK
      /\ \A r \in Requests : RequestOK(req[r])
  BY TypeStep DEF ApiInv
<1>s. ASSUME money' = money, entry' = entry PROVE [Ledger!LedgerNext]_(Ledger!ledgerVars)
  BY <1>s DEF Ledger!ledgerVars
<1>m. ASSUME UNCHANGED yoo PROVE money' = money
  BY <1>m DEF Money
<1>e. ASSUME UNCHANGED payment PROVE entry' = entry
  BY <1>e DEF Entry
<1>0. CASE Quiet
  BY <1>0, <1>s, <1>m, <1>e DEF Quiet
<1>1. ASSUME NEW p \in Payments, UNCHANGED payment,
             \A q \in Payments \ {p} : yoo'[q] = yoo[q],
             \/ Money(p)' = Money(p)
             \/ Money(p) = "due" /\ Money(p)' = "taken"
             \/ Money(p) = "taken" /\ Money(p)' = "returned"
      PROVE  [Ledger!LedgerNext]_(Ledger!ledgerVars)
  <2>1. entry' = entry /\ \A q \in Payments \ {p} : money'[q] = money[q]
    BY <1>1, <1>e DEF Money
  <2>2. money' = [money EXCEPT ![p] = Money(p)']
    BY <2>1
  <2>3. CASE Money(p)' = Money(p)
    BY <2>1, <2>2, <2>3, <1>s
  <2>4. CASE Money(p) = "due" /\ Money(p)' = "taken"
    BY <2>1, <2>2, <2>4 DEF Ledger!LedgerNext, Ledger!Take
  <2>5. CASE Money(p) = "taken" /\ Money(p)' = "returned"
    BY <2>1, <2>2, <2>5 DEF Ledger!LedgerNext, Ledger!Return
  <2> QED
    BY <1>1, <2>3, <2>4, <2>5
<1>2. ASSUME NEW p \in Payments,
             EnterCard(p) \/ Capture(p) \/ Cancel(p) \/ RefundSettles(p)
      PROVE  [Ledger!LedgerNext]_(Ledger!ledgerVars)
  <2>1. UNCHANGED payment /\ \A q \in Payments \ {p} : yoo'[q] = yoo[q]
    BY <1>2, <1>t DEF EnterCard, Capture, Cancel, RefundSettles, ApiTypeOK
  <2>2. CASE EnterCard(p)
    BY <1>1, <2>1, <2>2, <1>t DEF EnterCard, Money, ApiTypeOK, YooPayment
  <2>3. CASE Capture(p)
    BY <1>1, <2>1, <2>3, <1>t DEF Capture, Money, ApiTypeOK, YooPayment, YooOK
  <2>4. CASE Cancel(p)
    BY <1>1, <2>1, <2>4, <1>t DEF Cancel, Money, ApiTypeOK, YooPayment
  <2>5. CASE RefundSettles(p)
    BY <1>1, <2>1, <2>5, <1>t DEF RefundSettles, Money, ApiTypeOK, YooPayment, YooOK
  <2> QED
    BY <1>2, <2>2, <2>3, <2>4, <2>5
<1>3. ASSUME NEW r \in Requests, NEW p \in Payments, YooPaymentCreate(r, p)
      PROVE  [Ledger!LedgerNext]_(Ledger!ledgerVars)
  <2>1. UNCHANGED payment /\ \A q \in Payments \ {p} : yoo'[q] = yoo[q]
    BY <1>3, <1>t DEF YooPaymentCreate, ApiTypeOK
  <2>2. Money(p)' = Money(p)
    BY <1>3, <1>t DEF YooPaymentCreate, Money, ApiTypeOK, YooPayment
  <2> QED
    BY <1>1, <2>1, <2>2
<1>4. ASSUME NEW r \in Requests, RefundProcess(r)
      PROVE  [Ledger!LedgerNext]_(Ledger!ledgerVars)
  <2>1. PICK p \in Payments : p = req[r].pay
    BY <1>4, <1>t DEF RefundProcess, At, RequestOK, RefundPC, PaymentsOf
  <2>2. UNCHANGED payment /\ \A q \in Payments \ {p} : yoo'[q] = yoo[q]
    BY <1>4, <1>t, <2>1 DEF RefundProcess, ApiTypeOK
  <2>3. \/ Money(p)' = Money(p)
        \/ Money(p) = "taken" /\ Money(p)' = "returned"
    BY <1>4, <1>t, <2>1 DEF RefundProcess, Money, ApiTypeOK, YooPayment
  <2> QED
    BY <1>1, <2>2, <2>3
<1>5. ASSUME NEW r \in Requests, PostPaymentPg(r)
      PROVE  [Ledger!LedgerNext]_(Ledger!ledgerVars)
  <2>1. PICK p \in Payments : p = req[r].pay
    BY <1>5, PostedRows DEF PostPaymentPg
  <2>2. /\ payment[p] = None
        /\ payment' = [payment EXCEPT
             ![p] = [status |-> req[r].status, created_at |-> req[r].at]]
        /\ UNCHANGED yoo
    BY <1>5, <2>1 DEF PostPaymentPg, Conflict
  <2>3. payment'[p] # None /\ payment'[p].status = req[r].status
    BY <1>5, <1>t, <2>1, <2>2, PostedRows DEF PostPaymentPg, ApiTypeOK
  <2>4. Entry(p) = "absent" /\ \A q \in Payments \ {p} : Entry(q)' = Entry(q)
    BY <1>t, <2>2 DEF Entry, ApiTypeOK
  <2>5. entry' = [entry EXCEPT ![p] = Entry(p)'] /\ money' = money
    BY <2>2, <2>4, <1>m
  <2>6. \/ Entry(p)' = "unpaid"
        \/ Entry(p)' = "succeeded" /\ Money(p) # "due"
    BY <1>5, <1>t, <2>1, <2>3 DEF Entry, Money, PostPaymentPg, At, RequestOK
  <2> QED
    BY <2>4, <2>5, <2>6 DEF Ledger!LedgerNext, Ledger!Enter
<1>6. ASSUME NEW r \in Requests, RefundCommit(r)
      PROVE  [Ledger!LedgerNext]_(Ledger!ledgerVars)
  <2>1. PICK p \in Payments : p = req[r].pay
    BY <1>6, RefundedRows DEF RefundCommit
  <2>2. /\ payment' = [payment EXCEPT ![p].status = "refund"]
        /\ payment[p] \in Row /\ [payment[p] EXCEPT !.status = "refund"] \in Row
        /\ UNCHANGED yoo
    BY <1>6, <2>1, RefundedRows DEF RefundCommit
  <2>3. Entry(p)' = "refund" /\ Entry(p) \in {"succeeded", "refund"}
    BY <1>6, <1>t, <2>1, <2>2
    DEF Entry, ApiTypeOK, Row, RefundCommit, At, RequestOK, RefundPC, HasStatus
  <2>4. \A q \in Payments \ {p} : Entry(q)' = Entry(q)
    BY <1>t, <2>2 DEF Entry, ApiTypeOK
  <2>5. entry' = [entry EXCEPT ![p] = "refund"] /\ money' = money
    BY <2>2, <2>3, <2>4, <1>m
  <2>6. Money(p) = "returned"
    BY <1>6, <1>t, <2>1 DEF Money, RefundCommit, At, RequestOK, YooOK
  <2>7. CASE Entry(p) = "succeeded"
    BY <2>5, <2>6, <2>7 DEF Ledger!LedgerNext, Ledger!Reverse
  <2>8. CASE Entry(p) = "refund"
    BY <2>5, <2>8, <1>s
  <2> QED
    BY <2>3, <2>7, <2>8
<1>7. CASE Environment
  BY <1>7, <1>0, <1>2, QuietSteps DEF Environment
<1>8. CASE Tick /\ UNCHANGED apiOwn
  BY <1>8, <1>s, <1>m, <1>e DEF apiOwn
<1>9. ASSUME NEW r \in Requests, StartRequest(r)
      PROVE  [Ledger!LedgerNext]_(Ledger!ledgerVars)
  BY <1>9, <1>0, <1>3, QuietSteps DEF StartRequest
<1>10. ASSUME NEW r \in Requests, RequestStep(r) \/ RequestFails(r)
       PROVE  [Ledger!LedgerNext]_(Ledger!ledgerVars)
  BY <1>10, <1>0, <1>4, <1>5, <1>6, QuietSteps DEF RequestStep
<1> QED
  BY <1>0, <1>7, <1>8, <1>9, <1>10, QuietSteps DEF ApiSystemNext, ApiNext

(* The API keeps what PaymentLedger promises: no payment is entered twice,  *)
(* as succeeded before its money came or as refunded before it went back.   *)
THEOREM ApiKeepsLedger == ApiSpec => KeepsLedger
<1>1. ApiInit => Ledger!LedgerInit
  BY DEF ApiInit, Ledger!LedgerInit, Money, Entry
<1>2. ApiInv /\ [ApiSystemNext]_apiVars => [Ledger!LedgerNext]_(Ledger!ledgerVars)
  BY LedgerStep
<1> QED
  BY <1>1, <1>2, ApiInvariant, PTL DEF ApiSpec, KeepsLedger, Ledger!LedgerSpec

------------------------------------------------------------------------------
(* A refund on record stays one.                                            *)
LEMMA RefundsStay ==
  ASSUME ApiInv, [ApiSystemNext]_apiVars, NEW p \in Payments, HasStatus(p, "refund")
  PROVE  HasStatus(p, "refund")'
<1> USE DEF HasStatus
<1>t. ApiTypeOK
  BY DEF ApiInv
<1>1. ASSUME NEW r \in Requests, PostPaymentPg(r) PROVE payment'[p] = payment[p]
  <2>1. p # req[r].pay
    BY <1>1 DEF PostPaymentPg, Conflict
  <2> QED
    BY <1>1, <1>t, <2>1 DEF PostPaymentPg, ApiTypeOK
<1>2. ASSUME NEW r \in Requests, RefundCommit(r) PROVE HasStatus(p, "refund")'
  <2>1. payment[p] \in Row
    BY <1>t DEF ApiTypeOK
  <2> QED
    BY <1>2, <1>t, <2>1 DEF RefundCommit, ApiTypeOK, Row
<1> QED
  BY <1>1, <1>2, OnlyCommitsWrite

(* What a notice of a refund depends on: the request about to publish it has *)
(* the refund on record.                                                     *)
NoticesInv ==
  /\ \A u \in Users : <<u, "payment_refund">> \in published => Refunded(u)
  /\ \A r \in Requests : At(r, "post_refund") => HasStatus(req[r].pay, "refund")

LEMMA OnlyHandlersPublish ==
  ASSUME [ApiSystemNext]_apiVars
  PROVE  \/ UNCHANGED published
         \/ \E r \in Requests : PostEventAccepted(r) \/ PostEventRefund(r)
<1>1. ASSUME NEW r \in Requests, StartRequest(r) PROVE UNCHANGED published
  <2>1. ASSUME NEW p \in Payments, YooPaymentCreate(r, p) \/ GetYooId(r, p) \/ GetYooIdNotFound(r, p)
        PROVE  UNCHANGED published
    BY <2>1 DEF YooPaymentCreate, GetYooId, GetYooIdNotFound, apiVars, tableVars
  <2>2. ASSUME NEW u \in Users, BeginRefund(r, u) \/ RefundDenied(r, u)
        PROVE  UNCHANGED published
    BY <2>2 DEF BeginRefund, RefundDenied, apiVars, tableVars
  <2> QED
    BY <1>1, <2>1, <2>2 DEF StartRequest
<1>2. ASSUME NEW r \in Requests, RequestStep(r) \/ RequestFails(r)
      PROVE  UNCHANGED published \/ PostEventAccepted(r) \/ PostEventRefund(r)
  BY <1>2 DEF RequestStep, CreatePairId, YooPaymentGet, GetOrPostUserstatus, PostPaymentPg,
              PostPaymentRejected, DelRedisPair, GetPaymentByUserid, RefundProcess,
              RefundCommit, RequestFails, tableVars
<1>3. CASE Environment \/ (Tick /\ UNCHANGED apiOwn) \/ UNCHANGED apiVars
  BY <1>3 DEF Environment, EnterCard, Capture, Cancel, RefundSettles, PairExpires, Tick,
              apiVars, tableVars
<1> QED
  BY <1>1, <1>2, <1>3 DEF ApiSystemNext, ApiNext

(* A request comes to the commit of a payment by reading the payer's row,   *)
(* and to its last step of a refund by the commit, only.                    *)
LEMMA ComesThere ==
  ASSUME ApiInv, [ApiSystemNext]_apiVars, NEW q \in Requests,
         At(q, "post_payment")' \/ At(q, "post_refund")'
  PROVE  \/ req'[q] = req[q]
         \/ GetOrPostUserstatus(q) /\ At(q, "post_payment")'
         \/ RefundCommit(q) /\ At(q, "post_refund")'
<1>t. req \in [Requests -> Request]
  BY DEF ApiInv, ApiTypeOK
<1> USE DEF At
<1>1. ASSUME NEW r \in Requests, Finish(r) PROVE req'[q] = req[q]
  BY <1>1, <1>t, IdleIsRequest DEF Finish
<1>2. ASSUME NEW r \in Requests, NEW pc \in BuyPC \ {"post_payment"}, Goto(r, pc)
      PROVE  req'[q] = req[q]
  BY <1>2, <1>t DEF Goto, Idle, BuyPC
<1>3. ASSUME NEW r \in Requests, StartRequest(r) PROVE req'[q] = req[q]
  <2>1. ASSUME NEW p \in Payments, YooPaymentCreate(r, p) \/ GetYooId(r, p) \/ GetYooIdNotFound(r, p)
        PROVE  req'[q] = req[q]
    BY <2>1, <1>t DEF YooPaymentCreate, GetYooId, GetYooIdNotFound, Idle, apiVars, apiOwn
  <2>2. ASSUME NEW u \in Users, BeginRefund(r, u) \/ RefundDenied(r, u)
        PROVE  req'[q] = req[q]
    BY <2>2, <1>t DEF BeginRefund, RefundDenied, Idle, apiVars, apiOwn
  <2> QED
    BY <1>3, <2>1, <2>2 DEF StartRequest
<1>4. ASSUME NEW r \in Requests,
             CreatePairId(r) \/ PostPaymentRejected(r) \/ DelRedisPair(r) \/ PostEventRefund(r)
             \/ RequestFails(r) \/ PostPaymentPg(r) \/ PostEventAccepted(r)
      PROVE  req'[q] = req[q]
  BY <1>4, <1>1, <1>2 DEF CreatePairId, PostPaymentRejected, DelRedisPair, PostEventRefund,
                          RequestFails, PostPaymentPg, PostEventAccepted, BuyPC
<1>5. ASSUME NEW r \in Requests, YooPaymentGet(r) PROVE req'[q] = req[q]
  BY <1>5, <1>1, <1>t DEF YooPaymentGet, Request
<1>6. ASSUME NEW r \in Requests, GetOrPostUserstatus(r)
      PROVE  req'[q] = req[q] \/ (q = r /\ At(q, "post_payment")')
  <2>1. q # r => req'[q] = req[q]
    BY <1>6, <1>t DEF GetOrPostUserstatus
  <2>2. req'[r].pc = "post_payment"
    BY <1>6, <1>t DEF GetOrPostUserstatus, Request
  <2> QED
    BY <2>1, <2>2
<1>7. ASSUME NEW r \in Requests, GetPaymentByUserid(r) PROVE req'[q] = req[q]
  BY <1>7, <1>1, <1>t DEF GetPaymentByUserid, Request
<1>8. ASSUME NEW r \in Requests, RefundProcess(r) PROVE req'[q] = req[q]
  BY <1>8, <1>1, <1>t DEF RefundProcess, Request
<1>9. ASSUME NEW r \in Requests, RefundCommit(r)
      PROVE  req'[q] = req[q] \/ (q = r /\ At(q, "post_refund")')
  <2>1. q # r => req'[q] = req[q]
    BY <1>9, <1>t DEF RefundCommit, Goto
  <2>2. req'[r].pc = "post_refund"
    BY <1>9, <1>t DEF RefundCommit, Goto, Idle
  <2> QED
    BY <2>1, <2>2
<1>10. CASE Environment \/ (Tick /\ UNCHANGED apiOwn) \/ UNCHANGED apiVars
  BY <1>10 DEF Environment, EnterCard, Capture, Cancel, RefundSettles, PairExpires,
               apiVars, apiOwn
<1> QED
  BY <1>3, <1>4, <1>5, <1>6, <1>7, <1>8, <1>9, <1>10
  DEF ApiSystemNext, ApiNext, RequestStep

LEMMA NoticesStep == ApiInv /\ NoticesInv /\ [ApiSystemNext]_apiVars => NoticesInv'
<1> SUFFICES ASSUME ApiInv, NoticesInv, [ApiSystemNext]_apiVars PROVE NoticesInv'
  OBVIOUS
<1>t. /\ ApiTypeOK /\ ApiTypeOK' /\ Onward
      /\ \A r \in Requests : RequestOK(req[r]) /\ req[r] \in Request
  BY TypeStep, StepsGoOnward DEF ApiInv, ApiTypeOK
<1>1. ASSUME NEW q \in Requests, At(q, "post_refund")'
      PROVE  HasStatus(req[q].pay, "refund")'
  <2>1. CASE req'[q] = req[q]
    <3>1. At(q, "post_refund") /\ HasStatus(req[q].pay, "refund")
      BY <1>1, <2>1 DEF At, NoticesInv
    <3>2. req[q].pay \in Payments
      BY <3>1, <1>t DEF At, RequestOK, RefundPC, PaymentsOf
    <3> QED
      BY <2>1, <3>1, <3>2, RefundsStay DEF HasStatus
  <2>2. CASE RefundCommit(q)
    <3>1. req[q].pay \in Payments /\ payment[req[q].pay] \in Row
          /\ [payment[req[q].pay] EXCEPT !.status = "refund"] \in Row
      BY <2>2, RefundedRows DEF RefundCommit
    <3>2. req'[q].pay = req[q].pay
      BY <2>2, <1>t DEF RefundCommit, Goto, ApiTypeOK, Idle
    <3>3. payment'[req[q].pay] = [payment[req[q].pay] EXCEPT !.status = "refund"]
      BY <2>2, <3>1, <1>t DEF RefundCommit, ApiTypeOK
    <3> QED
      BY <3>1, <3>2, <3>3 DEF HasStatus, Row
  <2> QED
    BY <1>1, <2>1, <2>2, ComesThere DEF At
<1>2. ASSUME NEW u \in Users, <<u, "payment_refund">> \in published'
      PROVE  \E p \in PaymentsOf(u) : HasStatus(p, "refund")'
  <2>1. CASE <<u, "payment_refund">> \in published
    BY <2>1, RefundsStay DEF NoticesInv, Refunded, PaymentsOf
  <2>2. ASSUME NEW r \in Requests, PostEventRefund(r), <<u, "payment_refund">> \notin published
        PROVE  \E p \in PaymentsOf(u) : HasStatus(p, "refund")'
    <3>1. u = req[r].user /\ At(r, "post_refund")
      BY <1>2, <2>2 DEF PostEventRefund, PostEvent
    <3>2. req[r].pay \in PaymentsOf(u) /\ HasStatus(req[r].pay, "refund")
      BY <3>1, <1>t DEF At, RequestOK, RefundPC, NoticesInv
    <3> QED
      BY <3>2, RefundsStay DEF PaymentsOf
  <2>3. ASSUME NEW r \in Requests, PostEventAccepted(r) PROVE <<u, "payment_refund">> \in published
    BY <1>2, <2>3 DEF PostEventAccepted, PostEvent
  <2> QED
    BY <1>2, <2>1, <2>2, <2>3, OnlyHandlersPublish
<1> QED
  BY <1>1, <1>2 DEF NoticesInv, Refunded, HasStatus, PaymentsOf

(* By the books a refunded payment went back.                               *)
LEMMA NoticesAreTrue == ApiInv /\ NoticesInv => RefundNoticeIsTrue
<1> SUFFICES ASSUME ApiInv, NoticesInv PROVE RefundNoticeIsTrue
  OBVIOUS
<1>t. BooksOK /\ \A r \in Requests : RequestOK(req[r])
  BY DEF ApiInv
<1>1. \A p \in Payments : HasStatus(p, "refund") => yoo[p].refund = "succeeded"
  BY <1>t DEF BooksOK, HasStatus
<1>2. ASSUME NEW u \in Users, <<u, "payment_refund">> \in published
      PROVE  \E p \in PaymentsOf(u) : HasStatus(p, "refund") /\ yoo[p].refund = "succeeded"
  BY <1>1, <1>2 DEF NoticesInv, Refunded, PaymentsOf
<1>3. ASSUME NEW r \in Requests, At(r, "post_refund")
      PROVE  HasStatus(req[r].pay, "refund") /\ yoo[req[r].pay].refund = "succeeded"
  <2>1. req[r].pay \in Payments
    BY <1>3, <1>t DEF At, RequestOK, RefundPC, PaymentsOf
  <2> QED
    BY <2>1, <1>1, <1>3 DEF NoticesInv
<1> QED
  BY <1>2, <1>3 DEF RefundNoticeIsTrue

(* Nobody is told of a refund but the one whose money went back, and whose  *)
(* payment is on record as refunded, however requests overlap.              *)
THEOREM RefundNoticesTrue == ApiSpec => []RefundNoticeIsTrue
<1>1. ApiInit => NoticesInv
  BY DEF ApiInit, TablesInit, NoticesInv, At, Idle
<1> QED
  BY <1>1, NoticesAreTrue, NoticesStep, ApiInvariant, PTL DEF ApiSpec

------------------------------------------------------------------------------
(* The days of some payments: their sum, by SumTheorems.                    *)
LEMMA DaysAreSums ==
  ASSUME NEW P \in SUBSET Payments
  PROVE  /\ DaysOf(P) \in Nat
         /\ \A Q \in SUBSET P : DaysOf(Q) <= DaysOf(P)
         /\ \A p \in P : DaysOf(P) = Days[p] + DaysOf(P \ {p})
<1>1. \A Q \in SUBSET Payments : DaysOf(Q) = SumOver(Days, Q)
  BY DEF DaysOf, SumOver
<1>2. IsFiniteSet(P) /\ Days \in [Payments -> Nat]
  BY FS_Subset
<1>3. SumOver(Days, P) \in Nat
  BY <1>2, SumIsNatural
<1>4. \A Q \in SUBSET P : SumOver(Days, Q) <= SumOver(Days, P)
  BY <1>2, SumGrows
<1>5. \A p \in P : SumOver(Days, P) = Days[p] + SumOver(Days, P \ {p})
  BY <1>2, SumWithout
<1> QED
  BY <1>1, <1>3, <1>4, <1>5

(* What a user has paid for so far never becomes less.                      *)
Bought(u) == DaysOf(Credited(u))

LEMMA BoughtGrows ==
  ASSUME Onward, NEW u \in Users
  PROVE  /\ Bought(u) \in Nat /\ Bought(u)' \in Nat
         /\ Bought(u) <= Bought(u)'
         /\ \A p \in PaymentsOf(u) :
              p \notin Credited(u) /\ p \in Credited(u)' => Bought(u) + Days[p] <= Bought(u)'
<1> DEFINE C == Credited(u)
           D == Credited(u)'
<1>1. C \in SUBSET Payments /\ D \in SUBSET Payments /\ C \subseteq D
  BY DEF Onward, Credited, PaymentsOf
<1>2. Bought(u) = DaysOf(C) /\ Bought(u)' = DaysOf(D)
  BY DEF Bought
<1> HIDE DEF C, D
<1>3. DaysOf(C) \in Nat /\ DaysOf(D) \in Nat /\ DaysOf(C) <= DaysOf(D)
  BY <1>1, DaysAreSums
<1>4. ASSUME NEW p \in PaymentsOf(u), p \notin C, p \in D
      PROVE  DaysOf(C) + Days[p] <= DaysOf(D)
  <2>1. DaysOf(D) = Days[p] + DaysOf(D \ {p})
    BY <1>1, <1>4, DaysAreSums
  <2>2. DaysOf(C) <= DaysOf(D \ {p}) /\ DaysOf(D \ {p}) \in Nat
    BY <1>1, <1>4, DaysAreSums
  <2>3. Days[p] \in Nat
    BY <1>4 DEF PaymentsOf
  <2> QED
    BY <1>3, <2>1, <2>2, <2>3
<1> QED
  BY <1>2, <1>3, <1>4 DEF C, D

(* A buy_return between its SELECT and its commit is about to grant time:   *)
(* not more than what the user has bought and, if it succeeded, what the    *)
(* payment in hand adds to it.                                              *)
DueTo(q) == IF q.status = "succeeded" THEN Days[q.pay] ELSE 0

PromiseOK(q) ==
  q.pc = "post_payment" => q.new.expires_at <= now + Bought(Owner[q.pay]) + DueTo(q)

DaysInv == NoTimeWithoutMoney /\ \A r \in Requests : PromiseOK(req[r])

LEMMA PromisesStep ==
  ApiInv /\ DaysInv /\ [ApiSystemNext]_apiVars => \A q \in Requests : PromiseOK(req[q])'
<1> SUFFICES ASSUME ApiInv, DaysInv, [ApiSystemNext]_apiVars, NEW q \in Requests,
                    At(q, "post_payment")'
             PROVE  PromiseOK(req[q])'
  BY DEF PromiseOK, At
<1>t. /\ ApiTypeOK /\ ApiTypeOK' /\ TablesTypeOK /\ TablesTypeOK' /\ Onward
      /\ RequestOK(req[q]) /\ req[q] \in Request
  BY TypeStep, StepsGoOnward DEF ApiInv, ApiTypeOK
<1>b. ASSUME NEW u \in Users
      PROVE  /\ now \in Nat /\ now' \in Nat /\ now <= now'
             /\ Bought(u) \in Nat /\ Bought(u)' \in Nat /\ Bought(u) <= Bought(u)'
  BY <1>t, BoughtGrows DEF TablesTypeOK, Onward
<1>p. ASSUME NEW p \in Payments, NEW u \in Users, u = Owner[p], req'[q].pay = p,
             NEW due, due = DueTo(req'[q]), req'[q].new.expires_at <= now' + Bought(u)' + due
      PROVE  PromiseOK(req[q])'
  BY <1>p DEF PromiseOK, Bought, Credited, PaymentsOf, HasStatus, DueTo
<1>1. ASSUME NEW p \in Payments, NEW u \in Users, p = req[q].pay, u = Owner[p],
             NEW due \in Nat, due = DueTo(req[q]), req'[q] = req[q]
      PROVE  PromiseOK(req[q])'
  <2>1. At(q, "post_payment") /\ req[q].new.expires_at \in Nat
    BY <1>1, PostedRows DEF At, UserStatus
  <2>2. req[q].new.expires_at <= now + Bought(u) + due
    BY <1>1, <2>1 DEF DaysInv, PromiseOK, At
  <2>3. req[q].new.expires_at <= now' + Bought(u)' + due
    BY <1>b, <2>1, <2>2
  <2>4. due = DueTo(req'[q])
    BY <1>1
  <2> QED
    BY <1>1, <1>p, <2>3, <2>4
<1>2. ASSUME NEW p \in Payments, NEW u \in Users, p = req[q].pay, u = Owner[p],
             NEW due \in Nat, due = DueTo(req[q]), GetOrPostUserstatus(q)
      PROVE  PromiseOK(req[q])'
  <2> DEFINE row == userstatus[u]
             got == IF row = None THEN NewUserStatus(now) ELSE row
             new == Paid(got, req[q].status, Days[p])
  <2>1. row \in UserStatus \cup {None} /\ Days[p] \in Nat
    BY <1>t DEF TablesTypeOK
  <2>2. got \in UserStatus /\ got.expires_at \in Nat
    BY <1>b, <2>1 DEF NewUserStatus, UserStatus
  <2>3. got.expires_at <= now + Bought(u)
    BY <1>b, <2>1, <2>2 DEF DaysInv, NoTimeWithoutMoney, Bought, NewUserStatus
  <2>4. new.expires_at <= now + Bought(u) + due
    <3>1. CASE req[q].status = "succeeded"
      <4>1. due = Days[p]
        BY <1>2, <3>1 DEF DueTo
      <4>2. new.expires_at = (IF got.expires_at > now THEN got.expires_at ELSE now) + Days[p]
        BY <2>1, <2>2, <3>1 DEF Paid, Prolonged, Running, UserStatus
      <4> QED
        BY <1>b, <2>1, <2>2, <2>3, <4>1, <4>2
    <3>2. CASE req[q].status # "succeeded"
      BY <1>2, <1>b, <2>2, <2>3, <3>2 DEF Paid
    <3> QED
      BY <3>1, <3>2
  <2>5. /\ req'[q].new = new /\ req'[q].pay = p /\ req'[q].status = req[q].status
        /\ now' = now /\ payment' = payment
    BY <1>2, <1>t DEF GetOrPostUserstatus, Request, ApiTypeOK, tableVars
  <2>6. Bought(u)' = Bought(u)
    BY <2>5 DEF Bought, Credited, PaymentsOf, HasStatus
  <2>7. due = DueTo(req'[q])
    BY <1>2, <2>5 DEF DueTo
  <2> HIDE DEF new
  <2> QED
    BY <1>2, <1>p, <2>4, <2>5, <2>6, <2>7
<1>3. req[q].pc \in BuyPC => req[q].pay \in Payments /\ Owner[req[q].pay] \in Users
                             /\ DueTo(req[q]) \in Nat
  BY <1>t DEF RequestOK, DueTo
<1>4. req[q].pc \in BuyPC
  BY ComesThere DEF At, GetOrPostUserstatus, RefundCommit, BuyPC
<1> QED
  BY <1>1, <1>2, <1>3, <1>4, ComesThere DEF At

LEMMA DaysStep == ApiInv /\ DaysInv /\ [ApiSystemNext]_apiVars => NoTimeWithoutMoney'
<1> SUFFICES ASSUME ApiInv, DaysInv, [ApiSystemNext]_apiVars, NEW u \in Users,
                    userstatus'[u] # None
             PROVE  userstatus'[u].expires_at <= now' + Bought(u)'
  BY DEF NoTimeWithoutMoney, Bought
<1>t. /\ ApiTypeOK /\ ApiTypeOK' /\ TablesTypeOK /\ TablesTypeOK' /\ Onward
      /\ userstatus'[u].expires_at \in Nat
  BY TypeStep, StepsGoOnward DEF ApiInv, ApiTypeOK, TablesTypeOK, UserStatus
<1>b. /\ now \in Nat /\ now' \in Nat /\ now <= now'
      /\ Bought(u) \in Nat /\ Bought(u)' \in Nat /\ Bought(u) <= Bought(u)'
  BY <1>t, BoughtGrows DEF TablesTypeOK, Onward
<1>1. ASSUME userstatus[u] # None, userstatus'[u].expires_at = userstatus[u].expires_at
      PROVE  userstatus'[u].expires_at <= now' + Bought(u)'
  <2>1. userstatus[u].expires_at <= now + Bought(u)
    BY <1>1 DEF DaysInv, NoTimeWithoutMoney, Bought
  <2> QED
    BY <1>1, <1>b, <1>t, <2>1
<1>2. ASSUME UNCHANGED <<userstatus, payment>>
      PROVE  userstatus'[u].expires_at <= now' + Bought(u)'
  BY <1>1, <1>2
<1>3. ASSUME NEW r \in Requests, PostPaymentPg(r)
      PROVE  userstatus'[u].expires_at <= now' + Bought(u)'
  <2> DEFINE p == req[r].pay
             old == req[r].old
             new == req[r].new
             written == IF old = None THEN new ELSE Updated(userstatus[Owner[p]], old, new)
  <2>1. /\ At(r, "post_payment") /\ payment[p] = None /\ now' = now
        /\ payment' = [payment EXCEPT
             ![p] = [status |-> req[r].status, created_at |-> req[r].at]]
        /\ userstatus' = [userstatus EXCEPT ![Owner[p]] = written]
    BY <1>3 DEF PostPaymentPg, Conflict
  <2>2. /\ p \in Payments /\ new \in UserStatus /\ new.expires_at \in Nat
        /\ old # None => userstatus[Owner[p]] \in UserStatus
    BY <2>1, PostedRows DEF UserStatus
  <2>3. CASE u # Owner[p]
    BY <1>1, <1>t, <2>1, <2>2, <2>3 DEF TablesTypeOK
  <2>4. CASE u = Owner[p]
    <3>1. userstatus'[u] = written /\ PromiseOK(req[r])
      BY <1>t, <2>1, <2>4 DEF TablesTypeOK, DaysInv
    <3>2. new.expires_at <= now + Bought(u) + DueTo(req[r])
      BY <2>1, <2>4, <3>1 DEF PromiseOK, At
    <3>3. ASSUME req[r].status = "succeeded" PROVE Bought(u) + Days[p] <= Bought(u)'
      <4>1. p \in PaymentsOf(u) /\ p \notin Credited(u)
        BY <2>1, <2>2, <2>4 DEF Credited, PaymentsOf, HasStatus
      <4>2. payment'[p] # None /\ payment'[p].status = "succeeded"
        BY <1>t, <2>1, <2>2, <3>3, PostedRows DEF ApiTypeOK
      <4>3. p \in Credited(u)'
        BY <4>1, <4>2 DEF Credited, HasStatus, PaymentsOf
      <4> QED
        BY <1>t, <4>1, <4>3, BoughtGrows
    <3>4. new.expires_at <= now' + Bought(u)'
      <4>1. CASE req[r].status = "succeeded"
        BY <1>b, <2>1, <2>2, <3>2, <3>3, <4>1 DEF DueTo
      <4>2. CASE req[r].status # "succeeded"
        BY <1>b, <2>1, <2>2, <3>2, <4>2 DEF DueTo
      <4> QED
        BY <4>1, <4>2
    <3>5. CASE written.expires_at = new.expires_at
      BY <3>1, <3>4, <3>5
    <3>6. CASE written.expires_at # new.expires_at
      <4>1. old # None /\ userstatus[u] \in UserStatus
        BY <2>2, <2>4, <3>6
      <4>2. written.expires_at = userstatus[u].expires_at
        BY <2>4, <3>6, <4>1 DEF Updated
      <4> QED
        BY <1>1, <3>1, <4>1, <4>2
    <3> QED
      BY <3>5, <3>6
  <2> QED
    BY <2>3, <2>4
<1>4. ASSUME NEW r \in Requests, RefundCommit(r)
      PROVE  userstatus'[u].expires_at <= now' + Bought(u)'
  <2> DEFINE w == req[r].user
  <2>1. /\ At(r, "refund_commit") /\ RequestOK(req[r]) /\ now' = now
        /\ userstatus' = [userstatus EXCEPT ![w].expires_at = req[r].at]
    BY <1>4 DEF RefundCommit, ApiInv
  <2>2. w \in Users /\ userstatus[w] \in UserStatus /\ req[r].at <= now /\ req[r].at \in Nat
    BY <2>1, <1>t, RefundedRows DEF At, RequestOK, ApiTypeOK, Request
  <2>3. CASE u = w
    <3>1. userstatus'[u].expires_at = req[r].at
      BY <2>1, <2>2, <2>3, <1>t DEF TablesTypeOK, UserStatus
    <3> QED
      BY <1>b, <2>1, <2>2, <3>1
  <2>4. CASE u # w
    BY <1>1, <1>t, <2>1, <2>2, <2>4 DEF TablesTypeOK
  <2> QED
    BY <2>3, <2>4
<1> QED
  BY <1>2, <1>3, <1>4, OnlyCommitsWrite

LEMMA DaysInit == ApiInit => DaysInv
  BY DEF ApiInit, TablesInit, DaysInv, NoTimeWithoutMoney, PromiseOK, Idle

LEMMA DaysInvStep == ApiInv /\ DaysInv /\ [ApiSystemNext]_apiVars => DaysInv'
  BY DaysStep, PromisesStep DEF DaysInv

(* No payment is credited twice: nobody has more time left than the days of *)
(* the payments on record, whatever returns of them overlap.                *)
THEOREM TimeIsPaidFor == ApiSpec => []NoTimeWithoutMoney
<1>1. DaysInv => NoTimeWithoutMoney
  BY DEF DaysInv
<1> QED
  BY <1>1, DaysInit, DaysInvStep, ApiInvariant, PTL DEF ApiSpec

=============================================================================
