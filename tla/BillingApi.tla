------------------------------ MODULE BillingApi ------------------------------
(***************************************************************************)
(* The billing API: billing/api/v1/yookassa.py and the BillingService it   *)
(* calls (billing/services/billing_service.py).  One asynchronous worker   *)
(* serves every request, so a handler runs undisturbed from one await to   *)
(* the next and any other request may run in between: an action below is   *)
(* such a stretch.  YooKassa, the payer and the expiry of a Redis key are  *)
(* the environment.                                                        *)
(***************************************************************************)
EXTENDS BillingTables, FiniteSetsExt

CONSTANTS Payments,     \* YooKassa payment ids
          Requests,     \* requests the API may be serving at once
          Owner,        \* metadata.user_id of each payment
          Days,         \* the days of the tariff each payment buys
          RefundWindow  \* how long after a payment it may be refunded

ASSUME ApiAssumption ==
  /\ IsFiniteSet(Payments)
  /\ Owner \in [Payments -> Users]
  /\ Days \in [Payments -> Nat \ {0}]
  /\ RefundWindow \in Nat

Row == [status : StatusEnum, created_at : Nat]

ASSUME RowAssumption == None \notin Payments \cup Row

VARIABLES payment, \* the payment table: a row for each payment, or None
          pair,    \* Redis: the pair redis_id -> yoo_id of each payment
          yoo,     \* YooKassa: the payment object it keeps
          req      \* the requests in progress and what each has read so far

apiOwn == <<payment, pair, yoo, req>>
apiVars == <<tableVars, apiOwn>>

PairState == {"none", "live", "expired", "deleted"}

YooPayment == [status : {"none", "pending", "succeeded", "canceled"},
               card   : BOOLEAN,
               refund : {"no", "pending", "succeeded"}]

BuyPC    == {"create_pair", "yoo_get", "userstatus", "post_payment",
             "accepted", "del_pair"}
RefundPC == {"get_payment", "refund", "refund_commit", "post_refund"}

Request == [pc     : {"idle"} \cup BuyPC \cup RefundPC,
            user   : Users \cup {None},       \* the user a refund is asked for
            pay    : Payments \cup {None},    \* the payment worked on
            status : StatusEnum \cup {None},  \* its status, as YooKassa said
            old    : UserStatus \cup {None},  \* the row as it was loaded
            new    : UserStatus \cup {None},  \* the row as it was changed
            at     : Nat]                     \* when the transaction began

Idle == [pc |-> "idle", user |-> None, pay |-> None, status |-> None,
         old |-> None, new |-> None, at |-> 0]

ApiTypeOK ==
  /\ TablesTypeOK
  /\ payment \in [Payments -> Row \cup {None}]
  /\ pair \in [Payments -> PairState]
  /\ yoo \in [Payments -> YooPayment]
  /\ req \in [Requests -> Request]

ApiInit ==
  /\ TablesInit
  /\ payment = [p \in Payments |-> None]
  /\ pair = [p \in Payments |-> "none"]
  /\ yoo = [p \in Payments |->
              [status |-> "none", card |-> FALSE, refund |-> "no"]]
  /\ req = [r \in Requests |-> Idle]

------------------------------------------------------------------------------
At(r, pc)   == req[r].pc = pc
Finish(r)   == req' = [req EXCEPT ![r] = Idle]

(* After its commit a handler goes on with the user and the payment only.   *)
Goto(r, pc) ==
  req' = [req EXCEPT ![r] = [Idle EXCEPT !.pc   = pc,
                                         !.user = req[r].user,
                                         !.pay  = req[r].pay]]

HasStatus(p, status) == payment[p] # None /\ payment[p].status = status
PaymentsOf(u)        == {p \in Payments : Owner[p] = u}

------------------------------------------------------------------------------
(* GET or POST buy_subscription: YooKassa creates a payment, then the pair  *)
(* that leads from the return_url back to it is stored for redis_expire     *)
(* seconds.                                                                 *)
YooPaymentCreate(r, p) ==
  /\ At(r, "idle")
  /\ yoo[p].status = "none"
  /\ yoo' = [yoo EXCEPT ![p].status = "pending"]
  /\ req' = [req EXCEPT ![r] = [Idle EXCEPT !.pc = "create_pair", !.pay = p]]
  /\ UNCHANGED <<tableVars, payment, pair>>

CreatePairId(r) ==
  /\ At(r, "create_pair")
  /\ pair' = [pair EXCEPT ![req[r].pay] = "live"]
  /\ Finish(r)
  /\ UNCHANGED <<tableVars, payment, yoo>>

------------------------------------------------------------------------------
(* GET buy_return/{redis_id}.                                               *)
GetYooId(r, p) ==
  /\ At(r, "idle")
  /\ pair[p] = "live"
  /\ req' = [req EXCEPT ![r] = [Idle EXCEPT !.pc = "yoo_get", !.pay = p]]
  /\ UNCHANGED <<tableVars, payment, pair, yoo>>

(* 404: the pair has expired or was deleted, and the request changes nothing. *)
GetYooIdNotFound(r, p) ==
  /\ At(r, "idle")
  /\ pair[p] \in {"expired", "deleted"}
  /\ UNCHANGED apiVars

(* A payment without a card ends as a KeyError in _post_payment_obj, which  *)
(* rolls back whatever was read and added on the way there.                 *)
YooPaymentGet(r) ==
  LET seen == yoo[req[r].pay] IN
  /\ At(r, "yoo_get")
  /\ \/ /\ seen.card
        /\ req' = [req EXCEPT ![r].pc = "userstatus", ![r].status = seen.status]
     \/ ~seen.card /\ Finish(r)
  /\ UNCHANGED <<tableVars, payment, pair, yoo>>

(* Mutated form of Paid: the status of the payment is not looked at.        *)
PaidAlways(row, status, days) == Prolonged(row, now, days)

(* What becomes of the row of a payer: the subscription is prolonged only   *)
(* by a payment that succeeded.                                             *)
Paid(row, status, days) ==
  IF status = "succeeded" THEN Prolonged(row, now, days) ELSE row

GetOrPostUserstatus(r) ==
  LET p   == req[r].pay
      row == userstatus[Owner[p]]
  IN
  /\ At(r, "userstatus")
  /\ req' = [req EXCEPT
       ![r].pc  = "post_payment",
       ![r].old = row,
       ![r].new = Paid(IF row = None THEN NewUserStatus(now) ELSE row,
                       req[r].status, Days[p]),
       ![r].at  = now]
  /\ UNCHANGED <<tableVars, payment, pair, yoo>>

(* Mutated form of Conflict: the payment table has a key of its own.        *)
ConflictOfUsers(r) ==
  req[r].old = None /\ userstatus[Owner[req[r].pay]] # None

(* The commit breaks a primary key: the payment, or the user it would have  *)
(* inserted, has a row by now.                                              *)
Conflict(r) ==
  \/ payment[req[r].pay] # None
  \/ req[r].old = None /\ userstatus[Owner[req[r].pay]] # None

PostPaymentPg(r) ==
  LET p   == req[r].pay
      u   == Owner[p]
      old == req[r].old
      new == req[r].new
  IN
  /\ At(r, "post_payment")
  /\ ~Conflict(r)
  /\ payment' = [payment EXCEPT
       ![p] = [status |-> req[r].status, created_at |-> req[r].at]]
  /\ userstatus' = [userstatus EXCEPT
       ![u] = IF old = None THEN new ELSE Updated(userstatus[u], old, new)]
  /\ Goto(r, "accepted")
  /\ UNCHANGED <<now, published, pair, yoo>>

(* Mutated forms of PostPaymentRejected: the IntegrityError is swallowed, or *)
(* the commit is retried until it goes through.                             *)
PostPaymentSwallowed(r) ==
  /\ At(r, "post_payment")
  /\ Conflict(r)
  /\ Goto(r, "accepted")
  /\ UNCHANGED <<tableVars, payment, pair, yoo>>


PostPaymentRejected(r) ==
  /\ At(r, "post_payment")
  /\ Conflict(r)
  /\ Finish(r)
  /\ UNCHANGED <<tableVars, payment, pair, yoo>>

(* The event goes out whatever the status of the payment is.                *)
PostEventAccepted(r) ==
  /\ At(r, "accepted")
  /\ PostEvent(Owner[req[r].pay], "payment_accepted")
  /\ Goto(r, "del_pair")
  /\ UNCHANGED <<now, userstatus, payment, pair, yoo>>

DelRedisPair(r) ==
  /\ At(r, "del_pair")
  /\ pair' = [pair EXCEPT ![req[r].pay] = IF @ = "live" THEN "deleted" ELSE @]
  /\ Finish(r)
  /\ UNCHANGED <<tableVars, payment, yoo>>

------------------------------------------------------------------------------
(* GET refunds_subscription/{user_id}: one refund for a user, ever; the     *)
(* latest succeeded payment, if it is young enough.                         *)
Refunded(u) == \E p \in PaymentsOf(u) : HasStatus(p, "refund")

BeginRefund(r, u) ==
  /\ At(r, "idle")
  /\ ~Refunded(u)
  /\ req' = [req EXCEPT ![r] = [Idle EXCEPT !.pc = "get_payment", !.user = u]]
  /\ UNCHANGED <<tableVars, payment, pair, yoo>>

RefundDenied(r, u) ==
  /\ At(r, "idle")
  /\ Refunded(u)
  /\ UNCHANGED apiVars

SucceededOf(u) == {p \in PaymentsOf(u) : HasStatus(p, "succeeded")}
Latest(P)      == {p \in P : \A q \in P :
                      payment[q].created_at <= payment[p].created_at}
Refundable(p)  == payment[p].created_at + RefundWindow >= now

GetPaymentByUserid(r) ==
  LET latest == Latest(SucceededOf(req[r].user)) IN
  /\ At(r, "get_payment")
  /\ \/ \E p \in latest :
           /\ Refundable(p)
           /\ req' = [req EXCEPT ![r].pc = "refund", ![r].pay = p]
     \/ /\ latest = {} \/ \E p \in latest : ~Refundable(p)
        /\ Finish(r)
  /\ UNCHANGED <<tableVars, payment, pair, yoo>>

(* Mutated form of RefundProcess: the status in the answer is not checked.  *)
RefundProcessUnchecked(r) ==
  LET p == req[r].pay IN
  /\ At(r, "refund")
  /\ yoo[p].status = "succeeded" /\ yoo[p].refund = "no"
  /\ \E refund \in {"pending", "succeeded"} : yoo' = [yoo EXCEPT ![p].refund = refund]
  /\ req' = [req EXCEPT ![r].pc = "refund_commit", ![r].at = now]
  /\ UNCHANGED <<tableVars, payment, pair>>

(* YooKassa returns the money of a payment once.  It answers succeeded, or  *)
(* pending, or refuses; the handler carries on only with succeeded.         *)
RefundProcess(r) ==
  LET p == req[r].pay IN
  /\ At(r, "refund")
  /\ \/ /\ yoo[p].status = "succeeded" /\ yoo[p].refund = "no"
        /\ \/ /\ yoo' = [yoo EXCEPT ![p].refund = "succeeded"]
              /\ req' = [req EXCEPT ![r].pc = "refund_commit", ![r].at = now]
           \/ yoo' = [yoo EXCEPT ![p].refund = "pending"] /\ Finish(r)
     \/ UNCHANGED yoo /\ Finish(r)
  /\ UNCHANGED <<tableVars, payment, pair>>

(* Two UPDATEs in one transaction: the subscription ends at the moment of   *)
(* the refund and the payment is marked.                                    *)
RefundCommit(r) ==
  /\ At(r, "refund_commit")
  /\ userstatus' = [userstatus EXCEPT ![req[r].user].expires_at = req[r].at]
  /\ payment' = [payment EXCEPT ![req[r].pay].status = "refund"]
  /\ Goto(r, "post_refund")
  /\ UNCHANGED <<now, published, pair, yoo>>

PostEventRefund(r) ==
  /\ At(r, "post_refund")
  /\ PostEvent(req[r].user, "payment_refund")
  /\ Finish(r)
  /\ UNCHANGED <<now, userstatus, payment, pair, yoo>>

------------------------------------------------------------------------------
(* An exception, a lost connection or a restart between two steps: the      *)
(* session rolls back and the request is gone.                              *)
RequestFails(r) ==
  /\ ~At(r, "idle")
  /\ Finish(r)
  /\ UNCHANGED <<tableVars, payment, pair, yoo>>

(* The environment: the payer enters a card on YooKassa's page or gives up, *)
(* YooKassa captures the payment or cancels it, a pending refund settles,   *)
(* Redis drops the pair redis_expire seconds after it was stored.           *)
EnterCard(p) ==
  /\ yoo[p].status = "pending" /\ ~yoo[p].card
  /\ yoo' = [yoo EXCEPT ![p].card = TRUE]
  /\ UNCHANGED <<tableVars, payment, pair, req>>

Capture(p) ==
  /\ yoo[p].status = "pending" /\ yoo[p].card
  /\ yoo' = [yoo EXCEPT ![p].status = "succeeded"]
  /\ UNCHANGED <<tableVars, payment, pair, req>>

Cancel(p) ==
  /\ yoo[p].status = "pending"
  /\ yoo' = [yoo EXCEPT ![p].status = "canceled"]
  /\ UNCHANGED <<tableVars, payment, pair, req>>

RefundSettles(p) ==
  /\ yoo[p].refund = "pending"
  /\ \E refund \in {"no", "succeeded"} : yoo' = [yoo EXCEPT ![p].refund = refund]
  /\ UNCHANGED <<tableVars, payment, pair, req>>

PairExpires(p) ==
  /\ pair[p] = "live"
  /\ pair' = [pair EXCEPT ![p] = "expired"]
  /\ UNCHANGED <<tableVars, payment, yoo, req>>

------------------------------------------------------------------------------
StartRequest(r) ==
  \/ \E p \in Payments : \/ YooPaymentCreate(r, p)
                         \/ GetYooId(r, p) \/ GetYooIdNotFound(r, p)
  \/ \E u \in Users : BeginRefund(r, u) \/ RefundDenied(r, u)

RequestStep(r) ==
  \/ CreatePairId(r)
  \/ YooPaymentGet(r) \/ GetOrPostUserstatus(r)
  \/ PostPaymentPg(r) \/ PostPaymentRejected(r)
  \/ PostEventAccepted(r) \/ DelRedisPair(r)
  \/ GetPaymentByUserid(r) \/ RefundProcess(r)
  \/ RefundCommit(r) \/ PostEventRefund(r)

Environment ==
  \E p \in Payments : \/ EnterCard(p) \/ Capture(p) \/ Cancel(p)
                      \/ RefundSettles(p) \/ PairExpires(p)

ApiNext ==
  \/ \E r \in Requests : StartRequest(r) \/ RequestStep(r) \/ RequestFails(r)
  \/ Environment

ApiSystemNext == ApiNext \/ (Tick /\ UNCHANGED apiOwn)

(* The event loop runs every request that can go on; nobody is forced to    *)
(* send one, nothing is forced to fail and the payer need not pay.          *)
ApiFairness == \A r \in Requests : WF_apiVars(RequestStep(r))

ApiSpec == ApiInit /\ [][ApiSystemNext]_apiVars
ApiFairSpec == ApiSpec /\ ApiFairness

------------------------------------------------------------------------------
(* PROPERTIES *)

(* No subscription runs that nobody paid for: as long as the time of a user *)
(* is not up, one of his payments is on record as succeeded.  Refunds,      *)
(* stale writes and requests that overlap never leave time running on       *)
(* nothing but refunded or unpaid payments.                                 *)
RunningMeansPaid ==
  \A u \in Users :
    userstatus[u] # None /\ Running(userstatus[u], now) => SucceededOf(u) # {}

(* A payment is credited at most once: from now on, a user has at most the  *)
(* days of his payments on record left, however often the return_url of a   *)
(* payment is opened and however its requests overlap.                      *)
Credited(u) == {p \in PaymentsOf(u) : HasStatus(p, "succeeded") \/ HasStatus(p, "refund")}
DaysOf(P)   == MapThenSumSet(LAMBDA p : Days[p], P)

NoTimeWithoutMoney ==
  \A u \in Users :
    userstatus[u] # None => userstatus[u].expires_at <= now + DaysOf(Credited(u))

(* buy_return gives up the pair that leads to a payment only when the       *)
(* payment is on record: until then the payer may open the return_url again.*)
DeletedPairRecorded ==
  \A p \in Payments : pair[p] = "deleted" => payment[p] # None

(* A user hears of a refund only when his money went back and the books say *)
(* so, and no request is about to tell him of another: a refund YooKassa    *)
(* left pending, refused or answered to another request is not announced.   *)
RefundNoticeIsTrue ==
  /\ \A u \in Users : <<u, "payment_refund">> \in published =>
       \E p \in PaymentsOf(u) : HasStatus(p, "refund") /\ yoo[p].refund = "succeeded"
  /\ \A r \in Requests : At(r, "post_refund") =>
       HasStatus(req[r].pay, "refund") /\ yoo[req[r].pay].refund = "succeeded"

(* The API keeps what PaymentLedger promises: YooKassa's view of a payment  *)
(* tells where its money is, the payment table is the books.                *)
Money(p) ==
  IF yoo[p].status # "succeeded" THEN "due"
  ELSE IF yoo[p].refund = "succeeded" THEN "returned" ELSE "taken"

Entry(p) ==
  IF payment[p] = None THEN "absent"
  ELSE IF payment[p].status \in {"succeeded", "refund"} THEN payment[p].status
  ELSE "unpaid"

Ledger == INSTANCE PaymentLedger WITH money <- [p \in Payments |-> Money(p)],
                                      entry <- [p \in Payments |-> Entry(p)]
KeepsLedger == Ledger!LedgerSpec


------------------------------------------------------------------------------
(* What the repository says of the API and the API does not keep. *)

(* "If the payment succeeded, the subscription is prolonged": a succeeded   *)
(* payment recorded while the subscription runs adds its days to the time   *)
(* the user has.  Two returns that overlap both start from the same row.    *)
EachSuccessProlongs ==
  [][\A r \in Requests, u \in Users :
       /\ PostPaymentPg(r) /\ req[r].status = "succeeded"
       /\ u = Owner[req[r].pay]
       /\ userstatus[u] # None /\ Running(userstatus[u], now)
       => userstatus'[u].expires_at = userstatus[u].expires_at + Days[req[r].pay]]_apiVars

(* "A refund has already been made; only one is possible": a user is        *)
(* refunded one payment at most.  The check and the refund are awaits apart.*)
OneRefundPerUser ==
  \A u \in Users : \A p, q \in PaymentsOf(u) :
    HasStatus(p, "refund") /\ HasStatus(q, "refund") => p = q

(* "The worker follows the status of the payments": a payment on record as  *)
(* pending whose money arrives becomes succeeded.                           *)
PendingIsFollowed ==
  \A p \in Payments :
    (HasStatus(p, "pending") /\ yoo[p].status = "succeeded")
      ~> HasStatus(p, "succeeded")

------------------------------------------------------------------------------
(* The inductive invariant of the proofs in BillingApiProofs: what a        *)
(* request may rely on at each of its steps, whatever the others do.        *)
RequestOK(q) ==
  /\ q.pc \in BuyPC => q.pay \in Payments /\ yoo[q.pay].status # "none"
  /\ q.pc \in {"userstatus", "post_payment"} =>
       /\ q.status \in {"pending", "succeeded", "canceled"}
       /\ q.status = "succeeded" => yoo[q.pay].status = "succeeded"
  /\ q.pc = "post_payment" =>
       /\ q.new \in UserStatus
       /\ q.old # None => userstatus[Owner[q.pay]] # None
       /\ q.status # "succeeded" =>
            IF q.old = None THEN q.new.expires_at <= now
            ELSE q.new.expires_at = q.old.expires_at
  /\ q.pc \in {"accepted", "del_pair"} => payment[q.pay] # None
  /\ q.pc \in RefundPC => q.user \in Users
  /\ q.pc \in RefundPC \ {"get_payment"} =>
       /\ q.pay \in PaymentsOf(q.user)
       /\ HasStatus(q.pay, "succeeded") \/ HasStatus(q.pay, "refund")
  /\ q.pc = "refund_commit" => yoo[q.pay].refund = "succeeded" /\ q.at <= now

YooOK ==
  \A p \in Payments :
    /\ pair[p] # "none" => yoo[p].status # "none"
    /\ yoo[p].refund # "no" => yoo[p].status = "succeeded"

(* The books against YooKassa: a row has a payer with a row of his own; a   *)
(* payment recorded as succeeded was captured, a refunded one was returned. *)
BooksOK ==
  \A p \in Payments : payment[p] # None =>
    /\ userstatus[Owner[p]] # None
    /\ payment[p].status \in {"succeeded", "refund"} => yoo[p].status = "succeeded"
    /\ payment[p].status = "refund" => yoo[p].refund = "succeeded"

ApiInv ==
  /\ ApiTypeOK
  /\ YooOK
  /\ BooksOK
  /\ \A r \in Requests : RequestOK(req[r])
  /\ DeletedPairRecorded
  /\ RunningMeansPaid

==============================================================================
