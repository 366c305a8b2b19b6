-------------------------------- MODULE Billing --------------------------------
(***************************************************************************)
(* The billing service as it is deployed (docker-compose): the API and the *)
(* subscription worker run beside one another and share nothing but the    *)
(* database, where each reads a row, does something else and writes the    *)
(* columns it changed.                                                     *)
(***************************************************************************)
EXTENDS BillingApi, SubscriptionWorker

vars == <<tableVars, apiOwn, workerOwn>>

TypeOK == ApiTypeOK /\ WorkerTypeOK

Init == ApiInit /\ WorkerInit

Next ==
  \/ ApiNext /\ UNCHANGED workerOwn
  \/ WorkerNext /\ UNCHANGED apiOwn
  \/ Tick /\ UNCHANGED <<apiOwn, workerOwn>>

Spec == Init /\ [][Next]_vars

(* The event loop of the API and the loop of the worker go on.              *)
FairSpec == Spec /\ ApiFairness /\ WorkerFairness

------------------------------------------------------------------------------
(* PROPERTIES *)

(* Nobody is a subscriber for nothing: whoever holds the role has, or had,  *)
(* a payment that succeeded.  The money is taken by YooKassa, recorded by a *)
(* request that may overlap others, read by the worker at another moment    *)
(* and answered by Auth at yet another.                                     *)
SubscriberHasPaid == \A u \in roles : Credited(u) # {}

(* A row that runs on one payment and says that the role is granted.        *)
PaidOnce(u) == \A p, q \in Credited(u) : p = q

FirstFlagStands(u) == PaidOnce(u) /\ IsActual(u) /\ IsRunning(u)

(* A running subscription of one payment that is marked as granted is       *)
(* granted: whatever moment the worker crashes at between Auth and its own  *)
(* commit, and whatever returns and refunds of the user are under way, it   *)
(* never believes wrongly that he has the role.  (A renewal may, see        *)
(* FlagMeansGranted.)                                                       *)
FirstFlagMeansGranted == \A u \in Users : FirstFlagStands(u) => u \in roles

------------------------------------------------------------------------------
(* What the repository says of the two together and they do not keep. *)

(* Notice is given "if less than a day of the subscription is left", and    *)
(* expires_status says that it was: a return that finds this mark on the    *)
(* row and makes the subscription run for longer takes it back, since the   *)
(* notice was of an earlier end.                                            *)
RenewalTakesMarkBack ==
  [][\A r \in Requests, u \in Users :
       /\ PostPaymentPg(r) /\ req[r].status = "succeeded"
       /\ u = Owner[req[r].pay]
       /\ req[r].old # None /\ req[r].old.expires_status
       /\ userstatus'[u].expires_at >= now + WarnWindow
       => ~userstatus'[u].expires_status]_vars

------------------------------------------------------------------------------
(* The inductive invariant of the proof of FirstFlagMeansGranted: beside a  *)
(* row the worker is about to take the role of, there are the requests that *)
(* are about to write it.                                                   *)
ToRevoke(u) ==
  \/ wrk.pc \in {"del", "del_commit", "expired_event"} /\ u \in wrk.batch
  \/ WorkerAt("del_commit") /\ u = wrk.user

FlagInv ==
  /\ FirstFlagMeansGranted
  /\ \A u \in Users : ToRevoke(u) => ~FirstFlagStands(u)
  /\ \A u \in Users : IsActual(u) => Credited(u) # {}
  /\ WorkerAt("post_commit") => wrk.user \in roles
  /\ \A r \in Requests :
       At(r, "post_payment") /\ req[r].new.actual => req[r].old # None /\ req[r].old.actual

==============================================================================
