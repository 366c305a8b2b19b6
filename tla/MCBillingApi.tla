----------------------------- MODULE MCBillingApi -----------------------------
(* A user who pays several times, so that renewals, refunds and returns of   *)
(* the same payment overlap.                                                 *)
EXTENDS BillingApi, TLC

CONSTANTS u1, p1, p2, p3

MCOwner == [p \in Payments |-> u1]
MCDays  == [p \in Payments |-> IF p = p1 THEN 1 ELSE 2]

SymmetricRequests == Permutations(Requests)
SymmetricRenewals == Permutations(Requests) \cup Permutations({p2, p3})
==============================================================================
