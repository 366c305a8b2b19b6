------------------------------- MODULE MCBilling -------------------------------
(* A user whose first payment buys one day and whose second buys two. *)
EXTENDS Billing

CONSTANTS u1, p1, p2

MCOwner == [p \in Payments |-> u1]
MCDays  == [p \in Payments |-> IF p = p1 THEN 1 ELSE 2]
==============================================================================
