---------------------------- MODULE PaymentLedger ----------------------------
(***************************************************************************)
(* What the billing API promises about money, whatever its requests do to  *)
(* one another: a payment is entered in the books once; it is entered as   *)
(* succeeded only after its money arrived and as refunded only after its   *)
(* money went back; and an entry never returns to what it was before.  It  *)
(* does not promise that every payment is entered.                         *)
(***************************************************************************)
CONSTANT Payments

VARIABLES money, \* where the money of each payment is
          entry  \* what the books say of it

ledgerVars == <<money, entry>>

LedgerTypeOK ==
  /\ money \in [Payments -> {"due", "taken", "returned"}]
  /\ entry \in [Payments -> {"absent", "unpaid", "succeeded", "refund"}]

LedgerInit ==
  /\ money = [p \in Payments |-> "due"]
  /\ entry = [p \in Payments |-> "absent"]

Take(p) ==
  /\ money[p] = "due"
  /\ money' = [money EXCEPT ![p] = "taken"]
  /\ UNCHANGED entry

Return(p) ==
  /\ money[p] = "taken"
  /\ money' = [money EXCEPT ![p] = "returned"]
  /\ UNCHANGED entry

Enter(p) ==
  /\ entry[p] = "absent"
  /\ \/ entry' = [entry EXCEPT ![p] = "unpaid"]
     \/ money[p] # "due" /\ entry' = [entry EXCEPT ![p] = "succeeded"]
  /\ UNCHANGED money

Reverse(p) ==
  /\ entry[p] = "succeeded" /\ money[p] = "returned"
  /\ entry' = [entry EXCEPT ![p] = "refund"]
  /\ UNCHANGED money

LedgerNext ==
  \E p \in Payments : Take(p) \/ Return(p) \/ Enter(p) \/ Reverse(p)

LedgerSpec == LedgerInit /\ [][LedgerNext]_ledgerVars

==============================================================================
