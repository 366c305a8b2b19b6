SPECIFICATION ApiSpec
CONSTANTS
  u1 = u1
  p1 = p1
  p2 = p2
  p3 = p3
  None = None
  Users = {u1}
  Payments = {p2, p3}
  Requests = {r1, r2}
  Owner <- MCOwner
  Days <- MCDays
  RefundWindow = 0
  Horizon = 1
SYMMETRY SymmetricRenewals
INVARIANTS
  ApiTypeOK
  RunningMeansPaid
  NoTimeWithoutMoney
  DeletedPairRecorded
  RefundNoticeIsTrue
PROPERTY KeepsLedger
