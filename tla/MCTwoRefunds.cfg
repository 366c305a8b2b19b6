SPECIFICATION ApiSpec
CONSTANTS
  u1 = u1
  p1 = p1
  p2 = p2
  p3 = p3
  None = None
  Users = {u1}
  Payments = {p1, p2}
  Requests = {r1, r2}
  Owner <- MCOwner
  Days <- MCDays
  RefundWindow = 1
  Horizon = 1
SYMMETRY SymmetricRequests
INVARIANT OneRefundPerUser
