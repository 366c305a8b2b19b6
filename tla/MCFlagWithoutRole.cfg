SPECIFICATION Spec
CONSTANTS
  u1 = u1
  p1 = p1
  p2 = p2
  None = None
  Users = {u1}
  Payments = {p1, p2}
  Requests = {r1}
  Owner <- MCOwner
  Days <- MCDays
  RefundWindow = 0
  KnownUsers = {u1}
  Limit = 1
  WarnWindow = 1
  Horizon = 2
INVARIANT FlagMeansGranted
