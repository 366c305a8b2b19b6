SPECIFICATION FairSpec
CONSTANTS
  u1 = u1
  p1 = p1
  p2 = p2
  None = None
  Users = {u1}
  Payments = {p2}
  Requests = {r1}
  Owner <- MCOwner
  Days <- MCDays
  RefundWindow = 1
  KnownUsers = {u1}
  Limit = 1
  WarnWindow = 2
  Horizon = 3
INVARIANTS
  TypeOK
  SubscriberHasPaid
  FirstFlagMeansGranted
PROPERTIES
  PayerGetsRole
  MarkedRoleIsRevoked
  
