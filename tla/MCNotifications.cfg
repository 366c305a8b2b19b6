SPECIFICATION NtfFairSpec
CONSTANTS
  u1 = u1
  u2 = u2
  m1 = m1
  m2 = m2
  f1 = f1
  f2 = f2
  f3 = f3
  a1 = a1
  None = None
  Messages = {m1}
  Films = {f1, f2, f3}
  Users = {u1, u2}
  KnownUsers = {u1}
  Types = {"user_create", "payment_accepted", "received_likes", "new_films"}
  AdminEvents = {a1}
  Audience <- MCAudience
  QueueBound = 1
INVARIANTS
  NtfTypeOK
  NobodyUnknownIsMailed
  DoneMeansWritten
  NoSecondMail
PROPERTIES
  InstantIsServed
  KeepsLives
