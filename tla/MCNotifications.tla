---------------------------- MODULE MCNotifications ----------------------------
(* A user Auth knows and one it does not, both in the audience of one event *)
(* of the admin panel.                                                      *)
EXTENDS Notifications, TLC

CONSTANTS u1, u2, m1, m2, f1, f2, f3, a1

MCAudience == [a \in AdminEvents |-> Users]
==============================================================================
