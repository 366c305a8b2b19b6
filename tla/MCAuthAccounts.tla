---------------------------- MODULE MCAuthAccounts ----------------------------
(* Room for two accounts, the superuser's included.  The provider's user   *)
(* has an e-mail that the form may register too, and a name that may be     *)
(* taken.                                                                   *)
EXTENDS AuthAccounts

CONSTANTS root, ann, bob, rootMail, annMail, bobMail, p1, p2, short, yandexAnn

MCSocialName == [f \in Profiles |-> ann]
MCProfileEmail == [f \in Profiles |-> annMail]
==============================================================================
