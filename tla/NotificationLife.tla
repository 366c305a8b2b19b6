--------------------------- MODULE NotificationLife ---------------------------
(* What the notification service promises of its table: a notification is    *)
(* stored for one user and stays his; it becomes ready, then done, and goes  *)
(* back nowhere; a commit of the sender finishes notifications that are      *)
(* ready, all of one user.                                                   *)
CONSTANTS Ids, Users, None

VARIABLES life, \* where each notification stands
          to    \* whom it is for

lifeVars == <<life, to>>

LifeInit ==
  /\ life = [i \in Ids |-> "absent"]
  /\ to = [i \in Ids |-> None]

Store(i, u) ==
  /\ life[i] = "absent"
  /\ \E stored \in {"stored", "ready"} : life' = [life EXCEPT ![i] = stored]
  /\ to' = [to EXCEPT ![i] = u]

Complete(i) ==
  /\ life[i] = "stored"
  /\ life' = [life EXCEPT ![i] = "ready"]
  /\ UNCHANGED to

Done(u, S) ==
  /\ \A i \in S : life[i] = "ready" /\ to[i] = u
  /\ life' = [i \in Ids |-> IF i \in S THEN "done" ELSE life[i]]
  /\ UNCHANGED to

LifeNext ==
  \/ \E i \in Ids : Complete(i) \/ \E u \in Users : Store(i, u)
  \/ \E u \in Users : \E S \in SUBSET {i \in Ids : life[i] = "ready"} : Done(u, S)

LifeSpec == LifeInit /\ [][LifeNext]_lifeVars
===============================================================================
