--------------------------- MODULE AuthTokensProofs ---------------------------
(***************************************************************************)
(* What holds of sessions and tokens for any users, agents, roles, lives   *)
(* of the tokens and length of a second.  TokenInv is inductive: beside    *)
(* the types it says how long the key of a replaced pair is bound to stay  *)
(* in the blocklist.                                                       *)
(***************************************************************************)
EXTENDS AuthTokens, TLAPS

USE LivesAssumption

(* No pair is from the future, and no key outlives the token.               *)
PairOK(p, n) ==
    /\ p \in Pair /\ p.at <= n
    /\ \A k \in Kinds : p.blocked[k] <= p.at + Life(k)

(* A token is in the last second of its life, or over, or its key stays in   *)
(* the blocklist until it will be.                                          *)
Ended(p, k) == WholeSeconds(p.at + Life(k))
BlockedToTheEnd(p, k, n) ==
    Ended(p, k) - n < Second \/ p.blocked[k] > Ended(p, k) - Second

LastPair(i) == row[pairs[i].user][pairs[i].agent] = i

TokenInv ==
    /\ now \in 0..MaxNow
    /\ roleTable \in SUBSET Roles
    /\ roles \in [Users -> SUBSET roleTable]
    /\ pairs \in Seq(Pair)
    /\ \A i \in 1..Len(pairs) : PairOK(pairs[i], now)
    /\ row \in [Users -> [Agents -> {NoRow} \cup 0..Len(pairs)]]
    /\ \A u \in Users, a \in Agents :
          row[u][a] \in 1..Len(pairs) =>
              pairs[row[u][a]].user = u /\ pairs[row[u][a]].agent = a
    /\ \A i \in 1..Len(pairs), k \in Kinds :
          LastPair(i) \/ BlockedToTheEnd(pairs[i], k, now)

-----------------------------------------------------------------------------
(* The truncation to whole seconds costs less than a second.                *)
LEMMA Truncation ==
    ASSUME NEW x \in Int
    PROVE  /\ WholeSeconds(x) \in Int
           /\ WholeSeconds(x) <= x /\ x - Second < WholeSeconds(x)
<1>1. x \div Second \in Int
  OBVIOUS
<1>2. Second * (x \div Second) <= x /\ x < Second * (x \div Second) + Second
  OBVIOUS
<1> QED
  BY <1>1, <1>2 DEF WholeSeconds

LEMMA Lives == \A k \in Kinds : Life(k) \in Nat
  BY DEF Life

LEMMA FunctionIsSequence ==
    ASSUME NEW S, NEW n \in Nat, NEW f \in [1..n -> S]
    PROVE  f \in Seq(S) /\ Len(f) = n
  OBVIOUS

(* The keys a handler sets reach to the last second of the token's life and *)
(* not beyond it.                                                           *)
LEMMA BlockedPair ==
    ASSUME NEW p \in Pair, NEW n \in Nat, PairOK(p, n), NEW set \in SUBSET Kinds,
           \A k \in set : Life(k) - (n - p.at) >= 0,
           NEW q,
           q = [p EXCEPT !.blocked = [k \in Kinds |->
                  IF k \in set THEN n + WholeSeconds(Life(k) - (n - p.at)) ELSE @[k]]]
    PROVE  /\ PairOK(q, n) /\ q.user = p.user /\ q.agent = p.agent /\ q.at = p.at
           /\ \A k \in Kinds : k \notin set => q.blocked[k] = p.blocked[k]
           /\ \A k \in set : BlockedToTheEnd(q, k, n)
<1> DEFINE until(k) == n + WholeSeconds(Life(k) - (n - p.at))
<1>1. p.at \in Nat /\ p.user \in Users /\ p.agent \in Agents /\ p.blocked \in [Kinds -> Nat]
  BY DEF Pair
<1>2. ASSUME NEW k \in set
      PROVE  /\ until(k) \in Nat /\ until(k) <= p.at + Life(k)
             /\ until(k) > WholeSeconds(p.at + Life(k)) - Second
  <2>1. /\ Life(k) \in Nat /\ Life(k) - (n - p.at) \in Int /\ p.at + Life(k) \in Int
        /\ Life(k) - (n - p.at) >= 0
    BY <1>1, Lives
  <2>2. /\ WholeSeconds(Life(k) - (n - p.at)) \in Int
        /\ WholeSeconds(Life(k) - (n - p.at)) <= Life(k) - (n - p.at)
        /\ Life(k) - (n - p.at) - Second < WholeSeconds(Life(k) - (n - p.at))
    BY <2>1, Truncation
  <2>3. /\ WholeSeconds(p.at + Life(k)) \in Int
        /\ WholeSeconds(p.at + Life(k)) <= p.at + Life(k)
    BY <2>1, Truncation
  <2>4. WholeSeconds(Life(k) - (n - p.at)) >= 0
    <3>1. (Life(k) - (n - p.at)) \div Second >= 0
      BY <2>1
    <3> QED
      BY <3>1, <2>1 DEF WholeSeconds
  <2> QED
    BY <1>1, <2>1, <2>2, <2>3, <2>4
<1>3. q = [user |-> p.user, agent |-> p.agent, at |-> p.at,
           blocked |-> [k \in Kinds |-> IF k \in set THEN until(k) ELSE p.blocked[k]]]
  BY DEF Pair
<1> HIDE DEF until
<1>4. /\ q.user = p.user /\ q.agent = p.agent /\ q.at = p.at
      /\ \A k \in Kinds : q.blocked[k] = IF k \in set THEN until(k) ELSE p.blocked[k]
  BY <1>3
<1>5. q \in Pair
  BY <1>1, <1>2, <1>3 DEF Pair
<1>6. PairOK(q, n)
  BY <1>1, <1>2, <1>4, <1>5 DEF PairOK
<1>7. \A k \in set : BlockedToTheEnd(q, k, n)
  BY <1>2, <1>4 DEF BlockedToTheEnd, Ended
<1> QED
  BY <1>4, <1>6, <1>7

(* What a handler leaves alone of the pairs while it sets keys for the       *)
(* tokens ts, none of which is past its life.                               *)
LEMMA BlockEffect ==
    ASSUME TokenInv, NEW ts \in SUBSET Tokens, \A t \in ts : RemainingLife(t) > 0,
           NEW q, q = Block(ts)
    PROVE  /\ q \in Seq(Pair) /\ Len(q) = Len(pairs)
           /\ \A i \in 1..Len(pairs) :
                /\ PairOK(q[i], now) /\ q[i].user = pairs[i].user
                /\ q[i].agent = pairs[i].agent /\ q[i].at = pairs[i].at
                /\ \A k \in Kinds :
                      IF <<i, k>> \in ts THEN BlockedToTheEnd(q[i], k, now)
                      ELSE q[i].blocked[k] = pairs[i].blocked[k]
<1>1. /\ pairs \in Seq(Pair) /\ DOMAIN pairs = 1..Len(pairs) /\ Len(pairs) \in Nat
      /\ now \in Nat /\ \A i \in 1..Len(pairs) : pairs[i] \in Pair /\ PairOK(pairs[i], now)
  BY DEF TokenInv
<1>2. ASSUME NEW i \in 1..Len(pairs)
      PROVE  /\ PairOK(q[i], now) /\ q[i].user = pairs[i].user
             /\ q[i].agent = pairs[i].agent /\ q[i].at = pairs[i].at
             /\ \A k \in Kinds :
                   IF <<i, k>> \in ts THEN BlockedToTheEnd(q[i], k, now)
                   ELSE q[i].blocked[k] = pairs[i].blocked[k]
  <2> DEFINE set == {k \in Kinds : <<i, k>> \in ts}
             p   == pairs[i]
  <2>1. q[i] = [pairs[i] EXCEPT !.blocked = [k \in Kinds |->
            IF <<i, k>> \in ts THEN now + WholeSeconds(RemainingLife(<<i, k>>)) ELSE @[k]]]
    BY <1>1 DEF Block
  <2>2. \A k \in Kinds : RemainingLife(<<i, k>>) = Life(k) - (now - pairs[i].at)
    BY DEF RemainingLife
  <2>3. q[i] = [p EXCEPT !.blocked = [k \in Kinds |->
            IF k \in set THEN now + WholeSeconds(Life(k) - (now - p.at)) ELSE @[k]]]
    BY <2>1, <2>2
  <2>4. p \in Pair /\ PairOK(p, now) /\ now \in Nat
    BY <1>1
  <2>5. set \in SUBSET Kinds /\ \A k \in set : Life(k) - (now - p.at) >= 0
    <3> SUFFICES ASSUME NEW k \in set PROVE Life(k) - (now - p.at) >= 0
      OBVIOUS
    <3>1. Life(k) \in Nat /\ p.at \in Nat
      BY <2>4, Lives DEF Pair
    <3>2. Life(k) - (now - p.at) > 0
      BY <2>2
    <3> QED
      BY <2>4, <3>1, <3>2
  <2>6. \A k \in Kinds : k \in set <=> <<i, k>> \in ts
    OBVIOUS
  <2>7. /\ PairOK(q[i], now) /\ q[i].user = p.user /\ q[i].agent = p.agent /\ q[i].at = p.at
        /\ \A k \in Kinds : k \notin set => q[i].blocked[k] = p.blocked[k]
        /\ \A k \in set : BlockedToTheEnd(q[i], k, now)
    <3> HIDE DEF p, set
    <3> QED
      BY <2>3, <2>4, <2>5, BlockedPair
  <2> QED
    BY <2>6, <2>7
<1>3. \A i \in 1..Len(pairs) : q[i] \in Pair
  BY <1>2 DEF PairOK
<1>4. q \in [1..Len(pairs) -> Pair]
  BY <1>1, <1>3 DEF Block
<1>5. q \in Seq(Pair) /\ Len(q) = Len(pairs)
  BY <1>1, <1>4, FunctionIsSequence
<1> QED
  BY <1>2, <1>5

(* Keys are set; a user's and agent's last row stays, or it is nulled and    *)
(* the tokens of its pair are blocked or past their life.                    *)
LEMMA BlockStep ==
    ASSUME TokenInv, NEW ts \in SUBSET Tokens, \A t \in ts : RemainingLife(t) > 0,
           pairs' = Block(ts), now' = now,
           row' \in [Users -> [Agents -> {NoRow} \cup 0..Len(pairs)]],
           \A u \in Users, a \in Agents :
              \/ row'[u][a] = row[u][a]
              \/ /\ row'[u][a] = 0
                 /\ \A t \in Tokens : row[u][a] = t[1] => t \in ts \/ RemainingLife(t) <= 0,
           roleTable' \in SUBSET Roles, roles' \in [Users -> SUBSET roleTable']
    PROVE  TokenInv'
<1>1. /\ pairs' \in Seq(Pair) /\ Len(pairs') = Len(pairs) /\ Len(pairs) \in Nat
      /\ \A i \in 1..Len(pairs) :
           /\ PairOK(pairs'[i], now) /\ pairs'[i].user = pairs[i].user
           /\ pairs'[i].agent = pairs[i].agent /\ pairs'[i].at = pairs[i].at
           /\ \A k \in Kinds :
                 IF <<i, k>> \in ts THEN BlockedToTheEnd(pairs'[i], k, now)
                 ELSE pairs'[i].blocked[k] = pairs[i].blocked[k]
  BY BlockEffect DEF TokenInv
<1>2. ASSUME NEW i \in 1..Len(pairs)
      PROVE  /\ pairs[i] \in Pair /\ pairs[i].user \in Users /\ pairs[i].agent \in Agents
             /\ pairs[i].at \in Nat /\ now \in Nat
  <2>1. pairs[i] \in Pair /\ now \in Nat
    BY DEF TokenInv
  <2> QED
    BY <2>1 DEF Pair
<1>3. \A u \in Users, a \in Agents :
         row'[u][a] \in 1..Len(pairs) =>
             pairs'[row'[u][a]].user = u /\ pairs'[row'[u][a]].agent = a
  <2> SUFFICES ASSUME NEW u \in Users, NEW a \in Agents, row'[u][a] \in 1..Len(pairs)
               PROVE  pairs'[row'[u][a]].user = u /\ pairs'[row'[u][a]].agent = a
    OBVIOUS
  <2>1. row'[u][a] = row[u][a]
    OBVIOUS
  <2> QED
    BY <1>1, <2>1 DEF TokenInv
<1>4. ASSUME NEW i \in 1..Len(pairs), NEW k \in Kinds, ~LastPair(i)'
      PROVE  BlockedToTheEnd(pairs'[i], k, now)
  <2> DEFINE u == pairs[i].user
             a == pairs[i].agent
             t == <<i, k>>
  <2>1. u \in Users /\ a \in Agents /\ row'[u][a] # i /\ t \in Tokens
        /\ pairs'[i].at = pairs[i].at
    BY <1>1, <1>2, <1>4 DEF LastPair, Tokens
  <2>2. CASE t \in ts
    BY <1>1, <2>2
  <2>3. CASE t \notin ts /\ row[u][a] = i
    <3>1. RemainingLife(t) <= 0
      BY <2>1, <2>3
    <3>2. Life(k) - (now - pairs[i].at) <= 0
      BY <3>1 DEF RemainingLife
    <3>3. /\ pairs[i].at \in Nat /\ now \in Nat /\ Life(k) \in Nat
      BY <1>2, Lives
    <3>4. pairs[i].at + Life(k) \in Int
      BY <3>3
    <3>5. /\ WholeSeconds(pairs[i].at + Life(k)) <= pairs[i].at + Life(k)
          /\ WholeSeconds(pairs[i].at + Life(k)) \in Int
      BY <3>4, Truncation
    <3> QED
      BY <2>1, <3>2, <3>3, <3>5 DEF BlockedToTheEnd, Ended
  <2>4. CASE t \notin ts /\ row[u][a] # i
    <3>1. BlockedToTheEnd(pairs[i], k, now)
      BY <2>4 DEF TokenInv, LastPair
    <3> QED
      BY <1>1, <2>1, <2>4, <3>1 DEF BlockedToTheEnd, Ended
  <2> QED
    BY <2>2, <2>3, <2>4
<1> QED
  BY <1>1, <1>3, <1>4 DEF TokenInv, LastPair

-----------------------------------------------------------------------------
(* Every handler but a login, by the rows it nulls.                         *)
LEMMA EndSessionsStep ==
    ASSUME TokenInv, NEW u \in Users, NEW agents \in SUBSET Agents,
           EndSessions(u, agents), now' = now,
           roleTable' \in SUBSET Roles, roles' \in [Users -> SUBSET roleTable']
    PROVE  TokenInv'
<1> DEFINE ts == OldTokens(u, agents)
<1>1. /\ pairs' = Block(ts) /\ row' = Nulled(u, agents)
  BY DEF EndSessions
<1>2. ts \in SUBSET Tokens /\ \A t \in ts : RemainingLife(t) > 0
  BY DEF OldTokens
<1>3. \A v \in Users, a \in Agents :
         row'[v][a] = IF v = u /\ a \in agents THEN 0 ELSE row[v][a]
  BY <1>1 DEF TokenInv, Nulled
<1>4. row' \in [Users -> [Agents -> {NoRow} \cup 0..Len(pairs)]]
  <2>1. Len(pairs) \in Nat /\ row \in [Users -> [Agents -> {NoRow} \cup 0..Len(pairs)]]
    BY DEF TokenInv
  <2>2. [a \in Agents |-> IF a \in agents THEN 0 ELSE row[u][a]]
          \in [Agents -> {NoRow} \cup 0..Len(pairs)]
    BY <2>1
  <2> QED
    BY <1>1, <2>1, <2>2 DEF Nulled
<1>5. \A t \in Tokens : RemainingLife(t) > 0 \/ RemainingLife(t) <= 0
  <2> SUFFICES ASSUME NEW i \in 1..Len(pairs), NEW k \in Kinds
               PROVE  RemainingLife(<<i, k>>) > 0 \/ RemainingLife(<<i, k>>) <= 0
    BY DEF Tokens
  <2>1. pairs[i] \in Pair /\ now \in Nat /\ Life(k) \in Nat
    BY Lives DEF TokenInv
  <2> QED
    BY <2>1 DEF RemainingLife, Pair
<1>6. \A a \in agents : \A t \in Tokens : row[u][a] = t[1] => t \in ts \/ RemainingLife(t) <= 0
  BY <1>5 DEF OldTokens
<1> HIDE DEF ts
<1>7. \A v \in Users, a \in Agents :
         \/ row'[v][a] = row[v][a]
         \/ /\ row'[v][a] = 0
            /\ \A t \in Tokens : row[v][a] = t[1] => t \in ts \/ RemainingLife(t) <= 0
  BY <1>3, <1>6
<1> QED
  BY <1>1, <1>2, <1>4, <1>7, BlockStep

LEMMA KeysOnlyStep ==
    ASSUME TokenInv, NEW ts \in SUBSET Tokens, \A t \in ts : RemainingLife(t) > 0,
           pairs' = Block(ts), UNCHANGED <<now, roleTable, roles, row>>
    PROVE  TokenInv'
<1>1. /\ row' \in [Users -> [Agents -> {NoRow} \cup 0..Len(pairs)]]
      /\ roleTable' \in SUBSET Roles /\ roles' \in [Users -> SUBSET roleTable']
      /\ \A u \in Users, a \in Agents : row'[u][a] = row[u][a]
  BY DEF TokenInv
<1> QED
  BY <1>1, BlockStep

(* Handlers that leave the tokens alone.                                    *)
LEMMA RolesOnlyStep ==
    ASSUME TokenInv, UNCHANGED <<now, row, pairs>>,
           roleTable' \in SUBSET Roles, roles' \in [Users -> SUBSET roleTable']
    PROVE  TokenInv'
  BY DEF TokenInv, LastPair

(* A login or a refresh: the agent's old pair is blocked before the new one  *)
(* takes its place in the last row.                                         *)
LEMMA LoginRefreshStep ==
    ASSUME TokenInv, NEW u \in Users, NEW a \in Agents, LoginRefreshService(u, a)
    PROVE  TokenInv'
<1> DEFINE ts   == OldTokens(u, {a})
           q    == Block(ts)
           n    == Len(pairs)
           last == n + 1
<1>1. /\ pairs' = Append(q, Issued(u, a))
      /\ row' = [row EXCEPT ![u][a] = last]
      /\ UNCHANGED <<now, roleTable, roles>>
  BY DEF LoginRefreshService
<1>2. ts \in SUBSET Tokens /\ \A t \in ts : RemainingLife(t) > 0
  BY DEF OldTokens
<1>3. /\ now \in Nat /\ n \in Nat /\ row \in [Users -> [Agents -> {NoRow} \cup 0..n]]
      /\ pairs \in Seq(Pair)
  BY DEF TokenInv
<1>4. /\ q \in Seq(Pair) /\ Len(q) = n
      /\ \A i \in 1..n :
           /\ PairOK(q[i], now) /\ q[i].user = pairs[i].user
           /\ q[i].agent = pairs[i].agent /\ q[i].at = pairs[i].at
           /\ \A k \in Kinds :
                 IF <<i, k>> \in ts THEN BlockedToTheEnd(q[i], k, now)
                 ELSE q[i].blocked[k] = pairs[i].blocked[k]
  <2> HIDE DEF ts
  <2> QED
    BY <1>2, BlockEffect
<1>5. /\ Issued(u, a) \in Pair /\ PairOK(Issued(u, a), now)
      /\ Issued(u, a).user = u /\ Issued(u, a).agent = a
  BY <1>3, Lives DEF Issued, Pair, PairOK
<1> HIDE DEF q
<1>6. /\ pairs' \in Seq(Pair) /\ Len(pairs') = last /\ pairs'[last] = Issued(u, a)
      /\ \A i \in 1..n : pairs'[i] = q[i]
      /\ \A i \in 1..last : i \in 1..n \/ i = last
  BY <1>1, <1>3, <1>4, <1>5
<1>7. /\ \A v \in Users, b \in Agents :
            row'[v][b] = IF v = u /\ b = a THEN last ELSE row[v][b]
      /\ row' \in [Users -> [Agents -> {NoRow} \cup 0..last]]
  <2>1. [row[u] EXCEPT ![a] = last] \in [Agents -> {NoRow} \cup 0..last]
    BY <1>3
  <2>2. row \in [Users -> [Agents -> {NoRow} \cup 0..last]]
    BY <1>3
  <2>3. row' = [row EXCEPT ![u] = [row[u] EXCEPT ![a] = last]]
    BY <1>1
  <2> QED
    BY <1>3, <2>1, <2>2, <2>3
<1>8. \A i \in 1..last : PairOK(pairs'[i], now)
  BY <1>4, <1>5, <1>6
<1>9. ASSUME NEW v \in Users, NEW b \in Agents, row'[v][b] \in 1..last
      PROVE  pairs'[row'[v][b]].user = v /\ pairs'[row'[v][b]].agent = b
  <2>1. CASE v = u /\ b = a
    BY <1>5, <1>6, <1>7, <2>1
  <2>2. CASE ~(v = u /\ b = a)
    <3>1. row'[v][b] = row[v][b] /\ row[v][b] \in 1..n
      BY <1>3, <1>7, <1>9, <2>2
    <3>2. pairs[row[v][b]].user = v /\ pairs[row[v][b]].agent = b
      BY <3>1 DEF TokenInv
    <3> QED
      BY <1>4, <1>6, <3>1, <3>2
  <2> QED
    BY <2>1, <2>2
<1>10. ASSUME NEW i \in 1..n, NEW k \in Kinds, ~LastPair(i)'
       PROVE  BlockedToTheEnd(q[i], k, now)
  <2> DEFINE v == pairs[i].user
             b == pairs[i].agent
             t == <<i, k>>
  <2>1. pairs[i] \in Pair
    BY <1>3
  <2>2. /\ v \in Users /\ b \in Agents /\ pairs[i].at \in Nat /\ t \in Tokens
        /\ pairs'[i].user = v /\ pairs'[i].agent = b /\ q[i].at = pairs[i].at
    BY <1>4, <1>6, <2>1 DEF Pair, Tokens
  <2>3. CASE t \in ts
    BY <1>4, <2>3
  <2>4. CASE t \notin ts /\ row[v][b] = i
    <3>1. v = u /\ b = a
      BY <1>7, <1>10, <2>2, <2>4 DEF LastPair
    <3>2. Life(k) \in Nat /\ pairs[i].at + Life(k) \in Int
      BY <2>2, Lives
    <3>3. ~(Life(k) - (now - pairs[i].at) > 0)
      BY <2>2, <2>4, <3>1 DEF OldTokens, RemainingLife
    <3>4. /\ WholeSeconds(pairs[i].at + Life(k)) <= pairs[i].at + Life(k)
          /\ WholeSeconds(pairs[i].at + Life(k)) \in Int
      BY <3>2, Truncation
    <3> QED
      BY <1>3, <2>2, <3>2, <3>3, <3>4 DEF BlockedToTheEnd, Ended
  <2>5. CASE t \notin ts /\ row[v][b] # i
    <3>1. BlockedToTheEnd(pairs[i], k, now)
      BY <2>5 DEF TokenInv, LastPair
    <3> QED
      BY <1>4, <2>2, <2>5, <3>1 DEF BlockedToTheEnd, Ended
  <2> QED
    BY <2>3, <2>4, <2>5
<1>11. ASSUME NEW i, i = last PROVE LastPair(i)'
  BY <1>5, <1>6, <1>7, <1>11 DEF LastPair
<1>12. \A i \in 1..last, k \in Kinds : LastPair(i)' \/ BlockedToTheEnd(pairs'[i], k, now)
  BY <1>6, <1>10, <1>11
<1> QED
  BY <1>1, <1>6, <1>7, <1>8, <1>9, <1>12 DEF TokenInv

(* Redis drops a key only when the token is in its last second, or over.     *)
LEMMA TickStep ==
    ASSUME TokenInv, Tick
    PROVE  TokenInv'
<1> DEFINE left(i) == [k \in Kinds |->
                         IF pairs[i].blocked[k] <= now + 1 THEN 0 ELSE pairs[i].blocked[k]]
<1>1. /\ now \in Nat /\ now' = now + 1 /\ now' \in 0..MaxNow
      /\ pairs \in Seq(Pair) /\ DOMAIN pairs = 1..Len(pairs) /\ Len(pairs) \in Nat
      /\ pairs' = [i \in 1..Len(pairs) |-> [pairs[i] EXCEPT !.blocked = left(i)]]
      /\ UNCHANGED <<roleTable, roles, row>>
  BY DEF TokenInv, Tick
<1>2. ASSUME NEW i \in 1..Len(pairs)
      PROVE  /\ PairOK(pairs'[i], now + 1)
             /\ pairs'[i].user = pairs[i].user /\ pairs'[i].agent = pairs[i].agent
             /\ \A k \in Kinds : BlockedToTheEnd(pairs[i], k, now)
                                   => BlockedToTheEnd(pairs'[i], k, now + 1)
  <2>1. pairs[i] \in Pair /\ PairOK(pairs[i], now)
    BY <1>1 DEF TokenInv
  <2>2. /\ pairs[i].at \in Nat /\ pairs[i].user \in Users /\ pairs[i].agent \in Agents
        /\ pairs[i].blocked \in [Kinds -> Nat] /\ pairs[i].at <= now
        /\ \A k \in Kinds : pairs[i].blocked[k] <= pairs[i].at + Life(k)
    BY <2>1 DEF Pair, PairOK
  <2>3. left(i) \in [Kinds -> Nat] /\ \A k \in Kinds : left(i)[k] \in {0, pairs[i].blocked[k]}
    BY <2>2
  <2>4. pairs'[i] = [user |-> pairs[i].user, agent |-> pairs[i].agent, at |-> pairs[i].at,
                     blocked |-> left(i)]
    BY <1>1, <2>1 DEF Pair
  <2>5. PairOK(pairs'[i], now + 1)
    <3> HIDE DEF left
    <3>1. pairs'[i] \in Pair
      BY <2>2, <2>3, <2>4 DEF Pair
    <3>2. ASSUME NEW k \in Kinds PROVE left(i)[k] <= pairs[i].at + Life(k)
      <4>1. Life(k) \in Nat /\ pairs[i].at \in Nat /\ 0 <= pairs[i].at + Life(k)
        BY <2>2, Lives
      <4>2. CASE left(i)[k] = 0
        BY <4>1, <4>2
      <4>3. CASE left(i)[k] = pairs[i].blocked[k]
        BY <2>2, <4>3
      <4> QED
        BY <2>3, <4>2, <4>3
    <3>3. pairs'[i].at = pairs[i].at /\ pairs'[i].blocked = left(i) /\ pairs[i].at <= now + 1
      BY <1>1, <2>2, <2>4
    <3> QED
      BY <3>1, <3>2, <3>3 DEF PairOK
  <2>6. ASSUME NEW k \in Kinds, BlockedToTheEnd(pairs[i], k, now)
        PROVE  BlockedToTheEnd(pairs'[i], k, now + 1)
    <3>1. /\ Life(k) \in Nat /\ pairs[i].at + Life(k) \in Int /\ pairs[i].blocked[k] \in Nat
      BY <2>2, Lives
    <3>2. PICK end \in Int : end = WholeSeconds(pairs[i].at + Life(k))
      BY <3>1, Truncation
    <3>3. end - now < Second \/ pairs[i].blocked[k] > end - Second
      BY <2>6, <3>2 DEF BlockedToTheEnd, Ended
    <3>4. end - (now + 1) < Second \/ left(i)[k] > end - Second
      <4>1. PICK b \in Nat : b = pairs[i].blocked[k]
        BY <3>1
      <4>2. left(i)[k] = IF b <= now + 1 THEN 0 ELSE b
        BY <4>1
      <4>3. Second \in Int /\ now \in Int
        BY <1>1
      <4> HIDE DEF left
      <4>4. CASE b <= now + 1
        BY <3>3, <4>1, <4>3, <4>4
      <4>5. CASE b > now + 1
        BY <3>3, <4>1, <4>2, <4>3, <4>5
      <4> QED
        BY <4>1, <4>3, <4>4, <4>5
    <3> HIDE DEF left
    <3> QED
      BY <2>4, <3>2, <3>4 DEF BlockedToTheEnd, Ended
  <2> QED
    BY <2>4, <2>5, <2>6
<1> HIDE DEF left
<1>3. pairs' \in Seq(Pair) /\ Len(pairs') = Len(pairs)
  <2>1. \A i \in 1..Len(pairs) : pairs'[i] \in Pair
    BY <1>2 DEF PairOK
  <2>2. pairs' \in [1..Len(pairs) -> Pair]
    BY <1>1, <2>1
  <2> QED
    BY <1>1, <2>2, FunctionIsSequence
<1>4. \A u \in Users, a \in Agents :
         row'[u][a] \in 1..Len(pairs) =>
             pairs'[row'[u][a]].user = u /\ pairs'[row'[u][a]].agent = a
  BY <1>1, <1>2 DEF TokenInv
<1>5. \A i \in 1..Len(pairs), k \in Kinds :
         LastPair(i)' \/ BlockedToTheEnd(pairs'[i], k, now + 1)
  BY <1>1, <1>2 DEF TokenInv, LastPair
<1> QED
  BY <1>1, <1>2, <1>3, <1>4, <1>5 DEF TokenInv

-----------------------------------------------------------------------------
LEMMA TokenInvInit == Init => TokenInv
  BY DEF Init, TokenInv

LEMMA TokenOwner ==
    ASSUME TokenInv, NEW t \in Tokens
    PROVE  /\ t[1] \in 1..Len(pairs) /\ t[2] \in Kinds
           /\ pairs[t[1]].user \in Users /\ pairs[t[1]].agent \in Agents
<1>1. t[1] \in 1..Len(pairs) /\ t[2] \in Kinds /\ pairs[t[1]] \in Pair
  BY DEF TokenInv, Tokens
<1> QED
  BY <1>1 DEF Pair

LEMMA RolesTyping ==
    ASSUME TokenInv
    PROVE  /\ roleTable \in SUBSET Roles /\ roles \in [Users -> SUBSET roleTable]
           /\ \A u \in Users : roles[u] \subseteq roleTable
  BY DEF TokenInv

LEMMA UserHandlerStep ==
    ASSUME TokenInv, NEW u \in Users, NEW r \in Roles,
           \/ AddRole(u, r) \/ RemoveRole(u, r)
           \/ AddRoleBilling(u, r) \/ RemoveRoleBilling(u, r) \/ RemoveUnheldBilling(u, r)
    PROVE  TokenInv'
<1>1. AgentsOf(u) \in SUBSET Agents
  BY DEF AgentsOf
<1>2. CASE AddRole(u, r)
  BY <1>2, RolesTyping, RolesOnlyStep DEF AddRole
<1>3. CASE RemoveRole(u, r)
  BY <1>1, <1>3, RolesTyping, EndSessionsStep DEF RemoveRole
<1>4. CASE AddRoleBilling(u, r)
  BY <1>1, <1>4, RolesTyping, EndSessionsStep DEF AddRoleBilling
<1>5. CASE RemoveRoleBilling(u, r)
  BY <1>1, <1>5, RolesTyping, EndSessionsStep DEF RemoveRoleBilling
<1>6. CASE RemoveUnheldBilling(u, r)
  BY <1>6, KeysOnlyStep DEF RemoveUnheldBilling, OldTokens
<1> QED
  BY <1>2, <1>3, <1>4, <1>5, <1>6

LEMMA HandlerStopsStep ==
    ASSUME TokenInv, NEW u \in Users, HandlerStops(u)
    PROVE  TokenInv'
<1>1. PICK agents \in {{a} : a \in AgentsOf(u)} \cup {AgentsOf(u)} :
        \E ts \in SUBSET OldTokens(u, agents) :
            pairs' = Block(ts) /\ UNCHANGED <<now, roleTable, roles, row>>
  BY DEF HandlerStops
<1>2. PICK ts \in SUBSET OldTokens(u, agents) :
        pairs' = Block(ts) /\ UNCHANGED <<now, roleTable, roles, row>>
  BY <1>1
<1>3. ts \in SUBSET Tokens /\ \A t \in ts : RemainingLife(t) > 0
  BY DEF OldTokens
<1> QED
  BY <1>2, <1>3, KeysOnlyStep

LEMMA RoleCrudStep ==
    ASSUME TokenInv, NEW r \in Roles,
           CreateRole(r) \/ DeleteRole(r) \/ \E s \in Roles : UpdateRole(r, s)
    PROVE  TokenInv'
<1>1. CASE CreateRole(r)
  BY <1>1, RolesTyping, RolesOnlyStep DEF CreateRole
<1>2. CASE DeleteRole(r)
  BY <1>2, RolesTyping, RolesOnlyStep DEF DeleteRole
<1>3. ASSUME NEW s \in Roles, UpdateRole(r, s) PROVE TokenInv'
  BY <1>3, RolesTyping, RolesOnlyStep DEF UpdateRole
<1> QED
  BY <1>1, <1>2, <1>3

LEMMA TokenInvStep == TokenInv /\ [Next]_vars => TokenInv'
<1> SUFFICES ASSUME TokenInv, [Next]_vars PROVE TokenInv'
  OBVIOUS
<1>1. ASSUME NEW u \in Users, NEW a \in Agents, Login(u, a) PROVE TokenInv'
  BY <1>1, LoginRefreshStep DEF Login
<1>2. ASSUME NEW t \in Tokens, Refresh(t) PROVE TokenInv'
  BY <1>2, TokenOwner, LoginRefreshStep DEF Refresh
<1>3. ASSUME NEW t \in Tokens, Logout(t) PROVE TokenInv'
  BY <1>3, TokenOwner, RolesTyping, EndSessionsStep DEF Logout
<1>4. ASSUME NEW t \in Tokens, LogoutAll(t) PROVE TokenInv'
  BY <1>4, TokenOwner, RolesTyping, EndSessionsStep DEF LogoutAll, AgentsOf
<1>5. CASE UNCHANGED vars
  BY <1>5, RolesTyping, RolesOnlyStep DEF vars
<1> QED
  BY <1>1, <1>2, <1>3, <1>4, <1>5, UserHandlerStep, HandlerStopsStep, RoleCrudStep, TickStep
     DEF Next

(* The inductive invariant holds in every state of the sessions.            *)
THEOREM TokensInvariant == Spec => []TokenInv
  BY TokenInvInit, TokenInvStep, PTL DEF Spec

(* Every variable has its type, no key outlives its token, and the last rows *)
(* are the users' and agents' own, whatever handlers end sessions or stop    *)
(* half way.                                                                *)
THEOREM TokensTypeCorrect == Spec => []AuthTypeOK
<1>1. TokenInv => AuthTypeOK
  BY DEF TokenInv, AuthTypeOK, PairOK, Tokens
<1> QED
  BY <1>1, TokensInvariant, PTL

LEMMA SupersededRefused == TokenInv => SupersededIsRefused
<1> SUFFICES ASSUME TokenInv, NEW t \in Tokens, Accepted(t),
                    row[pairs[t[1]].user][pairs[t[1]].agent] # t[1]
             PROVE  LastSecond(t)
  BY DEF SupersededIsRefused
<1> DEFINE p == pairs[t[1]]
           k == t[2]
<1>1. t[1] \in 1..Len(pairs) /\ k \in Kinds /\ p \in Pair /\ now \in Nat
  BY TokenOwner DEF TokenInv
<1>2. p.at + Life(k) \in Int /\ p.blocked[k] \in Nat
  BY <1>1, Lives DEF Pair
<1>3. PICK end \in Int : end = WholeSeconds(p.at + Life(k))
  BY <1>2, Truncation
<1>4. end - now < Second \/ p.blocked[k] > end - Second
  BY <1>1, <1>3 DEF TokenInv, LastPair, BlockedToTheEnd, Ended
<1>5. p.blocked[k] <= now
  BY DEF Accepted
<1>6. end - now < Second
  BY <1>1, <1>2, <1>4, <1>5
<1> QED
  BY <1>3, <1>6 DEF LastSecond, Exp

(* A token of a pair that was replaced or whose session was ended is refused *)
(* for all of its life but the last second: the keys add_old_tokens_in_block *)
(* sets reach that far, whatever the fraction of a second they are set at.   *)
THEOREM SupersededNotAccepted == Spec => []SupersededIsRefused
  BY SupersededRefused, TokensInvariant, PTL

-----------------------------------------------------------------------------
(* Only the handlers that end all of a user's sessions take a role from him  *)
(* while the role goes on existing.                                         *)
LEMMA RoleIsTakenBy ==
    ASSUME TokenInv, [Next]_vars, roleTable' = roleTable,
           NEW u \in Users, roles[u] \ roles'[u] # {}
    PROVE  EndSessions(u, AgentsOf(u))
<1>1. roles' # roles
  OBVIOUS
<1>2. ASSUME NEW v \in Users, NEW r \in Roles,
             AddRole(v, r) \/ AddRoleBilling(v, r)
      PROVE  FALSE
  <2>1. roles' = [roles EXCEPT ![v] = @ \cup {r}]
    BY <1>2 DEF AddRole, AddRoleBilling
  <2> QED
    BY <2>1, RolesTyping
<1>3. ASSUME NEW v \in Users, NEW r \in Roles,
             RemoveRole(v, r) \/ RemoveRoleBilling(v, r)
      PROVE  EndSessions(u, AgentsOf(u))
  <2>1. roles' = [roles EXCEPT ![v] = @ \ {r}] /\ EndSessions(v, AgentsOf(v))
    BY <1>3 DEF RemoveRole, RemoveRoleBilling
  <2>2. v = u
    BY <2>1, RolesTyping
  <2> QED
    BY <2>1, <2>2
<1>4. ASSUME NEW r \in Roles, CreateRole(r) \/ DeleteRole(r) PROVE FALSE
  BY <1>4 DEF CreateRole, DeleteRole
<1>5. ASSUME NEW r \in Roles, NEW s \in Roles, UpdateRole(r, s) PROVE FALSE
  BY <1>5 DEF UpdateRole
<1>6. ~(\E v \in Users, r \in Roles : RemoveUnheldBilling(v, r))
  BY <1>1 DEF RemoveUnheldBilling
<1>7. ~(\E v \in Users : HandlerStops(v))
  BY <1>1 DEF HandlerStops
<1>8. ~(\E v \in Users, a \in Agents : Login(v, a))
  BY <1>1 DEF Login, LoginRefreshService
<1>9. ~(\E t \in Tokens : Refresh(t) \/ Logout(t) \/ LogoutAll(t))
  BY <1>1 DEF Refresh, LoginRefreshService, Logout, LogoutAll
<1>10. ~Tick /\ ~UNCHANGED vars
  BY <1>1 DEF Tick, vars
<1> QED
  BY <1>2, <1>3, <1>4, <1>5, <1>6, <1>7, <1>8, <1>9, <1>10 DEF Next

LEMMA SessionsEnded ==
    ASSUME TokenInv, NEW u \in Users, EndSessions(u, AgentsOf(u)), NEW t \in OwnedBy(u)
    PROVE  /\ t \in Tokens'
           /\ row'[pairs'[t[1]].user][pairs'[t[1]].agent] # t[1]
<1> DEFINE ts == OldTokens(u, AgentsOf(u))
<1>1. /\ pairs' = Block(ts) /\ row' = Nulled(u, AgentsOf(u))
      /\ ts \in SUBSET Tokens /\ \A x \in ts : RemainingLife(x) > 0
  BY DEF EndSessions, OldTokens
<1> HIDE DEF ts
<1>2. /\ t \in Tokens /\ pairs[t[1]].user = u /\ pairs[t[1]].agent \in Agents
      /\ t[1] \in 1..Len(pairs) /\ Len(pairs) \in Nat
  BY TokenOwner DEF OwnedBy, TokenInv
<1>3. /\ Len(pairs') = Len(pairs) /\ pairs'[t[1]].user = u
      /\ pairs'[t[1]].agent = pairs[t[1]].agent
  BY <1>1, <1>2, BlockEffect
<1>4. t \in Tokens'
  BY <1>2, <1>3 DEF Tokens
<1>5. \A a \in Agents : row'[u][a] \in {0, NoRow}
  BY <1>1 DEF TokenInv, Nulled, AgentsOf
<1> QED
  BY <1>2, <1>3, <1>4, <1>5

(* A role that is taken from a user, while it exists, takes every session of *)
(* his with it: no token he holds is accepted after the step, but for the    *)
(* last second of its life.                                                 *)
THEOREM TakenRoleEndsSessions == Spec => RoleTakenEndsSessions
<1>1. TokenInv' => SupersededIsRefused'
  BY SupersededRefused, PTL
<1>2. ASSUME TokenInv, TokenInv', [Next]_vars, roleTable' = roleTable,
             NEW u \in Users, roles[u] \ roles'[u] # {},
             NEW t \in OwnedBy(u), Accepted(t)'
      PROVE  LastSecond(t)'
  <2>1. /\ t \in Tokens'
        /\ row'[pairs'[t[1]].user][pairs'[t[1]].agent] # t[1]
    BY <1>2, RoleIsTakenBy, SessionsEnded
  <2>2. SupersededIsRefused'
    BY <1>1, <1>2
  <2> QED
    BY <1>2, <2>1, <2>2 DEF SupersededIsRefused
<1>3. TokenInv /\ TokenInv' /\ [Next]_vars =>
        [roleTable' = roleTable =>
           \A u \in Users : (roles[u] \ roles'[u]) # {} =>
               \A t \in OwnedBy(u) : Accepted(t)' => LastSecond(t)']_vars
  BY <1>2
<1> QED
  BY <1>3, TokensInvariant, PTL DEF Spec, RoleTakenEndsSessions
=============================================================================
