------------------------------ MODULE AuthTokens ------------------------------
(***************************************************************************)
(* Sessions and roles of the Auth service (flask_auth): token pairs issued *)
(* per user and user agent, their blocklist in Redis, the roles the next   *)
(* pair will claim.  One synchronous gunicorn worker serves the requests,  *)
(* so no two handlers overlap; a handler may still stop between a write to *)
(* Redis and the commit in PostgreSQL, and Redis does not roll back.       *)
(*                                                                         *)
(* Time is counted in ticks, Second of them to a second: PyJWT and Redis   *)
(* both keep whole seconds, PostgreSQL keeps fractions.                    *)
(***************************************************************************)
EXTENDS Integers, Sequences, FiniteSets

CONSTANTS Users, Agents, Roles,
          InitialRoles,   \* those create_superuser makes
          NoHeader,       \* the agent whose requests have no User-Agent header
          NoRow,          \* no journal row yet for a user and agent
          Second, AccessLife, RefreshLife,
          MaxPairs, MaxNow  \* bounds of the model

ASSUME LivesAssumption ==
    /\ InitialRoles \subseteq Roles /\ NoRow \notin Nat
    /\ Second \in Nat \ {0}
    /\ AccessLife \in Nat /\ AccessLife % Second = 0
    /\ RefreshLife \in Nat /\ RefreshLife % Second = 0
    /\ MaxPairs \in Nat /\ MaxNow \in Nat

VARIABLES
    now,
    roleTable,  \* the roles that exist
    roles,      \* the roles of every user (table user_role)
    row,        \* the last journal row of a user and agent: its pair, 0 once nulled
    pairs       \* the pairs handed out, each with the ends of its blocklist keys

vars == <<now, roleTable, roles, row, pairs>>

Kinds == {"access", "refresh"}
Life(kind) == IF kind = "access" THEN AccessLife ELSE RefreshLife
WholeSeconds(ticks) == Second * (ticks \div Second)

\* After create_superuser and the registration of the users.
Init ==
    /\ now = 0
    /\ roleTable = InitialRoles
    /\ roles = [u \in Users |-> {}]
    /\ row = [u \in Users |-> [a \in Agents |-> NoRow]]
    /\ pairs = <<>>

-----------------------------------------------------------------------------
\* A token is a pair's number and a kind.  It is good until its "exp" claim.
Exp(t) == WholeSeconds(pairs[t[1]].at + Life(t[2]))
Tokens == (1..Len(pairs)) \X Kinds
OwnedBy(u) == {t \in Tokens : pairs[t[1]].user = u}

\* jwt_required: neither expired nor in the blocklist.
Accepted(t) == now < Exp(t) /\ pairs[t[1]].blocked[t[2]] <= now

\* check_user_agent compares with the hash of '', the claim holds that of 'empty'.
SameAgent(t) == pairs[t[1]].agent # NoHeader

\* Mutants: token_expire_time forgets which kind it was asked about; or adds the age.
RemainingLifeAccess(t) == AccessLife - (now - pairs[t[1]].at)
RemainingLifeGrows(t) == Life(t[2]) + (now - pairs[t[1]].at)

\* What the token could still live, by the journal's tokens_time.
RemainingLife(t) == Life(t[2]) - (now - pairs[t[1]].at)

\* Mutant: one agent of the user only.
AgentsOfOne(u) ==
    IF \A a \in Agents : row[u][a] = NoRow THEN {} ELSE {CHOOSE a \in Agents : row[u][a] # NoRow}

\* The agents a handler goes through: those with a journal row.
AgentsOf(u) == {a \in Agents : row[u][a] # NoRow}

\* The tokens add_old_tokens_in_block sends to Redis for these agents: a time
\* left of none is false in Python, and its token is passed over.
OldTokens(u, agents) ==
    {t \in Tokens : /\ \E a \in agents : row[u][a] = t[1]
                    /\ RemainingLife(t) > 0}

\* Redis refuses a time to live of no whole second: the handler ends with an error.
RedisTakes(ts) == \A t \in ts : WholeSeconds(RemainingLife(t)) > 0

Block(ts) ==
    [i \in DOMAIN pairs |->
        [pairs[i] EXCEPT !.blocked = [k \in Kinds |->
            IF <<i, k>> \in ts THEN now + WholeSeconds(RemainingLife(<<i, k>>)) ELSE @[k]]]]

Nulled(u, agents) ==
    [row EXCEPT ![u] = [a \in Agents |-> IF a \in agents THEN 0 ELSE @[a]]]

\* Any stop on the way through the agents: access before refresh, one agent at a time.
StoppedAfter(ts, all) ==
    /\ ts \subseteq all /\ RedisTakes(ts)
    /\ \A t \in ts : t[2] = "refresh" => <<t[1], "access">> \in ts \cup (Tokens \ all)
    /\ Cardinality({t[1] : t \in ts} \cap {t[1] : t \in all \ ts}) <= 1

-----------------------------------------------------------------------------
\* A new pair.  It claims the user's roles of this moment, and goes on doing so.
Issued(u, a) == [user |-> u, agent |-> a, at |-> now, blocked |-> [k \in Kinds |-> 0]]

\* login_refresh_service: the agent's old pair to the blocklist, the new one to
\* a row of its own (login) or to the last row (refresh).
LoginRefreshService(u, a) ==
    /\ Len(pairs) < MaxPairs
    /\ RedisTakes(OldTokens(u, {a}))
    /\ pairs' = Append(Block(OldTokens(u, {a})), Issued(u, a))
    /\ row' = [row EXCEPT ![u][a] = Len(pairs) + 1]
    /\ UNCHANGED <<now, roleTable, roles>>

Login(u, a) == LoginRefreshService(u, a)

Refresh(t) ==
    /\ t[2] = "refresh" /\ Accepted(t) /\ SameAgent(t)
    /\ LoginRefreshService(pairs[t[1]].user, pairs[t[1]].agent)

\* The pairs of these agents to the blocklist, their last rows nulled.
EndSessions(u, agents) ==
    /\ RedisTakes(OldTokens(u, agents))
    /\ pairs' = Block(OldTokens(u, agents))
    /\ row' = Nulled(u, agents)

Logout(t) ==
    /\ Accepted(t) /\ SameAgent(t)
    /\ EndSessions(pairs[t[1]].user, {pairs[t[1]].agent})
    /\ UNCHANGED <<now, roleTable, roles>>

LogoutAll(t) ==
    /\ Accepted(t) /\ SameAgent(t)
    /\ EndSessions(pairs[t[1]].user, AgentsOf(pairs[t[1]].user))
    /\ UNCHANGED <<now, roleTable, roles>>

\* add_or_del_role_user, called by an admin.  Adding leaves the tokens alone.
AddRole(u, r) ==
    /\ r \in roleTable
    /\ roles' = [roles EXCEPT ![u] = @ \cup {r}]
    /\ UNCHANGED <<now, roleTable, row, pairs>>

RemoveRole(u, r) ==
    /\ r \in roles[u]
    /\ roles' = [roles EXCEPT ![u] = @ \ {r}]
    /\ EndSessions(u, AgentsOf(u))
    /\ UNCHANGED <<now, roleTable>>

\* add_or_del_role_user_billing, called by the subscription worker: the
\* sessions end in both cases, and before the role is looked at.
AddRoleBilling(u, r) ==
    /\ r \in roleTable
    /\ EndSessions(u, AgentsOf(u))
    /\ roles' = [roles EXCEPT ![u] = @ \cup {r}]
    /\ UNCHANGED <<now, roleTable>>

RemoveRoleBilling(u, r) ==
    /\ r \in roleTable /\ r \in roles[u]
    /\ EndSessions(u, AgentsOf(u))
    /\ roles' = [roles EXCEPT ![u] = @ \ {r}]
    /\ UNCHANGED <<now, roleTable>>

\* The role was not held: PostgreSQL rolls back, the blocklist stays.
RemoveUnheldBilling(u, r) ==
    /\ r \in roleTable \ roles[u]
    /\ RedisTakes(OldTokens(u, AgentsOf(u)))
    /\ pairs' = Block(OldTokens(u, AgentsOf(u)))
    /\ UNCHANGED <<now, roleTable, roles, row>>

\* Any of these handlers stops short of its commit: Redis or PostgreSQL is
\* away, Redis refuses a time to live, or the process is restarted.
HandlerStops(u) ==
    \E agents \in {{a} : a \in AgentsOf(u)} \cup {AgentsOf(u)} :
        \E ts \in SUBSET OldTokens(u, agents) :
            /\ ts # {} /\ StoppedAfter(ts, OldTokens(u, agents))
            /\ pairs' = Block(ts)
            /\ UNCHANGED <<now, roleTable, roles, row>>

\* role_crud, called by an admin: no token is revoked.
CreateRole(r) ==
    /\ r \notin roleTable
    /\ roleTable' = roleTable \cup {r}
    /\ UNCHANGED <<now, roles, row, pairs>>

UpdateRole(r, s) ==
    /\ r \in roleTable /\ s \notin roleTable
    /\ roleTable' = (roleTable \ {r}) \cup {s}
    /\ roles' = [u \in Users |-> {IF x = r THEN s ELSE x : x \in roles[u]}]
    /\ UNCHANGED <<now, row, pairs>>

DeleteRole(r) ==
    /\ r \in roleTable
    /\ roleTable' = roleTable \ {r}
    /\ roles' = [u \in Users |-> roles[u] \ {r}]
    /\ UNCHANGED <<now, row, pairs>>

\* Redis drops the keys whose time is over.
Tick ==
    /\ now < MaxNow
    /\ now' = now + 1
    /\ pairs' = [i \in DOMAIN pairs |->
                   [pairs[i] EXCEPT !.blocked =
                       [k \in Kinds |-> IF @[k] <= now + 1 THEN 0 ELSE @[k]]]]
    /\ UNCHANGED <<roleTable, roles, row>>

Next ==
    \/ \E u \in Users, a \in Agents : Login(u, a)
    \/ \E t \in Tokens : Refresh(t) \/ Logout(t) \/ LogoutAll(t)
    \/ \E u \in Users, r \in Roles :
          \/ AddRole(u, r) \/ RemoveRole(u, r)
          \/ AddRoleBilling(u, r) \/ RemoveRoleBilling(u, r) \/ RemoveUnheldBilling(u, r)
    \/ \E u \in Users : HandlerStops(u)
    \/ \E r \in Roles : CreateRole(r) \/ DeleteRole(r) \/ \E s \in Roles : UpdateRole(r, s)
    \/ Tick

Spec == Init /\ [][Next]_vars

-----------------------------------------------------------------------------
Pair == [user : Users, agent : Agents, at : Nat, blocked : [Kinds -> Nat]]

\* Every variable has its type; a blocklist key never outlives the token's
\* nominal life, the pair of a last row is that user's and agent's, and users
\* hold roles that exist (db_models.py, models_serv.py).
AuthTypeOK ==
    /\ now \in 0..MaxNow
    /\ roleTable \in SUBSET Roles
    /\ roles \in [Users -> SUBSET roleTable]
    /\ pairs \in Seq(Pair)
    /\ \A t \in Tokens : pairs[t[1]].blocked[t[2]] <= pairs[t[1]].at + Life(t[2])
    /\ row \in [Users -> [Agents -> {NoRow} \cup 0..Len(pairs)]]
    /\ \A u \in Users, a \in Agents :
          row[u][a] \in 1..Len(pairs) =>
              pairs[row[u][a]].user = u /\ pairs[row[u][a]].agent = a

\* A token of any but the pair in the last row of its user and agent is
\* refused, but for the last second of its life: login, refresh, logout and the
\* role handlers block the pair they replace for the remaining life, and the
\* truncation to whole seconds costs less than a second (login_refresh_service,
\* token_expire_time).
LastSecond(t) == Exp(t) - now < Second
SupersededIsRefused ==
    \A t \in Tokens :
        Accepted(t) => \/ row[pairs[t[1]].user][pairs[t[1]].agent] = t[1]
                       \/ LastSecond(t)

\* A step that takes a role from a user, while the role goes on existing,
\* leaves the user no accepted token on any agent, but for last seconds: the
\* claims of a token do not change, so the session has to end
\* (add_or_del_role_user, add_or_del_role_user_billing).
RoleTakenEndsSessions ==
    [][roleTable' = roleTable =>
         \A u \in Users : (roles[u] \ roles'[u]) # {} =>
             \A t \in OwnedBy(u) : Accepted(t)' => LastSecond(t)']_vars
=============================================================================
