----------------------------- MODULE AuthAccounts -----------------------------
(***************************************************************************)
(* The accounts of the Auth service (flask_auth): registration, change of  *)
(* the password, login by password and by an OAuth provider, the throttle  *)
(* in front of them, and the bootstrap that makes the superuser.           *)
(*                                                                         *)
(* One synchronous gunicorn worker serves the requests, so a handler is a  *)
(* step.  The bootstrap is a script of its own (and, with DEBUG, a part of *)
(* the start of the app): it makes three commits, may be started twice,    *)
(* beside the running app, and may die anywhere.  Sessions, their end and  *)
(* the handlers of roles are in AuthTokens.                                *)
(***************************************************************************)
EXTENDS Naturals, Sequences

CONSTANTS Clients,        \* a User-Agent at an address: the throttle's key
          Names, Emails, Passwords,
          LongPasswords,  \* those of eight characters or more
          Profiles,       \* who logs in at a provider, with a verified e-mail
          SocialName,     \* the name <username>_from_<provider> of a profile
          ProfileEmail,
          Generated,      \* a password nobody is told
          SuperName, SuperEmail, SuperPassword,  \* of the .env file
          Bootstraps,     \* runs of create_superuser
          Throttle,       \* ticks the throttle's key lives
          MaxUsers,       \* bound: accounts
          None

ASSUME AccountsAssumption ==
    /\ LongPasswords \subseteq Passwords
    /\ SocialName \in [Profiles -> Names] /\ ProfileEmail \in [Profiles -> Emails]
    /\ SuperName \in Names /\ SuperEmail \in Emails /\ SuperPassword \in Passwords
    /\ Generated \notin Passwords
    /\ Throttle \in Nat \ {0} /\ MaxUsers \in Nat
    /\ None \notin Emails

VARIABLES
    users,      \* the table users
    roleTable,  \* of the table roles, what the bootstrap makes
    superusers, \* the accounts with the role superuser
    session,    \* the account a client's access token is of, and whether it claims staff
    ttl,        \* what is left of the throttle's key of a client, 0 when it is gone
    boot,       \* where each run of the bootstrap stands
    events,     \* what was published to RabbitMQ
    madeBy      \* history: who made the account

vars == <<users, roleTable, superusers, session, ttl, boot, events, madeBy>>

Hash(password, email) == <<password, email>>
User == [name : Names, email : Emails, hash : (Passwords \cup {Generated}) \X Emails]
EventTypes == {"user_create", "change_password"}
BootOff == [at |-> "off", id |-> 0]

\* init_db has made the tables, Redis is empty.
Init ==
    /\ users = <<>> /\ madeBy = <<>>
    /\ roleTable = {} /\ superusers = {}
    /\ session = [c \in Clients |-> None]
    /\ ttl = [c \in Clients |-> 0]
    /\ boot = [b \in Bootstraps |-> BootOff]
    /\ events = {}

-----------------------------------------------------------------------------
\* Mutant: no unique constraint on the e-mail.
FreeName(name, email) == \A i \in DOMAIN users : users[i].name # name

\* The unique constraints of the table.
Free(name, email) ==
    \A i \in DOMAIN users : users[i].name # name /\ users[i].email # email

Added(name, email, password, by) ==
    /\ Len(users) < MaxUsers
    /\ users' = Append(users, [name |-> name, email |-> email, hash |-> Hash(password, email)])
    /\ madeBy' = Append(madeBy, by)

CheckPassword(i, password, email) == users[i].hash = Hash(password, email)

\* Publishing may fail, which the handler swallows.
MayPublish(event) == events' \in {events, events \cup {event}}

-----------------------------------------------------------------------------
\* throttling_user_agent: staff pass without a key; anybody else only when the
\* key is gone, and sets it anew.
Staff(c) == session[c] # None /\ session[c].staff

ThrottlingUserAgent(c, exempt) ==
    IF exempt THEN UNCHANGED ttl
    ELSE ttl[c] = 0 /\ ttl' = [ttl EXCEPT ![c] = Throttle]

\* Mutant: being turned away counts as a request.
TryAgainRenews(c) ==
    /\ ttl[c] > 0
    /\ ttl' = [ttl EXCEPT ![c] = Throttle]
    /\ UNCHANGED <<users, roleTable, superusers, session, boot, events, madeBy>>

\* "Try again later": the key is left to run out.
TryAgainLater(c) == ttl[c] > 0 /\ UNCHANGED vars

\* A request that reads, or ends in 400, 401 or an exception.  The exception of
\* a staff request is caught by the throttle, which runs it again as anybody's.
ServedInVain(c) ==
    /\ ThrottlingUserAgent(c, FALSE)
    /\ UNCHANGED <<users, roleTable, superusers, session, boot, events, madeBy>>

Tick ==
    /\ \E c \in Clients : ttl[c] > 0
    /\ ttl' = [c \in Clients |-> IF ttl[c] = 0 THEN 0 ELSE ttl[c] - 1]
    /\ UNCHANGED <<users, roleTable, superusers, session, boot, events, madeBy>>

-----------------------------------------------------------------------------
\* Mutant: the event goes out before the commit that the constraints refuse.
CreateUserAnnounced(c, name, email, password, password2) ==
    /\ ThrottlingUserAgent(c, Staff(c))
    /\ password = password2 /\ password \in LongPasswords
    /\ IF Free(name, email) THEN Added(name, email, password, "form") ELSE UNCHANGED <<users, madeBy>>
    /\ MayPublish(<<Len(users) + 1, "user_create">>)
    /\ UNCHANGED <<roleTable, superusers, session, boot>>

\* POST user_crud.
CreateUser(c, name, email, password, password2) ==
    /\ ThrottlingUserAgent(c, Staff(c))
    /\ password = password2 /\ password \in LongPasswords
    /\ Free(name, email)
    /\ Added(name, email, password, "form")
    /\ MayPublish(<<Len(users) + 1, "user_create">>)
    /\ UNCHANGED <<roleTable, superusers, session, boot>>

\* PUT user_crud.  The e-mail salts the hash, and it is replaced before the old
\* password is hashed for the comparison, which a new e-mail therefore fails.
UpdateUser(c, name, newEmail, old, password, password2) ==
    LET i == session[c].id
        email == IF newEmail = None THEN users[i].email ELSE newEmail IN
    /\ ThrottlingUserAgent(c, Staff(c))
    /\ session[c] # None /\ users[i].name = name
    /\ CheckPassword(i, old, email)
    /\ password = password2 /\ password \in LongPasswords
    /\ \A j \in DOMAIN users \ {i} : users[j].email # email
    /\ users' = [users EXCEPT ![i].email = email, ![i].hash = Hash(password, email)]
    /\ MayPublish(<<i, "change_password">>)
    /\ UNCHANGED <<roleTable, superusers, session, boot, madeBy>>

\* The token claims the roles of this moment.
TokenOf(i) == [id |-> i, staff |-> i \in superusers]

\* The route asks for no token, so nobody is exempt from the throttle.
Login(c, email, password) ==
    /\ ThrottlingUserAgent(c, FALSE)
    /\ \E i \in DOMAIN users :
          /\ users[i].email = email /\ CheckPassword(i, password, email)
          /\ session' = [session EXCEPT ![c] = TokenOf(i)]
    /\ UNCHANGED <<users, roleTable, superusers, boot, events, madeBy>>

\* What the provider tells of a user.  One without an e-mail is refused.
GetUserInfo(profile) == [name |-> SocialName[profile], email |-> ProfileEmail[profile]]

\* check_and_create_account: the e-mail decides; these routes are not throttled.
OauthLogin(c, profile) ==
    /\ \E i \in DOMAIN users :
          /\ users[i].email = GetUserInfo(profile).email
          /\ session' = [session EXCEPT ![c] = TokenOf(i)]
    /\ UNCHANGED <<users, roleTable, superusers, ttl, boot, events, madeBy>>

\* With the name taken the commit fails, and so does the login.
OauthCreate(c, profile) ==
    /\ LET info == GetUserInfo(profile) IN
          /\ Free(info.name, info.email)
          /\ Added(info.name, info.email, Generated, "provider")
    /\ session' = [session EXCEPT ![c] = TokenOf(Len(users) + 1)]
    /\ UNCHANGED <<roleTable, superusers, ttl, boot, events>>

-----------------------------------------------------------------------------
\* create_superuser.  A start that finds the role or the name logs "Aborted".
BootCheck(b) ==
    /\ boot[b].at = "off"
    /\ "superuser" \notin roleTable
    /\ \A i \in DOMAIN users : users[i].name # SuperName
    /\ boot' = [boot EXCEPT ![b].at = "create"]
    /\ UNCHANGED <<users, roleTable, superusers, session, ttl, events, madeBy>>

\* Mutant: an account that has the name by now is taken for the superuser's.
BootInsertOrTake(b) ==
    /\ boot[b].at = "create" /\ "superuser" \notin roleTable
    /\ \/ /\ Free(SuperName, SuperEmail)
          /\ Added(SuperName, SuperEmail, SuperPassword, "bootstrap")
          /\ boot' = [boot EXCEPT ![b] = [at |-> "pair", id |-> Len(users) + 1]]
       \/ /\ \E i \in DOMAIN users :
                /\ users[i].name = SuperName
                /\ boot' = [boot EXCEPT ![b] = [at |-> "pair", id |-> i]]
          /\ UNCHANGED <<users, madeBy>>
    /\ roleTable' = roleTable \cup {"superuser"}
    /\ UNCHANGED <<superusers, session, ttl, events>>

\* The first commit.  Where a constraint refuses it the script dies (BootDies).
BootInsert(b) ==
    /\ boot[b].at = "create" /\ "superuser" \notin roleTable
    /\ Free(SuperName, SuperEmail)
    /\ Added(SuperName, SuperEmail, SuperPassword, "bootstrap")
    /\ roleTable' = roleTable \cup {"superuser"}
    /\ boot' = [boot EXCEPT ![b] = [at |-> "pair", id |-> Len(users) + 1]]
    /\ UNCHANGED <<superusers, session, ttl, events>>

BootPair(b) ==
    /\ boot[b].at = "pair"
    /\ superusers' = superusers \cup {boot[b].id}
    /\ boot' = [boot EXCEPT ![b].at = "subscriber"]
    /\ UNCHANGED <<users, roleTable, session, ttl, events, madeBy>>

BootSubscriber(b) ==
    /\ boot[b].at = "subscriber" /\ "subscriber" \notin roleTable
    /\ roleTable' = roleTable \cup {"subscriber"}
    /\ boot' = [boot EXCEPT ![b] = BootOff]
    /\ UNCHANGED <<users, superusers, session, ttl, events, madeBy>>

BootDies(b) ==
    /\ boot[b].at # "off"
    /\ boot' = [boot EXCEPT ![b] = BootOff]
    /\ UNCHANGED <<users, roleTable, superusers, session, ttl, events, madeBy>>

-----------------------------------------------------------------------------
UserCrud(c) ==
    \/ \E p, p2 \in Passwords, n \in Names, e \in Emails : CreateUser(c, n, e, p, p2)
    \/ \E old, p, p2 \in Passwords, n \in Names, e \in Emails \cup {None} :
          UpdateUser(c, n, e, old, p, p2)

Request(c) ==
    \/ TryAgainLater(c) \/ ServedInVain(c)
    \/ UserCrud(c)
    \/ \E e \in Emails, p \in Passwords : Login(c, e, p)
    \/ \E f \in Profiles : OauthLogin(c, f) \/ OauthCreate(c, f)

Bootstrap(b) ==
    BootCheck(b) \/ BootInsert(b) \/ BootPair(b) \/ BootSubscriber(b) \/ BootDies(b)

Next ==
    \/ Tick
    \/ \E c \in Clients : Request(c)
    \/ \E b \in Bootstraps : Bootstrap(b)

\* Time passes; nobody is obliged to anything else.
Spec == Init /\ [][Next]_vars /\ WF_vars(Tick)

-----------------------------------------------------------------------------
\* Every variable has its type; no two accounts share a name or an e-mail, and
\* the sessions and the role are of accounts on record (db_models.py).
AccTypeOK ==
    /\ users \in Seq(User)
    /\ \A i, j \in DOMAIN users :
          i # j => users[i].name # users[j].name /\ users[i].email # users[j].email
    /\ madeBy \in Seq({"form", "provider", "bootstrap"}) /\ Len(madeBy) = Len(users)
    /\ roleTable \subseteq {"superuser", "subscriber"}
    /\ superusers \subseteq DOMAIN users
    /\ session \in [Clients -> {None} \cup [id : DOMAIN users, staff : BOOLEAN]]
    /\ ttl \in [Clients -> 0..Throttle]
    /\ boot \in [Bootstraps -> [at : {"off", "create", "pair", "subscriber"},
                                id : {0} \cup DOMAIN users]]
    /\ events \subseteq Nat \X EventTypes

\* The bootstrap makes a superuser of no account but the one it inserted, with
\* the name of the configuration, also when somebody registers that name between
\* its check and its first commit, when two runs of it overlap, or when it dies
\* and is started again (create_superuser).
SuperuserIsConfigured ==
    \A i \in superusers : madeBy[i] = "bootstrap" /\ users[i].name = SuperName

\* The notification service hears of accounts on record only, and of the
\* creation only of those made by the form (create_user, update_user).
AnnouncedIsOnRecord ==
    \A e \in events :
        /\ e[1] \in DOMAIN users
        /\ e[2] = "user_create" => madeBy[e[1]] = "form"

\* A client the throttle turns away is let in again some time, however often it
\* keeps asking meanwhile: only a request that is served sets the key.
NotLockedOut ==
    \A c \in Clients : ttl[c] > 0 ~> ttl[c] = 0
=============================================================================
