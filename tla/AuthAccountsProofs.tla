--------------------------- MODULE AuthAccountsProofs ---------------------------
(***************************************************************************)
(* What holds of the accounts of Auth for any clients, names, passwords,   *)
(* providers and runs of the bootstrap.  AccInv is inductive: beside the   *)
(* properties it says what a run of the bootstrap may rely on between its  *)
(* commits.                                                                *)
(***************************************************************************)
EXTENDS AuthAccounts, TLAPS

USE AccountsAssumption

(* The account is one the bootstrap inserted.                              *)
Configured(i) == i \in DOMAIN users /\ madeBy[i] = "bootstrap" /\ users[i].name = SuperName

BootOK == \A b \in Bootstraps : boot[b].at \in {"pair", "subscriber"} => Configured(boot[b].id)

AccInv ==
  /\ AccTypeOK
  /\ SuperuserIsConfigured
  /\ AnnouncedIsOnRecord
  /\ BootOK

Makers == {"form", "provider", "bootstrap"}

(* What the tables are, and what the history says of them.                 *)
TablesOK ==
  /\ users \in Seq(User) /\ madeBy \in Seq(Makers) /\ Len(madeBy) = Len(users)
  /\ \A i, j \in DOMAIN users :
        i # j => users[i].name # users[j].name /\ users[i].email # users[j].email

(* What never changes of an account on record.                             *)
Onward ==
  /\ DOMAIN users \subseteq DOMAIN users'
  /\ \A i \in DOMAIN users : users'[i].name = users[i].name /\ madeBy'[i] = madeBy[i]

LEMMA TablesTyping == AccInv => TablesOK
  BY DEF AccInv, AccTypeOK, TablesOK, Makers

LEMMA AddedKeeps ==
  ASSUME TablesOK, NEW name \in Names, NEW email \in Emails,
         NEW password \in Passwords \cup {Generated}, NEW by \in Makers,
         Free(name, email), Added(name, email, password, by)
  PROVE  /\ TablesOK' /\ Onward
         /\ Len(users) + 1 \in DOMAIN users'
         /\ users'[Len(users) + 1].name = name /\ madeBy'[Len(users) + 1] = by
<1> DEFINE user == [name |-> name, email |-> email, hash |-> Hash(password, email)]
           n    == Len(users)
<1>1. user \in User
  BY DEF User, Hash
<1>2. /\ users \in Seq(User) /\ madeBy \in Seq(Makers) /\ Len(madeBy) = n /\ n \in Nat
      /\ users' = Append(users, user) /\ madeBy' = Append(madeBy, by)
  BY DEF TablesOK, Added
<1>3. /\ users' \in Seq(User) /\ madeBy' \in Seq(Makers) /\ Len(users') = n + 1
      /\ Len(madeBy') = n + 1 /\ users'[n + 1] = user /\ madeBy'[n + 1] = by
      /\ DOMAIN users = 1..n /\ DOMAIN users' = 1..(n + 1)
      /\ \A i \in 1..n : users'[i] = users[i] /\ madeBy'[i] = madeBy[i]
  BY <1>1, <1>2
<1>4. ASSUME NEW i \in DOMAIN users', NEW j \in DOMAIN users', i # j
      PROVE  users'[i].name # users'[j].name /\ users'[i].email # users'[j].email
  <2>1. CASE i \in 1..n /\ j \in 1..n
    BY <1>3, <1>4, <2>1 DEF TablesOK
  <2>2. CASE i = n + 1 /\ j \in 1..n
    BY <1>3, <2>2 DEF Free
  <2>3. CASE i \in 1..n /\ j = n + 1
    BY <1>3, <2>3 DEF Free
  <2> QED
    BY <1>2, <1>3, <1>4, <2>1, <2>2, <2>3
<1> QED
  BY <1>2, <1>3, <1>4 DEF TablesOK, Onward

LEMMA UpdateKeeps ==
  ASSUME AccInv, NEW c \in Clients, NEW name \in Names, NEW email \in Emails \cup {None},
         NEW old \in Passwords, NEW password \in Passwords, NEW password2 \in Passwords,
         UpdateUser(c, name, email, old, password, password2)
  PROVE  TablesOK' /\ Onward /\ session[c].id \in DOMAIN users
<1> DEFINE i    == session[c].id
           salt == IF email = None THEN users[i].email ELSE email
<1>1. i \in DOMAIN users
  BY DEF AccInv, AccTypeOK, UpdateUser
<1>2. /\ TablesOK
      /\ \A j \in DOMAIN users \ {i} : users[j].email # salt
      /\ users' = [users EXCEPT ![i].email = salt, ![i].hash = Hash(password, salt)]
      /\ madeBy' = madeBy
  BY TablesTyping DEF UpdateUser
<1>3. users[i] \in User
  BY <1>1, <1>2 DEF TablesOK
<1>4. salt \in Emails
  BY <1>3 DEF User
<1>5. /\ users'[i] = [users[i] EXCEPT !.email = salt, !.hash = Hash(password, salt)]
      /\ users'[i] \in User /\ users'[i].name = users[i].name /\ users'[i].email = salt
  BY <1>1, <1>2, <1>3, <1>4 DEF User, Hash
<1>7. \A j \in DOMAIN users \ {i} : users'[j] = users[j]
  BY <1>2, <1>3
<1>8. users' \in Seq(User) /\ Len(users') = Len(users) /\ DOMAIN users' = DOMAIN users
  BY <1>1, <1>2, <1>3, <1>5 DEF TablesOK
<1>10. Onward
  BY <1>2, <1>5, <1>7, <1>8 DEF Onward
<1>11. ASSUME NEW j \in DOMAIN users', NEW k \in DOMAIN users', j # k
       PROVE  users'[j].name # users'[k].name /\ users'[j].email # users'[k].email
  <2>1. /\ users[j].name # users[k].name /\ users[j].email # users[k].email
        /\ users'[j].name = users[j].name /\ users'[k].name = users[k].name
    BY <1>2, <1>8, <1>10, <1>11 DEF TablesOK, Onward
  <2>2. CASE j # i /\ k # i
    BY <1>7, <1>8, <2>1, <2>2
  <2>3. ASSUME NEW m \in DOMAIN users \ {i}
        PROVE  users'[m].email # users'[i].email
    <3>1. users'[m] = users[m] /\ users[m].email # salt /\ users'[i].email = salt
      BY <1>2, <1>5, <1>7
    <3> QED
      BY <3>1
  <2>4. j \in DOMAIN users /\ k \in DOMAIN users
    BY <1>8
  <2>5. CASE j = i \/ k = i
    <3> HIDE DEF i
    <3> QED
      BY <1>11, <2>1, <2>3, <2>4, <2>5
  <2> QED
    BY <2>2, <2>5
<1> QED
  BY <1>1, <1>2, <1>8, <1>10, <1>11 DEF TablesOK

(* The tables and the history, whatever the step.                          *)
LEMMA TablesStep == AccInv /\ [Next]_vars => TablesOK' /\ Onward
<1> SUFFICES ASSUME AccInv, [Next]_vars PROVE TablesOK' /\ Onward
  OBVIOUS
<1>t. TablesOK
  BY TablesTyping
<1>0. UNCHANGED <<users, madeBy>> => TablesOK' /\ Onward
  BY <1>t DEF TablesOK, Onward
<1>1. ASSUME NEW c \in Clients, Request(c) PROVE TablesOK' /\ Onward
  <2>1. ASSUME NEW p \in Passwords, NEW p2 \in Passwords, NEW n \in Names, NEW e \in Emails,
               CreateUser(c, n, e, p, p2)
        PROVE  TablesOK' /\ Onward
    BY <2>1, <1>t, AddedKeeps DEF CreateUser, Makers
  <2>2. ASSUME NEW f \in Profiles, OauthCreate(c, f) PROVE TablesOK' /\ Onward
    BY <2>2, <1>t, AddedKeeps DEF OauthCreate, GetUserInfo, Makers
  <2>3. ASSUME \/ TryAgainLater(c) \/ ServedInVain(c)
               \/ \E e \in Emails, p \in Passwords : Login(c, e, p)
               \/ \E f \in Profiles : OauthLogin(c, f)
        PROVE  UNCHANGED <<users, madeBy>>
    BY <2>3 DEF TryAgainLater, ServedInVain, Login, OauthLogin, vars
  <2> QED
    BY <1>1, <1>0, <2>1, <2>2, <2>3, UpdateKeeps DEF Request, UserCrud
<1>2. ASSUME NEW b \in Bootstraps, Bootstrap(b) PROVE TablesOK' /\ Onward
  <2>1. CASE BootInsert(b)
    BY <2>1, <1>t, AddedKeeps DEF BootInsert, Makers
  <2>2. CASE BootCheck(b) \/ BootPair(b) \/ BootSubscriber(b) \/ BootDies(b)
    BY <2>2, <1>0 DEF BootCheck, BootPair, BootSubscriber, BootDies
  <2> QED
    BY <1>2, <2>1, <2>2 DEF Bootstrap
<1>3. CASE Tick \/ UNCHANGED vars
  BY <1>3, <1>0 DEF Tick, vars
<1> QED
  BY <1>1, <1>2, <1>3 DEF Next

(* Whoever was made by the bootstrap remains so.                           *)
LEMMA ConfiguredStays ==
  ASSUME AccInv, [Next]_vars, NEW i, Configured(i)
  PROVE  Configured(i)'
  BY TablesStep DEF Configured, Onward

LEMMA BootStep == AccInv /\ [Next]_vars => BootOK'
<1> SUFFICES ASSUME AccInv, [Next]_vars, NEW b \in Bootstraps,
                    boot'[b].at \in {"pair", "subscriber"}
             PROVE  Configured(boot[b].id)'
  BY DEF BootOK
<1>t. boot \in [Bootstraps -> [at : {"off", "create", "pair", "subscriber"},
                              id : {0} \cup DOMAIN users]] /\ BootOK /\ TablesOK
  BY TablesTyping DEF AccInv, AccTypeOK
<1>0. CASE boot'[b] = boot[b]
  BY <1>0, <1>t, ConfiguredStays DEF BootOK, Configured
<1>1. ASSUME NEW d \in Bootstraps, BootInsert(d) PROVE Configured(boot[b].id)'
  <2>1. /\ Len(users) + 1 \in DOMAIN users' /\ users'[Len(users) + 1].name = SuperName
        /\ madeBy'[Len(users) + 1] = "bootstrap"
    BY <1>1, <1>t, AddedKeeps DEF BootInsert, Makers
  <2>2. CASE b = d
    <3>1. boot'[b].id = Len(users) + 1
      BY <1>1, <1>t, <2>2 DEF BootInsert
    <3> QED
      BY <2>1, <3>1 DEF Configured
  <2>3. CASE b # d
    BY <1>1, <1>t, <1>0, <2>3 DEF BootInsert
  <2> QED
    BY <2>2, <2>3
<1>2. ASSUME NEW d \in Bootstraps, BootPair(d) PROVE Configured(boot[b].id)'
  <2>1. CASE b = d
    <3>1. boot[b].at = "pair" /\ boot'[b].id = boot[b].id
      BY <1>2, <1>t, <2>1 DEF BootPair
    <3> QED
      BY <1>t, <3>1, ConfiguredStays DEF BootOK, Configured
  <2>2. CASE b # d
    BY <1>2, <1>t, <1>0, <2>2 DEF BootPair
  <2> QED
    BY <2>1, <2>2
<1>3. ASSUME NEW d \in Bootstraps, BootCheck(d) \/ BootSubscriber(d) \/ BootDies(d)
      PROVE  boot'[b] = boot[b]
  BY <1>3, <1>t DEF BootCheck, BootSubscriber, BootDies, BootOff
<1>4. ASSUME NEW c \in Clients, Request(c) PROVE UNCHANGED boot
  BY <1>4 DEF Request, UserCrud, TryAgainLater, ServedInVain, CreateUser, UpdateUser, Login, OauthLogin,
              OauthCreate, vars
<1>5. CASE Tick \/ UNCHANGED vars
  BY <1>5, <1>0 DEF Tick, vars
<1> QED
  BY <1>0, <1>1, <1>2, <1>3, <1>4, <1>5 DEF Next, Bootstrap

(* Only the second commit of the bootstrap makes a superuser here.         *)
LEMMA SuperuserStep == AccInv /\ [Next]_vars => SuperuserIsConfigured' /\ superusers' \subseteq DOMAIN users'
<1> SUFFICES ASSUME AccInv, [Next]_vars, NEW i \in superusers' PROVE Configured(i)'
  BY DEF SuperuserIsConfigured, Configured
<1>1. ASSUME i \in superusers PROVE Configured(i)'
  BY <1>1, ConfiguredStays DEF AccInv, AccTypeOK, SuperuserIsConfigured, Configured
<1>2. ASSUME NEW b \in Bootstraps, BootPair(b) PROVE Configured(i)'
  <2>1. CASE i = boot[b].id
    BY <1>2, <2>1, ConfiguredStays DEF BootPair, AccInv, BootOK
  <2> QED
    BY <1>1, <1>2, <2>1 DEF BootPair
<1>3. ASSUME NEW b \in Bootstraps, BootCheck(b) \/ BootInsert(b) \/ BootSubscriber(b) \/ BootDies(b)
      PROVE  UNCHANGED superusers
  BY <1>3 DEF BootCheck, BootInsert, BootSubscriber, BootDies
<1>4. ASSUME NEW c \in Clients, Request(c) PROVE UNCHANGED superusers
  BY <1>4 DEF Request, UserCrud, TryAgainLater, ServedInVain, CreateUser, UpdateUser, Login, OauthLogin,
              OauthCreate, vars
<1>5. CASE Tick \/ UNCHANGED vars
  BY <1>5, <1>1 DEF Tick, vars
<1> QED
  BY <1>1, <1>2, <1>3, <1>4, <1>5 DEF Next, Bootstrap

LEMMA AnnouncedStep == AccInv /\ [Next]_vars => AnnouncedIsOnRecord' /\ (events \subseteq Nat \X EventTypes)'
<1> SUFFICES ASSUME AccInv, [Next]_vars
             PROVE  AnnouncedIsOnRecord' /\ (events \subseteq Nat \X EventTypes)'
  OBVIOUS
<1>t. /\ TablesOK /\ TablesOK' /\ Onward /\ AnnouncedIsOnRecord /\ events \subseteq Nat \X EventTypes
      /\ \A i \in DOMAIN users : i \in Nat
  <2>1. TablesOK
    BY TablesTyping
  <2>2. \A i \in DOMAIN users : i \in Nat
    BY <2>1 DEF TablesOK
  <2> QED
    BY <2>1, <2>2, TablesStep DEF AccInv, AccTypeOK
<1>0. ASSUME UNCHANGED events PROVE AnnouncedIsOnRecord' /\ (events \subseteq Nat \X EventTypes)'
  BY <1>0, <1>t DEF AnnouncedIsOnRecord, Onward
<1>1. ASSUME NEW i \in DOMAIN users', NEW type \in EventTypes, i \in Nat,
             type = "user_create" => madeBy'[i] = "form",
             MayPublish(<<i, type>>)
      PROVE  AnnouncedIsOnRecord' /\ (events \subseteq Nat \X EventTypes)'
  <2>1. <<i, type>>[1] = i /\ <<i, type>>[2] = type /\ <<i, type>> \in Nat \X EventTypes
    BY <1>1
  <2>2. ASSUME NEW e \in events' PROVE /\ e \in Nat \X EventTypes /\ e[1] \in DOMAIN users'
                                       /\ e[2] = "user_create" => madeBy'[e[1]] = "form"
    <3>1. CASE e \in events
      BY <3>1, <1>t DEF AnnouncedIsOnRecord, Onward
    <3>2. CASE e = <<i, type>>
      BY <3>2, <1>1, <2>1
    <3> QED
      BY <1>1, <2>2, <3>1, <3>2 DEF MayPublish
  <2> QED
    BY <2>2 DEF AnnouncedIsOnRecord
<1>2. ASSUME NEW c \in Clients, NEW p \in Passwords, NEW p2 \in Passwords, NEW n \in Names,
             NEW e \in Emails, CreateUser(c, n, e, p, p2)
      PROVE  AnnouncedIsOnRecord' /\ (events \subseteq Nat \X EventTypes)'
  <2>1. Len(users) + 1 \in DOMAIN users' /\ madeBy'[Len(users) + 1] = "form"
    BY <1>2, <1>t, AddedKeeps DEF CreateUser, Makers
  <2>2. Len(users) + 1 \in Nat /\ MayPublish(<<Len(users) + 1, "user_create">>)
    BY <1>2, <1>t DEF CreateUser, TablesOK
  <2> QED
    BY <1>1, <2>1, <2>2 DEF EventTypes
<1>3. ASSUME NEW c \in Clients, NEW n \in Names, NEW e \in Emails \cup {None}, NEW old \in Passwords,
             NEW p \in Passwords, NEW p2 \in Passwords, UpdateUser(c, n, e, old, p, p2)
      PROVE  AnnouncedIsOnRecord' /\ (events \subseteq Nat \X EventTypes)'
  <2>1. session[c].id \in DOMAIN users /\ MayPublish(<<session[c].id, "change_password">>)
    BY <1>3, UpdateKeeps DEF UpdateUser
  <2> QED
    BY <1>1, <1>t, <2>1 DEF EventTypes, Onward
<1>4. ASSUME NEW c \in Clients,
             \/ TryAgainLater(c) \/ ServedInVain(c)
             \/ \E e \in Emails, p \in Passwords : Login(c, e, p)
             \/ \E f \in Profiles : OauthLogin(c, f) \/ OauthCreate(c, f)
      PROVE  UNCHANGED events
  BY <1>4 DEF TryAgainLater, ServedInVain, Login, OauthLogin, OauthCreate, vars
<1>5. ASSUME NEW b \in Bootstraps, Bootstrap(b) PROVE UNCHANGED events
  BY <1>5 DEF Bootstrap, BootCheck, BootInsert, BootPair, BootSubscriber, BootDies
<1>6. CASE Tick \/ UNCHANGED vars
  BY <1>6, <1>0 DEF Tick, vars
<1> QED
  BY <1>0, <1>2, <1>3, <1>4, <1>5, <1>6 DEF Next, Request, UserCrud

(* Sessions and runs of the bootstrap name accounts that stay on record.   *)
LEMMA ReferencesStep ==
  ASSUME AccInv, [Next]_vars
  PROVE  /\ session' \in [Clients -> {None} \cup [id : DOMAIN users', staff : BOOLEAN]]
         /\ boot' \in [Bootstraps -> [at : {"off", "create", "pair", "subscriber"},
                                      id : {0} \cup DOMAIN users']]
<1> DEFINE Session == {None} \cup [id : DOMAIN users', staff : BOOLEAN]
           Run == [at : {"off", "create", "pair", "subscriber"}, id : {0} \cup DOMAIN users']
           Goal == session' \in [Clients -> Session] /\ boot' \in [Bootstraps -> Run]
<1>t. /\ TablesOK /\ Onward
      /\ session \in [Clients -> Session] /\ boot \in [Bootstraps -> Run]
  <2>1. TablesOK /\ Onward
    BY TablesTyping, TablesStep
  <2>2. session \in [Clients -> {None} \cup [id : DOMAIN users, staff : BOOLEAN]]
    BY DEF AccInv, AccTypeOK
  <2>3. boot \in [Bootstraps -> [at : {"off", "create", "pair", "subscriber"},
                                 id : {0} \cup DOMAIN users]]
    BY DEF AccInv, AccTypeOK
  <2>4. DOMAIN users \subseteq DOMAIN users'
    BY <2>1 DEF Onward
  <2>5. [id : DOMAIN users, staff : BOOLEAN] \subseteq [id : DOMAIN users', staff : BOOLEAN]
    BY <2>4
  <2>6. [at : {"off", "create", "pair", "subscriber"}, id : {0} \cup DOMAIN users] \subseteq Run
    BY <2>4
  <2> QED
    BY <2>1, <2>2, <2>3, <2>5, <2>6
<1>0. ASSUME UNCHANGED <<session, boot>> PROVE Goal
  BY <1>0, <1>t
<1>1. ASSUME NEW i \in DOMAIN users' PROVE TokenOf(i) \in Session
  BY <1>1 DEF TokenOf
<1>2. ASSUME NEW c \in Clients, NEW i \in DOMAIN users',
             session' = [session EXCEPT ![c] = TokenOf(i)], UNCHANGED boot
      PROVE  Goal
  BY <1>1, <1>2, <1>t
<1>3. ASSUME NEW b \in Bootstraps, NEW run \in Run, boot' = [boot EXCEPT ![b] = run],
             UNCHANGED session
      PROVE  Goal
  BY <1>3, <1>t
<1>4. ASSUME NEW c \in Clients, NEW e \in Emails, NEW p \in Passwords, Login(c, e, p)
      PROVE  Goal
  <2>1. PICK i \in DOMAIN users : session' = [session EXCEPT ![c] = TokenOf(i)]
    BY <1>4 DEF Login
  <2> QED
    BY <1>2, <1>4, <1>t, <2>1 DEF Login, Onward
<1>5. ASSUME NEW c \in Clients, NEW f \in Profiles, OauthLogin(c, f) PROVE Goal
  <2>1. PICK i \in DOMAIN users : session' = [session EXCEPT ![c] = TokenOf(i)]
    BY <1>5 DEF OauthLogin
  <2> QED
    BY <1>2, <1>5, <1>t, <2>1 DEF OauthLogin, Onward
<1>6. ASSUME NEW c \in Clients, NEW f \in Profiles, OauthCreate(c, f) PROVE Goal
  <2>1. Len(users) + 1 \in DOMAIN users'
    BY <1>6, <1>t, AddedKeeps DEF OauthCreate, GetUserInfo, Makers
  <2> QED
    BY <1>2, <1>6, <2>1 DEF OauthCreate
<1>7. ASSUME NEW c \in Clients,
             \/ TryAgainLater(c) \/ ServedInVain(c)
             \/ \E p, p2 \in Passwords, n \in Names, e \in Emails : CreateUser(c, n, e, p, p2)
             \/ \E old, p, p2 \in Passwords, n \in Names, e \in Emails \cup {None} :
                   UpdateUser(c, n, e, old, p, p2)
      PROVE  UNCHANGED <<session, boot>>
  BY <1>7 DEF TryAgainLater, ServedInVain, CreateUser, UpdateUser, vars
<1>8. ASSUME NEW b \in Bootstraps, BootInsert(b) PROVE Goal
  <2>1. Len(users) + 1 \in DOMAIN users'
    BY <1>8, <1>t, AddedKeeps DEF BootInsert, Makers
  <2>2. [at |-> "pair", id |-> Len(users) + 1] \in Run
    BY <2>1
  <2> QED
    BY <1>3, <1>8, <2>2 DEF BootInsert
<1>9. ASSUME NEW b \in Bootstraps, BootCheck(b) \/ BootPair(b) PROVE Goal
  <2>1. boot[b] \in Run
    BY <1>t
  <2>2. [boot[b] EXCEPT !.at = "create"] \in Run /\ [boot[b] EXCEPT !.at = "subscriber"] \in Run
    BY <2>1
  <2> QED
    BY <1>3, <1>9, <1>t, <2>2 DEF BootCheck, BootPair
<1>10. ASSUME NEW b \in Bootstraps, BootSubscriber(b) \/ BootDies(b) PROVE Goal
  <2>1. BootOff \in Run
    BY DEF BootOff
  <2> QED
    BY <1>3, <1>10, <2>1 DEF BootSubscriber, BootDies
<1>11. CASE Tick \/ UNCHANGED vars
  BY <1>11, <1>0 DEF Tick, vars
<1>12. ASSUME NEW c \in Clients, Request(c) PROVE Goal
  BY <1>12, <1>0, <1>4, <1>5, <1>6, <1>7 DEF Request, UserCrud
<1> QED
  BY <1>8, <1>9, <1>10, <1>11, <1>12 DEF Next, Bootstrap

(* The throttle's key and the table of the roles.                          *)
LEMMA KeysStep ==
  ASSUME AccInv, [Next]_vars
  PROVE  ttl' \in [Clients -> 0..Throttle] /\ roleTable' \subseteq {"superuser", "subscriber"}
<1>t. /\ ttl \in [Clients -> 0..Throttle] /\ roleTable \subseteq {"superuser", "subscriber"}
      /\ Throttle \in 0..Throttle
  BY DEF AccInv, AccTypeOK
<1>1. ASSUME NEW c \in Clients, NEW exempt \in BOOLEAN, ThrottlingUserAgent(c, exempt)
      PROVE  ttl' \in [Clients -> 0..Throttle]
  BY <1>1, <1>t DEF ThrottlingUserAgent
<1>2. ASSUME NEW c \in Clients, Request(c)
      PROVE  ttl' \in [Clients -> 0..Throttle] /\ UNCHANGED roleTable
  <2>1. Staff(c) \in BOOLEAN
    BY DEF Staff, AccInv, AccTypeOK
  <2>2. CASE TryAgainLater(c) \/ \E f \in Profiles : OauthLogin(c, f) \/ OauthCreate(c, f)
    BY <2>2, <1>t DEF TryAgainLater, OauthLogin, OauthCreate, vars
  <2>3. CASE ServedInVain(c) \/ \E e \in Emails, p \in Passwords : Login(c, e, p)
    BY <2>3, <1>1 DEF ServedInVain, Login
  <2>4. ASSUME NEW p \in Passwords, NEW p2 \in Passwords, NEW n \in Names, NEW e \in Emails,
               CreateUser(c, n, e, p, p2)
        PROVE  ttl' \in [Clients -> 0..Throttle] /\ UNCHANGED roleTable
    BY <2>1, <2>4, <1>1 DEF CreateUser
  <2>5. ASSUME NEW old \in Passwords, NEW p \in Passwords, NEW p2 \in Passwords, NEW n \in Names,
               NEW e \in Emails \cup {None}, UpdateUser(c, n, e, old, p, p2)
        PROVE  ttl' \in [Clients -> 0..Throttle] /\ UNCHANGED roleTable
    BY <2>1, <2>5, <1>1 DEF UpdateUser
  <2> QED
    BY <1>2, <2>2, <2>3, <2>4, <2>5 DEF Request, UserCrud
<1>3. ASSUME NEW b \in Bootstraps, Bootstrap(b)
      PROVE  UNCHANGED ttl /\ roleTable' \subseteq {"superuser", "subscriber"}
  BY <1>3, <1>t DEF Bootstrap, BootCheck, BootInsert, BootPair, BootSubscriber, BootDies
<1>4. CASE Tick
  <2>1. \A c \in Clients : (IF ttl[c] = 0 THEN 0 ELSE ttl[c] - 1) \in 0..Throttle
    BY <1>t
  <2> QED
    BY <1>4, <1>t, <2>1 DEF Tick
<1>5. CASE UNCHANGED vars
  BY <1>5, <1>t DEF vars
<1> QED
  BY <1>t, <1>2, <1>3, <1>4, <1>5 DEF Next

LEMMA InvInit == Init => AccInv
<1> SUFFICES ASSUME Init PROVE AccInv
  OBVIOUS
<1>1. DOMAIN users = {} /\ users \in Seq(User) /\ madeBy \in Seq(Makers) /\ Len(madeBy) = Len(users)
  BY DEF Init
<1>2. AccTypeOK
  BY <1>1 DEF Init, AccTypeOK, BootOff, Makers
<1> QED
  BY <1>1, <1>2 DEF Init, AccInv, SuperuserIsConfigured, AnnouncedIsOnRecord,
                    BootOK, BootOff

LEMMA InvStep == AccInv /\ [Next]_vars => AccInv'
<1> SUFFICES ASSUME AccInv, [Next]_vars PROVE AccInv'
  OBVIOUS
<1>1. AccTypeOK'
  BY TablesStep, SuperuserStep, AnnouncedStep, ReferencesStep, KeysStep
  DEF TablesOK, AccTypeOK, Makers
<1> QED
  BY <1>1, SuperuserStep, AnnouncedStep, BootStep DEF AccInv

(* The invariant the properties below are read off, for any number of      *)
(* clients, accounts and runs of the bootstrap.                            *)
THEOREM AccInvariant == Spec => []AccInv
  BY InvInit, InvStep, PTL DEF Spec

(* Sessions, the role superuser and runs of the bootstrap refer to accounts *)
(* on record, of which no two share a name or an e-mail.                   *)
THEOREM AccTypeCorrect == Spec => []AccTypeOK
<1>1. AccInv => AccTypeOK
  BY DEF AccInv
<1> QED
  BY <1>1, AccInvariant, PTL

(* However registrations, overlapping runs and crashes interleave,         *)
(* create_superuser makes a superuser only of the account it inserted.     *)
THEOREM SuperuserConfigured == Spec => []SuperuserIsConfigured
<1>1. AccInv => SuperuserIsConfigured
  BY DEF AccInv
<1> QED
  BY <1>1, AccInvariant, PTL

(* An event on RabbitMQ is of an account on record, and one of a creation  *)
(* of an account the form made.                                            *)
THEOREM AnnouncedRecorded == Spec => []AnnouncedIsOnRecord
<1>1. AccInv => AnnouncedIsOnRecord
  BY DEF AccInv
<1> QED
  BY <1>1, AccInvariant, PTL
=============================================================================
