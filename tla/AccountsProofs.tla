---------------------------- MODULE AccountsProofs ----------------------------
(***************************************************************************)
(* Theorems about Accounts, for any number of requests, webapps, browsers, *)
(* names and faults.                                                       *)
(***************************************************************************)
EXTENDS Accounts, TLAPS

Pcs == {"new", "check", "insert", "lookup", "session", "save",
        "auth", "act", "done", "refused", "error", "gone"}

\* Registering and logging in carry a whole form.
FormsOK ==
    \A r \in Requests :
        /\ pc[r] \in {"check", "insert", "lookup", "session", "save"} =>
              req[r].name \in UserNames /\ req[r].pass \in Passwords
        /\ pc[r] \in {"lookup", "session", "save"} => req[r].browser \in Browsers

TypeInv == TypeOK /\ FormsOK

LEMMA InitTypeInv == Init => TypeInv
BY DEF Init, TypeInv, TypeOK, FormsOK, NoRequest, Request

LEMMA GoType ==
    ASSUME TypeOK, NEW r \in Requests, NEW from, NEW to \in Pcs, Go(r, from, to)
    PROVE  /\ pc[r] = from /\ pc'[r] = to /\ pc' \in [Requests -> Pcs]
           /\ \A s \in Requests : s # r => pc'[s] = pc[s]
BY DEF TypeOK, Go, Pcs

LEMMA FaultType ==
    ASSUME TypeOK, Fault
    PROVE  faults' \in Nat
BY DEF TypeOK, Fault

LEMMA InsertOneType ==
    ASSUME TypeOK, NEW r \in Requests, req[r].name \in UserNames, req[r].pass \in Passwords,
           InsertOne(r)
    PROVE  /\ users' \in Seq(User)
           /\ DOMAIN users' = DOMAIN users \cup {Len(users) + 1}
           /\ Len(users) + 1 \notin DOMAIN users
           /\ \A i \in DOMAIN users : users'[i] = users[i]
           /\ users'[Len(users) + 1].name = req[r].name
           /\ users'[Len(users) + 1].pass = hashPassword(req[r].pass)
<1> DEFINE u == [name |-> req[r].name, pass |-> hashPassword(req[r].pass)]
<1>1. u \in User /\ u.name = req[r].name /\ u.pass = hashPassword(req[r].pass)
  BY DEF User
<1>2. users \in Seq(User) /\ users' = Append(users, u)
  BY DEF TypeOK, InsertOne
<1> HIDE DEF u
<1>3. /\ users' \in Seq(User)
      /\ DOMAIN users' = DOMAIN users \cup {Len(users) + 1}
      /\ Len(users) + 1 \notin DOMAIN users
      /\ \A i \in DOMAIN users : users'[i] = users[i]
      /\ users'[Len(users) + 1] = u
  BY <1>1, <1>2
<1> QED
  BY <1>1, <1>3

\* What a step does to the collection: nothing, or one insert by one request.
LEMMA UsersGrow ==
    ASSUME TypeInv, NEW r \in Requests, CreateUser(r)
    PROVE  /\ pc[r] = "insert" /\ pc'[r] \in {"done", "error"}
           /\ pc' \in [Requests -> Pcs]
           /\ \A s \in Requests : s # r => pc'[s] = pc[s]
           /\ InsertOne(r) \/ UNCHANGED users
           /\ UNCHANGED <<req, user, sessionVars, raced, entitled>>
           /\ faults' \in Nat /\ erred' \subseteq Requests
           /\ req[r].name \in UserNames /\ req[r].pass \in Passwords
<1>1. /\ Go(r, "insert", "done") \/ Go(r, "insert", "error")
      /\ InsertOne(r) \/ UNCHANGED users
      /\ UNCHANGED <<req, user, sessionVars, raced, entitled>>
  BY DEF CreateUser, StoreFails
<1>2. faults' \in Nat /\ erred' \subseteq Requests
  BY FaultType DEF CreateUser, StoreFails, TypeInv, TypeOK
<1> QED
  BY <1>1, <1>2, GoType DEF TypeInv, FormsOK, Pcs

\* A step of one request that leaves the forms alone.
LEMMA GoTypeInv ==
    ASSUME TypeInv, NEW r \in Requests, NEW from, NEW to \in Pcs, Go(r, from, to),
           UNCHANGED req,
           \/ to \notin {"check", "insert", "lookup", "session", "save"}
           \/ from = "check" /\ to = "insert"
           \/ from \in {"lookup", "session"} /\ to \in {"session", "save"}
    PROVE  pc' \in [Requests -> Pcs] /\ FormsOK'
<1>1. /\ pc[r] = from /\ pc'[r] = to /\ pc' \in [Requests -> Pcs]
      /\ \A s \in Requests : s # r => pc'[s] = pc[s]
  BY GoType DEF TypeInv
<1> QED
  BY <1>1 DEF TypeInv, FormsOK

LEMMA StartTypeInv ==
    ASSUME TypeInv, NEW r \in Requests,
           StartRegister(r) \/ StartLogin(r) \/ Visit(r)
    PROVE  TypeInv'
<1>1. ASSUME NEW to \in {"check", "lookup", "auth"}, NEW q \in Request, Go(r, "new", to),
             req' = [req EXCEPT ![r] = q],
             to # "auth" => q.name \in UserNames /\ q.pass \in Passwords,
             to = "lookup" => q.browser \in Browsers
      PROVE  pc' \in [Requests -> Pcs] /\ req' \in [Requests -> Request] /\ FormsOK'
  <2>1. /\ pc'[r] = to /\ pc' \in [Requests -> Pcs]
        /\ \A s \in Requests : s # r => pc'[s] = pc[s]
    BY <1>1, GoType DEF TypeInv, Pcs
  <2>2. /\ req' \in [Requests -> Request] /\ req'[r] = q
        /\ \A s \in Requests : s # r => req'[s] = req[s]
    BY <1>1 DEF TypeInv, TypeOK
  <2> QED
    BY <1>1, <2>1, <2>2 DEF TypeInv, FormsOK
<1>2. CASE StartRegister(r)
  <2>1. PICK w \in Webapps, n \in UserNames, p \in Passwords :
           /\ req' = [req EXCEPT ![r] =
                         [web |-> w, browser |-> None, name |-> n, pass |-> p]]
           /\ raced' \in {raced, raced \cup {n}}
    BY <1>2 DEF StartRegister
  <2>2. [web |-> w, browser |-> None, name |-> n, pass |-> p] \in Request
    BY DEF Request
  <2>3. pc' \in [Requests -> Pcs] /\ req' \in [Requests -> Request] /\ FormsOK'
    BY <1>1, <1>2, <2>1, <2>2 DEF StartRegister
  <2> QED
    BY <1>2, <2>1, <2>3 DEF StartRegister, TypeInv, TypeOK, Pcs, sessionVars
<1>3. CASE StartLogin(r)
  <2>1. PICK w \in Webapps, b \in Browsers, n \in UserNames, p \in Passwords :
           /\ req' = [req EXCEPT ![r] = [web |-> w, browser |-> b, name |-> n, pass |-> p]]
           /\ entitled' \in {entitled, entitled \cup {r}}
    BY <1>3 DEF StartLogin
  <2>2. [web |-> w, browser |-> b, name |-> n, pass |-> p] \in Request
    BY DEF Request
  <2>3. pc' \in [Requests -> Pcs] /\ req' \in [Requests -> Request] /\ FormsOK'
    BY <1>1, <1>3, <2>1, <2>2 DEF StartLogin
  <2> QED
    BY <1>3, <2>1, <2>3 DEF StartLogin, TypeInv, TypeOK, Pcs, sessionVars
<1>4. CASE Visit(r)
  <2>1. PICK w \in Webapps, b \in Browsers :
           /\ req' = [req EXCEPT ![r] =
                         [web |-> w, browser |-> b, name |-> None, pass |-> None]]
           /\ ctx' = [ctx EXCEPT ![r] = cookie[b]]
    BY <1>4 DEF Visit
  <2>2. [web |-> w, browser |-> b, name |-> None, pass |-> None] \in Request
    BY DEF Request
  <2>3. pc' \in [Requests -> Pcs] /\ req' \in [Requests -> Request] /\ FormsOK'
    BY <1>1, <1>4, <2>1, <2>2 DEF Visit
  <2>4. ctx' \in [Requests -> Requests \cup {None}]
    BY <2>1 DEF TypeInv, TypeOK
  <2> QED
    BY <1>4, <2>3, <2>4 DEF Visit, TypeInv, TypeOK, Pcs, history
<1> QED
  BY <1>2, <1>3, <1>4

LEMMA StepTypeInv == TypeInv /\ [Next]_vars => TypeInv'
<1> SUFFICES ASSUME TypeInv, [Next]_vars
             PROVE  TypeInv'
  OBVIOUS
<1>1. ASSUME NEW r \in Requests,
             \/ CheckName(r) \/ CheckNameFails(r) \/ NoSuchUser(r) \/ GetUserFails(r)
             \/ AuthMiddleware(r)
      PROVE  TypeInv'
  <2>1. pc' \in [Requests -> Pcs] /\ FormsOK'
    <3>1. /\ \/ \E to \in {"refused", "insert", "error"} : Go(r, "check", to)
             \/ Go(r, "lookup", "refused")
             \/ \E to \in {"act", "refused"} : Go(r, "auth", to)
          /\ UNCHANGED req
      BY <1>1, Zenon DEF CheckName, CheckNameFails, NoSuchUser, GetUserFails,
         AuthMiddleware, StoreFails
    <3> QED
      BY <3>1, GoTypeInv DEF Pcs
  <2>2. faults' \in Nat /\ erred' \subseteq Requests
    BY <1>1, FaultType DEF CheckName, CheckNameFails, NoSuchUser, GetUserFails,
       AuthMiddleware, StoreFails, TypeInv, TypeOK, history
  <2>3. UNCHANGED <<users, req, user, sessionVars, raced, entitled>>
    BY <1>1 DEF CheckName, CheckNameFails, NoSuchUser, GetUserFails, AuthMiddleware, history
  <2> QED
    BY <2>1, <2>2, <2>3 DEF TypeInv, TypeOK, Pcs, sessionVars
<1>2. ASSUME NEW r \in Requests, CreateUser(r)
      PROVE  TypeInv'
  <2>1. users' \in Seq(User)
    BY <1>2, UsersGrow, InsertOneType DEF TypeInv, TypeOK
  <2>2. FormsOK'
    BY <1>2, UsersGrow DEF TypeInv, FormsOK
  <2> QED
    BY <1>2, <2>1, <2>2, UsersGrow DEF TypeInv, TypeOK, Pcs, sessionVars
<1>3. ASSUME NEW r \in Requests, GetUser(r)
      PROVE  TypeInv'
  <2>1. PICK i \in DOMAIN users :
           /\ Go(r, "lookup", IF IsUser(i, req[r]) THEN "session" ELSE "refused")
           /\ user' = [user EXCEPT ![r] = i]
    BY <1>3 DEF GetUser
  <2>2. UNCHANGED <<users, req, sessionVars, faults, history>>
    BY <1>3 DEF GetUser
  <2>3. pc' \in [Requests -> Pcs] /\ FormsOK'
    BY <2>1, <2>2, GoTypeInv DEF Pcs
  <2>4. i \in Nat
    BY DEF TypeInv, TypeOK
  <2>5. user' \in [Requests -> Nat]
    BY <2>1, <2>4 DEF TypeInv, TypeOK
  <2> QED
    BY <2>2, <2>3, <2>5 DEF TypeInv, TypeOK, Pcs, sessionVars, history
<1>4. ASSUME NEW r \in Requests, NewSession(r) \/ Save(r)
      PROVE  TypeInv'
  <2>1. pc' \in [Requests -> Pcs] /\ FormsOK'
    BY <1>4, GoTypeInv DEF NewSession, Save, Pcs
  <2>2. data' \in [Requests -> Nat] /\ stored' \subseteq Requests
    <3>1. user[r] \in Nat
      BY DEF TypeInv, TypeOK
    <3>2. /\ stored' = stored \cup {r}
          /\ data' \in {[data EXCEPT ![r] = 0], [data EXCEPT ![r] = user[r]]}
      BY <1>4 DEF NewSession, Save
    <3>3. /\ data \in [Requests -> Nat]
          /\ stored \subseteq Requests
      BY DEF TypeInv, TypeOK
    <3>4. data' \in [Requests -> Nat]
      BY <3>1, <3>2, <3>3
    <3> QED
      BY <3>2, <3>3, <3>4
  <2>3. cookie' \in [Browsers -> Requests \cup {None}]
    BY <1>4 DEF NewSession, Save, TypeInv, TypeOK
  <2>4. UNCHANGED <<users, req, user, ctx, faults, history>>
    BY <1>4 DEF NewSession, Save
  <2> QED
    BY <2>1, <2>2, <2>3, <2>4 DEF TypeInv, TypeOK, Pcs, history
<1>5. ASSUME NEW r \in Requests, Act(r)
      PROVE  TypeInv'
  <2>1. pc' \in [Requests -> Pcs] /\ FormsOK'
    BY <1>5, GoTypeInv DEF Act, Pcs
  <2>2. ctx[r] \in Requests
    BY <1>5 DEF Act, HasSession, TypeInv, TypeOK
  <2>3. user' \in [Requests -> Nat]
    BY <1>5, <2>2 DEF Act, TypeInv, TypeOK
  <2> QED
    BY <1>5, <2>1, <2>3 DEF Act, TypeInv, TypeOK, Pcs, sessionVars, history
<1>6. ASSUME NEW b \in Browsers, CookieExpires(b)
      PROVE  TypeInv'
  BY <1>6 DEF CookieExpires, TypeInv, TypeOK, FormsOK, history
<1>7. ASSUME NEW w \in Webapps, Restart(w)
      PROVE  TypeInv'
  <2>1. /\ \A r \in Requests : pc'[r] \in {pc[r], "gone"}
        /\ pc' \in [Requests -> Pcs]
        /\ stored' \subseteq stored
        /\ UNCHANGED <<users, req, user, data, cookie, ctx, history>>
    BY <1>7 DEF Restart, TypeInv, TypeOK, Pcs
  <2>2. FormsOK'
    BY <2>1 DEF TypeInv, FormsOK
  <2>3. faults' \in Nat
    BY <1>7, FaultType DEF Restart, TypeInv
  <2> QED
    BY <2>1, <2>2, <2>3 DEF TypeInv, TypeOK, Pcs, history
<1>8. CASE UNCHANGED vars
  BY <1>8 DEF vars, sessionVars, history, TypeInv, TypeOK, FormsOK
<1> QED
  BY <1>1, <1>2, <1>3, <1>4, <1>5, <1>6, <1>7, <1>8, StartTypeInv
     DEF Next, RegisterStep, LoginStep, VisitStep

\* Every variable keeps its type; in particular a password reaches MongoDB only
\* as its hash.
THEOREM TypeCorrect == Spec => []TypeOK
<1>1. TypeInv => TypeOK
  BY DEF TypeInv
<1> QED
  BY <1>1, InitTypeInv, StepTypeInv, PTL DEF Spec

-----------------------------------------------------------------------------
(* A name belongs to one user.                                             *)

Named(n) == \E i \in DOMAIN users : users[i].name = n

\* Who is about to insert has found the name free, and it still is, unless
\* another registration of the name was under way.
NamesInv ==
    /\ NameTakenOnce
    /\ \A r \in Requests :
          pc[r] = "insert" => req[r].name \in raced \/ ~ Named(req[r].name)
    /\ \A r, s \in Requests :
          /\ r # s /\ req[r].name = req[s].name
          /\ pc[r] \in {"check", "insert"} /\ pc[s] \in {"check", "insert"}
          => req[r].name \in raced

LEMMA InitNames == Init => NamesInv
BY DEF Init, NamesInv, NameTakenOnce

\* A step that starts no registration, inserts nothing and finds no name free.
LEMMA SameNames ==
    ASSUME NamesInv, UNCHANGED <<users, raced>>,
           \A r \in Requests : pc'[r] \in {"check", "insert"} =>
                pc'[r] = pc[r] /\ req'[r] = req[r]
    PROVE  NamesInv'
<1>1. NameTakenOnce'
  BY DEF NamesInv, NameTakenOnce
<1>2. \A r \in Requests :
          pc'[r] = "insert" => req'[r].name \in raced' \/ ~ (Named(req[r].name))'
  BY DEF NamesInv, Named
<1> QED
  BY <1>1, <1>2 DEF NamesInv, Named

LEMMA StartRegisterNames ==
    ASSUME TypeInv, NamesInv, NEW r \in Requests, StartRegister(r)
    PROVE  NamesInv'
<1>1. PICK w \in Webapps, n \in UserNames, p \in Passwords :
         /\ req' = [req EXCEPT ![r] = [web |-> w, browser |-> None, name |-> n, pass |-> p]]
         /\ raced' = IF Registering(n) = {} THEN raced ELSE raced \cup {n}
  BY DEF StartRegister
<1>2. /\ pc'[r] = "check" /\ UNCHANGED users
      /\ \A s \in Requests : s # r => pc'[s] = pc[s]
  BY GoType DEF StartRegister, TypeInv, Pcs
<1>3. req'[r].name = n /\ \A s \in Requests : s # r => req'[s] = req[s]
  BY <1>1 DEF TypeInv, TypeOK
<1>4. \A s \in Requests : s # r /\ pc[s] \in {"check", "insert"} /\ req[s].name = n
                             => n \in raced'
  BY <1>1 DEF Registering
<1>5. raced \subseteq raced'
  BY <1>1
<1>6. NameTakenOnce'
  BY <1>2, <1>5 DEF NamesInv, NameTakenOnce
<1>7. \A s \in Requests : pc'[s] = "insert" =>
          req'[s].name \in raced' \/ ~ (Named(req[s].name))'
  BY <1>2, <1>3, <1>5 DEF NamesInv, Named
<1>8. \A s, t \in Requests :
          /\ s # t /\ req'[s].name = req'[t].name
          /\ pc'[s] \in {"check", "insert"} /\ pc'[t] \in {"check", "insert"}
          => req'[s].name \in raced'
  BY <1>2, <1>3, <1>4, <1>5 DEF NamesInv
<1> QED
  BY <1>6, <1>7, <1>8 DEF NamesInv, Named

LEMMA CheckNameNames ==
    ASSUME TypeInv, NamesInv, NEW r \in Requests, CheckName(r)
    PROVE  NamesInv'
<1>1. /\ pc[r] = "check" /\ pc'[r] = IF Named(req[r].name) THEN "refused" ELSE "insert"
      /\ \A s \in Requests : s # r => pc'[s] = pc[s]
      /\ UNCHANGED <<users, req, raced>>
  BY GoType DEF CheckName, Named, TypeInv, Pcs, history
<1>2. NameTakenOnce'
  BY <1>1 DEF NamesInv, NameTakenOnce
<1>3. \A s \in Requests : pc'[s] = "insert" =>
          req[s].name \in raced \/ ~ Named(req[s].name)
  BY <1>1 DEF NamesInv
<1>4. \A s \in Requests : pc'[s] \in {"check", "insert"} => pc[s] \in {"check", "insert"}
  BY <1>1
<1> QED
  BY <1>1, <1>2, <1>3, <1>4 DEF NamesInv, Named

LEMMA CreateUserNames ==
    ASSUME TypeInv, NamesInv, NEW r \in Requests, CreateUser(r)
    PROVE  NamesInv'
<1>1. /\ pc[r] = "insert" /\ pc'[r] \in {"done", "error"}
      /\ \A s \in Requests : s # r => pc'[s] = pc[s]
      /\ UNCHANGED <<req, raced>>
  BY UsersGrow
<1>2. CASE UNCHANGED users
  BY <1>1, <1>2, SameNames
<1>3. CASE InsertOne(r)
  <2>1. /\ DOMAIN users' = DOMAIN users \cup {Len(users) + 1}
        /\ \A i \in DOMAIN users : users'[i] = users[i]
        /\ users'[Len(users) + 1].name = req[r].name
    <3>1. req[r].name \in UserNames /\ req[r].pass \in Passwords
      BY UsersGrow
    <3> QED
      BY <1>3, <3>1, InsertOneType DEF TypeInv
  <2>2. req[r].name \in raced \/ ~ Named(req[r].name)
    BY <1>1 DEF NamesInv
  <2>3. NameTakenOnce'
    BY <1>1, <2>1, <2>2 DEF NamesInv, NameTakenOnce, Named
  <2>4. \A s \in Requests : pc'[s] = "insert" =>
            req[s].name \in raced \/ ~ (Named(req[s].name))'
    <3> SUFFICES ASSUME NEW s \in Requests, pc'[s] = "insert", req[s].name \notin raced
                 PROVE  ~ (Named(req[s].name))'
      BY <1>1 DEF Named
    <3>1. s # r /\ pc[s] = "insert"
      BY <1>1
    <3>2. req[s].name # req[r].name /\ ~ Named(req[s].name)
      BY <1>1, <3>1 DEF NamesInv
    <3> QED
      BY <1>1, <2>1, <3>2 DEF Named
  <2> QED
    BY <1>1, <2>3, <2>4 DEF NamesInv, Named
<1> QED
  BY <1>2, <1>3, UsersGrow

LEMMA StepNames == TypeInv /\ NamesInv /\ [Next]_vars => NamesInv'
<1> SUFFICES ASSUME TypeInv, NamesInv, [Next]_vars
             PROVE  NamesInv'
  OBVIOUS
<1>1. ASSUME NEW r \in Requests,
             \/ CheckNameFails(r) \/ NoSuchUser(r) \/ GetUserFails(r) \/ GetUser(r)
             \/ NewSession(r) \/ Save(r) \/ AuthMiddleware(r) \/ Act(r)
      PROVE  NamesInv'
  <2>1. /\ UNCHANGED <<users, req, raced>>
        /\ \E to \in {"error", "refused", "session", "save", "done", "act"} :
               pc' = [pc EXCEPT ![r] = to]
    BY <1>1, Zenon DEF CheckNameFails, NoSuchUser, GetUserFails, GetUser, NewSession, Save,
       AuthMiddleware, Act, StoreFails, Go, history
  <2>2. \A s \in Requests : pc'[s] \in {"check", "insert"} => pc'[s] = pc[s]
    BY <2>1 DEF TypeInv, TypeOK
  <2> QED
    BY <2>1, <2>2, SameNames
<1>2. ASSUME NEW r \in Requests, StartLogin(r) \/ Visit(r)
      PROVE  NamesInv'
  <2>1. /\ UNCHANGED <<users, raced>>
        /\ \E to \in {"lookup", "auth"} : pc' = [pc EXCEPT ![r] = to]
        /\ \E q : req' = [req EXCEPT ![r] = q]
    BY <1>2, Zenon DEF StartLogin, Visit, Go, history
  <2>2. \A s \in Requests : pc'[s] \in {"check", "insert"} => s # r
    BY <2>1 DEF TypeInv, TypeOK
  <2>3. \A s \in Requests : s # r => pc'[s] = pc[s] /\ req'[s] = req[s]
    BY <2>1 DEF TypeInv, TypeOK
  <2> QED
    BY <2>1, <2>2, <2>3, SameNames
<1>3. ASSUME NEW w \in Webapps, Restart(w)
      PROVE  NamesInv'
  <2>1. /\ UNCHANGED <<users, req, raced>>
        /\ \A s \in Requests : pc'[s] \in {pc[s], "gone"}
    BY <1>3 DEF Restart, history
  <2> QED
    BY <2>1, SameNames
<1>4. ASSUME NEW b \in Browsers, CookieExpires(b)
      PROVE  NamesInv'
  BY <1>4, SameNames DEF CookieExpires, history
<1>5. CASE UNCHANGED vars
  BY <1>5, SameNames DEF vars, history
<1> QED
  BY <1>1, <1>2, <1>3, <1>4, <1>5, StartRegisterNames, CheckNameNames, CreateUserNames
     DEF Next, RegisterStep, LoginStep, VisitStep

\* A name belongs to one user, unless two requests to register it ran at the
\* same time: Register looks and inserts in two steps.
THEOREM OneUserPerName == Spec => []NameTakenOnce
<1>1. NamesInv => NameTakenOnce
  BY DEF NamesInv
<1> QED
  BY <1>1, InitTypeInv, StepTypeInv, InitNames, StepNames, PTL DEF Spec

-----------------------------------------------------------------------------
(* The right password is accepted.                                         *)

LoginPcs == {"lookup", "session", "save", "done", "refused", "gone"}

\* The user that was there when the form came is there for good.
EntitledInv ==
    \A r \in entitled :
        /\ pc[r] \in LoginPcs
        /\ \E i \in DOMAIN users : IsUser(i, req[r])
        /\ pc[r] = "refused" => r \in erred \/ req[r].name \in raced

LEMMA InitEntitled == Init => EntitledInv
BY DEF Init, EntitledInv

\* What a step may do without a word on who is entitled.
LEMMA SameEntitled ==
    ASSUME TypeInv, EntitledInv,
           entitled' = entitled, raced \subseteq raced', erred \subseteq erred',
           \A i \in DOMAIN users : i \in DOMAIN users' /\ users'[i] = users[i],
           \A r \in entitled : req'[r] = req[r] /\ pc'[r] \in LoginPcs
                               /\ (pc'[r] = "refused" =>
                                     \/ pc[r] = "refused"
                                     \/ r \in erred' \/ req[r].name \in raced')
    PROVE  EntitledInv'
BY DEF EntitledInv, IsUser

LEMMA StepEntitled == TypeInv /\ NamesInv /\ EntitledInv /\ [Next]_vars => EntitledInv'
<1> SUFFICES ASSUME TypeInv, NamesInv, EntitledInv, [Next]_vars
             PROVE  EntitledInv'
  OBVIOUS
<1>1. \A r \in entitled : r \in Requests /\ pc[r] \in LoginPcs
  BY DEF EntitledInv, TypeInv, TypeOK
<1>2. ASSUME NEW r \in Requests, StartLogin(r)
      PROVE  EntitledInv'
  <2>1. PICK q : /\ req' = [req EXCEPT ![r] = q]
                 /\ entitled' = IF \E i \in DOMAIN users : IsUser(i, q)
                                THEN entitled \cup {r} ELSE entitled
    BY <1>2, Zenon DEF StartLogin
  <2>2. /\ pc[r] = "new" /\ pc'[r] = "lookup" /\ UNCHANGED <<users, erred, raced>>
        /\ \A s \in Requests : s # r => pc'[s] = pc[s]
    BY <1>2, GoType DEF StartLogin, TypeInv, Pcs
  <2>3. req'[r] = q /\ \A s \in Requests : s # r => req'[s] = req[s]
    BY <2>1 DEF TypeInv, TypeOK
  <2>4. r \notin entitled
    BY <1>1, <2>2 DEF LoginPcs
  <2>5. r \in entitled' => \E i \in DOMAIN users : IsUser(i, q)
    BY <2>1, <2>4
  <2>6. \A s \in entitled' : s = r \/ s \in entitled
    BY <2>1
  <2> QED
    BY <1>1, <2>2, <2>3, <2>4, <2>5, <2>6 DEF EntitledInv, IsUser, LoginPcs
<1>3. ASSUME NEW r \in Requests, StartRegister(r) \/ Visit(r)
      PROVE  EntitledInv'
  <2>1. /\ pc[r] = "new" /\ UNCHANGED <<users, erred, entitled>> /\ raced \subseteq raced'
        /\ \E to : pc' = [pc EXCEPT ![r] = to]
        /\ \E q : req' = [req EXCEPT ![r] = q]
    <3>1. CASE StartRegister(r)
      BY <3>1, Zenon DEF StartRegister, Go
    <3>2. CASE Visit(r)
      BY <3>2, Zenon DEF Visit, Go, history
    <3> QED
      BY <1>3, <3>1, <3>2
  <2>2. r \notin entitled
    BY <1>1, <2>1 DEF LoginPcs
  <2>3. \A s \in entitled : req'[s] = req[s] /\ pc'[s] = pc[s]
    BY <1>1, <2>1, <2>2 DEF TypeInv, TypeOK
  <2> QED
    BY <1>1, <2>1, <2>3, SameEntitled
<1>4. ASSUME NEW r \in Requests,
             CheckName(r) \/ CheckNameFails(r) \/ AuthMiddleware(r) \/ Act(r)
      PROVE  EntitledInv'
  <2>1. /\ pc[r] \in {"check", "auth", "act"} /\ UNCHANGED <<users, req, entitled, raced>>
        /\ erred \subseteq erred' /\ \E to : pc' = [pc EXCEPT ![r] = to]
    BY <1>4 DEF CheckName, CheckNameFails, AuthMiddleware, Act, StoreFails, Go, history
  <2>2. \A s \in entitled : pc'[s] = pc[s]
    BY <1>1, <2>1 DEF TypeInv, TypeOK, LoginPcs
  <2> QED
    BY <1>1, <2>1, <2>2, SameEntitled
<1>5. ASSUME NEW r \in Requests, CreateUser(r)
      PROVE  EntitledInv'
  <2>1. \A s \in entitled : pc'[s] = pc[s]
    BY <1>1, <1>5, UsersGrow DEF LoginPcs
  <2>2. \A i \in DOMAIN users : i \in DOMAIN users' /\ users'[i] = users[i]
    BY <1>5, UsersGrow, InsertOneType DEF TypeInv
  <2>3. erred \subseteq erred' /\ UNCHANGED <<req, entitled, raced>>
    BY <1>5 DEF CreateUser, StoreFails
  <2> QED
    BY <1>1, <2>1, <2>2, <2>3, SameEntitled
<1>6. ASSUME NEW r \in Requests, GetUser(r)
      PROVE  EntitledInv'
  <2>1. PICK i \in DOMAIN users :
           /\ users[i].name = req[r].name
           /\ Go(r, "lookup", IF IsUser(i, req[r]) THEN "session" ELSE "refused")
    BY <1>6 DEF GetUser
  <2>2. /\ pc'[r] = IF IsUser(i, req[r]) THEN "session" ELSE "refused"
        /\ \A s \in Requests : s # r => pc'[s] = pc[s]
        /\ UNCHANGED <<users, req, erred, raced, entitled>>
    BY <1>6, <2>1, GoType DEF GetUser, TypeInv, Pcs, history
  <2>3. r \in entitled /\ ~ IsUser(i, req[r]) => req[r].name \in raced
    BY <2>1 DEF EntitledInv, IsUser, NamesInv, NameTakenOnce
  <2> QED
    BY <1>1, <2>2, <2>3, SameEntitled DEF LoginPcs
<1>7. ASSUME NEW r \in Requests, NoSuchUser(r)
      PROVE  EntitledInv'
  <2>1. /\ \A i \in DOMAIN users : users[i].name # req[r].name
        /\ \A s \in Requests : s # r => pc'[s] = pc[s]
        /\ UNCHANGED <<users, req, erred, raced, entitled>>
    BY <1>7, GoType DEF NoSuchUser, TypeInv, Pcs, history
  <2>2. r \notin entitled
    BY <2>1 DEF EntitledInv, IsUser
  <2> QED
    BY <1>1, <2>1, <2>2, SameEntitled
<1>8. ASSUME NEW r \in Requests, GetUserFails(r)
      PROVE  EntitledInv'
  <2>1. /\ pc'[r] = "refused" /\ r \in erred' /\ erred \subseteq erred'
        /\ \A s \in Requests : s # r => pc'[s] = pc[s]
        /\ UNCHANGED <<users, req, raced, entitled>>
    BY <1>8, GoType DEF GetUserFails, StoreFails, TypeInv, Pcs
  <2> QED
    BY <1>1, <2>1, SameEntitled DEF LoginPcs
<1>9. ASSUME NEW r \in Requests, NewSession(r) \/ Save(r)
      PROVE  EntitledInv'
  <2>1. /\ pc'[r] \in {"save", "done"}
        /\ \A s \in Requests : s # r => pc'[s] = pc[s]
        /\ UNCHANGED <<users, req, erred, raced, entitled>>
    BY <1>9, GoType DEF NewSession, Save, TypeInv, Pcs, history
  <2> QED
    BY <1>1, <2>1, SameEntitled DEF LoginPcs
<1>10. ASSUME NEW w \in Webapps, Restart(w)
       PROVE  EntitledInv'
  <2>1. /\ UNCHANGED <<users, req, erred, raced, entitled>>
        /\ \A s \in Requests : pc'[s] \in {pc[s], "gone"}
    BY <1>10 DEF Restart, history
  <2> QED
    BY <1>1, <2>1, SameEntitled DEF LoginPcs
<1>11. CASE \/ UNCHANGED vars
            \/ \E b \in Browsers : CookieExpires(b)
  BY <1>1, <1>11, SameEntitled DEF vars, history, CookieExpires
<1> QED
  BY <1>2, <1>3, <1>4, <1>5, <1>6, <1>7, <1>8, <1>9, <1>10, <1>11
     DEF Next, RegisterStep, LoginStep, VisitStep

\* Whoever has registered logs in with that password, on every webapp, unless the
\* store fails or two requests raced for the name.
THEOREM RightPassword == Spec => []RightPasswordIsAccepted
<1>1. EntitledInv => RightPasswordIsAccepted
  BY DEF EntitledInv, RightPasswordIsAccepted
<1> QED
  BY <1>1, InitTypeInv, StepTypeInv, InitNames, StepNames, InitEntitled, StepEntitled, PTL
     DEF Spec

-----------------------------------------------------------------------------
(* Sessions.                                                               *)

\* The user in hand has the name and the password of form q.
IsTheUserOf(i, q) == i \in DOMAIN users /\ IsUser(i, q)

\* The login s has ended, with a session that holds its user.
Saved(s) == pc[s] = "done" /\ IsTheUserOf(data[s], req[s])

LoginsOK ==
    \A s \in Requests : pc[s] \in {"session", "save"} => IsTheUserOf(user[s], req[s])

CookiesOK ==
    \A b \in Browsers : cookie[b] # None =>
        Saved(cookie[b]) /\ req[cookie[b]].browser = b

VisitOK(r) ==
    /\ ctx[r] # None =>
          /\ Saved(ctx[r]) /\ req[ctx[r]].browser = req[r].browser
          /\ pc[r] \in {"auth", "act", "done", "refused", "gone"}
          /\ pc[r] = "act" => HasSession(r)
          /\ pc[r] = "done" => IsTheUserOf(user[r], req[ctx[r]])
    /\ pc[r] = "act" => ctx[r] # None

SessionsInv == LoginsOK /\ CookiesOK /\ \A r \in Requests : VisitOK(r)

LEMMA InitSessions == Init => SessionsInv
BY DEF Init, SessionsInv, LoginsOK, CookiesOK, VisitOK

LEMMA CtxType ==
    ASSUME TypeInv
    PROVE  /\ \A r \in Requests : ctx[r] # None => ctx[r] \in Requests
           /\ \A b \in Browsers : cookie[b] # None => cookie[b] \in Requests
BY DEF TypeInv, TypeOK

UsersKept == \A i \in DOMAIN users : i \in DOMAIN users' /\ users'[i] = users[i]

LEMMA UserStays ==
    ASSUME UsersKept
    PROVE  \A i, q : IsTheUserOf(i, q) => (IsTheUserOf(i, q))'
BY DEF UsersKept, IsTheUserOf, IsUser

\* A saved session is left alone by every other request.
LEMMA SavedStays ==
    ASSUME TypeInv, UsersKept, NEW r \in Requests, pc[r] # "done",
           \A s \in Requests : s # r => pc'[s] = pc[s] /\ req'[s] = req[s]
                                     /\ data'[s] = data[s]
    PROVE  \A s \in Requests : Saved(s) => s # r /\ req'[s] = req[s] /\ (Saved(s))'
BY DEF Saved, UsersKept, IsTheUserOf, IsUser

\* A visit stays as it is while another request moves.
LEMMA VisitStays ==
    ASSUME TypeInv, SessionsInv, UsersKept, NEW r \in Requests, pc[r] # "done",
           \A s \in Requests : s # r => pc'[s] = pc[s] /\ req'[s] = req[s]
                                     /\ data'[s] = data[s],
           stored \subseteq stored',
           NEW v \in Requests, v # r, ctx'[v] = ctx[v], user'[v] = user[v]
    PROVE  VisitOK(v)'
<1>1. VisitOK(v)
  BY DEF SessionsInv
<1>2. CASE ctx[v] = None
  BY <1>1, <1>2 DEF VisitOK
<1>3. CASE ctx[v] # None
  <2>1. PICK s \in Requests : s = ctx[v]
    BY <1>3, CtxType
  <2>2. Saved(s)
    BY <1>1, <1>3, <2>1 DEF VisitOK, Saved
  <2>3. s # r /\ req'[s] = req[s] /\ (Saved(s))'
    BY <2>2, SavedStays
  <2>4. HasSession(v) => HasSession(v)'
    BY <2>1, <2>3 DEF HasSession
  <2>5. IsTheUserOf(user[v], req[s]) => IsTheUserOf(user[v], req[s])'
    BY <2>3 DEF IsTheUserOf, IsUser, UsersKept
  <2>6. ctx'[v] = s /\ (Saved(ctx[v]))'
    BY <2>1, <2>3 DEF Saved
  <2> QED
    BY <1>1, <1>3, <2>1, <2>3, <2>4, <2>5, <2>6 DEF VisitOK
<1> QED
  BY <1>2, <1>3

\* A login or a registration moves on: it is no visit, and nobody has its session.
LEMMA NoVisitMoves ==
    ASSUME TypeInv, SessionsInv, UsersKept, NEW r \in Requests, ctx[r] = None,
           pc[r] # "done", pc'[r] # "act",
           \A s \in Requests : s # r => pc'[s] = pc[s] /\ req'[s] = req[s]
                                     /\ user'[s] = user[s] /\ data'[s] = data[s],
           pc'[r] \in {"session", "save"} => (IsTheUserOf(user[r], req[r]))',
           stored \subseteq stored', UNCHANGED ctx, CookiesOK'
    PROVE  SessionsInv'
<1>1. LoginsOK'
  <2>1. ASSUME NEW s \in Requests, s # r, pc'[s] \in {"session", "save"}
        PROVE  (IsTheUserOf(user[s], req[s]))'
    BY <2>1 DEF SessionsInv, LoginsOK, UsersKept, IsTheUserOf, IsUser
  <2> QED
    BY <2>1 DEF LoginsOK
<1>2. ASSUME NEW v \in Requests
      PROVE  VisitOK(v)'
  <2>1. CASE v = r
    BY <2>1 DEF VisitOK
  <2>2. CASE v # r
    BY <2>2, VisitStays
  <2> QED
    BY <2>1, <2>2
<1> QED
  BY <1>1, <1>2 DEF SessionsInv

\* Cookies stay good when no request that has saved a session moves.
LEMMA CookiesStay ==
    ASSUME TypeInv, SessionsInv, UsersKept, NEW r \in Requests, pc[r] # "done",
           \A s \in Requests : s # r => pc'[s] = pc[s] /\ req'[s] = req[s]
                                     /\ data'[s] = data[s],
           NEW b \in Browsers, cookie[b] # None, cookie'[b] = cookie[b]
    PROVE  (Saved(cookie[b]) /\ req[cookie[b]].browser = b)'
<1>1. PICK s \in Requests : s = cookie[b]
  BY CtxType
<1>2. Saved(s) /\ req[s].browser = b
  BY <1>1 DEF SessionsInv, CookiesOK, Saved
<1>3. req'[s] = req[s] /\ (Saved(s))'
  BY <1>2, SavedStays
<1> QED
  BY <1>1, <1>2, <1>3 DEF Saved

\* A visit moves on.
LEMMA VisitMoves ==
    ASSUME TypeInv, SessionsInv, NEW r \in Requests, pc[r] # "done",
           UNCHANGED <<users, stored, data, cookie>>,
           \A s \in Requests : s # r => pc'[s] = pc[s] /\ req'[s] = req[s]
                                     /\ user'[s] = user[s] /\ ctx'[s] = ctx[s],
           pc'[r] \notin {"session", "save"}, (VisitOK(r))'
    PROVE  SessionsInv'
<1>1. UsersKept
  BY DEF UsersKept
<1>2. LoginsOK'
  BY DEF SessionsInv, LoginsOK, IsTheUserOf, IsUser
<1>3. CookiesOK'
  BY <1>1, CookiesStay DEF CookiesOK
<1>4. ASSUME NEW v \in Requests, v # r
      PROVE  VisitOK(v)'
  BY <1>1, <1>4, VisitStays
<1> QED
  BY <1>2, <1>3, <1>4 DEF SessionsInv

\* Registering and logging in up to the session: no session is touched.
LEMMA FormStepSessions ==
    ASSUME TypeInv, SessionsInv, NEW r \in Requests,
           pc[r] \in {"new", "check", "insert", "lookup", "session", "save"},
           pc'[r] # "act", UsersKept, UNCHANGED sessionVars,
           \A s \in Requests : s # r => pc'[s] = pc[s] /\ req'[s] = req[s]
                                     /\ user'[s] = user[s],
           pc'[r] \in {"session", "save"} => (IsTheUserOf(user[r], req[r]))'
    PROVE  SessionsInv'
<1>1. ctx[r] = None
  BY DEF SessionsInv, VisitOK
<1>2. UNCHANGED <<stored, data, cookie, ctx>>
  BY DEF sessionVars
<1>3. CookiesOK'
  BY <1>2, CookiesStay DEF CookiesOK
<1> QED
  BY <1>1, <1>2, <1>3, NoVisitMoves

LEMMA StartSessions ==
    ASSUME TypeInv, SessionsInv, NEW r \in Requests, StartRegister(r) \/ StartLogin(r)
    PROVE  SessionsInv'
<1>1. \E to \in {"check", "lookup"} : Go(r, "new", to)
  BY Zenon DEF StartRegister, StartLogin
<1>2. \E q : req' = [req EXCEPT ![r] = q]
  BY Zenon DEF StartRegister, StartLogin
<1>3. UNCHANGED <<users, user, sessionVars>>
  BY DEF StartRegister, StartLogin
<1>4. /\ pc[r] = "new" /\ pc'[r] \in {"check", "lookup"}
      /\ \A s \in Requests : s # r => pc'[s] = pc[s] /\ req'[s] = req[s]
  BY <1>1, <1>2, GoType DEF TypeInv, TypeOK, Pcs
<1> QED
  BY <1>3, <1>4, FormStepSessions DEF UsersKept

LEMMA GetUserSessions ==
    ASSUME TypeInv, SessionsInv, NEW r \in Requests, GetUser(r)
    PROVE  SessionsInv'
<1>1. PICK i \in DOMAIN users :
         /\ Go(r, "lookup", IF IsUser(i, req[r]) THEN "session" ELSE "refused")
         /\ user' = [user EXCEPT ![r] = i]
  BY DEF GetUser
<1>2. /\ pc[r] = "lookup" /\ pc'[r] = IF IsUser(i, req[r]) THEN "session" ELSE "refused"
      /\ user'[r] = i
      /\ \A s \in Requests : s # r => pc'[s] = pc[s] /\ user'[s] = user[s]
      /\ UNCHANGED <<users, req, sessionVars>>
  BY <1>1, GoType DEF GetUser, TypeInv, TypeOK, Pcs
<1>3. pc'[r] \in {"session", "save"} => (IsTheUserOf(user[r], req[r]))'
  BY <1>2 DEF IsTheUserOf, IsUser
<1> QED
  BY <1>2, <1>3, FormStepSessions DEF UsersKept

\* New makes a session nobody has the id of; only Save hands the id out.
LEMMA NewSessionSessions ==
    ASSUME TypeInv, SessionsInv, NEW r \in Requests, NewSession(r)
    PROVE  SessionsInv'
<1>1. /\ pc[r] = "session" /\ pc'[r] = "save" /\ data' = [data EXCEPT ![r] = 0]
      /\ \A s \in Requests : s # r => pc'[s] = pc[s]
      /\ stored \subseteq stored' /\ UNCHANGED <<users, req, user, cookie, ctx>>
  BY GoType DEF NewSession, TypeInv, Pcs
<1>2. \A s \in Requests : s # r => data'[s] = data[s]
  BY <1>1 DEF TypeInv, TypeOK
<1>3. ctx[r] = None /\ IsTheUserOf(user[r], req[r])
  BY <1>1 DEF SessionsInv, VisitOK, LoginsOK
<1>4. CookiesOK'
  BY <1>1, <1>2, CookiesStay DEF CookiesOK, UsersKept
<1> QED
  BY <1>1, <1>2, <1>3, <1>4, NoVisitMoves DEF UsersKept, IsTheUserOf, IsUser

LEMMA SaveSessions ==
    ASSUME TypeInv, SessionsInv, NEW r \in Requests, Save(r)
    PROVE  SessionsInv'
<1>1. /\ pc[r] = "save" /\ pc'[r] = "done" /\ data' = [data EXCEPT ![r] = user[r]]
      /\ cookie' = [cookie EXCEPT ![req[r].browser] = r]
      /\ \A s \in Requests : s # r => pc'[s] = pc[s]
      /\ stored \subseteq stored' /\ UNCHANGED <<users, req, user, ctx>>
  BY GoType DEF Save, TypeInv, Pcs
<1>2. data'[r] = user[r] /\ \A s \in Requests : s # r => data'[s] = data[s]
  BY <1>1 DEF TypeInv, TypeOK
<1>3. ctx[r] = None /\ IsTheUserOf(user[r], req[r])
  BY <1>1 DEF SessionsInv, VisitOK, LoginsOK
<1>4. (Saved(r))'
  BY <1>1, <1>2, <1>3 DEF Saved, IsTheUserOf, IsUser
<1>5. CookiesOK'
  <2> SUFFICES ASSUME NEW b \in Browsers, cookie'[b] # None
               PROVE  (Saved(cookie[b]) /\ req[cookie[b]].browser = b)'
    BY DEF CookiesOK
  <2>1. CASE b = req[r].browser
    <3>1. cookie'[b] = r
      BY <1>1, <2>1 DEF TypeInv, TypeOK
    <3> QED
      BY <1>1, <1>4, <2>1, <3>1 DEF Saved
  <2>2. CASE b # req[r].browser
    <3>1. cookie'[b] = cookie[b]
      BY <1>1, <2>2 DEF TypeInv, TypeOK
    <3> QED
      BY <1>1, <1>2, <3>1, CookiesStay DEF UsersKept
  <2> QED
    BY <2>1, <2>2
<1> QED
  BY <1>1, <1>2, <1>3, <1>5, NoVisitMoves DEF UsersKept

LEMMA VisitStepSessions ==
    ASSUME TypeInv, SessionsInv, NEW r \in Requests, VisitStep(r)
    PROVE  SessionsInv'
<1>1. CASE Visit(r)
  <2>1. PICK b \in Browsers :
           /\ \E w \in Webapps : req' = [req EXCEPT ![r] =
                 [web |-> w, browser |-> b, name |-> None, pass |-> None]]
           /\ ctx' = [ctx EXCEPT ![r] = cookie[b]]
    BY <1>1 DEF Visit
  <2>2. /\ pc[r] = "new" /\ pc'[r] = "auth"
        /\ \A s \in Requests : s # r => pc'[s] = pc[s]
        /\ UNCHANGED <<users, user, stored, data, cookie>>
    BY <1>1, GoType DEF Visit, TypeInv, Pcs
  <2>3. /\ req'[r].browser = b /\ ctx'[r] = cookie[b]
        /\ \A s \in Requests : s # r => req'[s] = req[s] /\ ctx'[s] = ctx[s]
    BY <2>1 DEF TypeInv, TypeOK
  <2>4. (VisitOK(r))'
    <3>1. CASE cookie[b] = None
      BY <2>2, <2>3, <3>1 DEF VisitOK
    <3>2. CASE cookie[b] # None
      <4>1. (Saved(cookie[b]) /\ req[cookie[b]].browser = b)'
        BY <2>2, <2>3, <3>2, CookiesStay DEF UsersKept
      <4> QED
        BY <2>2, <2>3, <4>1 DEF VisitOK, Saved
    <3> QED
      BY <3>1, <3>2
  <2> QED
    BY <2>2, <2>3, <2>4, VisitMoves
<1>2. CASE AuthMiddleware(r) \/ Act(r)
  <2>1. /\ pc[r] \in {"auth", "act"} /\ pc'[r] \in {"act", "refused", "done"}
        /\ pc'[r] = "act" => HasSession(r)
        /\ pc'[r] = "done" => Act(r)
        /\ \A s \in Requests : s # r => pc'[s] = pc[s]
        /\ UNCHANGED <<users, req, sessionVars>>
    BY <1>2, GoType DEF AuthMiddleware, Act, TypeInv, Pcs
  <2>2. \A s \in Requests : s # r => user'[s] = user[s]
    BY <1>2 DEF AuthMiddleware, Act, TypeInv, TypeOK
  <2>3. (VisitOK(r))'
    <3>1. CASE ctx[r] = None
      BY <1>2, <2>1, <3>1 DEF VisitOK, sessionVars, HasSession, SessionsInv
    <3>2. CASE ctx[r] # None
      <4>1. PICK s \in Requests : s = ctx[r]
        BY <3>2, CtxType
      <4>2. Saved(s) /\ req[s].browser = req[r].browser /\ s # r
        BY <2>1, <3>2, <4>1 DEF SessionsInv, VisitOK, Saved
      <4>3. (Saved(s))' /\ ctx'[r] = s
        BY <2>1, <4>1, <4>2, SavedStays DEF UsersKept, sessionVars
      <4>4. pc'[r] = "act" => HasSession(r)'
        BY <2>1 DEF HasSession, sessionVars
      <4>5. pc'[r] = "done" => (IsTheUserOf(user[r], req[ctx[r]]))'
        <5>1. pc'[r] = "done" => user'[r] = data[s]
          BY <2>1, <4>1 DEF Act, TypeInv, TypeOK
        <5> QED
          BY <2>1, <4>1, <4>2, <5>1 DEF Saved, IsTheUserOf, IsUser, sessionVars
      <4> QED
        BY <2>1, <3>2, <4>2, <4>3, <4>4, <4>5 DEF VisitOK, Saved, sessionVars
    <3> QED
      BY <3>1, <3>2
  <2> QED
    BY <2>1, <2>2, <2>3, VisitMoves DEF sessionVars
<1> QED
  BY <1>1, <1>2 DEF VisitStep

\* The sessions of the other webapps, and who visits them, are not touched.
LEMMA RestartSessions ==
    ASSUME TypeInv, SessionsInv, NEW w \in Webapps, Restart(w)
    PROVE  SessionsInv'
<1>1. /\ UNCHANGED <<users, req, user, data, cookie, ctx>>
      /\ stored' = {s \in stored : req[s].web # w}
      /\ \A r \in Requests : /\ pc'[r] \in {pc[r], "gone"}
                             /\ pc[r] = "done" => pc'[r] = "done"
                             /\ pc'[r] = "act" => pc[r] = "act" /\ req[r].web # w
  BY DEF Restart
<1>2. \A s \in Requests : Saved(s) => (Saved(s))'
  BY <1>1 DEF Saved, IsTheUserOf, IsUser
<1>3. LoginsOK'
  BY <1>1 DEF SessionsInv, LoginsOK, IsTheUserOf, IsUser
<1>4. CookiesOK'
  <2> SUFFICES ASSUME NEW b \in Browsers, cookie[b] # None
               PROVE  (Saved(cookie[b]) /\ req[cookie[b]].browser = b)'
    BY <1>1 DEF CookiesOK
  <2>1. PICK s \in Requests : s = cookie[b]
    BY CtxType
  <2>2. Saved(s) /\ req[s].browser = b
    BY <2>1 DEF SessionsInv, CookiesOK, Saved
  <2> QED
    BY <1>1, <1>2, <2>1, <2>2 DEF Saved
<1>5. ASSUME NEW r \in Requests
      PROVE  VisitOK(r)'
  <2>1. VisitOK(r)
    BY DEF SessionsInv
  <2>2. CASE ctx[r] = None
    BY <1>1, <2>1, <2>2 DEF VisitOK
  <2>3. CASE ctx[r] # None
    <3>1. PICK s \in Requests : s = ctx[r]
      BY <2>3, CtxType
    <3>2. Saved(s) /\ req[s].browser = req[r].browser
      BY <2>1, <2>3, <3>1 DEF VisitOK, Saved
    <3>3. (Saved(s))' /\ ctx'[r] = s
      BY <1>1, <1>2, <3>1, <3>2
    <3>4. pc'[r] = "act" => HasSession(r)'
      BY <1>1, <2>1, <2>3 DEF VisitOK, HasSession
    <3>5. pc'[r] = "done" => (IsTheUserOf(user[r], req[ctx[r]]))'
      BY <1>1, <2>1, <2>3 DEF VisitOK, IsTheUserOf, IsUser
    <3> QED
      BY <1>1, <2>1, <2>3, <3>2, <3>3, <3>4, <3>5 DEF VisitOK, Saved
  <2> QED
    BY <2>2, <2>3
<1> QED
  BY <1>3, <1>4, <1>5 DEF SessionsInv

LEMMA StepSessions == TypeInv /\ SessionsInv /\ [Next]_vars => SessionsInv'
<1> SUFFICES ASSUME TypeInv, SessionsInv, [Next]_vars
             PROVE  SessionsInv'
  OBVIOUS
<1>1. ASSUME NEW r \in Requests,
             CheckName(r) \/ CheckNameFails(r) \/ NoSuchUser(r) \/ GetUserFails(r)
      PROVE  SessionsInv'
  <2>1. \E from \in {"check", "lookup"}, to \in {"refused", "insert", "error"} : Go(r, from, to)
    BY <1>1, Zenon DEF CheckName, CheckNameFails, NoSuchUser, GetUserFails, StoreFails
  <2>2. UNCHANGED <<users, req, user, sessionVars>>
    BY <1>1 DEF CheckName, CheckNameFails, NoSuchUser, GetUserFails
  <2>3. /\ pc[r] \in {"check", "lookup"} /\ pc'[r] \in {"refused", "insert", "error"}
        /\ \A s \in Requests : s # r => pc'[s] = pc[s]
    BY <2>1, GoType DEF TypeInv, Pcs
  <2> QED
    BY <2>2, <2>3, FormStepSessions DEF UsersKept
<1>2. ASSUME NEW r \in Requests, CreateUser(r)
      PROVE  SessionsInv'
  <2>1. UsersKept
    BY <1>2, UsersGrow, InsertOneType DEF TypeInv, UsersKept
  <2> QED
    BY <1>2, <2>1, UsersGrow, FormStepSessions
<1>3. ASSUME NEW b \in Browsers, CookieExpires(b)
      PROVE  SessionsInv'
  <2>1. /\ UNCHANGED <<users, pc, req, user, stored, data, ctx>>
        /\ \A c \in Browsers : cookie'[c] # None => cookie'[c] = cookie[c]
    BY <1>3 DEF CookieExpires, TypeInv, TypeOK
  <2> QED
    BY <2>1 DEF SessionsInv, LoginsOK, CookiesOK, VisitOK, Saved, HasSession, IsTheUserOf,
       IsUser
<1>4. CASE UNCHANGED vars
  BY <1>4 DEF vars, sessionVars, SessionsInv, LoginsOK, CookiesOK, VisitOK, Saved,
     HasSession, IsTheUserOf, IsUser
<1> QED
  BY <1>1, <1>2, <1>3, <1>4, StartSessions, GetUserSessions, NewSessionSessions,
     SaveSessions, VisitStepSessions, RestartSessions DEF Next, RegisterStep, LoginStep

\* A handler acts as a user whose name and password the same browser has given,
\* never as the nobody that a session holds between New and Save.
THEOREM ActsAsLoggedIn == Spec => []ActsAsWhoLoggedIn
<1>1. SessionsInv => ActsAsWhoLoggedIn
  BY DEF SessionsInv, VisitOK, ActsAsWhoLoggedIn, IsTheUserOf
<1> QED
  BY <1>1, InitTypeInv, StepTypeInv, InitSessions, StepSessions, PTL DEF Spec
=============================================================================
