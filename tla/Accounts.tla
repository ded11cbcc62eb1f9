------------------------------ MODULE Accounts ------------------------------
(***************************************************************************)
(* Users and sessions.  Registering asks MongoDB whether the name is free  *)
(* and then inserts the user; logging in looks the user up by name, checks *)
(* the password and puts a session into a map of the webapp process, whose *)
(* id the browser gets as a cookie; every other page is a visit, which     *)
(* AuthMiddleware lets through when its cookie names a session.            *)
(*                                                                         *)
(* A request is one run of a handler of one webapp.  rand.Text() gives a   *)
(* fresh id to every session: it is the login that made it.  The map of    *)
(* webapp w is the part of stored whose logins ran on w.                   *)
(***************************************************************************)
EXTENDS Naturals, Sequences

CONSTANTS
    Requests,   \* runs of handlers
    Webapps,    \* processes, each with its own sessions
    Browsers, UserNames, Passwords,
    None,       \* the absence of a value, also of a session cookie
    MaxFaults   \* bound: store errors and restarts

ASSUME AccountsAssumption == MaxFaults \in Nat /\ None \notin Requests

VARIABLES
    users,     \* MongoDB collection "users", in insertion order
    pc,        \* pc[r]: new, check, insert, lookup, session, save, auth, act,
               \* then done, refused, error, gone
    req,       \* req[r]: what was asked, by which browser and of which webapp
    user,      \* user[r]: the user that r has found or acts for, 0 for none
    stored,    \* sessions that are in the map of their webapp
    data,      \* data[s]: the user in the UserData of session s, 0 for none
    cookie,    \* cookie[b]: the session cookie of browser b
    ctx,       \* ctx[r]: the session id in r's context
    faults,    \* number of faults so far
    erred,     \* history: requests that met an error of the store
    raced,     \* history: names that two requests registered at the same time
    entitled   \* history: logins with the password of a user that was there

sessionVars == <<stored, data, cookie, ctx>>
history == <<erred, raced, entitled>>
vars == <<users, pc, req, user, sessionVars, faults, history>>

\* A request to register names no browser, a visit has no form.
Request == [web : Webapps \cup {None}, browser : Browsers \cup {None},
            name : UserNames \cup {None}, pass : Passwords \cup {None}]
NoRequest == [web |-> None, browser |-> None, name |-> None, pass |-> None]

\* sha256 with a secret, here any injective function.
hashPassword(p) == <<"sha256", p>>

Init ==
    /\ users = <<>>
    /\ pc = [r \in Requests |-> "new"]
    /\ req = [r \in Requests |-> NoRequest]
    /\ user = [r \in Requests |-> 0]
    /\ stored = {} /\ data = [s \in Requests |-> 0]
    /\ cookie = [b \in Browsers |-> None]
    /\ ctx = [r \in Requests |-> None]
    /\ faults = 0 /\ erred = {} /\ raced = {} /\ entitled = {}

Fault == faults < MaxFaults /\ faults' = faults + 1

Go(r, from, to) == pc[r] = from /\ pc' = [pc EXCEPT ![r] = to]

\* A call to MongoDB fails, and the handler with it.
StoreFails(r, from, to) ==
    /\ Go(r, from, to)
    /\ Fault
    /\ erred' = erred \cup {r}

IsUser(i, q) == users[i].name = q.name /\ users[i].pass = hashPassword(q.pass)

-----------------------------------------------------------------------------
Registering(n) ==
    {r \in Requests : pc[r] \in {"check", "insert"} /\ req[r].name = n}

\* Name and password are filled in (a form without them is answered at once).
StartRegister(r) ==
    /\ Go(r, "new", "check")
    /\ \E w \in Webapps, n \in UserNames, p \in Passwords :
        /\ req' = [req EXCEPT ![r] =
                      [web |-> w, browser |-> None, name |-> n, pass |-> p]]
        /\ raced' = IF Registering(n) = {} THEN raced ELSE raced \cup {n}
    /\ UNCHANGED <<users, user, sessionVars, faults, erred, entitled>>

MutantCheckName(r) ==
    /\ Go(r, "check", "insert")
    /\ UNCHANGED <<users, req, user, sessionVars, faults, history>>

\* GetUser: the name is taken, or there is no such user.
CheckName(r) ==
    /\ Go(r, "check", IF \E i \in DOMAIN users : users[i].name = req[r].name
                      THEN "refused" ELSE "insert")
    /\ UNCHANGED <<users, req, user, sessionVars, faults, history>>

CheckNameFails(r) ==
    /\ StoreFails(r, "check", "error")
    /\ UNCHANGED <<users, req, user, sessionVars, raced, entitled>>

MutantInsertOne(r) ==
    users' = Append(users, [name |-> req[r].name, pass |-> <<"plain", req[r].pass>>])

InsertOne(r) ==
    users' = Append(users, [name |-> req[r].name, pass |-> hashPassword(req[r].pass)])

\* No index makes the name unique.  An error may hide an insert that was made.
CreateUser(r) ==
    /\ \/ Go(r, "insert", "done") /\ InsertOne(r) /\ UNCHANGED <<faults, erred>>
       \/ /\ StoreFails(r, "insert", "error")
          /\ InsertOne(r) \/ UNCHANGED users
    /\ UNCHANGED <<req, user, sessionVars, raced, entitled>>

-----------------------------------------------------------------------------
StartLogin(r) ==
    /\ Go(r, "new", "lookup")
    /\ \E w \in Webapps, b \in Browsers, n \in UserNames, p \in Passwords :
        LET q == [web |-> w, browser |-> b, name |-> n, pass |-> p] IN
        /\ req' = [req EXCEPT ![r] = q]
        /\ entitled' = IF \E i \in DOMAIN users : IsUser(i, q)
                       THEN entitled \cup {r} ELSE entitled
    /\ UNCHANGED <<users, user, sessionVars, faults, erred, raced>>

\* As if it were served, like GetUserById, from Redis, where the copy of a user
\* has no password.
MutantGetUserCached(r) ==
    /\ \E i \in DOMAIN users :
        /\ users[i].name = req[r].name
        /\ Go(r, "lookup", "refused")
        /\ user' = [user EXCEPT ![r] = i]
    /\ UNCHANGED <<users, req, sessionVars, faults, history>>

\* FindOne gives one of the users of that name.
GetUser(r) ==
    /\ \E i \in DOMAIN users :
        /\ users[i].name = req[r].name
        /\ Go(r, "lookup", IF IsUser(i, req[r]) THEN "session" ELSE "refused")
        /\ user' = [user EXCEPT ![r] = i]
    /\ UNCHANGED <<users, req, sessionVars, faults, history>>

NoSuchUser(r) ==
    /\ Go(r, "lookup", "refused")
    /\ \A i \in DOMAIN users : users[i].name # req[r].name
    /\ UNCHANGED <<users, req, user, sessionVars, faults, history>>

\* An error of the store is answered like a wrong password.
GetUserFails(r) ==
    /\ StoreFails(r, "lookup", "refused")
    /\ UNCHANGED <<users, req, user, sessionVars, raced, entitled>>

\* session.New puts a session without a user into the map.
NewSession(r) ==
    /\ Go(r, "session", "save")
    /\ stored' = stored \cup {r}
    /\ data' = [data EXCEPT ![r] = 0]
    /\ UNCHANGED <<users, req, user, cookie, ctx, faults, history>>

MutantSave(r) ==
    /\ Go(r, "save", "done")
    /\ cookie' = [cookie EXCEPT ![req[r].browser] = r]
    /\ UNCHANGED <<users, req, user, stored, data, ctx, faults, history>>

\* Save puts it there again with its user; the cookie leaves with the answer.
Save(r) ==
    /\ Go(r, "save", "done")
    /\ stored' = stored \cup {r}
    /\ data' = [data EXCEPT ![r] = user[r]]
    /\ cookie' = [cookie EXCEPT ![req[r].browser] = r]
    /\ UNCHANGED <<users, req, user, ctx, faults, history>>

-----------------------------------------------------------------------------
\* session.Middleware keeps what the cookie says.
Visit(r) ==
    /\ Go(r, "new", "auth")
    /\ \E w \in Webapps, b \in Browsers :
        /\ req' = [req EXCEPT ![r] =
                      [web |-> w, browser |-> b, name |-> None, pass |-> None]]
        /\ ctx' = [ctx EXCEPT ![r] = cookie[b]]
    /\ UNCHANGED <<users, user, stored, data, cookie, faults, history>>

\* GetSession finds the session in the map of the webapp that serves r.
HasSession(r) ==
    ctx[r] # None /\ ctx[r] \in stored /\ req[ctx[r]].web = req[r].web

AuthMiddleware(r) ==
    /\ Go(r, "auth", IF HasSession(r) THEN "act" ELSE "refused")
    /\ UNCHANGED <<users, req, user, sessionVars, faults, history>>

\* The handler gets the session once more and acts as its user.
Act(r) ==
    /\ Go(r, "act", "done")
    /\ HasSession(r)
    /\ user' = [user EXCEPT ![r] = data[ctx[r]]]
    /\ UNCHANGED <<users, req, sessionVars, faults, history>>

\* MaxAge is an hour.
CookieExpires(b) ==
    /\ cookie[b] # None
    /\ cookie' = [cookie EXCEPT ![b] = None]
    /\ UNCHANGED <<users, pc, req, user, stored, data, ctx, faults, history>>

\* A webapp ends, with its requests and its sessions, and is started again.
Restart(w) ==
    /\ Fault
    /\ pc' = [r \in Requests |->
                IF req[r].web = w /\ pc[r] \notin {"new", "done", "refused", "error"}
                THEN "gone" ELSE pc[r]]
    /\ stored' = {s \in stored : req[s].web # w}
    /\ UNCHANGED <<users, req, user, data, cookie, ctx, history>>

-----------------------------------------------------------------------------
RegisterStep(r) == StartRegister(r) \/ CheckName(r) \/ CheckNameFails(r) \/ CreateUser(r)
LoginStep(r) == \/ StartLogin(r) \/ GetUser(r) \/ NoSuchUser(r) \/ GetUserFails(r)
                \/ NewSession(r) \/ Save(r)
VisitStep(r) == Visit(r) \/ AuthMiddleware(r) \/ Act(r)

Next == \/ \E r \in Requests : RegisterStep(r) \/ LoginStep(r) \/ VisitStep(r)
        \/ \E b \in Browsers : CookieExpires(b)
        \/ \E w \in Webapps : Restart(w)

Spec == Init /\ [][Next]_vars

-----------------------------------------------------------------------------
(* Properties.                                                             *)

User == [name : UserNames, pass : {hashPassword(p) : p \in Passwords}]

\* Every variable has its type.
TypeOK ==
    /\ users \in Seq(User)
    /\ pc \in [Requests -> {"new", "check", "insert", "lookup", "session", "save",
                            "auth", "act", "done", "refused", "error", "gone"}]
    /\ req \in [Requests -> Request]
    /\ user \in [Requests -> Nat] /\ data \in [Requests -> Nat]
    /\ stored \subseteq Requests
    /\ cookie \in [Browsers -> Requests \cup {None}]
    /\ ctx \in [Requests -> Requests \cup {None}]
    /\ faults \in Nat
    /\ erred \subseteq Requests /\ entitled \subseteq Requests
    /\ raced \subseteq UserNames

\* A name belongs to one user, unless two requests to register it ran at the
\* same time: then both may find it free (handlers.go:157) before either inserts.
NameTakenOnce ==
    \A i, j \in DOMAIN users :
        i # j /\ users[i].name = users[j].name => users[i].name \in raced

\* Whoever registered logs in with that password, on every webapp, unless the
\* store fails or the name was raced for, when FindOne may give the other user.
RightPasswordIsAccepted ==
    \A r \in entitled :
        pc[r] = "refused" => r \in erred \/ req[r].name \in raced

\* A handler behind AuthMiddleware acts as a user whose name and password were
\* given by the very browser that sends the request; never as nobody, which is
\* what a session holds between New and Save.
ActsAsWhoLoggedIn ==
    \A r \in Requests :
        ctx[r] # None /\ pc[r] = "done" =>
            /\ user[r] \in DOMAIN users
            /\ IsUser(user[r], req[ctx[r]])
            /\ req[ctx[r]].browser = req[r].browser
=============================================================================
