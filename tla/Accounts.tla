------------------------------ MODULE Accounts ------------------------------
(***************************************************************************)
(* Users, sessions and app passwords: first-run setup (SetupGuard and      *)
(* SetupHandler), login, logout, and RequireAuth in front of every DAV     *)
(* request, in a process that starts as module Startup says and may die at *)
(* any time.  Each request is a goroutine; an action is one operation of   *)
(* the store with the code up to the next one.  What a DAV handler does    *)
(* once it is let in is in module DavHandlers.                             *)
(*                                                                         *)
(* No code in src/ deletes or renames a user, makes or deletes an app      *)
(* password (but the seed tool), or purges expired sessions.  A password   *)
(* hash is the password: Argon2 and SHA-256 are taken to be injective.     *)
(***************************************************************************)
EXTENDS Startup

CONSTANTS Requests,        \* the requests of a run; each runs once
          Calls,           \* what a request may ask for
          Tokens,          \* passwords presented with Basic authentication
          Prefixed,        \* those that begin with "chub_"
          MaxAge,          \* cfg.Auth.Session.MaxAge, in seconds
          TicksPerSecond,  \* the clock is finer than stored times
          MaxClock,        \* bound of the clock
          Never,           \* NULL in app_passwords.last_used_at
          SeedUsers,       \* users and app passwords made by the seed tool
          SeedAppPasswords

Ops == {"SETUP", "LOGIN", "LOGOUT", "DAV"}

(* "valid" is FALSE of a form that is malformed or fails the checks of its *)
(* handler, and of a GET, which only shows the form.  "token" is Absent    *)
(* when no Authorization header is sent, "cookie" likewise.                *)
Call == [op : Ops, name : UserNames, password : Passwords, valid : BOOLEAN,
         token : Tokens \cup {Absent}, cookie : Requests \cup {Absent}]

Session == [id : Requests, user : UserIds, expires : Nat]

AppPassword == [user : UserIds, token : Tokens, lastUsed : Nat \cup {Never}]

(* The credentials a setup or a login was given, the user it was about and *)
(* the time of the session.                                                *)
Grant == [name : UserNames, password : Passwords, user : UserIds, now : Nat]

ASSUME AccountsAssumption ==
    /\ Requests \subseteq UserIds
    /\ AdminID \notin Requests
    /\ Absent \notin Requests \cup Tokens \cup UserIds \cup Grant
    /\ Calls \subseteq Call
    /\ Prefixed \subseteq Tokens
    /\ MaxAge \in Nat /\ MaxClock \in Nat
    /\ TicksPerSecond \in Nat \ {0}
    /\ Never \notin Nat
    /\ SeedUsers \subseteq User
    /\ \A u \in SeedUsers : u.id \notin Requests \cup {AdminID}
    /\ \A u, v \in SeedUsers : u.name = v.name \/ u.id = v.id => u = v
    /\ SeedAppPasswords \subseteq AppPassword
    /\ \A ap \in SeedAppPasswords :
          ap.lastUsed = Never /\ \E u \in SeedUsers : u.id = ap.user
    /\ \A a, b \in SeedAppPasswords : a.token = b.token => a = b

VARIABLES sessions,      \* the table sessions
          appPasswords,  \* the table app_passwords
          clock,         \* time.Now(), in ticks
          pc,            \* the store operation a request does next
          call,          \* what it asks for
          loc,           \* its Go variables
          answer,        \* what it was told; "admitted" when RequireAuth lets it in
          touch,         \* the goroutine that records the use of an app password
          seen,          \* history: what was so when the request arrived
          granted,       \* history: what setups and logins were told, and when
          used,          \* history: when app passwords were let in
          loggedOut      \* history: the sessions that a LOGOUT deleted

locals == <<call, loc, seen>>
accountVars == <<sessions, appPasswords>>
history == <<granted, used, loggedOut>>
vars == <<startVars, accountVars, clock, pc, locals, answer, touch, history>>

Steps == {"idle", "setupCount", "setupCreate", "loginLookup", "loginCreate",
          "logoutDelete", "sessionLookup", "sessionUser", "basicLookup",
          "basicUser", "done"}

Answers == {"none", "page", "bad request", "not found", "error", "created",
            "session", "redirect", "admitted", "unauthorized", "lost"}

NoCall == [op |-> "none"]

Loc == [user : UserIds \cup {Absent}, now : Nat]
NoLoc == [user |-> Absent, now |-> 0]

Touch == [state : {"none", "spawned", "writing"}, token : Tokens \cup {Absent},
          time : Nat]
NoTouch == [state |-> "none", token |-> Absent, time |-> 0]

(* When a request arrived, whether there was a user or a configured admin  *)
(* then, and the sessions that were logged out by then.                    *)
Seen == [at : Nat, taken : BOOLEAN, out : SUBSET Requests]
NotSeen == [at |-> 0, taken |-> FALSE, out |-> {}]

(* Format(time.RFC3339) drops the fraction of a second. *)
Stored(t) == (t \div TicksPerSecond) * TicksPerSecond

TypeOK ==
    /\ StartupTypeOK
    /\ sessions \subseteq Session
    /\ appPasswords \subseteq AppPassword
    /\ clock \in Nat
    /\ pc \in [Requests -> Steps]
    /\ call \in [Requests -> Calls \cup {NoCall}]
    /\ loc \in [Requests -> Loc]
    /\ answer \in [Requests -> Answers]
    /\ touch \in [Requests -> Touch]
    /\ seen \in [Requests -> Seen]
    /\ granted \in [Requests -> Grant \cup {Absent}]
    /\ used \subseteq [token : Tokens, at : Nat]
    /\ loggedOut \subseteq Requests

Init ==
    /\ \E seeded \in BOOLEAN :
          /\ StartupInit(IF seeded THEN SeedUsers ELSE {})
          /\ appPasswords = IF seeded THEN SeedAppPasswords ELSE {}
    /\ sessions = {}
    /\ clock = 0
    /\ pc = [r \in Requests |-> "idle"]
    /\ call = [r \in Requests |-> NoCall]
    /\ loc = [r \in Requests |-> NoLoc]
    /\ answer = [r \in Requests |-> "none"]
    /\ touch = [r \in Requests |-> NoTouch]
    /\ seen = [r \in Requests |-> NotSeen]
    /\ granted = [r \in Requests |-> Absent]
    /\ used = {}
    /\ loggedOut = {}

-----------------------------------------------------------------------------
Goto(r, step) == /\ pc' = [pc EXCEPT ![r] = step]
                 /\ UNCHANGED answer

(* The local variables go with the goroutine. *)
Leave(r) == /\ call' = [call EXCEPT ![r] = NoCall]
            /\ loc' = [loc EXCEPT ![r] = NoLoc]
            /\ seen' = [seen EXCEPT ![r] = NotSeen]

Answer(r, a) == /\ pc' = [pc EXCEPT ![r] = "done"]
                /\ answer' = [answer EXCEPT ![r] = a]

Reply(r, a) == Answer(r, a) /\ Leave(r)

Grants(r, user, now) ==
    granted' = [granted EXCEPT ![r] = [name |-> call[r].name, user |-> user,
                                       password |-> call[r].password, now |-> now]]

(* A client sends the cookie of a session it was given, live or not. *)
Cookies == {Absent} \cup {r \in Requests : answer[r] = "session"}

(* Where a request begins.  Basic authentication decides alone when it is  *)
(* presented, and only a password with the prefix is looked up.            *)
FirstStep(c) ==
    CASE c.op = "SETUP" -> "setupCount"
      [] c.op = "LOGIN" /\ c.valid -> "loginLookup"
      [] c.op = "LOGOUT" /\ c.cookie # Absent -> "logoutDelete"
      [] c.op = "DAV" /\ c.token \in Prefixed -> "basicLookup"
      [] c.op = "DAV" /\ c.token = Absent /\ c.cookie # Absent -> "sessionLookup"
      [] OTHER -> "done"

(* The answer to a request that needs no store operation. *)
FirstAnswer(c) ==
    CASE c.op = "LOGIN" -> "bad request"
      [] c.op = "LOGOUT" -> "redirect"
      [] OTHER -> "unauthorized"

Arrive(r) ==
    /\ pc[r] = "idle"
    /\ boot = "serving"
    /\ \E c \in Calls :
          /\ c.cookie \in Cookies
          /\ \/ /\ FirstStep(c) # "done"
                /\ Goto(r, FirstStep(c))
                /\ call' = [call EXCEPT ![r] = c]
                /\ seen' = [seen EXCEPT ![r] =
                               [at |-> clock, out |-> loggedOut,
                                taken |-> users # {} \/ admin # Absent]]
             \/ /\ FirstStep(c) = "done"
                /\ Answer(r, FirstAnswer(c))
                /\ UNCHANGED <<call, seen>>
    /\ UNCHANGED <<startVars, accountVars, clock, loc, touch, history>>

-----------------------------------------------------------------------------
(* First-run setup *)

(* SetupGuard, and the checks of the form in SetupHandler. *)
SetupCount(r) ==
    /\ pc[r] = "setupCount"
    /\ \/ users # {} /\ Reply(r, "not found")
       \/ users = {} /\ ~ call[r].valid /\ Reply(r, "page")
       \/ users = {} /\ call[r].valid /\ Goto(r, "setupCreate") /\ UNCHANGED locals
    /\ UNCHANGED <<startVars, accountVars, clock, touch, history>>

NewUser(r) == [id |-> r, name |-> call[r].name, password |-> call[r].password]

(* Mutant of SetupCreate: a conflict is taken for success. *)
SetupCreateIgnoresConflict(r) ==
    /\ pc[r] = "setupCreate"
    /\ users' = IF CreateUserErr(NewUser(r)) = "nil" THEN users \cup {NewUser(r)}
                                                     ELSE users
    /\ Reply(r, "created")
    /\ Grants(r, r, 0)
    /\ UNCHANGED <<boot, binary, admin, left, tx, effective, applied, starts>>
    /\ UNCHANGED <<accountVars, clock, touch, used, loggedOut>>

(* local.CreateUser: the id is new, the name may be taken by now. *)
SetupCreate(r) ==
    /\ pc[r] = "setupCreate"
    /\ \/ /\ CreateUserErr(NewUser(r)) = "nil"
          /\ users' = users \cup {NewUser(r)}
          /\ Reply(r, "created")
          /\ Grants(r, r, 0)
       \/ /\ CreateUserErr(NewUser(r)) = "ErrConflict"
          /\ Reply(r, "page")
          /\ UNCHANGED <<users, granted>>
    /\ UNCHANGED <<boot, binary, admin, left, tx, effective, applied, starts>>
    /\ UNCHANGED <<accountVars, clock, touch, used, loggedOut>>

-----------------------------------------------------------------------------
(* Login and logout *)

(* The user that Provider.Authenticate returns. *)
Authenticated(r) ==
    {u \in users : u.name = call[r].name /\ u.password = call[r].password}

(* Authenticate, and the time from which the new session counts. *)
LoginLookup(r) ==
    /\ pc[r] = "loginLookup"
    /\ \/ \E u \in Authenticated(r) :
             /\ loc' = [loc EXCEPT ![r] = [user |-> u.id, now |-> clock]]
             /\ Goto(r, "loginCreate")
             /\ UNCHANGED <<call, seen>>
       \/ Authenticated(r) = {} /\ Reply(r, "page")
    /\ UNCHANGED <<startVars, accountVars, clock, touch, history>>

(* The row that LoginHandler inserts. *)
NewSession(r) == [id |-> r, user |-> loc[r].user,
                  expires |-> Stored(loc[r].now + MaxAge * TicksPerSecond)]

LoginCreate(r) ==
    /\ pc[r] = "loginCreate"
    /\ \E u \in users : u.id = loc[r].user     \* foreign key
    /\ sessions' = sessions \cup {NewSession(r)}
    /\ Reply(r, "session")
    /\ Grants(r, loc[r].user, loc[r].now)
    /\ UNCHANGED <<startVars, appPasswords, clock, touch, used, loggedOut>>

(* Mutant of LogoutDelete: all sessions of the user are deleted. *)
LogoutDeletesAll(r) ==
    LET mine == {s \in sessions : s.id = call[r].cookie} IN
    /\ pc[r] = "logoutDelete"
    /\ sessions' = {s \in sessions : \A m \in mine : s.user # m.user}
    /\ loggedOut' = loggedOut \cup {call[r].cookie}
    /\ Reply(r, "redirect")
    /\ UNCHANGED <<startVars, appPasswords, clock, touch, granted, used>>

(* DeleteSession; that there is no such row is no error. *)
LogoutDelete(r) ==
    /\ pc[r] = "logoutDelete"
    /\ sessions' = {s \in sessions : s.id # call[r].cookie}
    /\ loggedOut' = loggedOut \cup {call[r].cookie}
    /\ Reply(r, "redirect")
    /\ UNCHANGED <<startVars, appPasswords, clock, touch, granted, used>>

-----------------------------------------------------------------------------
(* RequireAuth *)

(* Mutant of Expired: the expiry is not looked at. *)
ExpiredNever(s) == FALSE

(* time.Now().After(session.ExpiresAt) *)
Expired(s) == clock > s.expires

(* The row was found: its owner is looked up next. *)
LookUpUser(r, step, user) ==
    /\ loc' = [loc EXCEPT ![r].user = user]
    /\ Goto(r, step)
    /\ UNCHANGED <<call, seen>>

(* GetSession *)
SessionLookup(r) ==
    LET live == {s \in sessions : s.id = call[r].cookie /\ ~ Expired(s)} IN
    /\ pc[r] = "sessionLookup"
    /\ \/ \E s \in live : LookUpUser(r, "sessionUser", s.user)
       \/ live = {} /\ Reply(r, "unauthorized")
    /\ UNCHANGED <<startVars, accountVars, clock, touch, history>>

(* GetAppPasswordByTokenHash *)
BasicLookup(r) ==
    LET found == {ap \in appPasswords : ap.token = call[r].token} IN
    /\ pc[r] = "basicLookup"
    /\ \/ \E ap \in found : LookUpUser(r, "basicUser", ap.user)
       \/ found = {} /\ Reply(r, "unauthorized")
    /\ UNCHANGED <<startVars, accountVars, clock, touch, history>>

(* Mutant of SessionUser: the expiry is pushed on, from the copy of the row. *)
SessionUserRenews(r) ==
    /\ pc[r] = "sessionUser"
    /\ sessions' = {s \in sessions : s.id # call[r].cookie}
                   \cup {[id |-> call[r].cookie, user |-> loc[r].user,
                          expires |-> clock + MaxAge * TicksPerSecond]}
    /\ Reply(r, "admitted")
    /\ UNCHANGED <<startVars, appPasswords, clock, touch, history>>

(* GetUserByID, and RequireAuth calls the handler of the resource. *)
SessionUser(r) ==
    /\ pc[r] = "sessionUser"
    /\ IF \E u \in users : u.id = loc[r].user
       THEN Reply(r, "admitted") ELSE Reply(r, "unauthorized")
    /\ UNCHANGED <<startVars, accountVars, clock, touch, history>>

(* The same; a goroutine is started to record the use. *)
BasicUser(r) ==
    /\ pc[r] = "basicUser"
    /\ IF \E u \in users : u.id = loc[r].user
       THEN /\ Reply(r, "admitted")
            /\ used' = used \cup {[token |-> call[r].token, at |-> clock]}
            /\ touch' = [touch EXCEPT ![r].state = "spawned",
                                      ![r].token = call[r].token]
       ELSE Reply(r, "unauthorized") /\ UNCHANGED <<used, touch>>
    /\ UNCHANGED <<startVars, accountVars, clock, granted, loggedOut>>

(* The goroutine evaluates time.Now() and then waits for the connection.   *)
(* It does not end with its request.                                       *)
TouchNow(r) ==
    /\ touch[r].state = "spawned"
    /\ touch' = [touch EXCEPT ![r].state = "writing", ![r].time = clock]
    /\ UNCHANGED <<startVars, accountVars, clock, pc, locals, answer, history>>

(* Mutant of Touched: every app password is updated. *)
TouchedAll(r, ap) == [ap EXCEPT !.lastUsed = Stored(touch[r].time)]

(* UPDATE app_passwords SET last_used_at = ? WHERE id = ? *)
Touched(r, ap) == IF ap.token = touch[r].token
                  THEN [ap EXCEPT !.lastUsed = Stored(touch[r].time)] ELSE ap

TouchWrite(r) ==
    /\ touch[r].state = "writing"
    /\ appPasswords' = {Touched(r, ap) : ap \in appPasswords}
    /\ touch' = [touch EXCEPT ![r] = NoTouch]
    /\ UNCHANGED <<startVars, sessions, clock, pc, locals, answer, history>>

-----------------------------------------------------------------------------
(* Mutant of ErrorStep: a failing count is taken for "no user yet". *)
ErrorStepOpens(r) ==
    CASE pc[r] = "setupCount" -> Goto(r, "setupCreate") /\ UNCHANGED locals
      [] pc[r] \in {"setupCreate", "loginLookup", "loginCreate"} -> Reply(r, "error")
      [] pc[r] = "logoutDelete" -> Reply(r, "redirect")
      [] OTHER -> Reply(r, "unauthorized")

(* What each handler makes of an error of its store operation: SetupGuard  *)
(* answers 404, login and setup 500, logout goes on, RequireAuth 401.      *)
ErrorStep(r) ==
    CASE pc[r] = "setupCount" -> Reply(r, "not found")
      [] pc[r] \in {"setupCreate", "loginLookup", "loginCreate"} -> Reply(r, "error")
      [] pc[r] = "logoutDelete" -> Reply(r, "redirect")
      [] OTHER -> Reply(r, "unauthorized")

StoreError(r) ==
    /\ pc[r] \notin {"idle", "done"}
    /\ ErrorStep(r)
    /\ UNCHANGED <<startVars, accountVars, clock, touch, history>>

(* The error of the update in the background is dropped. *)
TouchError(r) ==
    /\ touch[r].state = "writing"
    /\ touch' = [touch EXCEPT ![r] = NoTouch]
    /\ UNCHANGED <<startVars, accountVars, clock, pc, locals, answer, history>>

(* The process ends, by a signal or a crash: requests are given ten        *)
(* seconds, and nothing waits for the goroutines in the background.        *)
Crash ==
    /\ boot = "serving"
    /\ Stop
    /\ pc' = [r \in Requests |-> IF pc[r] = "idle" THEN "idle" ELSE "done"]
    /\ answer' = [r \in Requests |->
                     IF pc[r] \in {"idle", "done"} THEN answer[r] ELSE "lost"]
    /\ call' = [r \in Requests |-> NoCall]
    /\ loc' = [r \in Requests |-> NoLoc]
    /\ seen' = [r \in Requests |-> NotSeen]
    /\ touch' = [r \in Requests |-> NoTouch]
    /\ UNCHANGED <<accountVars, clock, history>>

Tick ==
    /\ clock < MaxClock
    /\ clock' = clock + 1
    /\ UNCHANGED <<startVars, accountVars, pc, locals, answer, touch, history>>

(* The instance is done when every request is. *)
Quiet ==
    /\ \A r \in Requests : pc[r] = "done" /\ touch[r] = NoTouch
    /\ UNCHANGED vars

(* Or when the process may not be started again. *)
StaysDown ==
    /\ boot = "stopped" /\ starts = MaxStarts
    /\ UNCHANGED vars

Step(r) ==
    \/ SetupCount(r)
    \/ SetupCreate(r)
    \/ LoginLookup(r)
    \/ LoginCreate(r)
    \/ LogoutDelete(r)
    \/ SessionLookup(r)
    \/ SessionUser(r)
    \/ BasicLookup(r)
    \/ BasicUser(r)

Background(r) == TouchNow(r) \/ TouchWrite(r)

Boot == /\ StartupNext
        /\ UNCHANGED <<accountVars, clock, pc, locals, answer, touch, history>>

Next ==
    \/ Boot
    \/ \E r \in Requests : Arrive(r) \/ Step(r) \/ Background(r)
                           \/ StoreError(r) \/ TouchError(r)
    \/ Crash
    \/ Tick
    \/ Quiet
    \/ StaysDown

Spec == Init /\ [][Next]_vars
=============================================================================
