------------------------- MODULE AccountProperties -------------------------
(***************************************************************************)
(* What a user may expect of setup, login, logout and RequireAuth, stated  *)
(* of the states and steps of module Accounts.                             *)
(***************************************************************************)
EXTENDS Accounts

CONSTANT IdleTimeout   \* cfg.Auth.Session.IdleTimeout, in seconds, which
                       \* nothing in src/ reads
ASSUME IdleTimeoutAssumption == IdleTimeout \in Nat

(* Keys and references hold in spite of racing setups and restarts: of two *)
(* setups with one user name only one makes a user (setup.go:44-50), and   *)
(* sessions and app passwords belong to users.                             *)
AccountKeys ==
    /\ \A u, v \in users : u.id = v.id \/ u.name = v.name => u = v
    /\ \A s, t \in sessions : s.id = t.id => s = t
    /\ \A s \in sessions : \E u \in users : u.id = s.user
    /\ \A ap \in appPasswords : \E u \in users : u.id = ap.user

(* A setup makes a user only for a request that arrived when there was no  *)
(* user at all, in a process without a configured admin: neither a store   *)
(* that fails in SetupGuard (auth.go:114-118) nor a restart with another   *)
(* configuration opens it again.                                           *)
SetupOnlyAtFirst ==
    [][\A u \in users' \ users : u.id \in Requests => ~ seen[u.id].taken]_vars

(* Who is told that the setup is done can log in as asked, after any       *)
(* crash: the user is there with that name and password, and nobody else   *)
(* was told so for the same name (setup.go:44-54).                         *)
SetupAcknowledged ==
    LET created == {r \in Requests : answer[r] = "created"} IN
    /\ \A r \in created : \E u \in users :
          u.id = r /\ u.name = granted[r].name /\ u.password = granted[r].password
    /\ \A r, q \in created : granted[r].name = granted[q].name => r = q

(* A session that was given out opens the server to the user that logged   *)
(* in, until it is logged out: crashes and other logouts do not end it.    *)
(* It lasts no longer than MaxAge and, times being stored in seconds, less *)
(* than a second less (handler/auth.go:51-61, sessions.go:12-34).  Nothing *)
(* else ends it either: the idle timeout that config.example.yaml:37       *)
(* documents is applied nowhere (see IdleSessionsEnd).                     *)
SessionKept == \A r \in Requests :
    answer[r] = "session" /\ r \notin loggedOut =>
        \E s \in sessions, u \in users :
            /\ s.id = r
            /\ u.id = s.user
            /\ u.name = granted[r].name /\ u.password = granted[r].password
            /\ s.expires <= granted[r].now + MaxAge * TicksPerSecond
            /\ s.expires > granted[r].now + (MaxAge - 1) * TicksPerSecond

(* What justifies that the request r is let in as user: the app password   *)
(* is that user's, or the session was given to that user and was neither   *)
(* older than MaxAge nor logged out when the request arrived.              *)
Entitled(r, user) ==
    IF call[r].token # Absent
    THEN \E ap \in appPasswords : ap.token = call[r].token /\ ap.user = user
    ELSE LET login == call[r].cookie IN
         /\ answer[login] = "session"
         /\ granted[login].user = user
         /\ login \notin seen[r].out
         /\ seen[r].at <= granted[login].now + MaxAge * TicksPerSecond

(* A request is let in only as the owner of what it presents, and not on   *)
(* what had ended before it arrived (auth.go:54-107); what the lookups of  *)
(* RequireAuth found may be gone by then.  "Ended" is logged out or older  *)
(* than MaxAge; by the documentation an idle session has ended too, and    *)
(* the code lets it in (see IdleSessionsEnd).                              *)
AdmittedRightly ==
    [][\A r \in Requests :
          answer[r] = "none" /\ answer'[r] = "admitted" => Entitled(r, loc[r].user)]_vars

(* The last use of an app password is a time at which it had been let in,  *)
(* not before the first such request and not in the future, though the     *)
(* goroutines that record it run late and out of order (auth.go:96-98).    *)
LastUsedWasUse == \A ap \in appPasswords : ap.lastUsed # Never =>
    /\ ap.lastUsed <= clock
    /\ \E u \in used : u.token = ap.token /\ Stored(u.at) <= ap.lastUsed

(* A logout that was carried out is final: the session never comes back,   *)
(* also not by a login that was under way or by a restart.                 *)
LogoutFinal == [][\A r \in loggedOut :
    (\A s \in sessions : s.id # r) => \A s \in sessions' : s.id # r]_vars

(* "Idle session timeout in seconds" (config.example.yaml:37): a session   *)
(* is not let in when nobody used it for IdleTimeout.  When no request     *)
(* came but the login and this one, nobody used it in between.             *)
IdleSessionsEnd ==
    [][\A r \in Requests :
          /\ answer[r] = "none" /\ answer'[r] = "admitted"
          /\ call[r].token = Absent
          /\ \A q \in Requests \ {r, call[r].cookie} : pc[q] = "idle"
          => seen[r].at <= granted[call[r].cookie].now
                               + IdleTimeout * TicksPerSecond ]_vars

(* "The SetupGuard middleware ensures this is only reachable when no users *)
(* exist" (setup.go:13).                                                   *)
SetupReachedBeforeUsers ==
    [][\A r \in Requests : SetupCreate(r) => users = {}]_vars

-----------------------------------------------------------------------------
(* The invariant that every step preserves, besides the properties above *)

(* How far the start has come. *)
BootOK ==
    /\ boot \in {"check", "exec", "record", "commit"} => left # {}
    /\ boot \in {"stopped", "count", "admin", "serving"} => left = {}
    /\ boot \notin {"record", "commit"} => tx = NoTx
    /\ boot = "record" => tx = [done |-> {First}, recorded |-> {}]
    /\ boot = "commit" => tx = [done |-> {First}, recorded |-> {First}]
    /\ boot \in {"exec", "record", "commit"} => First \notin applied
    /\ binary \ left \subseteq applied
    /\ boot \in {"count", "admin"} => admin # Absent
    /\ boot = "serving" /\ admin # Absent => users # {}

(* What a request that is under way has seen so far still stands. *)
Underway(r) ==
    /\ call[r] \in Calls
    /\ call[r].cookie \in Cookies
    /\ seen[r].at <= clock
    /\ seen[r].out \subseteq loggedOut
    /\ seen[r].taken => users # {}
    /\ pc[r] = "setupCreate" => ~ seen[r].taken
    /\ pc[r] = "loginCreate" => \E u \in Authenticated(r) : u.id = loc[r].user
    /\ pc[r] = "logoutDelete" => call[r].cookie # Absent
    /\ pc[r] \in {"sessionLookup", "sessionUser"} =>
          call[r].token = Absent /\ call[r].cookie # Absent
    /\ pc[r] \in {"basicLookup", "basicUser"} => call[r].token # Absent
    /\ pc[r] \in {"sessionUser", "basicUser"} => Entitled(r, loc[r].user)

RequestsOK == \A r \in Requests :
    /\ pc[r] = "done" <=> answer[r] # "none"
    /\ pc[r] \notin {"idle", "done"} => Underway(r)
    /\ answer[r] \in {"created", "session"} => granted[r] # Absent

(* The table sessions holds what logins were given and was not logged out. *)
SessionsOK ==
    /\ \A s \in sessions :
          /\ answer[s.id] = "session"
          /\ s.id \notin loggedOut
          /\ s.user = granted[s.id].user
          /\ s.expires = Stored(granted[s.id].now + MaxAge * TicksPerSecond)
    /\ \A r \in loggedOut : answer[r] = "session"

(* A goroutine that records a use has one to record. *)
TouchesOK == \A r \in Requests :
    /\ touch[r].state # "none" =>
          \E u \in used : u.token = touch[r].token /\ u.at <= clock
    /\ touch[r].state = "writing" =>
          /\ touch[r].time <= clock
          /\ \E u \in used : u.token = touch[r].token /\ u.at <= touch[r].time

(* Types, keys and references, and what the steps rely on of each other.   *)
(* A session is in the table only while nobody was told that it is logged  *)
(* out, a start never leaves a migration behind it undone, and the facts   *)
(* a request has looked up one by one are still true when it acts on them  *)
(* (auth.go:54-107, migrations.go:41-77).                                  *)
IInv ==
    /\ TypeOK
    /\ AccountKeys
    /\ BootOK
    /\ EachOnce
    /\ RequestsOK
    /\ SessionsOK
    /\ TouchesOK
=============================================================================
