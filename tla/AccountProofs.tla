--------------------------- MODULE AccountProofs ---------------------------
(***************************************************************************)
(* Proofs about Startup and Accounts: their inductive invariant, and what  *)
(* follows from it for setup, login, logout and RequireAuth, for any       *)
(* number of requests, users, releases and restarts.                       *)
(***************************************************************************)
EXTENDS AccountProperties, WellFoundedInduction, TLAPS

(* The files of a release are numbers, so one of them comes first. *)
LEMMA LeastElement ==
    ASSUME NEW S \in SUBSET Nat, S # {}
    PROVE  \E m \in S : \A n \in S : m <= n
<1>1. PICK m \in S : \A n \in S : ~ (<<n, m>> \in OpToRel(<, Nat))
  BY NatLessThanWellFounded, WFMin
<1>2. \A n \in S : <<n, m>> \in OpToRel(<, Nat) <=> n < m
  BY DEF OpToRel
<1>3. \A n \in S : n \in Nat /\ m \in Nat /\ ~ (n < m)
  BY <1>1, <1>2
<1>4. \A n \in S : m <= n
  BY <1>3
<1> QED
  BY <1>4

LEMMA FirstIsLeft ==
    ASSUME StartupTypeOK, left # {}
    PROVE  First \in left /\ First \in Files
<1>1. left \in SUBSET Nat
  BY StartupAssumption DEF StartupTypeOK
<1>2. \E f \in left : \A g \in left : f <= g
  BY <1>1, LeastElement
<1>3. First \in left
  BY <1>2 DEF First
<1>4. left \subseteq Files
  BY DEF StartupTypeOK, Files
<1> QED
  BY <1>3, <1>4

-----------------------------------------------------------------------------
(* The start, in steps that do not depend on the requests *)

BootInv == StartupTypeOK /\ BootOK /\ EachOnce

LEMMA StartKeeps ==
    ASSUME BootInv, Start
    PROVE  BootInv'
<1> USE DEF BootInv
<1>1. StartupTypeOK'
  BY DEF StartupTypeOK, Start, Boots, NoTx, Files
<1>2. BootOK'
  BY StartupAssumption DEF Start, BootOK, NoTx
<1>3. EachOnce'
  BY DEF Start, EachOnce
<1> QED
  BY <1>1, <1>2, <1>3

LEMMA CheckKeeps ==
    ASSUME BootInv, MigrationCheck
    PROVE  BootInv'
<1> USE DEF BootInv
<1>1. First \in left
  BY FirstIsLeft DEF MigrationCheck, BootOK
<1>2. StartupTypeOK'
  BY DEF StartupTypeOK, MigrationCheck, Continue, Boots
<1>3. BootOK'
  <2>1. CASE First \in applied /\ Continue(left \ {First})
    BY <1>1, <2>1 DEF MigrationCheck, BootOK, Continue
  <2>2. CASE First \notin applied /\ boot' = "exec" /\ UNCHANGED left
    BY <2>2 DEF MigrationCheck, BootOK, First
  <2> QED
    BY <2>1, <2>2 DEF MigrationCheck
<1>4. EachOnce'
  BY DEF MigrationCheck, EachOnce
<1> QED
  BY <1>2, <1>3, <1>4

LEMMA ExecKeeps ==
    ASSUME BootInv, MigrationExec
    PROVE  BootInv'
<1> USE DEF BootInv
<1>1. First \in Files
  BY FirstIsLeft DEF MigrationExec, BootOK
<1>2. tx' = [done |-> {First}, recorded |-> {}]
  BY DEF MigrationExec, BootOK, NoTx
<1>3. StartupTypeOK'
  BY <1>1, <1>2 DEF StartupTypeOK, MigrationExec, Boots
<1>4. BootOK'
  <2>1. First' = First /\ First \notin applied
    BY DEF MigrationExec, BootOK, First
  <2> QED
    BY <1>2, <2>1 DEF MigrationExec, BootOK
<1>5. EachOnce'
  BY DEF MigrationExec, EachOnce
<1> QED
  BY <1>3, <1>4, <1>5

LEMMA RecordKeeps ==
    ASSUME BootInv, MigrationRecord
    PROVE  BootInv'
<1> USE DEF BootInv
<1>1. First \in Files
  BY FirstIsLeft DEF MigrationRecord, BootOK
<1>2. tx' = [done |-> {First}, recorded |-> {First}]
  BY DEF MigrationRecord, BootOK
<1>3. StartupTypeOK'
  BY <1>1, <1>2 DEF StartupTypeOK, MigrationRecord, Boots
<1>4. BootOK'
  <2>1. First' = First /\ First \notin applied
    BY DEF MigrationRecord, BootOK, First
  <2> QED
    BY <1>2, <2>1 DEF MigrationRecord, BootOK
<1>5. EachOnce'
  BY DEF MigrationRecord, EachOnce
<1> QED
  BY <1>3, <1>4, <1>5

LEMMA CommitKeeps ==
    ASSUME BootInv, MigrationCommit
    PROVE  BootInv'
<1> USE DEF BootInv
<1>1. First \in Files /\ First \in left /\ First \notin applied
  BY FirstIsLeft DEF MigrationCommit, BootOK
<1>2. /\ effective' = [f \in Files |-> IF f = First THEN effective[f] + 1
                                                     ELSE effective[f]]
      /\ applied' = applied \cup {First}
  BY DEF MigrationCommit, BootOK
<1>3. StartupTypeOK'
  BY <1>1, <1>2 DEF StartupTypeOK, MigrationCommit, Continue, Boots, NoTx
<1>4. BootOK'
  BY <1>1, <1>2 DEF MigrationCommit, BootOK, Continue
<1>5. EachOnce'
  BY <1>1, <1>2 DEF EachOnce
<1> QED
  BY <1>3, <1>4, <1>5

LEMMA CountKeeps ==
    ASSUME BootInv, AdminCount
    PROVE  BootInv'
<1> USE DEF BootInv
<1>1. StartupTypeOK'
  BY DEF StartupTypeOK, AdminCount, Boots
<1>2. BootOK'
  BY DEF AdminCount, BootOK
<1>3. EachOnce'
  BY DEF AdminCount, EachOnce
<1> QED
  BY <1>1, <1>2, <1>3

LEMMA CreateKeeps ==
    ASSUME BootInv, AdminCreate
    PROVE  BootInv'
<1> USE DEF BootInv
<1>1. [id |-> AdminID, name |-> admin.name, password |-> admin.password] \in User
  BY StartupAssumption DEF AdminCreate, BootOK, StartupTypeOK, User, Credentials
<1>2. StartupTypeOK'
  BY <1>1 DEF StartupTypeOK, AdminCreate, Boots
<1>3. BootOK'
  BY DEF AdminCreate, BootOK
<1>4. EachOnce'
  BY DEF AdminCreate, EachOnce
<1> QED
  BY <1>2, <1>3, <1>4

LEMMA StopKeeps ==
    ASSUME BootInv, Stop
    PROVE  BootInv'
<1> USE DEF BootInv
<1>1. StartupTypeOK'
  BY DEF StartupTypeOK, Stop, Boots, NoTx
<1>2. BootOK'
  BY DEF Stop, BootOK
<1>3. EachOnce'
  BY DEF Stop, EachOnce
<1> QED
  BY <1>1, <1>2, <1>3

LEMMA StartupKeeps ==
    ASSUME BootInv, StartupNext
    PROVE  BootInv'
BY StartKeeps, CheckKeeps, ExecKeeps, RecordKeeps, CommitKeeps, CountKeeps,
   CreateKeeps, StopKeeps DEF StartupNext, StartupError

LEMMA BootUnchanged ==
    ASSUME BootInv, UNCHANGED startVars
    PROVE  BootInv'
<1> USE DEF BootInv, startVars
<1>1. StartupTypeOK'
  BY DEF StartupTypeOK
<1>2. First' = First
  BY DEF First
<1>3. BootOK'
  BY <1>2 DEF BootOK
<1>4. EachOnce'
  BY DEF EachOnce
<1> QED
  BY <1>1, <1>3, <1>4

(* A new user, made by a setup, does not matter to the start. *)
LEMMA BootNewUser ==
    ASSUME BootInv, NEW u \in User, users' = users \cup {u},
           UNCHANGED <<boot, binary, admin, left, tx, effective, applied, starts>>
    PROVE  BootInv'
<1> USE DEF BootInv
<1>1. StartupTypeOK'
  BY DEF StartupTypeOK
<1>2. First' = First
  BY DEF First
<1>3. BootOK'
  BY <1>2 DEF BootOK
<1>4. EachOnce'
  BY DEF EachOnce
<1> QED
  BY <1>1, <1>3, <1>4

LEMMA BootInit ==
    ASSUME NEW seed \in SUBSET User, StartupInit(seed)
    PROVE  BootInv
<1>1. applied \subseteq Files
  BY StartupAssumption DEF StartupInit, Files
<1>2. effective \in [Files -> Nat] /\ EachOnce
  BY <1>1 DEF StartupInit, EachOnce
<1>3. StartupTypeOK
  BY <1>1, <1>2 DEF StartupInit, StartupTypeOK, Boots, NoTx
<1>4. BootOK
  BY DEF StartupInit, BootOK
<1> QED
  BY <1>2, <1>3, <1>4 DEF BootInv

-----------------------------------------------------------------------------
(* Times as they are stored *)

LEMMA StoredTime ==
    ASSUME NEW t \in Nat
    PROVE  /\ Stored(t) \in Nat
           /\ Stored(t) <= t
           /\ t < Stored(t) + TicksPerSecond
<1>1. TicksPerSecond \in Nat /\ TicksPerSecond > 0
  BY AccountsAssumption
<1>2. t \div TicksPerSecond \in Nat
  BY <1>1
<1>3. t = TicksPerSecond * (t \div TicksPerSecond) + (t % TicksPerSecond)
  BY <1>1
<1>4. t % TicksPerSecond \in 0..(TicksPerSecond - 1)
  BY <1>1
<1>5. /\ (t \div TicksPerSecond) * TicksPerSecond \in Nat
      /\ (t \div TicksPerSecond) * TicksPerSecond
            = TicksPerSecond * (t \div TicksPerSecond)
  BY <1>1, <1>2
<1> QED
  BY <1>1, <1>3, <1>4, <1>5 DEF Stored

LEMMA StoredMonotone ==
    ASSUME NEW s \in Nat, NEW t \in Nat, s <= t
    PROVE  Stored(s) <= Stored(t)
<1>1. TicksPerSecond \in Nat /\ TicksPerSecond > 0
  BY AccountsAssumption
<1>2. /\ s \div TicksPerSecond \in Nat /\ t \div TicksPerSecond \in Nat
      /\ s \div TicksPerSecond <= t \div TicksPerSecond
  BY <1>1
<1>3. \A a, b, c \in Nat : a <= b => a * c <= b * c
  OBVIOUS
<1> QED
  BY <1>1, <1>2, <1>3 DEF Stored

LEMMA MaxAgeTicks ==
    /\ MaxAge * TicksPerSecond \in Nat
    /\ (MaxAge - 1) * TicksPerSecond = MaxAge * TicksPerSecond - TicksPerSecond
<1>1. MaxAge \in Nat /\ TicksPerSecond \in Nat
  BY AccountsAssumption
<1>2. MaxAge * TicksPerSecond \in Nat
  BY <1>1
<1>3. (MaxAge - 1) * TicksPerSecond = MaxAge * TicksPerSecond - TicksPerSecond
  BY <1>1
<1> QED
  BY <1>2, <1>3

-----------------------------------------------------------------------------
(* What a step of one request leaves to the others *)

Running(r) == pc[r] \notin {"idle", "done"}

(* The request r is where it was. *)
Untouched(r) ==
    /\ pc'[r] = pc[r] /\ answer'[r] = answer[r]
    /\ call'[r] = call[r] /\ loc'[r] = loc[r] /\ seen'[r] = seen[r]

(* Nothing that a request may have seen is taken back. *)
Grows ==
    /\ users \subseteq users'
    /\ clock <= clock'
    /\ loggedOut \subseteq loggedOut'
    /\ \A r \in Requests : answer[r] # "none" =>
          answer'[r] = answer[r] /\ granted'[r] = granted[r]
    /\ \A ap \in appPasswords : \E bp \in appPasswords' :
          bp.token = ap.token /\ bp.user = ap.user

LEMMA CookiesStay ==
    ASSUME Grows
    PROVE  Cookies \subseteq Cookies'
BY DEF Grows, Cookies

LEMMA EntitledStays ==
    ASSUME TypeOK, Grows, NEW r \in Requests, NEW user, Untouched(r),
           call[r] \in Calls, call[r].token = Absent => call[r].cookie \in Requests,
           Entitled(r, user)
    PROVE  Entitled(r, user)'
<1>1. CASE call[r].token # Absent
  BY <1>1 DEF Entitled, Untouched, Grows
<1>2. CASE call[r].token = Absent
  <2> DEFINE login == call[r].cookie
  <2>1. /\ login \in Requests /\ answer[login] = "session"
        /\ granted[login].user = user
        /\ login \notin seen[r].out
        /\ seen[r].at <= granted[login].now + MaxAge * TicksPerSecond
    BY <1>2 DEF Entitled
  <2>2. answer'[login] = "session" /\ granted'[login] = granted[login]
    BY <2>1 DEF Grows
  <2>3. call'[r] = call[r] /\ seen'[r] = seen[r]
    BY DEF Untouched
  <2> QED
    BY <1>2, <2>1, <2>2, <2>3 DEF Entitled
<1> QED
  BY <1>1, <1>2

LEMMA RunningStays ==
    ASSUME TypeOK, TypeOK', Grows, NEW r \in Requests, Untouched(r), Running(r),
           Underway(r)
    PROVE  Underway(r)'
<1>1. /\ pc'[r] = pc[r] /\ call'[r] = call[r] /\ loc'[r] = loc[r]
      /\ seen'[r] = seen[r]
  BY DEF Untouched
<1>2. call'[r] \in Calls /\ call'[r].cookie \in Cookies'
  BY <1>1, CookiesStay DEF Underway
<1>3. seen'[r].at <= clock'
  <2>1. seen[r].at \in Nat /\ clock \in Nat /\ clock' \in Nat
    BY DEF TypeOK, Seen
  <2> QED
    BY <1>1, <2>1 DEF Underway, Grows
<1>4. /\ seen'[r].out \subseteq loggedOut'
      /\ seen'[r].taken => users' # {}
      /\ pc'[r] = "setupCreate" => ~ seen'[r].taken
  BY <1>1 DEF Underway, Grows
<1>5. pc'[r] = "loginCreate" => \E u \in Authenticated(r)' : u.id = loc'[r].user
  BY <1>1 DEF Underway, Grows, Authenticated
<1>6. /\ pc'[r] = "logoutDelete" => call'[r].cookie # Absent
      /\ pc'[r] \in {"sessionLookup", "sessionUser"} =>
            call'[r].token = Absent /\ call'[r].cookie # Absent
      /\ pc'[r] \in {"basicLookup", "basicUser"} => call'[r].token # Absent
  BY <1>1 DEF Underway
<1>7. pc'[r] \in {"sessionUser", "basicUser"} => Entitled(r, loc[r].user)'
  <2> SUFFICES ASSUME pc[r] \in {"sessionUser", "basicUser"}
               PROVE  Entitled(r, loc[r].user)'
    BY <1>1
  <2>1. Entitled(r, loc[r].user) /\ call[r] \in Calls
    BY DEF Underway
  <2>2. call[r].token = Absent => call[r].cookie \in Requests
    BY DEF Underway, Cookies
  <2>3. Entitled(r, loc[r].user)'
    BY <2>1, <2>2, EntitledStays DEF Entitled, Untouched, Grows
  <2> QED
    BY <2>3
<1> QED
  BY <1>2, <1>3, <1>4, <1>5, <1>6, <1>7 DEF Underway

(* The rest of the invariant of the requests, for a step that leaves all   *)
(* of them alone. *)
LEMMA RequestsUntouched ==
    ASSUME TypeOK, TypeOK', RequestsOK, Grows,
           UNCHANGED <<pc, locals, answer, granted>>
    PROVE  RequestsOK'
<1> SUFFICES ASSUME NEW r \in Requests
             PROVE  /\ pc'[r] = "done" <=> answer'[r] # "none"
                    /\ pc'[r] \notin {"idle", "done"} => Underway(r)'
                    /\ answer'[r] \in {"created", "session"} => granted'[r] # Absent
  BY DEF RequestsOK
<1>1. Untouched(r)
  BY DEF Untouched, locals
<1>2. pc'[r] \notin {"idle", "done"} => Underway(r)'
  BY <1>1, RunningStays DEF RequestsOK, Running, Untouched
<1> QED
  BY <1>2 DEF RequestsOK

(* The same, when one request moves. *)
LEMMA OneRequestMoves ==
    ASSUME TypeOK, TypeOK', RequestsOK, Grows, NEW r \in Requests,
           \A q \in Requests : q # r => Untouched(q) /\ granted'[q] = granted[q],
           pc'[r] = "done" <=> answer'[r] # "none",
           pc'[r] \notin {"idle", "done"} => Underway(r)',
           answer'[r] \in {"created", "session"} => granted'[r] # Absent
    PROVE  RequestsOK'
<1> SUFFICES ASSUME NEW q \in Requests
             PROVE  /\ pc'[q] = "done" <=> answer'[q] # "none"
                    /\ pc'[q] \notin {"idle", "done"} => Underway(q)'
                    /\ answer'[q] \in {"created", "session"} => granted'[q] # Absent
  BY DEF RequestsOK
<1>1. CASE q = r
  BY <1>1
<1>2. CASE q # r
  <2>1. Untouched(q) /\ granted'[q] = granted[q]
    BY <1>2
  <2>2. pc'[q] \notin {"idle", "done"} => Underway(q)'
    BY <2>1, RunningStays DEF RequestsOK, Running, Untouched
  <2> QED
    BY <2>1, <2>2 DEF RequestsOK, Untouched
<1> QED
  BY <1>1, <1>2

LEMMA SessionsStay ==
    ASSUME TypeOK, SessionsOK, Grows, UNCHANGED <<sessions, loggedOut>>
    PROVE  SessionsOK'
<1>1. \A r \in Requests : answer[r] = "session" =>
         answer'[r] = "session" /\ granted'[r] = granted[r]
  BY DEF Grows
<1>2. \A s \in sessions : s.id \in Requests
  BY DEF TypeOK, Session
<1>3. loggedOut \subseteq Requests
  BY DEF TypeOK
<1> QED
  BY <1>1, <1>2, <1>3 DEF SessionsOK

LEMMA TouchesStay ==
    ASSUME TypeOK, TypeOK', TouchesOK, Grows, used \subseteq used', UNCHANGED touch
    PROVE  TouchesOK'
<1>1. clock \in Nat /\ clock' \in Nat /\ clock <= clock'
  BY DEF TypeOK, Grows
<1>2. \A u \in used : u.at \in Nat
  BY DEF TypeOK
<1>3. \A r \in Requests : touch[r].time \in Nat
  BY DEF TypeOK, Touch
<1> QED
  BY <1>1, <1>2, <1>3 DEF TouchesOK

LEMMA KeysStay ==
    ASSUME AccountKeys, UNCHANGED <<users, sessions, appPasswords>>
    PROVE  AccountKeys'
BY DEF AccountKeys

LEMMA Replied ==
    ASSUME TypeOK, NEW r \in Requests, NEW a \in Answers, Reply(r, a)
    PROVE  /\ pc' \in [Requests -> Steps] /\ answer' \in [Requests -> Answers]
           /\ call' \in [Requests -> Calls \cup {NoCall}]
           /\ loc' \in [Requests -> Loc] /\ seen' \in [Requests -> Seen]
           /\ pc'[r] = "done" /\ answer'[r] = a
           /\ \A q \in Requests : q # r => Untouched(q)
BY DEF TypeOK, Reply, Answer, Leave, Untouched, Steps, NoLoc, Loc, NotSeen, Seen

LEMMA NoAnswerYet ==
    ASSUME TypeOK, RequestsOK, NEW r \in Requests, pc[r] # "done"
    PROVE  answer[r] = "none"
BY DEF RequestsOK

-----------------------------------------------------------------------------
(* Steps that only move one request *)

Moves(r) ==
    /\ pc[r] # "done"
    /\ \A q \in Requests : q # r => Untouched(q)
    /\ UNCHANGED <<startVars, accountVars, clock, touch, history>>
    /\ pc' \in [Requests -> Steps] /\ answer' \in [Requests -> Answers]
    /\ call' \in [Requests -> Calls \cup {NoCall}]
    /\ loc' \in [Requests -> Loc] /\ seen' \in [Requests -> Seen]

LEMMA MoveKeeps ==
    ASSUME IInv, NEW r \in Requests, Moves(r),
           pc'[r] = "done" <=> answer'[r] # "none",
           pc'[r] \notin {"idle", "done"} => Underway(r)',
           answer'[r] \notin {"created", "session"}
    PROVE  IInv'
<1> USE DEF IInv
<1>1. BootInv'
  BY BootUnchanged DEF BootInv, TypeOK, Moves
<1>2. TypeOK'
  BY <1>1 DEF TypeOK, BootInv, Moves, accountVars, history
<1>3. answer[r] = "none"
  BY NoAnswerYet DEF Moves
<1>4. Grows
  <2>1. clock' \in Nat /\ clock' = clock
    BY DEF Moves, TypeOK
  <2>2. \A q \in Requests : answer[q] # "none" => answer'[q] = answer[q]
    BY <1>3 DEF Moves, Untouched
  <2> QED
    BY <2>1, <2>2 DEF Grows, Moves, startVars, accountVars, history
<1>5. RequestsOK'
  BY <1>2, <1>4, OneRequestMoves DEF Moves, history
<1>6. AccountKeys' /\ SessionsOK' /\ TouchesOK'
  BY <1>2, <1>4, KeysStay, SessionsStay, TouchesStay
     DEF Moves, startVars, accountVars, history
<1> QED
  BY <1>1, <1>2, <1>5, <1>6 DEF BootInv

(* The request is answered, by something that gives it no rights. *)
LEMMA ReplyKeeps ==
    ASSUME IInv, NEW r \in Requests, NEW a \in Answers \ {"none", "created", "session"},
           pc[r] # "done", Reply(r, a),
           UNCHANGED <<startVars, accountVars, clock, touch, history>>
    PROVE  IInv'
<1>1. Moves(r) /\ pc'[r] = "done" /\ answer'[r] = a
  BY Replied DEF IInv, Moves
<1> QED
  BY <1>1, MoveKeeps

(* The request goes on to another step. *)
LEMMA GotoKeeps ==
    ASSUME IInv, NEW r \in Requests, NEW step \in Steps \ {"idle", "done"},
           pc[r] # "done", Goto(r, step),
           \A q \in Requests : q # r =>
              call'[q] = call[q] /\ loc'[q] = loc[q] /\ seen'[q] = seen[q],
           call' \in [Requests -> Calls \cup {NoCall}],
           loc' \in [Requests -> Loc], seen' \in [Requests -> Seen],
           UNCHANGED <<startVars, accountVars, clock, touch, history>>,
           Underway(r)'
    PROVE  IInv'
<1>1. answer'[r] = "none"
  BY NoAnswerYet DEF IInv, Goto
<1>2. Moves(r) /\ pc'[r] = step
  BY DEF IInv, TypeOK, Moves, Goto, Untouched
<1> QED
  BY <1>1, <1>2, MoveKeeps

LEMMA FirstSteps ==
    ASSUME NEW c \in Call
    PROVE  /\ FirstStep(c) \in {"setupCount", "loginLookup", "logoutDelete",
                                "basicLookup", "sessionLookup", "done"}
           /\ FirstStep(c) = "logoutDelete" => c.cookie # Absent
           /\ FirstStep(c) = "basicLookup" => c.token # Absent
           /\ FirstStep(c) = "sessionLookup" => c.token = Absent /\ c.cookie # Absent
           /\ FirstAnswer(c) \in {"bad request", "redirect", "unauthorized"}
<1>1. Absent \notin Prefixed
  BY AccountsAssumption
<1> QED
  BY <1>1 DEF FirstStep, FirstAnswer, Call

LEMMA ArriveKeeps ==
    ASSUME IInv, NEW r \in Requests, Arrive(r)
    PROVE  IInv'
<1> USE DEF IInv
<1>1. PICK c \in Calls :
         /\ c.cookie \in Cookies
         /\ \/ /\ FirstStep(c) # "done"
               /\ Goto(r, FirstStep(c))
               /\ call' = [call EXCEPT ![r] = c]
               /\ seen' = [seen EXCEPT ![r] = [at |-> clock, out |-> loggedOut,
                                               taken |-> users # {} \/ admin # Absent]]
            \/ /\ FirstStep(c) = "done"
               /\ Answer(r, FirstAnswer(c))
               /\ UNCHANGED <<call, seen>>
  BY DEF Arrive
<1>2. /\ UNCHANGED <<startVars, accountVars, clock, loc, touch, history>>
      /\ pc[r] = "idle" /\ boot = "serving"
  BY DEF Arrive
<1>3. c \in Call
  BY AccountsAssumption
<1>4. CASE FirstStep(c) = "done"
  <2>1. Answer(r, FirstAnswer(c)) /\ UNCHANGED <<call, seen>>
    BY <1>1, <1>4
  <2>2. FirstAnswer(c) \in Answers \ {"none", "created", "session"}
    BY <1>3, FirstSteps DEF Answers
  <2>3. Moves(r)
    BY <1>2, <2>1, <2>2 DEF TypeOK, Moves, Answer, Untouched, Steps
  <2>4. pc'[r] = "done" /\ answer'[r] = FirstAnswer(c)
    BY <2>1 DEF TypeOK, Answer
  <2> QED
    BY <2>2, <2>3, <2>4, MoveKeeps
<1>5. CASE FirstStep(c) # "done"
  <2>1. /\ Goto(r, FirstStep(c))
        /\ call' = [call EXCEPT ![r] = c]
        /\ seen' = [seen EXCEPT ![r] = [at |-> clock, out |-> loggedOut,
                                        taken |-> users # {} \/ admin # Absent]]
    BY <1>1, <1>5
  <2>2. FirstStep(c) \in Steps \ {"idle", "done"}
    BY <1>3, <1>5, FirstSteps DEF Steps
  <2>3. [at |-> clock, out |-> loggedOut,
         taken |-> users # {} \/ admin # Absent] \in Seen
    BY DEF TypeOK, Seen
  <2>4. /\ call' \in [Requests -> Calls \cup {NoCall}] /\ call'[r] = c
        /\ seen' \in [Requests -> Seen]
        /\ seen'[r] = [at |-> clock, out |-> loggedOut,
                       taken |-> users # {} \/ admin # Absent]
        /\ \A q \in Requests : q # r => call'[q] = call[q] /\ seen'[q] = seen[q]
    BY <2>1, <2>3 DEF TypeOK
  <2>5. /\ UNCHANGED <<users, clock, loggedOut, loc, answer>>
        /\ pc'[r] = FirstStep(c)
    BY <1>2, <2>1 DEF startVars, history, Goto, TypeOK
  <2>6. Cookies' = Cookies
    BY <2>5 DEF Cookies
  <2>7. users # {} \/ admin # Absent => users # {}
    BY <1>2 DEF BootOK
  <2>8. /\ call'[r] \in Calls /\ call'[r].cookie \in Cookies'
        /\ seen'[r].at <= clock' /\ seen'[r].out \subseteq loggedOut'
    BY <1>1, <2>4, <2>5, <2>6 DEF TypeOK
  <2>9. seen'[r].taken => users' # {}
    <3> DEFINE b == users # {} \/ admin # Absent
    <3> HIDE DEF b
    <3>1. seen'[r] = [at |-> clock, out |-> loggedOut, taken |-> b]
      BY <2>4 DEF b
    <3>2. seen'[r].taken = b
      BY <3>1
    <3>3. b => users # {}
      BY <2>7 DEF b
    <3> QED
      BY <2>5, <3>2, <3>3, Zenon
  <2>10. Underway(r)'
    BY <1>3, <1>5, <2>4, <2>5, <2>8, <2>9, FirstSteps DEF Underway
  <2> QED
    BY <1>2, <2>1, <2>2, <2>4, <2>5, <2>10, GotoKeeps DEF TypeOK
<1> QED
  BY <1>4, <1>5

LEMMA SetupCountKeeps ==
    ASSUME IInv, NEW r \in Requests, SetupCount(r)
    PROVE  IInv'
<1> USE DEF IInv
<1>1. CASE \E a \in {"not found", "page"} : Reply(r, a)
  BY <1>1, ReplyKeeps DEF SetupCount, Answers
<1>2. CASE users = {} /\ Goto(r, "setupCreate") /\ UNCHANGED locals
  <2>1. Underway(r)
    BY DEF SetupCount, RequestsOK
  <2>2. /\ UNCHANGED <<users, clock, loggedOut, call, loc, seen, answer>>
        /\ pc'[r] = "setupCreate"
    BY <1>2 DEF SetupCount, startVars, history, locals, Goto, TypeOK
  <2>3. Cookies' = Cookies
    BY <2>2 DEF Cookies
  <2>4. ~ seen'[r].taken
    BY <1>2, <2>1, <2>2 DEF Underway
  <2>5. Underway(r)'
    BY <2>1, <2>2, <2>3, <2>4 DEF Underway
  <2> QED
    BY <1>2, <2>2, <2>5, GotoKeeps DEF SetupCount, Steps, TypeOK
<1> QED
  BY <1>1, <1>2 DEF SetupCount

LEMMA LoginLookupKeeps ==
    ASSUME IInv, NEW r \in Requests, LoginLookup(r)
    PROVE  IInv'
<1> USE DEF IInv
<1>1. CASE Reply(r, "page")
  BY <1>1, ReplyKeeps DEF LoginLookup, Answers
<1>2. ASSUME NEW u \in Authenticated(r),
             loc' = [loc EXCEPT ![r] = [user |-> u.id, now |-> clock]],
             Goto(r, "loginCreate"), UNCHANGED <<call, seen>>
      PROVE  IInv'
  <2>1. Underway(r)
    BY DEF LoginLookup, RequestsOK
  <2>2. /\ UNCHANGED <<users, clock, loggedOut, call, seen, answer>>
        /\ pc'[r] = "loginCreate"
    BY <1>2 DEF LoginLookup, startVars, history, Goto, TypeOK
  <2>3. u \in users /\ u.id \in UserIds
    BY DEF Authenticated, TypeOK, StartupTypeOK, User
  <2>4. [user |-> u.id, now |-> clock] \in Loc
    BY <2>3 DEF TypeOK, Loc
  <2>5. /\ loc' \in [Requests -> Loc] /\ loc'[r].user = u.id
        /\ \A q \in Requests : q # r => loc'[q] = loc[q]
    BY <1>2, <2>4 DEF TypeOK
  <2>6. Cookies' = Cookies /\ Authenticated(r)' = Authenticated(r)
    BY <2>2 DEF Cookies, Authenticated
  <2>7. Underway(r)'
    BY <2>1, <2>2, <2>5, <2>6 DEF Underway
  <2> QED
    BY <1>2, <2>2, <2>5, <2>7, GotoKeeps DEF LoginLookup, Steps, TypeOK
<1> QED
  BY <1>1, <1>2 DEF LoginLookup

(* A row was found, and its owner is looked up next. *)
LEMMA LookUpKeeps ==
    ASSUME IInv, NEW r \in Requests, NEW step \in {"sessionUser", "basicUser"},
           NEW user \in UserIds, LookUpUser(r, step, user),
           UNCHANGED <<startVars, accountVars, clock, touch, history>>,
           pc[r] = IF step = "sessionUser" THEN "sessionLookup" ELSE "basicLookup",
           Entitled(r, user)
    PROVE  IInv'
<1> USE DEF IInv
<1>1. Underway(r)
  BY DEF RequestsOK
<1>2. /\ UNCHANGED <<users, clock, appPasswords, loggedOut, granted, call, seen, answer>>
      /\ pc'[r] = step
  BY DEF LookUpUser, startVars, accountVars, history, Goto, TypeOK
<1>3. /\ loc' \in [Requests -> Loc] /\ loc'[r].user = user
      /\ \A q \in Requests : q # r => loc'[q] = loc[q]
  BY DEF LookUpUser, TypeOK, Loc
<1>4. Cookies' = Cookies
  BY <1>2 DEF Cookies
<1>5. Entitled(r, loc[r].user)'
  BY <1>2, <1>3 DEF Entitled
<1>6. Underway(r)'
  BY <1>1, <1>2, <1>4, <1>5 DEF Underway
<1> QED
  BY <1>2, <1>3, <1>6, GotoKeeps DEF LookUpUser, Steps, TypeOK

(* A session that is in the table and has not expired is one that its      *)
(* cookie was given for, not longer than MaxAge ago. *)
LEMMA LiveSession ==
    ASSUME IInv, NEW r \in Requests, pc[r] = "sessionLookup",
           NEW s \in sessions, s.id = call[r].cookie, ~ Expired(s)
    PROVE  Entitled(r, s.user)
<1> USE DEF IInv
<1>1. Underway(r)
  BY DEF RequestsOK
<1>2. call[r].token = Absent
  BY <1>1 DEF Underway
<1>3. /\ s.id \in Requests /\ answer[s.id] = "session" /\ s.id \notin loggedOut
      /\ s.user = granted[s.id].user
      /\ s.expires = Stored(granted[s.id].now + MaxAge * TicksPerSecond)
  BY DEF SessionsOK, TypeOK, Session
<1>4. granted[s.id] \in Grant
  BY <1>3 DEF RequestsOK, TypeOK
<1>5. granted[s.id].now \in Nat /\ granted[s.id].now + MaxAge * TicksPerSecond \in Nat
  BY <1>4, MaxAgeTicks DEF Grant
<1>6. /\ s.expires <= granted[s.id].now + MaxAge * TicksPerSecond
      /\ s.expires \in Nat
  BY <1>3, <1>5, StoredTime
<1>7. clock <= s.expires /\ clock \in Nat
  BY <1>6 DEF Expired, TypeOK
<1>8. /\ seen[r].at <= clock /\ seen[r].at \in Nat
      /\ seen[r].out \subseteq loggedOut
  BY <1>1 DEF Underway, TypeOK, Seen
<1>9. seen[r].at <= granted[s.id].now + MaxAge * TicksPerSecond
  BY <1>5, <1>6, <1>7, <1>8
<1> QED
  BY <1>2, <1>3, <1>8, <1>9 DEF Entitled

LEMMA SessionLookupKeeps ==
    ASSUME IInv, NEW r \in Requests, SessionLookup(r)
    PROVE  IInv'
<1> USE DEF IInv
<1>1. CASE Reply(r, "unauthorized")
  BY <1>1, ReplyKeeps DEF SessionLookup, Answers
<1>2. ASSUME NEW s \in sessions, s.id = call[r].cookie, ~ Expired(s),
             LookUpUser(r, "sessionUser", s.user)
      PROVE  IInv'
  <2>1. s.user \in UserIds
    BY DEF TypeOK, Session
  <2>2. Entitled(r, s.user)
    BY <1>2, LiveSession DEF SessionLookup
  <2> QED
    BY <1>2, <2>1, <2>2, LookUpKeeps DEF SessionLookup
<1> QED
  BY <1>1, <1>2 DEF SessionLookup

LEMMA BasicLookupKeeps ==
    ASSUME IInv, NEW r \in Requests, BasicLookup(r)
    PROVE  IInv'
<1> USE DEF IInv
<1>1. CASE Reply(r, "unauthorized")
  BY <1>1, ReplyKeeps DEF BasicLookup, Answers
<1>2. ASSUME NEW ap \in appPasswords, ap.token = call[r].token,
             LookUpUser(r, "basicUser", ap.user)
      PROVE  IInv'
  <2>1. ap.user \in UserIds
    BY DEF TypeOK, AppPassword
  <2>2. call[r].token # Absent
    BY DEF BasicLookup, RequestsOK, Underway
  <2>3. Entitled(r, ap.user)
    BY <1>2, <2>2 DEF Entitled
  <2> QED
    BY <1>2, <2>1, <2>3, LookUpKeeps DEF BasicLookup
<1> QED
  BY <1>1, <1>2 DEF BasicLookup

LEMMA SessionUserKeeps ==
    ASSUME IInv, NEW r \in Requests, SessionUser(r)
    PROVE  IInv'
BY ReplyKeeps DEF SessionUser, Answers

LEMMA StoreErrorKeeps ==
    ASSUME IInv, NEW r \in Requests, StoreError(r)
    PROVE  IInv'
<1>1. \E a \in {"not found", "error", "redirect", "unauthorized"} : Reply(r, a)
  BY DEF StoreError, ErrorStep
<1> QED
  BY <1>1, ReplyKeeps DEF StoreError, Answers

-----------------------------------------------------------------------------
(* Steps that change the tables *)

(* The user of a setup is new by its id, and by its name if the insert is  *)
(* not refused.                                                            *)
LEMMA SetupCreateKeeps ==
    ASSUME IInv, NEW r \in Requests, SetupCreate(r)
    PROVE  IInv'
<1> USE DEF IInv
<1>1. CASE Reply(r, "page") /\ UNCHANGED <<users, granted>>
  BY <1>1, ReplyKeeps DEF SetupCreate, Answers, startVars, history
<1>2. CASE /\ CreateUserErr(NewUser(r)) = "nil"
           /\ users' = users \cup {NewUser(r)}
           /\ Reply(r, "created")
           /\ Grants(r, r, 0)
  <2>1. Underway(r)
    BY DEF SetupCreate, RequestsOK
  <2>2. /\ UNCHANGED <<boot, binary, admin, left, tx, effective, applied, starts>>
        /\ UNCHANGED <<accountVars, clock, touch, used, loggedOut>>
        /\ pc[r] # "done"
    BY DEF SetupCreate
  <2>3. call[r] \in Call
    BY <2>1, AccountsAssumption DEF Underway
  <2>4. r \in UserIds /\ NewUser(r) \in User
    BY <2>3, AccountsAssumption DEF NewUser, User, Call
  <2>5. BootInv'
    BY <1>2, <2>2, <2>4, BootNewUser DEF BootInv, TypeOK
  <2>6. /\ pc' \in [Requests -> Steps] /\ answer' \in [Requests -> Answers]
        /\ call' \in [Requests -> Calls \cup {NoCall}]
        /\ loc' \in [Requests -> Loc] /\ seen' \in [Requests -> Seen]
        /\ pc'[r] = "done" /\ answer'[r] = "created"
        /\ \A q \in Requests : q # r => Untouched(q)
    BY <1>2, Replied DEF Answers
  <2>7. [name |-> call[r].name, user |-> r, password |-> call[r].password,
         now |-> 0] \in Grant
    BY <2>3, <2>4 DEF Grant, Call
  <2>8. /\ granted' \in [Requests -> Grant \cup {Absent}] /\ granted'[r] \in Grant
        /\ \A q \in Requests : q # r => granted'[q] = granted[q]
    BY <1>2, <2>7 DEF Grants, TypeOK
  <2>9. TypeOK'
    BY <2>2, <2>5, <2>6, <2>8 DEF TypeOK, BootInv, accountVars
  <2>10. answer[r] = "none"
    BY <2>2, NoAnswerYet
  <2>11. Grows
    BY <1>2, <2>2, <2>6, <2>8, <2>10 DEF Grows, Untouched, accountVars, TypeOK
  <2>12. granted'[r] # Absent
    BY <2>8, AccountsAssumption
  <2>13. RequestsOK'
    BY <2>6, <2>8, <2>9, <2>11, <2>12, OneRequestMoves
  <2>14. \A x \in users : x.id # r /\ x.name # call[r].name
    BY <1>2 DEF CreateUserErr, NewUser
  <2>15. AccountKeys'
    BY <1>2, <2>2, <2>14 DEF AccountKeys, NewUser, accountVars
  <2> QED
    BY <2>2, <2>5, <2>9, <2>11, <2>13, <2>15, SessionsStay, TouchesStay
       DEF BootInv, accountVars
<1> QED
  BY <1>1, <1>2 DEF SetupCreate

LEMMA LoginCreateKeeps ==
    ASSUME IInv, NEW r \in Requests, LoginCreate(r)
    PROVE  IInv'
<1> USE DEF IInv
<1>1. Underway(r) /\ answer[r] = "none"
  BY NoAnswerYet DEF LoginCreate, RequestsOK
<1>2. /\ UNCHANGED <<startVars, appPasswords, clock, touch, used, loggedOut>>
      /\ pc[r] = "loginCreate"
      /\ sessions' = sessions \cup {NewSession(r)}
      /\ Reply(r, "session")
      /\ Grants(r, loc[r].user, loc[r].now)
      /\ \E u \in users : u.id = loc[r].user
  BY DEF LoginCreate
<1>3. call[r] \in Call
  BY <1>1, AccountsAssumption DEF Underway
<1>4. loc[r].user \in UserIds /\ loc[r].now \in Nat
  BY <1>2 DEF TypeOK, Loc, StartupTypeOK, User
<1>5. NewSession(r) \in Session
  BY <1>4, MaxAgeTicks, StoredTime DEF NewSession, Session
<1>6. BootInv'
  BY <1>2, BootUnchanged DEF BootInv, TypeOK
<1>7. /\ pc' \in [Requests -> Steps] /\ answer' \in [Requests -> Answers]
      /\ call' \in [Requests -> Calls \cup {NoCall}]
      /\ loc' \in [Requests -> Loc] /\ seen' \in [Requests -> Seen]
      /\ pc'[r] = "done" /\ answer'[r] = "session"
      /\ \A q \in Requests : q # r => Untouched(q)
  BY <1>2, Replied DEF Answers
<1>8. [name |-> call[r].name, user |-> loc[r].user, password |-> call[r].password,
       now |-> loc[r].now] \in Grant
  BY <1>3, <1>4 DEF Grant, Call
<1>9. /\ granted' \in [Requests -> Grant \cup {Absent}] /\ granted'[r] \in Grant
      /\ granted'[r].user = loc[r].user /\ granted'[r].now = loc[r].now
      /\ \A q \in Requests : q # r => granted'[q] = granted[q]
  BY <1>2, <1>8 DEF Grants, TypeOK
<1>10. TypeOK'
  BY <1>2, <1>5, <1>6, <1>7, <1>9 DEF TypeOK, BootInv
<1>11. Grows
  BY <1>1, <1>2, <1>7, <1>9 DEF Grows, Untouched, startVars, TypeOK
<1>12. RequestsOK'
  BY <1>7, <1>9, <1>10, <1>11, OneRequestMoves, AccountsAssumption
<1>13. \A s \in sessions : s.id \in Requests /\ s.id # r
  BY <1>1 DEF TypeOK, Session, SessionsOK
<1>14. AccountKeys'
  BY <1>2, <1>13 DEF AccountKeys, NewSession, startVars
<1>15. SessionsOK'
  <2>1. r \notin loggedOut
    BY <1>1 DEF SessionsOK
  <2>2. \A s \in sessions : answer'[s.id] = answer[s.id] /\ granted'[s.id] = granted[s.id]
    BY <1>7, <1>9, <1>13 DEF Untouched
  <2>3. \A q \in loggedOut : answer'[q] = "session"
    BY <1>11 DEF SessionsOK, Grows, TypeOK
  <2> QED
    BY <1>2, <1>7, <1>9, <2>1, <2>2, <2>3 DEF SessionsOK, NewSession
<1> QED
  BY <1>2, <1>6, <1>10, <1>11, <1>12, <1>14, <1>15, TouchesStay DEF BootInv

LEMMA LogoutDeleteKeeps ==
    ASSUME IInv, NEW r \in Requests, LogoutDelete(r)
    PROVE  IInv'
<1> USE DEF IInv
<1>1. Underway(r) /\ answer[r] = "none"
  BY NoAnswerYet DEF LogoutDelete, RequestsOK
<1>2. /\ UNCHANGED <<startVars, appPasswords, clock, touch, granted, used>>
      /\ sessions' = {s \in sessions : s.id # call[r].cookie}
      /\ loggedOut' = loggedOut \cup {call[r].cookie}
      /\ Reply(r, "redirect")
      /\ pc[r] = "logoutDelete"
  BY DEF LogoutDelete
<1>3. call[r].cookie \in Requests /\ answer[call[r].cookie] = "session"
  BY <1>1, <1>2 DEF Underway, Cookies
<1>4. BootInv'
  BY <1>2, BootUnchanged DEF BootInv, TypeOK
<1>5. /\ pc' \in [Requests -> Steps] /\ answer' \in [Requests -> Answers]
      /\ call' \in [Requests -> Calls \cup {NoCall}]
      /\ loc' \in [Requests -> Loc] /\ seen' \in [Requests -> Seen]
      /\ pc'[r] = "done" /\ answer'[r] = "redirect"
      /\ \A q \in Requests : q # r => Untouched(q)
  BY <1>2, Replied DEF Answers
<1>6. TypeOK'
  BY <1>2, <1>3, <1>4, <1>5 DEF TypeOK, BootInv
<1>7. Grows
  BY <1>1, <1>2, <1>5 DEF Grows, Untouched, startVars, TypeOK
<1>8. RequestsOK'
  BY <1>2, <1>5, <1>6, <1>7, OneRequestMoves
<1>9. AccountKeys'
  BY <1>2 DEF AccountKeys, startVars
<1>10. SessionsOK'
  <2>1. \A s \in sessions : s.id \in Requests
    BY DEF TypeOK, Session
  <2>2. \A q \in Requests : answer[q] = "session" => answer'[q] = "session"
    BY <1>7 DEF Grows
  <2> QED
    BY <1>2, <1>3, <2>1, <2>2 DEF SessionsOK, TypeOK
<1> QED
  BY <1>2, <1>4, <1>6, <1>7, <1>8, <1>9, <1>10, TouchesStay DEF BootInv

LEMMA BasicUserKeeps ==
    ASSUME IInv, NEW r \in Requests, BasicUser(r)
    PROVE  IInv'
<1> USE DEF IInv
<1>1. CASE Reply(r, "unauthorized") /\ UNCHANGED <<used, touch>>
  BY <1>1, ReplyKeeps DEF BasicUser, Answers, history
<1>2. CASE /\ Reply(r, "admitted")
           /\ used' = used \cup {[token |-> call[r].token, at |-> clock]}
           /\ touch' = [touch EXCEPT ![r].state = "spawned",
                                     ![r].token = call[r].token]
  <2>1. Underway(r) /\ answer[r] = "none"
    BY NoAnswerYet DEF BasicUser, RequestsOK
  <2>2. /\ UNCHANGED <<startVars, accountVars, clock, granted, loggedOut>>
        /\ pc[r] = "basicUser"
    BY DEF BasicUser
  <2>3. call[r].token \in Tokens
    BY <2>1, <2>2, AccountsAssumption DEF Underway, Call
  <2>4. BootInv'
    BY <2>2, BootUnchanged DEF BootInv, TypeOK
  <2>5. /\ pc' \in [Requests -> Steps] /\ answer' \in [Requests -> Answers]
        /\ call' \in [Requests -> Calls \cup {NoCall}]
        /\ loc' \in [Requests -> Loc] /\ seen' \in [Requests -> Seen]
        /\ pc'[r] = "done" /\ answer'[r] = "admitted"
        /\ \A q \in Requests : q # r => Untouched(q)
    BY <1>2, Replied DEF Answers
  <2>6. /\ touch' \in [Requests -> Touch]
        /\ touch'[r].state = "spawned" /\ touch'[r].token = call[r].token
        /\ \A q \in Requests : q # r => touch'[q] = touch[q]
    BY <1>2, <2>3 DEF TypeOK, Touch
  <2>7. TypeOK'
    BY <1>2, <2>2, <2>3, <2>4, <2>5, <2>6 DEF TypeOK, BootInv, accountVars
  <2>8. Grows
    BY <2>1, <2>2, <2>5 DEF Grows, Untouched, startVars, accountVars, TypeOK
  <2>9. RequestsOK'
    BY <2>2, <2>5, <2>7, <2>8, OneRequestMoves
  <2>10. TouchesOK'
    <3>1. /\ [token |-> call[r].token, at |-> clock] \in used'
          /\ used \subseteq used' /\ clock' = clock /\ clock \in Nat
      BY <1>2, <2>2 DEF TypeOK
    <3>2. \E u \in used' : u.token = touch'[r].token /\ u.at <= clock'
      BY <2>6, <3>1
    <3>3. touch'[r].state # "writing"
      BY <2>6
    <3> QED
      BY <2>6, <3>1, <3>2, <3>3 DEF TouchesOK
  <2>11. AccountKeys' /\ SessionsOK'
    BY <2>2, <2>8, KeysStay, SessionsStay DEF startVars, accountVars
  <2> QED
    BY <2>4, <2>7, <2>9, <2>10, <2>11 DEF BootInv
<1> QED
  BY <1>1, <1>2 DEF BasicUser

-----------------------------------------------------------------------------
(* The goroutines that record the use of an app password *)

LEMMA TouchNowKeeps ==
    ASSUME IInv, NEW r \in Requests, TouchNow(r)
    PROVE  IInv'
<1> USE DEF IInv
<1>1. /\ touch' = [touch EXCEPT ![r].state = "writing", ![r].time = clock]
      /\ touch[r].state = "spawned"
      /\ UNCHANGED <<startVars, accountVars, clock, pc, locals, answer, history>>
  BY DEF TouchNow
<1>2. /\ touch' \in [Requests -> Touch]
      /\ touch'[r].token = touch[r].token /\ touch'[r].time = clock
      /\ \A q \in Requests : q # r => touch'[q] = touch[q]
  BY <1>1 DEF TypeOK, Touch
<1>3. BootInv'
  BY <1>1, BootUnchanged DEF BootInv, TypeOK
<1>4. TypeOK'
  BY <1>1, <1>2, <1>3 DEF TypeOK, BootInv, accountVars, history, locals
<1>5. Grows
  BY <1>1 DEF Grows, startVars, accountVars, history, TypeOK
<1>6. \E u \in used : u.token = touch'[r].token /\ u.at <= clock
  BY <1>1, <1>2 DEF TouchesOK
<1>7. TouchesOK'
  BY <1>1, <1>2, <1>6 DEF TouchesOK, TypeOK, history
<1>8. AccountKeys' /\ SessionsOK' /\ RequestsOK'
  BY <1>1, <1>4, <1>5, KeysStay, SessionsStay, RequestsUntouched
     DEF startVars, accountVars, history
<1> QED
  BY <1>3, <1>4, <1>7, <1>8 DEF BootInv

(* A step that ends the goroutine, having changed times of last use at most *)
LEMMA TouchEndKeeps ==
    ASSUME IInv, NEW r \in Requests, touch' = [touch EXCEPT ![r] = NoTouch],
           UNCHANGED <<startVars, sessions, clock, pc, locals, answer, history>>,
           appPasswords' \in SUBSET AppPassword,
           \A bp \in appPasswords' : \E ap \in appPasswords :
              bp.user = ap.user /\ bp.token = ap.token,
           \A ap \in appPasswords : \E bp \in appPasswords' :
              bp.token = ap.token /\ bp.user = ap.user
    PROVE  IInv'
<1> USE DEF IInv
<1>1. /\ touch' \in [Requests -> Touch] /\ touch'[r].state = "none"
      /\ \A q \in Requests : q # r => touch'[q] = touch[q]
  BY DEF TypeOK, Touch, NoTouch
<1>2. BootInv'
  BY BootUnchanged DEF BootInv, TypeOK
<1>3. TypeOK'
  BY <1>1, <1>2 DEF TypeOK, BootInv, history, locals
<1>4. Grows
  BY DEF Grows, startVars, history, TypeOK
<1>5. AccountKeys'
  BY DEF AccountKeys, startVars
<1>6. TouchesOK'
  BY <1>1 DEF TouchesOK, history
<1>7. SessionsOK' /\ RequestsOK'
  BY <1>3, <1>4, SessionsStay, RequestsUntouched DEF history
<1> QED
  BY <1>2, <1>3, <1>5, <1>6, <1>7 DEF BootInv

LEMMA TouchedIs ==
    ASSUME TypeOK, NEW r \in Requests, touch[r].state = "writing",
           NEW ap \in appPasswords
    PROVE  /\ Touched(r, ap) \in AppPassword
           /\ Touched(r, ap).token = ap.token /\ Touched(r, ap).user = ap.user
           /\ \/ Touched(r, ap) = ap
              \/ /\ ap.token = touch[r].token
                 /\ Touched(r, ap).lastUsed = Stored(touch[r].time)
<1>1. ap \in AppPassword /\ touch[r].time \in Nat
  BY DEF TypeOK, Touch
<1>2. Stored(touch[r].time) \in Nat
  BY <1>1, StoredTime
<1> QED
  BY <1>1, <1>2 DEF Touched, AppPassword

LEMMA TouchWriteKeeps ==
    ASSUME IInv, NEW r \in Requests, TouchWrite(r)
    PROVE  IInv'
<1>1. /\ touch[r].state = "writing"
      /\ appPasswords' = {Touched(r, ap) : ap \in appPasswords}
      /\ touch' = [touch EXCEPT ![r] = NoTouch]
      /\ UNCHANGED <<startVars, sessions, clock, pc, locals, answer, history>>
  BY DEF TouchWrite
<1>2. \A ap \in appPasswords :
         /\ Touched(r, ap) \in AppPassword
         /\ Touched(r, ap).token = ap.token /\ Touched(r, ap).user = ap.user
  BY <1>1, TouchedIs DEF IInv
<1> HIDE DEF Touched
<1> QED
  BY <1>1, <1>2, TouchEndKeeps

LEMMA TouchErrorKeeps ==
    ASSUME IInv, NEW r \in Requests, TouchError(r)
    PROVE  IInv'
BY TouchEndKeeps DEF TouchError, accountVars, IInv, TypeOK

-----------------------------------------------------------------------------
(* The clock, the process, and all steps together *)

LEMMA TickKeeps ==
    ASSUME IInv, Tick
    PROVE  IInv'
<1> USE DEF IInv
<1>1. /\ clock' = clock + 1 /\ clock \in Nat
      /\ UNCHANGED <<startVars, accountVars, pc, locals, answer, touch, history>>
  BY DEF Tick, TypeOK
<1>2. BootInv'
  BY <1>1, BootUnchanged DEF BootInv, TypeOK
<1>3. TypeOK'
  BY <1>1, <1>2 DEF TypeOK, BootInv, accountVars, history, locals
<1>4. Grows
  BY <1>1 DEF Grows, startVars, accountVars, history
<1>5. AccountKeys' /\ SessionsOK' /\ RequestsOK' /\ TouchesOK'
  BY <1>1, <1>3, <1>4, KeysStay, SessionsStay, RequestsUntouched, TouchesStay
     DEF startVars, accountVars, history
<1> QED
  BY <1>2, <1>3, <1>5 DEF BootInv

LEMMA CrashKeeps ==
    ASSUME IInv, Crash
    PROVE  IInv'
<1> USE DEF IInv
<1>1. BootInv' /\ UNCHANGED users
  BY StopKeeps DEF Crash, BootInv, TypeOK, Stop
<1>2. /\ pc' \in [Requests -> Steps] /\ answer' \in [Requests -> Answers]
      /\ call' \in [Requests -> Calls \cup {NoCall}]
      /\ loc' \in [Requests -> Loc] /\ seen' \in [Requests -> Seen]
      /\ touch' \in [Requests -> Touch]
  BY DEF Crash, TypeOK, Steps, Answers, NoLoc, Loc, NotSeen, Seen, NoTouch, Touch
<1>3. UNCHANGED <<sessions, appPasswords, clock, granted, used, loggedOut>>
  BY DEF Crash, accountVars, history
<1>4. TypeOK'
  BY <1>1, <1>2, <1>3 DEF TypeOK, BootInv
<1>5. \A r \in Requests : answer[r] # "none" => pc[r] = "done" /\ answer'[r] = answer[r]
  BY DEF Crash, RequestsOK
<1>6. Grows
  BY <1>1, <1>3, <1>5 DEF Grows, TypeOK
<1>7. RequestsOK'
  BY <1>3 DEF Crash, RequestsOK
<1>8. TouchesOK'
  BY DEF Crash, TouchesOK, NoTouch
<1>9. AccountKeys' /\ SessionsOK'
  BY <1>1, <1>3, <1>6, KeysStay, SessionsStay
<1> QED
  BY <1>1, <1>4, <1>7, <1>8, <1>9 DEF BootInv

(* The start makes at most one user, whose id and name are new. *)
LEMMA StartupUsers ==
    ASSUME StartupNext
    PROVE  \/ users' = users
           \/ \E u : /\ users' = users \cup {u}
                     /\ \A x \in users : x.id # u.id /\ x.name # u.name
                     /\ u.id = AdminID
<1>1. CASE AdminCreate
  <2> DEFINE u == [id |-> AdminID, name |-> admin.name, password |-> admin.password]
  <2>1. users' = users \cup {u} /\ CreateUserErr(u) = "nil"
    BY <1>1 DEF AdminCreate
  <2>2. \A x \in users : x.id # u.id /\ x.name # u.name
    BY <2>1 DEF CreateUserErr
  <2> QED
    BY <2>1, <2>2
<1>2. CASE ~ AdminCreate
  BY <1>2 DEF StartupNext, Start, MigrationCheck, MigrationExec, MigrationRecord,
              MigrationCommit, AdminCount, StartupError, Stop
<1> QED
  BY <1>1, <1>2

LEMMA BootKeeps ==
    ASSUME IInv, Boot
    PROVE  IInv'
<1> USE DEF IInv
<1>1. /\ StartupNext
      /\ UNCHANGED <<accountVars, clock, pc, locals, answer, touch, history>>
  BY DEF Boot
<1>2. BootInv'
  BY <1>1, StartupKeeps DEF BootInv, TypeOK
<1>3. TypeOK'
  BY <1>1, <1>2 DEF TypeOK, BootInv, accountVars, history, locals
<1>4. users \subseteq users'
  BY <1>1, StartupUsers
<1>5. Grows
  BY <1>1, <1>4 DEF Grows, accountVars, history, TypeOK
<1>6. AccountKeys'
  <2>1. \A u, v \in users' : u.id = v.id \/ u.name = v.name => u = v
    BY <1>1, StartupUsers DEF AccountKeys
  <2> QED
    BY <1>1, <1>4, <2>1 DEF AccountKeys, accountVars
<1>7. SessionsOK' /\ RequestsOK' /\ TouchesOK'
  BY <1>1, <1>3, <1>5, SessionsStay, RequestsUntouched, TouchesStay
     DEF accountVars, history
<1> QED
  BY <1>2, <1>3, <1>6, <1>7 DEF BootInv

LEMMA StutterKeeps ==
    ASSUME IInv, UNCHANGED vars
    PROVE  IInv'
<1> USE DEF IInv, vars
<1>1. BootInv'
  BY BootUnchanged DEF BootInv, TypeOK
<1>2. TypeOK'
  BY <1>1 DEF TypeOK, BootInv, accountVars, history, locals
<1>3. Grows
  BY DEF Grows, startVars, accountVars, history, TypeOK
<1>4. AccountKeys' /\ SessionsOK' /\ RequestsOK' /\ TouchesOK'
  BY <1>2, <1>3, KeysStay, SessionsStay, RequestsUntouched, TouchesStay
     DEF startVars, accountVars, history
<1> QED
  BY <1>1, <1>2, <1>4 DEF BootInv

LEMMA NextKeeps ==
    ASSUME IInv, [Next]_vars
    PROVE  IInv'
<1>1. CASE UNCHANGED vars
  BY <1>1, StutterKeeps
<1>2. CASE Boot \/ Crash \/ Tick
  BY <1>2, BootKeeps, CrashKeeps, TickKeeps
<1>3. ASSUME NEW r \in Requests, Arrive(r) \/ StoreError(r) PROVE IInv'
  BY <1>3, ArriveKeeps, StoreErrorKeeps
<1>4. ASSUME NEW r \in Requests, Background(r) \/ TouchError(r) PROVE IInv'
  BY <1>4, TouchNowKeeps, TouchWriteKeeps, TouchErrorKeeps DEF Background
<1>5. ASSUME NEW r \in Requests, Step(r) PROVE IInv'
  BY <1>5, SetupCountKeeps, SetupCreateKeeps, LoginLookupKeeps, LoginCreateKeeps,
     LogoutDeleteKeeps, SessionLookupKeeps, SessionUserKeeps, BasicLookupKeeps,
     BasicUserKeeps DEF Step
<1> QED
  BY <1>1, <1>2, <1>3, <1>4, <1>5 DEF Next, Quiet, StaysDown

LEMMA InitHolds ==
    ASSUME Init
    PROVE  IInv
<1>1. PICK seeded \in BOOLEAN :
         /\ StartupInit(IF seeded THEN SeedUsers ELSE {})
         /\ appPasswords = IF seeded THEN SeedAppPasswords ELSE {}
  BY DEF Init
<1>2. BootInv
  BY <1>1, BootInit, AccountsAssumption
<1>3. users = (IF seeded THEN SeedUsers ELSE {})
  BY <1>1 DEF StartupInit
<1>4. appPasswords \subseteq AppPassword
  BY <1>1, AccountsAssumption
<1>5. TypeOK
  BY <1>2, <1>4 DEF Init, TypeOK, BootInv, Steps, Answers, NoLoc, Loc, NotSeen, Seen,
                    NoTouch, Touch
<1>6. AccountKeys
  BY <1>1, <1>3, AccountsAssumption DEF Init, AccountKeys
<1>7. RequestsOK /\ SessionsOK /\ TouchesOK
  BY DEF Init, RequestsOK, SessionsOK, TouchesOK, NoTouch
<1> QED
  BY <1>2, <1>5, <1>6, <1>7 DEF IInv, BootInv

(* In every reachable state the tables are keyed and refer to each other,  *)
(* each migration took effect as often as it is recorded, the sessions are *)
(* the ones that logins were given and nobody logged out, and what a       *)
(* request has looked up still stands (auth.go:54-107, setup.go:44-50,     *)
(* migrations.go:41-77).                                                   *)
THEOREM AccountInvariant == Spec => []IInv
<1>1. Init => IInv
  BY InitHolds
<1>2. IInv /\ [Next]_vars => IInv'
  BY NextKeeps
<1> QED
  BY <1>1, <1>2, PTL DEF Spec

LEMMA ServesMigratedHolds == IInv => ServesMigrated
<1> SUFFICES ASSUME IInv PROVE ServesMigrated
  OBVIOUS
<1>1. boot = "serving" => left = {} /\ tx = NoTx /\ binary \ left \subseteq applied
  BY DEF IInv, BootOK
<1> QED
  BY <1>1 DEF IInv, ServesMigrated

(* A process that serves has every migration of its release, applied once, *)
(* after any number of failed and killed starts of any releases            *)
(* (migrations.go:41-77).                                                  *)
THEOREM MigratedBeforeServing == Spec => []ServesMigrated
BY AccountInvariant, ServesMigratedHolds, PTL

-----------------------------------------------------------------------------
(* Which steps give an answer that matters, and which tables they change *)

(* A step that neither logs in or out nor sets up nor writes a time of use *)
Ordinary ==
    /\ users \subseteq users' /\ used \subseteq used' /\ clock <= clock'
    /\ UNCHANGED <<sessions, appPasswords, granted, loggedOut>>
    /\ \A q \in Requests : answer'[q] \in {"session", "created"} =>
          answer'[q] = answer[q]

LEMMA OrdinaryAnswer ==
    ASSUME TypeOK, NEW r \in Requests, NEW a, a \notin {"session", "created"},
           Answer(r, a) \/ Reply(r, a),
           UNCHANGED <<startVars, accountVars, clock, granted, loggedOut>>,
           used \subseteq used'
    PROVE  Ordinary
<1>1. answer' = [answer EXCEPT ![r] = a]
  BY DEF Answer, Reply
<1>2. \A q \in Requests : answer'[q] \in {"session", "created"} => answer'[q] = answer[q]
  BY <1>1 DEF TypeOK
<1> QED
  BY <1>2 DEF Ordinary, startVars, accountVars, TypeOK

LEMMA OrdinaryRequest ==
    ASSUME IInv, NEW r \in Requests,
           Arrive(r) \/ StoreError(r) \/ Step(r), ~ SetupCreate(r),
           ~ LoginCreate(r), ~ LogoutDelete(r)
    PROVE  Ordinary
<1> USE DEF IInv
<1>1. CASE UNCHANGED <<startVars, accountVars, clock, granted, used, loggedOut, answer>>
  BY <1>1 DEF Ordinary, startVars, accountVars, TypeOK
<1>2. CASE Arrive(r)
  <2>1. UNCHANGED <<startVars, accountVars, clock, granted, used, loggedOut>>
    BY <1>2 DEF Arrive, history
  <2>2. PICK c \in Calls : Goto(r, FirstStep(c)) \/ Answer(r, FirstAnswer(c))
    BY <1>2 DEF Arrive
  <2>3. FirstAnswer(c) \notin {"session", "created"}
    BY FirstSteps, AccountsAssumption
  <2>4. CASE Goto(r, FirstStep(c))
    BY <1>1, <2>1, <2>4 DEF Goto
  <2>5. CASE Answer(r, FirstAnswer(c))
    BY <2>1, <2>3, <2>5, OrdinaryAnswer
  <2> QED
    BY <2>2, <2>4, <2>5
<1>3. CASE StoreError(r)
  <2>1. \E a \in {"not found", "error", "redirect", "unauthorized"} : Reply(r, a)
    BY <1>3 DEF StoreError, ErrorStep
  <2> QED
    BY <1>3, <2>1, OrdinaryAnswer DEF StoreError, history
<1>4. CASE SetupCount(r)
  <2>1. UNCHANGED <<startVars, accountVars, clock, granted, used, loggedOut>>
    BY <1>4 DEF SetupCount, history
  <2>2. UNCHANGED answer \/ \E a \in {"not found", "page"} : Reply(r, a)
    BY <1>4 DEF SetupCount, Goto
  <2> QED
    BY <1>1, <2>1, <2>2, OrdinaryAnswer
<1>5. CASE LoginLookup(r)
  <2>1. UNCHANGED <<startVars, accountVars, clock, granted, used, loggedOut>>
    BY <1>5 DEF LoginLookup, history
  <2>2. UNCHANGED answer \/ \E a \in {"not found", "page"} : Reply(r, a)
    BY <1>5 DEF LoginLookup, Goto
  <2> QED
    BY <1>1, <2>1, <2>2, OrdinaryAnswer
<1>6. CASE SessionLookup(r) \/ BasicLookup(r)
  <2>1. UNCHANGED <<startVars, accountVars, clock, granted, used, loggedOut>>
    BY <1>6 DEF SessionLookup, BasicLookup, history
  <2>2. UNCHANGED answer \/ Reply(r, "unauthorized")
    BY <1>6 DEF SessionLookup, BasicLookup, LookUpUser, Goto
  <2> QED
    BY <1>1, <2>1, <2>2, OrdinaryAnswer
<1>7. CASE SessionUser(r)
  BY <1>7, OrdinaryAnswer DEF SessionUser, history
<1>8. CASE BasicUser(r)
  BY <1>8, OrdinaryAnswer DEF BasicUser
<1> QED
  BY <1>2, <1>3, <1>4, <1>5, <1>6, <1>7, <1>8 DEF Step

LEMMA StepKinds ==
    ASSUME IInv, [Next]_vars
    PROVE  \/ Ordinary
           \/ \E r \in Requests : \/ SetupCreate(r) \/ LoginCreate(r)
                                  \/ LogoutDelete(r) \/ TouchWrite(r)
<1>1. CASE UNCHANGED vars
  BY <1>1 DEF Ordinary, vars, startVars, accountVars, history, IInv, TypeOK
<1>2. CASE Boot
  BY <1>2, StartupUsers DEF Boot, Ordinary, accountVars, history, IInv, TypeOK
<1>3. CASE Crash
  <2>1. \A q \in Requests : answer'[q] \in {"session", "created"} => answer'[q] = answer[q]
    BY <1>3 DEF Crash, IInv, TypeOK
  <2> QED
    BY <1>3, <2>1 DEF Crash, Stop, Ordinary, accountVars, history, IInv, TypeOK
<1>4. CASE Tick
  BY <1>4 DEF Tick, Ordinary, startVars, accountVars, history, IInv, TypeOK
<1>5. ASSUME NEW r \in Requests, TouchNow(r) \/ TouchError(r) PROVE Ordinary
  BY <1>5 DEF TouchNow, TouchError, Ordinary, startVars, accountVars, history, IInv, TypeOK
<1>6. ASSUME NEW r \in Requests, Arrive(r) \/ StoreError(r) \/ Step(r)
      PROVE  Ordinary \/ SetupCreate(r) \/ LoginCreate(r) \/ LogoutDelete(r)
  BY <1>6, OrdinaryRequest
<1> QED
  BY <1>1, <1>2, <1>3, <1>4, <1>5, <1>6 DEF Next, Background, Quiet, StaysDown

-----------------------------------------------------------------------------
(* Setup *)

LEMMA FirstUserStep ==
    ASSUME IInv, [Next]_vars, NEW u \in users' \ users, u.id \in Requests
    PROVE  ~ seen[u.id].taken
<1>1. CASE UNCHANGED vars
  BY <1>1 DEF vars, startVars
<1>2. CASE Boot
  BY <1>2, StartupUsers, AccountsAssumption DEF Boot
<1>3. CASE Crash \/ Tick \/ Quiet \/ StaysDown
  BY <1>3 DEF Crash, Stop, Tick, Quiet, StaysDown, vars, startVars
<1>4. ASSUME NEW r \in Requests,
             Arrive(r) \/ Step(r) \/ Background(r) \/ StoreError(r) \/ TouchError(r)
      PROVE  ~ seen[u.id].taken
  <2>1. CASE UNCHANGED users
    BY <2>1
  <2>2. CASE SetupCreate(r)
    <3>1. u = NewUser(r)
      BY <2>2 DEF SetupCreate
    <3>2. Underway(r) /\ pc[r] = "setupCreate"
      BY <2>2 DEF SetupCreate, IInv, RequestsOK
    <3> QED
      BY <3>1, <3>2 DEF NewUser, Underway
  <2>3. SetupCreate(r) \/ UNCHANGED startVars
    BY <1>4 DEF Arrive, Step, Background, StoreError, TouchError, SetupCount,
                LoginLookup, LoginCreate, LogoutDelete, SessionLookup, SessionUser,
                BasicLookup, BasicUser, TouchNow, TouchWrite
  <2> QED
    BY <2>1, <2>2, <2>3 DEF startVars
<1> QED
  BY <1>1, <1>2, <1>3, <1>4 DEF Next

(* A setup makes a user only for a request that arrived when there was     *)
(* neither a user nor a configured admin, however the store fails and the  *)
(* process is restarted (auth.go:109-121, setup.go:44-54).                 *)
THEOREM SetupIsFirst == Spec => SetupOnlyAtFirst
<1>1. IInv /\ [Next]_vars =>
         [\A u \in users' \ users : u.id \in Requests => ~ seen[u.id].taken]_vars
  BY FirstUserStep
<1> QED
  BY <1>1, AccountInvariant, PTL DEF Spec, SetupOnlyAtFirst

LEMMA AcknowledgedStep ==
    ASSUME IInv, SetupAcknowledged, [Next]_vars
    PROVE  SetupAcknowledged'
<1>1. users \subseteq users'
  <2>1. CASE Ordinary
    BY <2>1 DEF Ordinary
  <2>2. ASSUME NEW r \in Requests, \/ SetupCreate(r) \/ LoginCreate(r)
                                   \/ LogoutDelete(r) \/ TouchWrite(r)
        PROVE  users \subseteq users'
    BY <2>2 DEF SetupCreate, LoginCreate, LogoutDelete, TouchWrite, startVars
  <2> QED
    BY <2>1, <2>2, StepKinds
<1>2. CASE \A q \in Requests : answer'[q] = "created" =>
              answer[q] = "created" /\ granted'[q] = granted[q]
  BY <1>1, <1>2 DEF SetupAcknowledged
<1>3. CASE Ordinary
  BY <1>2, <1>3 DEF Ordinary
<1>4. ASSUME NEW r \in Requests, LoginCreate(r) PROVE SetupAcknowledged'
  BY <1>2, <1>4 DEF LoginCreate, Reply, Answer, Grants, IInv, TypeOK
<1>5. ASSUME NEW r \in Requests, LogoutDelete(r) \/ TouchWrite(r)
      PROVE  SetupAcknowledged'
  BY <1>2, <1>5 DEF LogoutDelete, TouchWrite, Reply, Answer, history, IInv, TypeOK
<1>6. ASSUME NEW r \in Requests, SetupCreate(r), ~ UNCHANGED <<users, granted>>
      PROVE  SetupAcknowledged'
  <2>1. /\ CreateUserErr(NewUser(r)) = "nil"
        /\ users' = users \cup {NewUser(r)}
        /\ Reply(r, "created")
        /\ Grants(r, r, 0)
    BY <1>6 DEF SetupCreate
  <2>2. /\ answer'[r] = "created"
        /\ \A q \in Requests : q # r => answer'[q] = answer[q]
    BY <2>1 DEF Reply, Answer, IInv, TypeOK
  <2>3. /\ granted'[r].name = call[r].name
        /\ granted'[r].password = call[r].password
        /\ \A q \in Requests : q # r => granted'[q] = granted[q]
    BY <2>1 DEF Grants, IInv, TypeOK
  <2>4. \A x \in users : x.id # r /\ x.name # call[r].name
    BY <2>1 DEF CreateUserErr, NewUser
  <2>5. \A q \in Requests : q # r /\ answer'[q] = "created" =>
           /\ \E u \in users : u.id = q /\ u.name = granted'[q].name
                               /\ u.password = granted'[q].password
           /\ granted'[q].name # call[r].name
    BY <2>2, <2>3, <2>4 DEF SetupAcknowledged
  <2>6. NewUser(r) \in users'
    BY <2>1
  <2> DEFINE created == {q \in Requests : answer'[q] = "created"}
  <2>7. \A q \in created : \E u \in users' :
           u.id = q /\ u.name = granted'[q].name /\ u.password = granted'[q].password
    BY <1>1, <2>3, <2>5, <2>6 DEF NewUser
  <2>8. \A p, q \in created : granted'[p].name = granted'[q].name => p = q
    BY <2>2, <2>3, <2>5 DEF SetupAcknowledged
  <2> QED
    BY <2>7, <2>8 DEF SetupAcknowledged
<1>7. ASSUME NEW r \in Requests, SetupCreate(r), UNCHANGED <<users, granted>>
      PROVE  SetupAcknowledged'
  <2>1. CASE Reply(r, "page")
    BY <1>2, <1>7, <2>1 DEF Reply, Answer, IInv, TypeOK
  <2>2. ~ (CreateUserErr(NewUser(r)) = "nil" /\ users' = users \cup {NewUser(r)})
    BY <1>7 DEF CreateUserErr, NewUser
  <2> QED
    BY <1>7, <2>1, <2>2 DEF SetupCreate
<1> QED
  BY <1>3, <1>4, <1>5, <1>6, <1>7, StepKinds

(* Who is told that the setup is done has a user with the name and the     *)
(* password asked for, nobody else was told so for the same name, and no   *)
(* crash takes it back (setup.go:44-54).                                   *)
THEOREM SetupsAreKept == Spec => []SetupAcknowledged
<1>1. Init => SetupAcknowledged
  BY DEF Init, SetupAcknowledged
<1>2. IInv /\ SetupAcknowledged /\ [Next]_vars => SetupAcknowledged'
  BY AcknowledgedStep
<1> QED
  BY <1>1, <1>2, AccountInvariant, PTL DEF Spec

-----------------------------------------------------------------------------
(* Login, logout and RequireAuth *)

LEMMA UsersGrow ==
    ASSUME IInv, [Next]_vars
    PROVE  users \subseteq users' /\ loggedOut \subseteq loggedOut'
<1>1. CASE Ordinary
  BY <1>1 DEF Ordinary
<1>2. ASSUME NEW r \in Requests, \/ SetupCreate(r) \/ LoginCreate(r)
                                 \/ LogoutDelete(r) \/ TouchWrite(r)
      PROVE  users \subseteq users' /\ loggedOut \subseteq loggedOut'
  BY <1>2 DEF SetupCreate, LoginCreate, LogoutDelete, TouchWrite, startVars, history
<1> QED
  BY <1>1, <1>2, StepKinds

(* A session that was given out and is still kept by a step that does not  *)
(* take its row away *)
LEMMA SessionStays ==
    ASSUME SessionKept, users \subseteq users', loggedOut \subseteq loggedOut',
           NEW r \in Requests, answer[r] = "session", r \notin loggedOut',
           granted'[r] = granted[r], \A s \in sessions : s.id = r => s \in sessions'
    PROVE  \E s \in sessions', u \in users' :
              /\ s.id = r
              /\ u.id = s.user
              /\ u.name = granted'[r].name /\ u.password = granted'[r].password
              /\ s.expires <= granted'[r].now + MaxAge * TicksPerSecond
              /\ s.expires > granted'[r].now + (MaxAge - 1) * TicksPerSecond
<1>1. PICK s \in sessions, u \in users :
         /\ s.id = r
         /\ u.id = s.user
         /\ u.name = granted[r].name /\ u.password = granted[r].password
         /\ s.expires <= granted[r].now + MaxAge * TicksPerSecond
         /\ s.expires > granted[r].now + (MaxAge - 1) * TicksPerSecond
  BY DEF SessionKept
<1>2. s \in sessions' /\ u \in users'
  BY <1>1
<1> QED
  BY <1>1, <1>2

LEMMA SessionKeptStep ==
    ASSUME IInv, SessionKept, [Next]_vars
    PROVE  SessionKept'
<1> SUFFICES ASSUME NEW r \in Requests, answer'[r] = "session", r \notin loggedOut'
             PROVE  \E s \in sessions', u \in users' :
                       /\ s.id = r
                       /\ u.id = s.user
                       /\ u.name = granted'[r].name
                       /\ u.password = granted'[r].password
                       /\ s.expires <= granted'[r].now + MaxAge * TicksPerSecond
                       /\ s.expires > granted'[r].now + (MaxAge - 1) * TicksPerSecond
  BY DEF SessionKept
<1>1. users \subseteq users' /\ loggedOut \subseteq loggedOut'
  BY UsersGrow
<1>2. CASE /\ answer[r] = "session" /\ granted'[r] = granted[r]
           /\ \A s \in sessions : s.id = r => s \in sessions'
  BY <1>1, <1>2, SessionStays
<1>3. CASE Ordinary
  BY <1>2, <1>3 DEF Ordinary
<1>4. ASSUME NEW q \in Requests, SetupCreate(q) \/ LogoutDelete(q) \/ TouchWrite(q)
      PROVE  /\ answer[r] = "session" /\ granted'[r] = granted[r]
             /\ \A s \in sessions : s.id = r => s \in sessions'
  <2>1. CASE SetupCreate(q)
    BY <2>1 DEF SetupCreate, Reply, Answer, Grants, accountVars, IInv, TypeOK
  <2>2. CASE LogoutDelete(q)
    BY <2>2 DEF LogoutDelete, Reply, Answer, IInv, TypeOK
  <2>3. CASE TouchWrite(q)
    BY <2>3 DEF TouchWrite, history
  <2> QED
    BY <1>4, <2>1, <2>2, <2>3
<1>5. ASSUME NEW q \in Requests, LoginCreate(q), q # r
      PROVE  /\ answer[r] = "session" /\ granted'[r] = granted[r]
             /\ \A s \in sessions : s.id = r => s \in sessions'
  BY <1>5 DEF LoginCreate, Reply, Answer, Grants, IInv, TypeOK
<1>6. CASE LoginCreate(r)
  <2>1. NewSession(r) \in sessions' /\ users' = users
    BY <1>6 DEF LoginCreate, startVars
  <2>2. /\ granted'[r].name = call[r].name /\ granted'[r].now = loc[r].now
        /\ granted'[r].password = call[r].password
    BY <1>6 DEF LoginCreate, Grants, IInv, TypeOK
  <2>3. PICK u \in users : /\ u.name = call[r].name /\ u.password = call[r].password
                           /\ u.id = loc[r].user
    BY <1>6 DEF LoginCreate, IInv, RequestsOK, Underway, Authenticated
  <2>4. loc[r].now \in Nat
    BY DEF IInv, TypeOK, Loc
  <2> DEFINE end == loc[r].now + MaxAge * TicksPerSecond
  <2>5. end \in Nat
    BY <2>4, MaxAgeTicks
  <2>6. /\ Stored(end) \in Nat /\ Stored(end) <= end
        /\ end < Stored(end) + TicksPerSecond
    BY <2>5, StoredTime
  <2>7. end = loc[r].now + MaxAge * TicksPerSecond
    OBVIOUS
  <2>8. TicksPerSecond \in Nat
    BY AccountsAssumption
  <2> HIDE DEF end
  <2>9. Stored(end) > loc[r].now + (MaxAge - 1) * TicksPerSecond
    <3>1. (MaxAge - 1) * TicksPerSecond \in Int
      BY MaxAgeTicks, <2>8
    <3> QED
      BY <2>4, <2>5, <2>6, <2>7, <2>8, <3>1, MaxAgeTicks
  <2>10. /\ NewSession(r).id = r /\ NewSession(r).user = loc[r].user
         /\ NewSession(r).expires = Stored(end)
    BY <2>7 DEF NewSession
  <2> QED
    BY <2>1, <2>2, <2>3, <2>6, <2>7, <2>9, <2>10
<1> QED
  BY <1>2, <1>3, <1>4, <1>5, <1>6, StepKinds

(* A session that was given out is in the table until it is logged out, is *)
(* that of the user who logged in, and lasts MaxAge or up to a second less *)
(* (handler/auth.go:51-61, sessions.go:12-34).                             *)
THEOREM SessionsAreKept == Spec => []SessionKept
<1>1. Init => SessionKept
  BY DEF Init, SessionKept
<1>2. IInv /\ SessionKept /\ [Next]_vars => SessionKept'
  BY SessionKeptStep
<1> QED
  BY <1>1, <1>2, AccountInvariant, PTL DEF Spec

LEMMA LogoutStep ==
    ASSUME IInv, [Next]_vars, NEW r \in loggedOut
    PROVE  \A s \in sessions' : s.id # r
BY NextKeeps, UsersGrow DEF IInv, SessionsOK

(* A session that was logged out never comes back, whatever logins,        *)
(* crashes and restarts follow (handler/auth.go:84-95).                    *)
THEOREM LogoutsAreFinal == Spec => LogoutFinal
<1>1. IInv /\ [Next]_vars =>
         [\A r \in loggedOut :
            (\A s \in sessions : s.id # r) => \A s \in sessions' : s.id # r]_vars
  BY LogoutStep
<1> QED
  BY <1>1, AccountInvariant, PTL DEF Spec, LogoutFinal

(* Only the last step of RequireAuth lets a request in. *)
LEMMA OtherAnswers ==
    ASSUME TypeOK, NEW q \in Requests, NEW r \in Requests, NEW a, a # "admitted",
           Answer(q, a) \/ Reply(q, a), answer[r] = "none"
    PROVE  answer'[r] # "admitted"
BY DEF Answer, Reply, TypeOK

LEMMA OnlyRequireAuthAdmits ==
    ASSUME IInv, [Next]_vars, NEW r \in Requests, answer[r] = "none",
           answer'[r] = "admitted"
    PROVE  pc[r] \in {"sessionUser", "basicUser"}
<1> USE DEF IInv
<1>1. ASSUME UNCHANGED answer PROVE FALSE
  BY <1>1
<1>2. CASE UNCHANGED vars \/ Boot \/ Tick \/ Quiet \/ StaysDown
  BY <1>1, <1>2 DEF vars, Boot, Tick, Quiet, StaysDown
<1>3. CASE Crash
  BY <1>3 DEF Crash, TypeOK
<1>4. ASSUME NEW q \in Requests, Background(q) \/ TouchError(q) PROVE FALSE
  BY <1>1, <1>4 DEF Background, TouchNow, TouchWrite, TouchError
<1>5. ASSUME NEW q \in Requests, Arrive(q) PROVE FALSE
  <2>1. PICK c \in Calls : Goto(q, FirstStep(c)) \/ Answer(q, FirstAnswer(c))
    BY <1>5 DEF Arrive
  <2>2. FirstAnswer(c) # "admitted"
    BY FirstSteps, AccountsAssumption
  <2> QED
    BY <1>1, <2>1, <2>2, OtherAnswers DEF Goto
<1>6. ASSUME NEW q \in Requests, StoreError(q) PROVE FALSE
  <2>1. \E a \in {"not found", "error", "redirect", "unauthorized"} : Reply(q, a)
    BY <1>6 DEF StoreError, ErrorStep
  <2> QED
    BY <2>1, OtherAnswers
<1>7. ASSUME NEW q \in Requests, Step(q), ~ SessionUser(q), ~ BasicUser(q) PROVE FALSE
  <2>1. \/ UNCHANGED answer
        \/ \E a \in {"not found", "page", "created", "session", "redirect",
                     "unauthorized"} : Reply(q, a)
    BY <1>7 DEF Step, SetupCount, SetupCreate, LoginLookup, LoginCreate, LogoutDelete,
                SessionLookup, BasicLookup, LookUpUser, Goto
  <2> QED
    BY <1>1, <2>1, OtherAnswers
<1>8. ASSUME NEW q \in Requests, SessionUser(q) \/ BasicUser(q)
      PROVE  pc[r] \in {"sessionUser", "basicUser"}
  <2>1. answer' = [answer EXCEPT ![q] = answer'[q]] /\ pc[q] \in {"sessionUser", "basicUser"}
    BY <1>8 DEF SessionUser, BasicUser, Reply, Answer, TypeOK
  <2>2. q = r
    BY <2>1 DEF TypeOK
  <2> QED
    BY <2>1, <2>2
<1> QED
  BY <1>2, <1>3, <1>4, <1>5, <1>6, <1>7, <1>8 DEF Next

LEMMA AdmittedStep ==
    ASSUME IInv, [Next]_vars, NEW r \in Requests, answer[r] = "none",
           answer'[r] = "admitted"
    PROVE  Entitled(r, loc[r].user)
<1>1. pc[r] \in {"sessionUser", "basicUser"}
  BY OnlyRequireAuthAdmits
<1> QED
  BY <1>1 DEF IInv, RequestsOK, Underway

(* A request is let in only as the owner of the app password or session it *)
(* presents, and not with a session that was logged out or older than      *)
(* MaxAge when the request arrived (auth.go:54-107).                       *)
THEOREM AdmissionsAreRight == Spec => AdmittedRightly
<1>1. IInv /\ [Next]_vars =>
         [\A r \in Requests : answer[r] = "none" /\ answer'[r] = "admitted"
                                 => Entitled(r, loc[r].user)]_vars
  BY AdmittedStep
<1> QED
  BY <1>1, AccountInvariant, PTL DEF Spec, AdmittedRightly

-----------------------------------------------------------------------------
(* Times of last use *)

LEMMA UsesGrow ==
    ASSUME IInv, [Next]_vars
    PROVE  used \subseteq used' /\ clock <= clock' /\ clock' \in Nat
<1>1. CASE Ordinary
  BY <1>1, NextKeeps DEF Ordinary, IInv, TypeOK
<1>2. ASSUME NEW r \in Requests, \/ SetupCreate(r) \/ LoginCreate(r)
                                 \/ LogoutDelete(r) \/ TouchWrite(r)
      PROVE  used' = used /\ clock' = clock
  BY <1>2 DEF SetupCreate, LoginCreate, LogoutDelete, TouchWrite, history
<1> QED
  BY <1>1, <1>2, StepKinds DEF IInv, TypeOK

LEMMA LastUsedStep ==
    ASSUME IInv, LastUsedWasUse, [Next]_vars
    PROVE  LastUsedWasUse'
<1>1. used \subseteq used' /\ clock <= clock' /\ clock \in Nat /\ clock' \in Nat
  BY UsesGrow DEF IInv, TypeOK
<1>2. ASSUME NEW ap \in appPasswords, ap.lastUsed # Never
      PROVE  /\ ap.lastUsed <= clock'
             /\ \E u \in used' : u.token = ap.token /\ Stored(u.at) <= ap.lastUsed
  <2>1. ap.lastUsed \in Nat
    BY <1>2 DEF IInv, TypeOK, AppPassword
  <2> QED
    BY <1>1, <1>2, <2>1 DEF LastUsedWasUse
<1>3. CASE UNCHANGED appPasswords
  BY <1>2, <1>3 DEF LastUsedWasUse
<1>4. ASSUME NEW r \in Requests, TouchWrite(r)
      PROVE  LastUsedWasUse'
  <2> SUFFICES ASSUME NEW bp \in appPasswords', bp.lastUsed # Never
               PROVE  /\ bp.lastUsed <= clock'
                      /\ \E u \in used' : u.token = bp.token /\ Stored(u.at) <= bp.lastUsed
    BY DEF LastUsedWasUse
  <2>1. PICK ap \in appPasswords : bp = Touched(r, ap)
    BY <1>4 DEF TouchWrite
  <2>2. touch[r].state = "writing"
    BY <1>4 DEF TouchWrite
  <2>3. CASE bp = ap
    BY <1>2, <2>3
  <2>4. CASE ap.token = touch[r].token /\ bp.lastUsed = Stored(touch[r].time)
    <3>1. touch[r].time \in Nat /\ touch[r].time <= clock
      BY <2>2 DEF IInv, TypeOK, Touch, TouchesOK
    <3>2. PICK u \in used : u.token = touch[r].token /\ u.at <= touch[r].time
      BY <2>2 DEF IInv, TouchesOK
    <3>3. u.at \in Nat
      BY DEF IInv, TypeOK
    <3>4. Stored(u.at) <= Stored(touch[r].time)
      BY <3>1, <3>2, <3>3, StoredMonotone
    <3>5. Stored(touch[r].time) <= touch[r].time /\ Stored(touch[r].time) \in Nat
      BY <3>1, StoredTime
    <3>6. bp.token = ap.token
      BY <2>1, <2>2, TouchedIs DEF IInv
    <3> QED
      BY <1>1, <2>4, <3>1, <3>2, <3>4, <3>5, <3>6
  <2> QED
    BY <2>1, <2>2, <2>3, <2>4, TouchedIs DEF IInv
<1> QED
  BY <1>3, <1>4, StepKinds
     DEF Ordinary, SetupCreate, LoginCreate, LogoutDelete, accountVars

(* The recorded last use of an app password is a time at which it had been *)
(* let in, though the goroutines that record it run late, in any order, or *)
(* not at all (auth.go:96-98).                                             *)
THEOREM LastUsesWereUses == Spec => []LastUsedWasUse
<1>1. Init => LastUsedWasUse
  BY AccountsAssumption DEF Init, LastUsedWasUse
<1>2. IInv /\ LastUsedWasUse /\ [Next]_vars => LastUsedWasUse'
  BY LastUsedStep
<1> QED
  BY <1>1, <1>2, AccountInvariant, PTL DEF Spec
=============================================================================
