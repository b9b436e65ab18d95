------------------------------ MODULE StoreTx ------------------------------
(***************************************************************************)
(* The operations of internal/store/sqlite one SQL statement at a time.    *)
(* There is one connection (db.go:26): an operation waits for it, works,   *)
(* and gives it back.  An operation on contacts is a transaction of        *)
(* several statements; the others are single statements, BumpSyncToken is  *)
(* two of them that each wait for the connection.  At any statement the    *)
(* store may fail, or the context of the request may be cancelled; the     *)
(* process may die.                                                        *)
(*                                                                         *)
(* Of a cancelled transaction database/sql takes care in a goroutine of    *)
(* its own, which may still be busy when the operation has returned, and   *)
(* which may close the connection; src/ does not decide whether it does.   *)
(* A statement that fails has no effect; a COMMIT that fails has rolled    *)
(* back.                                                                   *)
(***************************************************************************)
EXTENDS AtomicStore

CONSTANTS Nobody,       \* the connection is in the pool
          Undoing       \* it is with the goroutine that rolls back

ASSUME StoreTxAssumption ==
    /\ Nobody \notin Slots /\ Undoing \notin Slots /\ Nobody # Undoing
    /\ MaxToken \in Nat

VARIABLES conn,  \* who has the connection
          view,  \* the tables as the transaction on the connection sees them
          pc,    \* the statement a slot executes next
          scan   \* the rows a list has read so far

vars == <<atomicVars, conn, view, pc, scan>>

Statements == {"idle", "wait", "insert contact", "insert index", "update contact",
               "replace index", "delete index", "delete contact", "commit",
               "autocommit", "select", "done"}

Tables == [books |-> books, contacts |-> contacts, fts |-> fts]

NoView == [books |-> {}, contacts |-> {}, fts |-> {}]

TypeOK ==
    /\ StoreTypeOK
    /\ call \in [Slots -> Calls \cup {NoCall} \cup SecondHalf]
    /\ err \in [Slots -> Result]
    /\ rows \in [Slots -> SUBSET Contact]
    /\ conn \in Slots \cup {Nobody, Undoing}
    /\ view \in [books : SUBSET Book, contacts : SUBSET Contact, fts : SUBSET FTSRow]
    /\ pc \in [Slots -> Statements]
    /\ scan \in [Slots -> SUBSET Contact]
    /\ enforced \in BOOLEAN /\ loose \in BOOLEAN

Init ==
    /\ AtomicInit
    /\ conn = Nobody
    /\ view = NoView
    /\ pc = [s \in Slots |-> "idle"]
    /\ scan = [s \in Slots |-> {}]

-----------------------------------------------------------------------------
(* The queue for the connection *)

Call(s) ==
    /\ pc[s] = "idle"
    /\ Invoke(s)
    /\ pc' = [pc EXCEPT ![s] = "wait"]
    /\ UNCHANGED <<conn, view, scan>>

FirstStatement(op) ==
    CASE op = "CreateContact" -> "insert contact"
      [] op = "UpdateContact" -> "update contact"
      [] op = "DeleteContact" -> "delete index"
      [] op = "ListContacts" -> "select"
      [] OTHER -> "autocommit"

(* Mutant of Acquire: the pool has no limit. *)
AcquireAnother(s) ==
    /\ pc[s] = "wait"
    /\ conn' = s
    /\ view' = Tables
    /\ pc' = [pc EXCEPT ![s] = FirstStatement(call[s].op)]
    /\ UNCHANGED <<atomicVars, scan>>

(* The connection goes to any of those who wait; BEGIN. *)
Acquire(s) ==
    /\ pc[s] = "wait"
    /\ conn = Nobody
    /\ conn' = s
    /\ view' = Tables
    /\ pc' = [pc EXCEPT ![s] = FirstStatement(call[s].op)]
    /\ UNCHANGED <<atomicVars, scan>>

(* Mutant of Release: who fails forgets to roll back. *)
ReleaseOnSuccess(s) == IF err'[s] = "nil" THEN conn' = Nobody /\ view' = NoView
                                          ELSE UNCHANGED <<conn, view>>

Release(s) == conn' = Nobody /\ view' = NoView

(* Mutant of FailWith: what was done so far is committed. *)
FailWithCommits(s, e) ==
    /\ Decide(s, e)
    /\ pc' = [pc EXCEPT ![s] = "done"]
    /\ scan' = [scan EXCEPT ![s] = {}]
    /\ Release(s)
    /\ books' = view.books /\ contacts' = view.contacts /\ fts' = view.fts

(* The operation returns, and its deferred Rollback gives the connection   *)
(* back with nothing done.                                                 *)
FailWith(s, e) ==
    /\ Decide(s, e)
    /\ pc' = [pc EXCEPT ![s] = "done"]
    /\ scan' = [scan EXCEPT ![s] = {}]
    /\ Release(s)
    /\ UNCHANGED tables

Go(s, statement) == /\ pc' = [pc EXCEPT ![s] = statement]
                    /\ UNCHANGED <<atomicVars, conn, scan>>

-----------------------------------------------------------------------------
(* The statements.  A transaction changes its view. *)

(* What the constraints say of a row in the tables of this transaction. *)
Seen == INSTANCE ContactStore
    WITH books <- view.books, contacts <- view.contacts, fts <- view.fts

(* Mutant of InsertErr: no reference is checked. *)
InsertErrLoose(c) == Seen!CreateContactErrNoFK(c)

InsertErr(c) == Seen!CreateContactErr(c)

InsertContact(s) ==
    LET c == call[s].row IN
    /\ pc[s] = "insert contact"
    /\ \/ /\ InsertErr(c) = "nil"
          /\ view' = [view EXCEPT !.contacts = @ \cup {c}]
          /\ Go(s, "insert index")
       \/ InsertErr(c) # "nil" /\ FailWith(s, InsertErr(c))

InsertIndex(s) ==
    /\ pc[s] = "insert index"
    /\ view' = [view EXCEPT !.fts = @ \cup {IndexRow(call[s].row)}]
    /\ Go(s, "commit")

RowsUpdated(c) ==
    {IF x.id = c.id THEN Rewritten(x, c) ELSE x : x \in view.contacts}

UpdateContactRow(s) ==
    LET c == call[s].row IN
    /\ pc[s] = "update contact"
    /\ \/ /\ Seen!UpdateContactErr(c) = "nil"
          /\ view' = [view EXCEPT !.contacts = RowsUpdated(c)]
          /\ Go(s, "replace index")
       \/ Seen!UpdateContactErr(c) # "nil" /\ FailWith(s, Seen!UpdateContactErr(c))

Unindexed(id) == {f \in view.fts : f.contact # id}

ReplaceIndex(s) ==
    /\ pc[s] = "replace index"
    /\ view' = [view EXCEPT !.fts = Unindexed(call[s].row.id)]
    /\ Go(s, "insert index")

(* DeleteContact removes the index row first. *)
DeleteIndex(s) ==
    /\ pc[s] = "delete index"
    /\ view' = [view EXCEPT !.fts = Unindexed(call[s].id)]
    /\ Go(s, "delete contact")

DeleteContactRow(s) ==
    /\ pc[s] = "delete contact"
    /\ \/ /\ Seen!DeleteContactErr(call[s].id) = "nil"
          /\ view' = [view EXCEPT !.contacts = {c \in @ : c.id # call[s].id}]
          /\ Go(s, "commit")
       \/ /\ Seen!DeleteContactErr(call[s].id) = "ErrNotFound"
          /\ FailWith(s, "ErrNotFound")

Commit(s) ==
    /\ pc[s] = "commit"
    /\ books' = view.books /\ contacts' = view.contacts /\ fts' = view.fts
    /\ Decide(s, "nil")
    /\ pc' = [pc EXCEPT ![s] = "done"]
    /\ Release(s)
    /\ UNCHANGED scan

(* A statement of its own. *)
Autocommit(s) ==
    /\ pc[s] = "autocommit"
    /\ call[s].op # "BumpSyncToken"
    /\ Perform(s)
    /\ pc' = [pc EXCEPT ![s] = "done"]
    /\ Release(s)
    /\ UNCHANGED scan

(* The UPDATE of BumpSyncToken: its SELECT waits for the connection again. *)
BumpUpdate(s) ==
    /\ pc[s] = "autocommit"
    /\ BumpFirst(s)
    /\ pc' = [pc EXCEPT ![s] = "wait"]
    /\ Release(s)
    /\ UNCHANGED scan

(* rows.Next of ListContacts: the connection is kept until the last row.   *)
(* Next comes the row with the least file name; here any.                  *)
Next1(s) == LET todo == ListContacts(call[s].id) \ scan[s] IN
    /\ pc[s] = "select"
    /\ \/ /\ \E c \in todo : scan' = [scan EXCEPT ![s] = @ \cup {c}]
          /\ UNCHANGED <<atomicVars, conn, view, pc>>
       \/ /\ todo = {}
          /\ rows' = [rows EXCEPT ![s] = scan[s]]
          /\ err' = [err EXCEPT ![s] = "nil"]
          /\ scan' = [scan EXCEPT ![s] = {}]
          /\ pc' = [pc EXCEPT ![s] = "done"]
          /\ Release(s)
          /\ UNCHANGED <<tables, call, pragma>>

-----------------------------------------------------------------------------
Working(s) == pc[s] \notin {"idle", "wait", "done"}

(* A statement fails: the disk is full, or another process has the file    *)
(* locked for longer than busy_timeout.                                    *)
StatementFails(s) == Working(s) /\ FailWith(s, "error")

(* The context is cancelled while the operation waits or works. *)
Cancel(s) ==
    /\ pc[s] \notin {"idle", "done"}
    /\ Decide(s, "error")
    /\ pc' = [pc EXCEPT ![s] = "done"]
    /\ scan' = [scan EXCEPT ![s] = {}]
    /\ conn' = IF Working(s) THEN Undoing ELSE conn
    /\ UNCHANGED <<tables, view>>

(* The goroutine that rolls back is done; the next to come may find the    *)
(* same connection or a new one.                                           *)
Undo ==
    /\ conn = Undoing
    /\ conn' = Nobody
    /\ view' = NoView
    /\ \/ UNCHANGED pragma
       \/ LosePragma
    /\ UNCHANGED <<tables, callVars, pc, scan>>

Resume(s) ==
    /\ pc[s] = "done"
    /\ Return(s)
    /\ pc' = [pc EXCEPT ![s] = "idle"]
    /\ UNCHANGED <<conn, view, scan>>

(* The process dies and starts again: what was not committed is gone. *)
Crash ==
    /\ Restart
    /\ conn' = Nobody
    /\ view' = NoView
    /\ pc' = [s \in Slots |-> "idle"]
    /\ scan' = [s \in Slots |-> {}]

Statement(s) ==
    \/ InsertContact(s)
    \/ InsertIndex(s)
    \/ UpdateContactRow(s)
    \/ ReplaceIndex(s)
    \/ DeleteIndex(s)
    \/ DeleteContactRow(s)
    \/ Commit(s)
    \/ Autocommit(s)
    \/ BumpUpdate(s)
    \/ Next1(s)

Next ==
    \/ \E s \in Slots : \/ Call(s) \/ Acquire(s) \/ Statement(s)
                        \/ StatementFails(s) \/ Cancel(s) \/ Resume(s)
    \/ Undo
    \/ Crash

Spec == Init /\ [][Next]_vars

(* Goroutines that can run are scheduled; of those that wait for the       *)
(* connection database/sql picks one at random when it comes back, so none *)
(* is passed over for ever.                                                *)
FairSpec == /\ Spec
            /\ \A s \in Slots : /\ WF_vars(Statement(s))
                                /\ SF_vars(Acquire(s))
            /\ WF_vars(Undo)

-----------------------------------------------------------------------------
(* A transaction is alone: while one is open, the tables are as it found   *)
(* them, and what it sees differs from them only in the rows of the        *)
(* contact it is about (contacts.go:13-44, 94-131, 136-152).               *)
Isolated == \A s \in Slots :
    Working(s) =>
        /\ conn = s
        /\ view.books = books
        /\ \A c \in view.contacts \cup contacts :
              \/ c \in view.contacts \cap contacts
              \/ call[s].op \in {"CreateContact", "UpdateContact"} /\ c.id = call[s].row.id
              \/ call[s].op = "DeleteContact" /\ c.id = call[s].id

(* Statement by statement, the store does what its callers rely on: each   *)
(* operation at one moment and with the error of that moment, all of its   *)
(* statements or none, across failures, cancellations and crashes.         *)
ImplementsAtomicStore == AtomicSpec

(* The index follows the contacts: one row each, with the name of the      *)
(* contact, whenever no transaction is half done.                          *)
IndexFollows == \A c \in contacts : {f \in fts : f.contact = c.id} = {IndexRow(c)}

(* Types, isolation and the index. *)
TransactionsOK == TypeOK /\ Isolated /\ IndexFollows

(* As long as the first connection was never replaced, the constraints of  *)
(* the schema hold; keys hold in any case (db.go:32, 0001_initial.sql).    *)
ConstraintsHold == /\ KeysUnique(books, contacts)
                   /\ ~loose => ReferencesHold(books, contacts)

(* The inductive invariant behind these three.  A slot is at a statement   *)
(* of the operation it has called, and has no error before it is done.     *)
StatementsOf(op) ==
    CASE op = "CreateContact" -> {"insert contact", "insert index", "commit"}
      [] op = "UpdateContact" -> {"update contact", "replace index",
                                  "insert index", "commit"}
      [] op = "DeleteContact" -> {"delete index", "delete contact", "commit"}
      [] op = "ListContacts" -> {"select"}
      [] OTHER -> {"autocommit"}

InCall(s) == /\ pc[s] = "idle" <=> call[s] = NoCall
             /\ pc[s] = "done" <=> err[s] # "none"
             /\ Working(s) => pc[s] \in StatementsOf(call[s].op)
             /\ scan[s] \subseteq IF pc[s] = "select" THEN ListContacts(call[s].id)
                                                     ELSE {}

(* Who works has the connection, and who has it works. *)
OneWorks == \A s \in Slots : Working(s) <=> conn = s

(* The view of a transaction is the tables with the statements before pc   *)
(* applied, and "commit" is reached only by an operation that succeeds.    *)
Updated(c) == {IF x.id = c.id THEN Rewritten(x, c) ELSE x : x \in contacts}

Inserted(c, cs) == CreateContactErr(c) = "nil" /\ cs = contacts \cup {c}

Replaced(c, cs) == UpdateContactErr(c) = "nil" /\ cs = Updated(c)

Removed(id, cs) == DeleteContactErr(id) = "nil" /\ cs = {x \in contacts : x.id # id}

HalfDone(s) == LET c == call[s] IN
    /\ view.books = books
    /\ pc[s] \in {"insert contact", "update contact", "delete index",
                  "select", "autocommit"} =>
           view.contacts = contacts /\ view.fts = fts
    /\ pc[s] = "delete contact" =>
           view.contacts = contacts /\ view.fts = NotIndexing(c.id)
    /\ pc[s] = "replace index" =>
           Replaced(c.row, view.contacts) /\ view.fts = fts
    /\ pc[s] = "insert index" =>
           \/ /\ c.op = "CreateContact"
              /\ Inserted(c.row, view.contacts) /\ view.fts = fts
           \/ /\ c.op = "UpdateContact"
              /\ Replaced(c.row, view.contacts) /\ view.fts = NotIndexing(c.row.id)
    /\ pc[s] = "commit" =>
           \/ /\ c.op = "CreateContact"
              /\ Inserted(c.row, view.contacts)
              /\ view.fts = fts \cup {IndexRow(c.row)}
           \/ /\ c.op = "UpdateContact"
              /\ Replaced(c.row, view.contacts)
              /\ view.fts = NotIndexing(c.row.id) \cup {IndexRow(c.row)}
           \/ /\ c.op = "DeleteContact"
              /\ Removed(c.id, view.contacts) /\ view.fts = NotIndexing(c.id)

(* The id of a row that is still to be inserted is in no table and in no   *)
(* other call.                                                             *)
Creating(s) == call[s] # NoCall /\ call[s].op \in Creations

StillFresh == \A s \in Slots : Creating(s) =>
    /\ err[s] = "none" => ~ Used(call[s].row.id)
    /\ \A t \in Slots : Creating(t) /\ call[t].row.id = call[s].row.id => t = s

(* The inductive invariant of the transactions: each call is where its     *)
(* operation is, alone on the connection, with the statements before it    *)
(* done in its view and nowhere else (db.go:26, contacts.go:13-152).       *)
IInv == /\ TypeOK /\ IndexFollows /\ ConstraintsHold
        /\ \A s \in Slots : InCall(s) /\ (Working(s) => HalfDone(s))
        /\ OneWorks
        /\ StillFresh
        /\ ~loose => enforced

(* Every operation returns: nobody waits for a connection that is not      *)
(* given back, and nobody is passed over for ever (db.go:26).              *)
OperationsReturn == \A s \in Slots : pc[s] = "wait" ~> pc[s] \in {"done", "idle"}
=============================================================================
