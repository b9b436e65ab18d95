---------------------------- MODULE StoreProofs ----------------------------
(***************************************************************************)
(* Proofs about StoreTx: the transactions, one statement at a time on one  *)
(* connection, keep the constraints and the index, and implement the       *)
(* store of atomic operations, for any number of callers and any calls.    *)
(*                                                                         *)
(* A step is one of four: it leaves the tables and all decisions alone, it *)
(* decides to fail, it performs the operation (Performs below, at the      *)
(* COMMIT or in a statement of its own), or it is a crash.                 *)
(***************************************************************************)
EXTENDS StoreTx, StoreLemmas

USE StoreTxAssumption, AtomicAssumption DEF pragma, LosePragma, SetPragma

-----------------------------------------------------------------------------
(* Calls *)

OpNames == {"CreateContact", "UpdateContact", "CreateAddressBook", "DeleteContact",
            "DeleteAddressBook", "BumpSyncToken", "ListContacts", "SelectToken"}

LEMMA CallTypes ==
    ASSUME TypeOK, NEW s \in Slots, call[s] # NoCall
    PROVE  /\ call[s] \in Operation \cup SecondHalf
           /\ call[s].op \in OpNames
           /\ call[s].op \in {"CreateContact", "UpdateContact"} => call[s].row \in Contact
           /\ call[s].op = "CreateAddressBook" => call[s].row \in Book
           /\ call[s].op \notin {"CreateContact", "UpdateContact", "CreateAddressBook"} =>
                 call[s].id \in Ids
<1>1. call[s] \in Operation \cup SecondHalf
  BY DEF TypeOK
<1> QED
  BY <1>1 DEF Operation, SecondHalf, OpNames

(* Who works has called, and is at a statement of what was called. *)
LEMMA WorkingCalls ==
    ASSUME IInv, NEW s \in Slots, Working(s)
    PROVE  /\ call[s] # NoCall /\ err[s] = "none" /\ conn = s
           /\ pc[s] \in StatementsOf(call[s].op) /\ HalfDone(s)
           /\ \A t \in Slots \ {s} : ~ Working(t)
  BY DEF IInv, InCall, OneWorks, Working

(* The operation a statement belongs to *)
LEMMA StatementTells ==
    ASSUME IInv, NEW s \in Slots
    PROVE  LET op == call[s].op IN
           /\ pc[s] = "insert contact" => op = "CreateContact"
           /\ pc[s] = "update contact" => op = "UpdateContact"
           /\ pc[s] = "replace index" => op = "UpdateContact"
           /\ pc[s] = "insert index" => op \in {"CreateContact", "UpdateContact"}
           /\ pc[s] = "delete index" => op = "DeleteContact"
           /\ pc[s] = "delete contact" => op = "DeleteContact"
           /\ pc[s] = "commit" => op \in {"CreateContact", "UpdateContact", "DeleteContact"}
           /\ pc[s] = "select" => op = "ListContacts"
           /\ pc[s] = "autocommit" =>
                 op \notin {"CreateContact", "UpdateContact", "DeleteContact", "ListContacts"}
<1>1. CASE Working(s)
  <2>1. pc[s] \in StatementsOf(call[s].op)
    BY <1>1, WorkingCalls
  <2> QED
    BY <2>1 DEF StatementsOf
<1>2. CASE ~ Working(s)
  BY <1>2 DEF Working
<1> QED
  BY <1>1, <1>2

(* What the transaction sees is what there is, as far as errors go. *)
LEMMA SeenErrors ==
    ASSUME view.books = books, view.contacts = contacts
    PROVE  /\ \A c : InsertErr(c) = CreateContactErr(c)
           /\ \A c : Seen!UpdateContactErr(c) = UpdateContactErr(c)
           /\ \A id : Seen!DeleteContactErr(id) = DeleteContactErr(id)
<1>1. ASSUME NEW c PROVE InsertErr(c) = CreateContactErr(c)
  BY DEF InsertErr, CreateContactErr, Seen!CreateContactErr, IsUniqueConstraint,
         Seen!IsUniqueConstraint
<1>2. ASSUME NEW c PROVE Seen!UpdateContactErr(c) = UpdateContactErr(c)
  BY DEF UpdateContactErr, Seen!UpdateContactErr, IsUniqueConstraint,
         Seen!IsUniqueConstraint, Rewritten, Seen!Rewritten
<1>3. ASSUME NEW id PROVE Seen!DeleteContactErr(id) = DeleteContactErr(id)
  BY DEF DeleteContactErr, Seen!DeleteContactErr
<1> QED
  BY <1>1, <1>2, <1>3

-----------------------------------------------------------------------------
(* An operation that is performed *)

(* The COMMIT of a transaction makes the effect of its operation, which    *)
(* is still without error: nobody else has touched the tables.             *)
LEMMA CommitPerforms ==
    ASSUME IInv, NEW s \in Slots, Commit(s)
    PROVE  Perform(s)
<1>1. pc[s] = "commit" /\ Working(s)
  BY DEF Commit, Working
<1>2. Pending(s)
  BY <1>1, WorkingCalls DEF Pending
<1>3. view.books = books /\ HalfDone(s)
  BY <1>1, WorkingCalls DEF HalfDone
<1>4. /\ books' = books /\ contacts' = view.contacts /\ fts' = view.fts
      /\ Decide(s, "nil")
  BY <1>3 DEF Commit
<1>5. CASE /\ call[s].op = "CreateContact"
           /\ Inserted(call[s].row, view.contacts)
           /\ view.fts = fts \cup {IndexRow(call[s].row)}
  BY <1>2, <1>4, <1>5 DEF Perform, When, Inserted, CreateContact
<1>6. CASE /\ call[s].op = "UpdateContact"
           /\ Replaced(call[s].row, view.contacts)
           /\ view.fts = NotIndexing(call[s].row.id) \cup {IndexRow(call[s].row)}
  BY <1>2, <1>4, <1>6 DEF Perform, When, Replaced, Updated, UpdateContact
<1>7. CASE /\ call[s].op = "DeleteContact"
           /\ Removed(call[s].id, view.contacts)
           /\ view.fts = NotIndexing(call[s].id)
  BY <1>2, <1>4, <1>7 DEF Perform, When, Removed, DeleteContact
<1> QED
  BY <1>1, <1>3, <1>5, <1>6, <1>7 DEF HalfDone

(* The part of the invariant that is about the tables *)
Sound == /\ StoreTypeOK /\ KeysUnique(books, contacts) /\ Indexed
         /\ ~loose => enforced /\ ReferencesHold(books, contacts)

LEMMA SoundIs == IInv => Sound
BY DEF IInv, Sound, TypeOK, IndexFollows, Indexed, ConstraintsHold

(* What a step of s that decides "e" may do to the tables *)
Decided(s) ==
    /\ Pending(s)
    /\ call' = call /\ UNCHANGED <<enforced, loose>>
    /\ \E e \in Result \ {"none"} : err' = [err EXCEPT ![s] = e]
    /\ rows' \in [Slots -> SUBSET Contact]
    /\ Sound'
    /\ \A id : Used(id)' => Used(id) \/ (Creating(s) /\ id = call[s].row.id)

LEMMA NothingDone ==
    ASSUME Sound, UNCHANGED tables, UNCHANGED <<enforced, loose>>
    PROVE  Sound' /\ \A id : Used(id)' => Used(id)
BY DEF tables, Sound, StoreTypeOK, KeysUnique, Indexed, ReferencesHold, Used

LEMMA FailDecides ==
    ASSUME IInv, NEW s \in Slots, Pending(s), UNCHANGED tables,
           NEW e \in Result \ {"none"}, Decide(s, e)
    PROVE  Decided(s)
BY SoundIs, NothingDone DEF Decided, Decide, IInv, TypeOK

LEMMA PerformDecides ==
    ASSUME IInv, NEW s \in Slots, Perform(s)
    PROVE  Decided(s)
<1> DEFINE c == call[s]
<1>1. /\ Sound /\ TypeOK /\ Pending(s) /\ rows \in [Slots -> SUBSET Contact]
      /\ StoreTypeOK /\ KeysUnique(books, contacts) /\ Indexed
      /\ ~loose => enforced /\ ReferencesHold(books, contacts)
  BY SoundIs DEF Perform, IInv, TypeOK, Sound
<1>2. /\ c.op \in {"CreateContact", "UpdateContact"} => c.row \in Contact
      /\ c.op = "CreateAddressBook" => c.row \in Book
      /\ c.op \notin {"CreateContact", "UpdateContact", "CreateAddressBook"} => c.id \in Ids
  BY <1>1, CallTypes DEF Pending
<1>3. ASSUME NEW e \in Result \ {"none"}, Decide(s, e), Sound',
             \A id : Used(id)' => Used(id) \/ (Creating(s) /\ id = c.row.id)
      PROVE  Decided(s)
  BY <1>1, <1>3 DEF Decided, Decide
<1>4. ASSUME NEW e \in Result \ {"none"}, Decide(s, e), UNCHANGED tables
      PROVE  Decided(s)
  BY <1>1, <1>4, FailDecides
<1>5. "nil" \in Result \ {"none"} /\ "ErrConflict" \in Result \ {"none"}
      /\ "ErrNotFound" \in Result \ {"none"} /\ "error" \in Result \ {"none"}
  BY DEF Result
<1>6. ASSUME c.op = "CreateContact", When(s, CreateContactErr(c.row), CreateContact(c.row))
      PROVE  Decided(s)
  <2>1. CASE CreateContactErr(c.row) = "nil"
    <3>1. CreateContact(c.row) /\ Decide(s, "nil")
      BY <1>6, <2>1 DEF When
    <3>2. Creating(s)
      BY <1>1, <1>6 DEF Creating, Creations, Pending
    <3>3. \A f \in fts : f.contact # c.row.id
      BY <1>1, <3>2 DEF IInv, StillFresh, Used, Pending
    <3>4. /\ StoreTypeOK'
          /\ KeysUnique(books, contacts)'
          /\ ReferencesHold(books, contacts) /\ enforced =>
                ReferencesHold(books, contacts)'
          /\ Indexed'
          /\ \A id : Used(id)' => Used(id) \/ id = c.row.id
      BY <1>1, <1>2, <1>6, <2>1, <3>1, <3>3, CreateContactKeeps DEF Sound
    <3>5. Sound'
      BY <1>1, <3>1, <3>4 DEF Sound, Decide
    <3> QED
      BY <1>3, <1>5, <3>1, <3>2, <3>4, <3>5
  <2>2. CASE CreateContactErr(c.row) # "nil"
    <3>1. CreateContactErr(c.row) \in {"ErrConflict", "error"}
      BY <2>2 DEF CreateContactErr
    <3> QED
      BY <1>4, <1>5, <1>6, <2>2, <3>1 DEF When
  <2> QED
    BY <2>1, <2>2
<1>7. ASSUME c.op = "UpdateContact", When(s, UpdateContactErr(c.row), UpdateContact(c.row))
      PROVE  Decided(s)
  <2>1. CASE UpdateContactErr(c.row) = "nil"
    <3>1. UpdateContact(c.row) /\ Decide(s, "nil")
      BY <1>7, <2>1 DEF When
    <3>2. /\ StoreTypeOK'
          /\ KeysUnique(books, contacts)'
          /\ ReferencesHold(books, contacts) => ReferencesHold(books, contacts)'
          /\ Indexed'
          /\ \A id : Used(id)' => Used(id)
      BY <1>1, <1>2, <1>7, <2>1, <3>1, UpdateContactKeeps
    <3>3. Sound'
      BY <1>1, <3>1, <3>2 DEF Sound, Decide
    <3> QED
      BY <1>3, <1>5, <3>1, <3>2, <3>3
  <2>2. CASE UpdateContactErr(c.row) # "nil"
    <3>1. UpdateContactErr(c.row) \in {"ErrConflict", "ErrNotFound"}
      BY <2>2 DEF UpdateContactErr
    <3> QED
      BY <1>4, <1>5, <1>7, <2>2, <3>1 DEF When
  <2> QED
    BY <2>1, <2>2
<1>8. ASSUME When(s, DeleteContactErr(c.id), DeleteContact(c.id))
      PROVE  Decided(s)
  <2>1. CASE DeleteContactErr(c.id) = "nil"
    <3>1. DeleteContact(c.id) /\ Decide(s, "nil")
      BY <1>8, <2>1 DEF When
    <3>2. /\ StoreTypeOK'
          /\ KeysUnique(books, contacts)'
          /\ ReferencesHold(books, contacts) => ReferencesHold(books, contacts)'
          /\ Indexed'
          /\ \A id : Used(id)' => Used(id)
      BY <1>1, <3>1, DeleteContactKeeps
    <3>3. Sound'
      BY <1>1, <3>1, <3>2 DEF Sound, Decide
    <3> QED
      BY <1>3, <1>5, <3>1, <3>2, <3>3
  <2>2. CASE DeleteContactErr(c.id) # "nil"
    <3>1. DeleteContactErr(c.id) = "ErrNotFound"
      BY <2>2 DEF DeleteContactErr
    <3> QED
      BY <1>4, <1>5, <1>8, <2>2, <3>1 DEF When
  <2> QED
    BY <2>1, <2>2
<1>9. ASSUME c.op = "CreateAddressBook",
             When(s, CreateAddressBookErr(c.row), CreateAddressBook(c.row))
      PROVE  Decided(s)
  <2>1. CASE CreateAddressBookErr(c.row) = "nil"
    <3>1. CreateAddressBook(c.row) /\ Decide(s, "nil")
      BY <1>9, <2>1 DEF When
    <3>2. /\ StoreTypeOK'
          /\ KeysUnique(books, contacts)'
          /\ ReferencesHold(books, contacts) => ReferencesHold(books, contacts)'
          /\ Indexed'
          /\ \A id : Used(id)' => Used(id) \/ id = c.row.id
      BY <1>1, <1>2, <1>9, <2>1, <3>1, CreateAddressBookKeeps
    <3>3. Sound' /\ Creating(s)
      BY <1>1, <1>9, <3>1, <3>2 DEF Sound, Decide, Creating, Creations, Pending
    <3> QED
      BY <1>3, <1>5, <3>1, <3>2, <3>3
  <2>2. CASE CreateAddressBookErr(c.row) # "nil"
    <3>1. CreateAddressBookErr(c.row) = "ErrConflict"
      BY <2>2 DEF CreateAddressBookErr
    <3> QED
      BY <1>4, <1>5, <1>9, <2>2, <3>1 DEF When
  <2> QED
    BY <2>1, <2>2
<1>10. ASSUME When(s, DeleteAddressBookErr(c.id), DeleteAddressBook(c.id))
       PROVE  Decided(s)
  <2>1. CASE DeleteAddressBookErr(c.id) = "nil"
    <3>1. DeleteAddressBook(c.id) /\ Decide(s, "nil")
      BY <1>10, <2>1 DEF When
    <3>2. /\ StoreTypeOK'
          /\ KeysUnique(books, contacts)'
          /\ ReferencesHold(books, contacts) /\ enforced =>
                ReferencesHold(books, contacts)'
          /\ Indexed'
          /\ \A id : Used(id)' => Used(id)
      BY <1>1, <3>1, DeleteAddressBookKeeps
    <3>3. Sound'
      BY <1>1, <3>1, <3>2 DEF Sound, Decide
    <3> QED
      BY <1>3, <1>5, <3>1, <3>2, <3>3
  <2>2. CASE DeleteAddressBookErr(c.id) # "nil"
    <3>1. DeleteAddressBookErr(c.id) = "ErrNotFound"
      BY <2>2 DEF DeleteAddressBookErr
    <3> QED
      BY <1>4, <1>5, <1>10, <2>2, <3>1 DEF When
  <2> QED
    BY <2>1, <2>2
<1>11. ASSUME When(s, DeleteAddressBookErr(c.id), UNCHANGED tables)
       PROVE  Decided(s)
  <2>1. DeleteAddressBookErr(c.id) \in Result \ {"none"}
    BY DEF DeleteAddressBookErr, Result
  <2>2. UNCHANGED tables /\ Decide(s, DeleteAddressBookErr(c.id))
    BY <1>11 DEF When
  <2> QED
    BY <1>4, <2>1, <2>2
<1>12. ASSUME rows' = [rows EXCEPT ![s] = ListContacts(c.id)],
              err' = [err EXCEPT ![s] = "nil"],
              UNCHANGED <<tables, call, enforced, loose>>
       PROVE  Decided(s)
  <2>1. ListContacts(c.id) \subseteq Contact
    BY <1>1 DEF ListContacts, StoreTypeOK
  <2>2. rows' \in [Slots -> SUBSET Contact]
    BY <1>1, <1>12, <2>1
  <2>3. Sound' /\ \A id : Used(id)' => Used(id)
    BY <1>1, <1>12, NothingDone
  <2> QED
    BY <1>1, <1>5, <1>12, <2>2, <2>3 DEF Decided
<1> QED
  BY <1>6, <1>7, <1>8, <1>9, <1>10, <1>11, <1>12 DEF Perform

-----------------------------------------------------------------------------
(* What a step of one slot leaves true of the others *)

SameSlot(t) == pc'[t] = pc[t] /\ call'[t] = call[t] /\ err'[t] = err[t]
               /\ scan'[t] = scan[t]

LEMMA InCallStays ==
    ASSUME NEW t \in Slots, InCall(t), SameSlot(t), pc[t] = "select" => contacts' = contacts
    PROVE  InCall(t)'
BY DEF InCall, SameSlot, Working, ListContacts

LEMMA HalfDoneStays ==
    ASSUME NEW t \in Slots, HalfDone(t), SameSlot(t),
           UNCHANGED <<tables, view, enforced>>
    PROVE  HalfDone(t)'
<1>1. /\ books' = books /\ contacts' = contacts /\ fts' = fts /\ view' = view
      /\ enforced' = enforced /\ pc'[t] = pc[t] /\ call'[t] = call[t]
  BY DEF tables, SameSlot
<1>2. \A c : CreateContactErr(c)' = CreateContactErr(c)
  BY <1>1 DEF CreateContactErr, IsUniqueConstraint
<1>3. \A c : UpdateContactErr(c)' = UpdateContactErr(c)
  BY <1>1 DEF UpdateContactErr
<1>4. \A id : DeleteContactErr(id)' = DeleteContactErr(id)
  BY <1>1 DEF DeleteContactErr
<1>5. \A id : NotIndexing(id)' = NotIndexing(id)
  BY <1>1 DEF NotIndexing
<1>6. \A c : Updated(c)' = Updated(c)
  BY <1>1 DEF Updated
<1> QED
  BY <1>1, <1>2, <1>3, <1>4, <1>5, <1>6 DEF HalfDone, Inserted, Replaced, Removed

(* Ids stay fresh when a slot that ends creates the row it had to. *)
LEMMA FreshStays ==
    ASSUME StillFresh,
           \A t \in Slots : Creating(t)' =>
               /\ Creating(t) /\ call'[t].row = call[t].row
               /\ err'[t] = "none" => err[t] = "none",
           \A id : Used(id)' =>
               \/ Used(id)
               \/ \E t \in Slots : /\ Creating(t) /\ id = call[t].row.id
                                  /\ err'[t] # "none"
    PROVE  StillFresh'
<1>1. ASSUME NEW t \in Slots, Creating(t)', err'[t] = "none"
      PROVE  ~ Used(call[t].row.id)'
  <2>1. Creating(t) /\ err[t] = "none" /\ call'[t].row = call[t].row
    BY <1>1
  <2>2. PICK i : i = call[t].row.id /\ i = call'[t].row.id
    BY <2>1
  <2>3. ~ Used(i)
    BY <2>1, <2>2 DEF StillFresh
  <2>4. ~ Used(i)'
    <3>1. SUFFICES ASSUME Used(i)' PROVE FALSE
      OBVIOUS
    <3>2. PICK u \in Slots : Creating(u) /\ i = call[u].row.id /\ err'[u] # "none"
      BY <2>3, <3>1
    <3>3. u = t
      BY <2>1, <2>2, <3>2 DEF StillFresh
    <3> QED
      BY <1>1, <3>2, <3>3
  <2> QED
    BY <2>2, <2>4 DEF Used
<1>2. ASSUME NEW t \in Slots, Creating(t)', NEW u \in Slots, Creating(u)',
             call'[u].row.id = call'[t].row.id
      PROVE  u = t
  BY <1>2 DEF StillFresh
<1> QED
  BY <1>1, <1>2 DEF StillFresh

-----------------------------------------------------------------------------
(* A slot that ends, whatever its end: its error is decided, and if it had *)
(* the connection that is gone.                                            *)
LEMMA EndKeeps ==
    ASSUME IInv, NEW s \in Slots, Decided(s),
           pc' = [pc EXCEPT ![s] = "done"], scan' = [scan EXCEPT ![s] = {}],
           view' = view \/ view' = NoView,
           conn' \in Slots \cup {Nobody, Undoing},
           \/ Working(s) /\ conn' \notin Slots
           \/ ~ Working(s) /\ UNCHANGED <<tables, conn, view>>
    PROVE  IInv'
<1>1. /\ TypeOK /\ Pending(s)
      /\ pc'[s] = "done" /\ scan'[s] = {} /\ err'[s] # "none" /\ call' = call
      /\ UNCHANGED <<enforced, loose>>
  BY DEF Decided, IInv, TypeOK
<1>2. \A t \in Slots \ {s} : SameSlot(t)
  BY <1>1 DEF SameSlot, Decided, TypeOK
<1>3. Working(s) => \A t \in Slots : t # s => ~ Working(t)
  BY WorkingCalls
<1>4. TypeOK'
  <2>1. StoreTypeOK'
    BY DEF Decided, Sound
  <2>2. NoView \in [books : SUBSET Book, contacts : SUBSET Contact, fts : SUBSET FTSRow]
    BY DEF NoView
  <2>3. /\ err' \in [Slots -> Result]
        /\ pc' \in [Slots -> Statements]
        /\ scan' \in [Slots -> SUBSET Contact]
    <3>1. err' \in [Slots -> Result]
      <4>1. PICK e \in Result \ {"none"} : err' = [err EXCEPT ![s] = e]
        BY DEF Decided
      <4> QED
        BY <1>1, <4>1 DEF TypeOK
    <3>2. "done" \in Statements
      BY DEF Statements
    <3>3. pc' \in [Slots -> Statements]
      BY <1>1, <3>2 DEF TypeOK
    <3>4. scan' \in [Slots -> SUBSET Contact]
      BY <1>1 DEF TypeOK
    <3> QED
      BY <3>1, <3>3, <3>4
  <2>4. rows' \in [Slots -> SUBSET Contact]
    BY DEF Decided
  <2> QED
    BY <1>1, <2>1, <2>2, <2>3, <2>4 DEF TypeOK
<1>5. IndexFollows' /\ ConstraintsHold' /\ (~loose => enforced)'
  BY DEF Decided, Sound, Indexed, IndexFollows, ConstraintsHold
<1>6. ASSUME NEW t \in Slots PROVE InCall(t)' /\ (Working(t)' => HalfDone(t)')
  <2>1. CASE t = s
    BY <1>1, <2>1 DEF InCall, Working, Pending
  <2>2. CASE t # s
    <3>1. InCall(t)'
      <4>1. pc[t] = "select" => Working(t)
        BY DEF Working
      <4>2. pc[t] = "select" => contacts' = contacts
        BY <1>3, <2>2, <4>1 DEF tables
      <4> QED
        BY <1>2, <2>2, <4>2, InCallStays DEF IInv
    <3>2. Working(t)' => Working(t)
      BY <1>2, <2>2 DEF Working, SameSlot
    <3>3. Working(t) => HalfDone(t)'
      BY <1>1, <1>2, <1>3, <2>2, HalfDoneStays DEF IInv
    <3> QED
      BY <3>1, <3>2, <3>3
  <2> QED
    BY <2>1, <2>2
<1>7. OneWorks'
  <2>1. \A t \in Slots : Working(t)' <=> t # s /\ Working(t)
    BY <1>1, <1>2 DEF Working, SameSlot
  <2>2. ~ Working(s) => conn # s
    BY DEF IInv, OneWorks
  <2> QED
    BY <1>3, <2>1, <2>2 DEF IInv, OneWorks
<1>8. StillFresh'
  <2>1. \A t \in Slots : Creating(t)' => Creating(t) /\ call'[t].row = call[t].row
    BY <1>1 DEF Creating
  <2>2. \A t \in Slots : err'[t] = "none" => err[t] = "none"
    BY <1>1, <1>2 DEF SameSlot, Pending
  <2> QED
    BY <1>1, <2>1, <2>2, FreshStays DEF Decided, IInv
<1> QED
  BY <1>4, <1>5, <1>6, <1>7, <1>8 DEF IInv

-----------------------------------------------------------------------------
(* A statement that leads to the next one of its transaction *)

LEMMA GoKeeps ==
    ASSUME IInv, NEW s \in Slots, Working(s), pc[s] # "select",
           NEW st \in StatementsOf(call[s].op) \ {"select"}, Go(s, st),
           view' \in [books : SUBSET Book, contacts : SUBSET Contact, fts : SUBSET FTSRow],
           HalfDone(s)'
    PROVE  IInv'
<1>1. /\ UNCHANGED <<atomicVars, conn, scan>>
      /\ pc' = [pc EXCEPT ![s] = st]
      /\ TypeOK
  BY DEF Go, IInv
<1>2. st \in Statements \ {"idle", "wait", "done", "select"}
  BY DEF StatementsOf, Statements
<1>3. pc'[s] = st /\ \A t \in Slots \ {s} : SameSlot(t)
  BY <1>1 DEF TypeOK, SameSlot, atomicVars, callVars
<1>4. TypeOK'
  <2>1. pc' \in [Slots -> Statements]
    BY <1>1, <1>2 DEF TypeOK
  <2>2. StoreTypeOK'
    BY <1>1 DEF TypeOK, StoreTypeOK, atomicVars, tables
  <2> QED
    BY <1>1, <2>1, <2>2 DEF TypeOK, atomicVars, callVars
<1>5. IndexFollows' /\ ConstraintsHold' /\ (~loose => enforced)'
  <2>1. Sound'
    BY <1>1, SoundIs, NothingDone DEF atomicVars
  <2> QED
    BY <2>1 DEF Sound, Indexed, IndexFollows, ConstraintsHold
<1>6. \A t \in Slots : Working(t)' <=> Working(t)
  BY <1>2, <1>3 DEF Working, SameSlot
<1>7. ASSUME NEW t \in Slots PROVE InCall(t)' /\ (Working(t)' => HalfDone(t)')
  <2>1. CASE t = s
    <3>1. InCall(s) /\ call[s] # NoCall /\ err[s] = "none"
      BY WorkingCalls DEF IInv
    <3>2. scan[s] = {}
      BY <3>1 DEF InCall
    <3> QED
      BY <1>1, <1>2, <1>3, <2>1, <3>1, <3>2 DEF InCall, atomicVars, callVars
  <2>2. CASE t # s
    <3>1. ~ Working(t)
      BY <2>2, WorkingCalls
    <3>2. InCall(t)'
      BY <1>1, <1>3, <2>2, InCallStays DEF IInv, atomicVars, tables
    <3> QED
      BY <1>6, <3>1, <3>2
  <2> QED
    BY <2>1, <2>2
<1>8. OneWorks'
  BY <1>1, <1>6 DEF IInv, OneWorks
<1>9. StillFresh'
  BY <1>1 DEF IInv, StillFresh, Creating, Used, atomicVars, callVars, tables
<1> QED
  BY <1>4, <1>5, <1>7, <1>8, <1>9 DEF IInv

(* An operation that ends with an error has changed nothing. *)
LEMMA FailWithKeeps ==
    ASSUME IInv, NEW s \in Slots, Working(s),
           NEW e \in Result \ {"none"}, FailWith(s, e)
    PROVE  IInv'
<1>1. Pending(s)
  BY WorkingCalls DEF Pending
<1>2. Decided(s)
  BY <1>1, FailDecides DEF FailWith
<1> QED
  BY <1>2, EndKeeps DEF FailWith, Release

LEMMA ViewTyped ==
    ASSUME IInv
    PROVE  /\ view.books \subseteq Book /\ view.contacts \subseteq Contact
           /\ view.fts \subseteq FTSRow
           /\ \A cs \in SUBSET Contact, fs \in SUBSET FTSRow :
                 /\ [view EXCEPT !.contacts = cs] \in
                       [books : SUBSET Book, contacts : SUBSET Contact, fts : SUBSET FTSRow]
                 /\ [view EXCEPT !.contacts = cs].contacts = cs
                 /\ [view EXCEPT !.contacts = cs].books = view.books
                 /\ [view EXCEPT !.contacts = cs].fts = view.fts
                 /\ [view EXCEPT !.fts = fs] \in
                       [books : SUBSET Book, contacts : SUBSET Contact, fts : SUBSET FTSRow]
                 /\ [view EXCEPT !.fts = fs].fts = fs
                 /\ [view EXCEPT !.fts = fs].books = view.books
                 /\ [view EXCEPT !.fts = fs].contacts = view.contacts
<1>1. view \in [books : SUBSET Book, contacts : SUBSET Contact, fts : SUBSET FTSRow]
  BY DEF IInv, TypeOK
<1> QED
  BY <1>1

(* Of HalfDone(s) after a step that changes no more than the view and pc *)
LEMMA HalfDoneNext ==
    ASSUME NEW s \in Slots, NEW st, Go(s, st), pc \in [Slots -> Statements]
    PROVE  /\ pc'[s] = st /\ call' = call /\ books' = books /\ enforced' = enforced
           /\ contacts' = contacts /\ fts' = fts
           /\ \A c, cs : Inserted(c, cs) => Inserted(c, cs)'
           /\ \A c, cs : Replaced(c, cs) => Replaced(c, cs)'
           /\ \A id, cs : Removed(id, cs) => Removed(id, cs)'
           /\ \A id : NotIndexing(id)' = NotIndexing(id)
<1>1. /\ pc'[s] = st /\ call' = call /\ books' = books /\ enforced' = enforced
      /\ contacts' = contacts /\ fts' = fts
  BY DEF Go, atomicVars, tables, callVars
<1>2. \A c, cs : Inserted(c, cs) => Inserted(c, cs)'
  BY <1>1 DEF Inserted, CreateContactErr,
              IsUniqueConstraint
<1>3. \A c, cs : Replaced(c, cs) => Replaced(c, cs)'
  BY <1>1 DEF Replaced, UpdateContactErr, Updated
<1>4. \A id, cs : Removed(id, cs) => Removed(id, cs)'
  BY <1>1 DEF Removed, DeleteContactErr
<1>5. \A id : NotIndexing(id)' = NotIndexing(id)
  BY <1>1 DEF NotIndexing
<1> QED
  BY <1>1, <1>2, <1>3, <1>4, <1>5

-----------------------------------------------------------------------------
(* The statements of the transactions *)

LEMMA InsertContactKeeps ==
    ASSUME IInv, NEW s \in Slots, InsertContact(s)
    PROVE  IInv'
<1> DEFINE c == call[s].row
<1>1. pc[s] = "insert contact" /\ Working(s) /\ call[s].op = "CreateContact"
  BY StatementTells DEF InsertContact, Working
<1>2. /\ view.books = books /\ view.contacts = contacts /\ view.fts = fts
      /\ HalfDone(s) /\ c \in Contact /\ TypeOK
  BY <1>1, WorkingCalls, CallTypes DEF HalfDone, IInv
<1>3. InsertErr(c) = CreateContactErr(c)
  BY <1>2, SeenErrors
<1>4. CASE InsertErr(c) = "nil"
  <2>1. view' = [view EXCEPT !.contacts = contacts \cup {c}] /\ Go(s, "insert index")
    <3>1. view' = [view EXCEPT !.contacts = view.contacts \cup {c}]
      BY <1>1, <1>4 DEF InsertContact
    <3> QED
      BY <1>2, <1>4, <3>1 DEF InsertContact
  <2>2. contacts \cup {c} \in SUBSET Contact
    BY <1>2 DEF TypeOK, StoreTypeOK
  <2>3. /\ view'.contacts = contacts \cup {c} /\ view'.books = books /\ view'.fts = fts
        /\ view' \in [books : SUBSET Book, contacts : SUBSET Contact, fts : SUBSET FTSRow]
    BY <1>2, <2>1, <2>2, ViewTyped
  <2>4. Inserted(c, contacts \cup {c})
    BY <1>3, <1>4 DEF Inserted
  <2>5. HalfDone(s)'
    <3>1. /\ pc'[s] = "insert index" /\ call' = call /\ books' = books
          /\ contacts' = contacts /\ fts' = fts
          /\ Inserted(c, contacts \cup {c})'
      BY <1>2, <2>1, <2>4, HalfDoneNext DEF TypeOK
    <3> QED
      BY <1>1, <2>3, <3>1 DEF HalfDone
  <2>6. "insert index" \in StatementsOf(call[s].op) \ {"select"}
    BY <1>1 DEF StatementsOf
  <2> QED
    BY <1>1, <2>1, <2>3, <2>5, <2>6, GoKeeps
<1>5. CASE InsertErr(c) # "nil"
  <2>1. InsertErr(c) \in Result \ {"none"}
    BY <1>3 DEF CreateContactErr, Result
  <2> QED
    BY <1>1, <1>5, <2>1, FailWithKeeps DEF InsertContact
<1> QED
  BY <1>4, <1>5

LEMMA InsertIndexKeeps ==
    ASSUME IInv, NEW s \in Slots, InsertIndex(s)
    PROVE  IInv'
<1> DEFINE c == call[s].row
           fs == view.fts \cup {IndexRow(c)}
<1>1. /\ pc[s] = "insert index" /\ Working(s)
      /\ call[s].op \in {"CreateContact", "UpdateContact"}
  BY StatementTells DEF InsertIndex, Working
<1>2. view.books = books /\ HalfDone(s) /\ c \in Contact /\ TypeOK
  BY <1>1, WorkingCalls, CallTypes DEF HalfDone, IInv
<1>3. view' = [view EXCEPT !.fts = fs] /\ Go(s, "commit")
  BY DEF InsertIndex
<1>4. fs \in SUBSET FTSRow
  BY <1>2, ViewTyped, IndexRowTyped
<1>5. /\ view'.fts = fs /\ view'.books = books /\ view'.contacts = view.contacts
      /\ view' \in [books : SUBSET Book, contacts : SUBSET Contact, fts : SUBSET FTSRow]
  BY <1>2, <1>3, <1>4, ViewTyped
<1>6. /\ pc'[s] = "commit" /\ call' = call /\ books' = books
      /\ contacts' = contacts /\ fts' = fts
  BY <1>2, <1>3, HalfDoneNext DEF TypeOK
<1>7. PICK cs, d, ni : /\ cs = view.contacts /\ cs = view'.contacts
                      /\ d = c /\ d = call'[s].row
                      /\ ni = NotIndexing(d.id) /\ ni = NotIndexing(d.id)'
  BY <1>2, <1>3, <1>5, <1>6, HalfDoneNext DEF TypeOK
<1>8. HalfDone(s)'
  <2>1. CASE /\ call[s].op = "CreateContact"
             /\ Inserted(d, cs) /\ view.fts = fts
    <3>1. Inserted(d, cs)'
      BY <1>2, <1>3, <2>1, HalfDoneNext DEF TypeOK
    <3>2. Inserted(call[s].row, view.contacts)'
      BY <1>7, <3>1 DEF Inserted
    <3>3. (view.fts = fts \cup {IndexRow(call[s].row)})'
      BY <1>5, <1>6, <2>1 DEF IndexRow
    <3> QED
      BY <1>5, <1>6, <2>1, <3>2, <3>3 DEF HalfDone
  <2>2. CASE /\ call[s].op = "UpdateContact"
             /\ Replaced(d, cs) /\ view.fts = ni
    <3>1. Replaced(d, cs)'
      BY <1>2, <1>3, <2>2, HalfDoneNext DEF TypeOK
    <3>2. Replaced(call[s].row, view.contacts)'
      BY <1>7, <3>1 DEF Replaced
    <3>3. (view.fts = NotIndexing(call[s].row.id) \cup {IndexRow(call[s].row)})'
      BY <1>5, <1>6, <1>7, <2>2 DEF IndexRow, NotIndexing
    <3> QED
      BY <1>5, <1>6, <2>2, <3>2, <3>3 DEF HalfDone
  <2> QED
    BY <1>1, <1>2, <1>7, <2>1, <2>2 DEF HalfDone
<1>9. "commit" \in StatementsOf(call[s].op) \ {"select"}
  BY <1>1 DEF StatementsOf
<1> QED
  BY <1>1, <1>3, <1>5, <1>8, <1>9, GoKeeps

LEMMA UpdateContactRowKeeps ==
    ASSUME IInv, NEW s \in Slots, UpdateContactRow(s)
    PROVE  IInv'
<1> DEFINE c == call[s].row
<1>1. pc[s] = "update contact" /\ Working(s) /\ call[s].op = "UpdateContact"
  BY StatementTells DEF UpdateContactRow, Working
<1>2. /\ view.books = books /\ view.contacts = contacts /\ view.fts = fts
      /\ HalfDone(s) /\ c \in Contact /\ TypeOK
  BY <1>1, WorkingCalls, CallTypes DEF HalfDone, IInv
<1>3. Seen!UpdateContactErr(c) = UpdateContactErr(c)
  BY <1>2, SeenErrors
<1>4. CASE Seen!UpdateContactErr(c) = "nil"
  <2>1. view' = [view EXCEPT !.contacts = Updated(c)] /\ Go(s, "replace index")
    <3>1. RowsUpdated(c) = Updated(c)
      BY <1>2 DEF RowsUpdated, Updated
    <3> QED
      BY <1>4, <3>1 DEF UpdateContactRow
  <2>2. Updated(c) \in SUBSET Contact
    BY <1>2, RewrittenTyped DEF TypeOK, StoreTypeOK, Updated
  <2>3. /\ view'.contacts = Updated(c) /\ view'.books = books /\ view'.fts = fts
        /\ view' \in [books : SUBSET Book, contacts : SUBSET Contact, fts : SUBSET FTSRow]
    BY <1>2, <2>1, <2>2, ViewTyped
  <2>4. PICK cs : cs = Updated(c) /\ cs = view'.contacts
    BY <2>3
  <2>5. Replaced(c, cs)
    BY <1>3, <1>4, <2>4 DEF Replaced
  <2>6. HalfDone(s)'
    <3>1. /\ pc'[s] = "replace index" /\ call' = call /\ books' = books
          /\ contacts' = contacts /\ fts' = fts
          /\ Replaced(c, cs)'
      BY <1>2, <2>1, <2>5, HalfDoneNext DEF TypeOK
    <3>2. Replaced(c, view.contacts)'
      BY <2>4, <3>1 DEF Replaced
    <3> QED
      BY <1>1, <2>3, <3>1, <3>2 DEF HalfDone
  <2>7. "replace index" \in StatementsOf(call[s].op) \ {"select"}
    BY <1>1 DEF StatementsOf
  <2> QED
    BY <1>1, <2>1, <2>3, <2>6, <2>7, GoKeeps
<1>5. CASE Seen!UpdateContactErr(c) # "nil"
  <2>1. Seen!UpdateContactErr(c) \in Result \ {"none"}
    BY <1>3 DEF UpdateContactErr, Result
  <2> QED
    BY <1>1, <1>5, <2>1, FailWithKeeps DEF UpdateContactRow
<1> QED
  BY <1>4, <1>5

LEMMA ReplaceIndexKeeps ==
    ASSUME IInv, NEW s \in Slots, ReplaceIndex(s)
    PROVE  IInv'
<1>1. pc[s] = "replace index" /\ Working(s) /\ call[s].op = "UpdateContact"
  BY StatementTells DEF ReplaceIndex, Working
<1>2. /\ view.books = books /\ view.fts = fts /\ Replaced(call[s].row, view.contacts)
      /\ TypeOK
  BY <1>1, WorkingCalls DEF HalfDone, IInv
<1>3. PICK d, fs : d = call[s].row /\ fs = NotIndexing(d.id)
  OBVIOUS
<1>4. view' = [view EXCEPT !.fts = fs] /\ Go(s, "insert index")
  <2>1. Unindexed(call[s].row.id) = fs
    BY <1>2, <1>3 DEF Unindexed, NotIndexing
  <2> QED
    BY <2>1 DEF ReplaceIndex
<1>5. fs \in SUBSET FTSRow
  BY <1>2, <1>3 DEF NotIndexing, TypeOK, StoreTypeOK
<1>6. /\ view'.fts = fs /\ view'.books = books /\ view'.contacts = view.contacts
      /\ view' \in [books : SUBSET Book, contacts : SUBSET Contact, fts : SUBSET FTSRow]
  BY <1>2, <1>4, <1>5, ViewTyped
<1>7. /\ pc'[s] = "insert index" /\ call' = call /\ books' = books
      /\ NotIndexing(d.id)' = NotIndexing(d.id)
      /\ \A cs : Replaced(d, cs) => Replaced(d, cs)'
  BY <1>2, <1>4, HalfDoneNext DEF TypeOK
<1>8. HalfDone(s)'
  <2>1. PICK cs : cs = view.contacts /\ cs = view'.contacts
    BY <1>6
  <2>2. Replaced(d, cs)'
    BY <1>2, <1>3, <1>7, <2>1
  <2>3. Replaced(call[s].row, view.contacts)'
    BY <1>3, <1>7, <2>1, <2>2 DEF Replaced
  <2>4. (view.fts = NotIndexing(call[s].row.id))'
    BY <1>3, <1>6, <1>7 DEF NotIndexing
  <2> QED
    BY <1>1, <1>6, <1>7, <2>3, <2>4 DEF HalfDone
<1>9. "insert index" \in StatementsOf(call[s].op) \ {"select"}
  BY <1>1 DEF StatementsOf
<1> QED
  BY <1>1, <1>4, <1>6, <1>8, <1>9, GoKeeps

LEMMA DeleteIndexKeeps ==
    ASSUME IInv, NEW s \in Slots, DeleteIndex(s)
    PROVE  IInv'
<1>1. pc[s] = "delete index" /\ Working(s) /\ call[s].op = "DeleteContact"
  BY StatementTells DEF DeleteIndex, Working
<1>2. view.books = books /\ view.fts = fts /\ view.contacts = contacts /\ TypeOK
  BY <1>1, WorkingCalls DEF HalfDone, IInv
<1>3. PICK i, fs : i = call[s].id /\ fs = NotIndexing(i)
  OBVIOUS
<1>4. view' = [view EXCEPT !.fts = fs] /\ Go(s, "delete contact")
  <2>1. Unindexed(call[s].id) = fs
    BY <1>2, <1>3 DEF Unindexed, NotIndexing
  <2> QED
    BY <2>1 DEF DeleteIndex
<1>5. fs \in SUBSET FTSRow
  BY <1>2, <1>3 DEF NotIndexing, TypeOK, StoreTypeOK
<1>6. /\ view'.fts = fs /\ view'.books = books /\ view'.contacts = view.contacts
      /\ view' \in [books : SUBSET Book, contacts : SUBSET Contact, fts : SUBSET FTSRow]
  BY <1>2, <1>4, <1>5, ViewTyped
<1>7. /\ pc'[s] = "delete contact" /\ call' = call /\ books' = books /\ contacts' = contacts
      /\ NotIndexing(i)' = NotIndexing(i)
  BY <1>2, <1>4, HalfDoneNext DEF TypeOK
<1>8. HalfDone(s)'
  <2>1. (view.fts = NotIndexing(call[s].id))'
    BY <1>3, <1>6, <1>7 DEF NotIndexing
  <2> QED
    BY <1>1, <1>2, <1>6, <1>7, <2>1 DEF HalfDone
<1>9. "delete contact" \in StatementsOf(call[s].op) \ {"select"}
  BY <1>1 DEF StatementsOf
<1> QED
  BY <1>1, <1>4, <1>6, <1>8, <1>9, GoKeeps

LEMMA DeleteContactRowKeeps ==
    ASSUME IInv, NEW s \in Slots, DeleteContactRow(s)
    PROVE  IInv'
<1>1. pc[s] = "delete contact" /\ Working(s) /\ call[s].op = "DeleteContact"
  BY StatementTells DEF DeleteContactRow, Working
<1>2. /\ view.books = books /\ view.contacts = contacts /\ TypeOK
      /\ view.fts = NotIndexing(call[s].id)
  BY <1>1, WorkingCalls DEF HalfDone, IInv
<1>3. PICK i, cs : i = call[s].id /\ cs = {x \in contacts : x.id # i}
  OBVIOUS
<1>4. Seen!DeleteContactErr(i) = DeleteContactErr(i)
  BY <1>2, SeenErrors
<1>5. CASE Seen!DeleteContactErr(i) = "nil"
  <2>1. view' = [view EXCEPT !.contacts = cs] /\ Go(s, "commit")
    <3>1. view' = [view EXCEPT !.contacts = {x \in view.contacts : x.id # call[s].id}]
      BY <1>3, <1>5 DEF DeleteContactRow
    <3> QED
      BY <1>2, <1>3, <1>5, <3>1 DEF DeleteContactRow
  <2>2. cs \in SUBSET Contact
    BY <1>2, <1>3 DEF TypeOK, StoreTypeOK
  <2>3. /\ view'.contacts = cs /\ view'.books = books /\ view'.fts = view.fts
        /\ view' \in [books : SUBSET Book, contacts : SUBSET Contact, fts : SUBSET FTSRow]
    BY <1>2, <2>1, <2>2, ViewTyped
  <2>4. /\ pc'[s] = "commit" /\ call' = call /\ books' = books
        /\ NotIndexing(i)' = NotIndexing(i)
        /\ Removed(i, cs) => Removed(i, cs)'
    BY <1>2, <2>1, HalfDoneNext DEF TypeOK
  <2>5. HalfDone(s)'
    <3>1. Removed(i, cs)
      BY <1>3, <1>4, <1>5 DEF Removed
    <3>2. Removed(call[s].id, view.contacts)'
      BY <1>3, <2>3, <2>4, <3>1 DEF Removed
    <3>3. (view.fts = NotIndexing(call[s].id))'
      BY <1>2, <1>3, <2>3, <2>4 DEF NotIndexing
    <3> QED
      BY <1>1, <2>3, <2>4, <3>2, <3>3 DEF HalfDone
  <2>6. "commit" \in StatementsOf(call[s].op) \ {"select"}
    BY <1>1 DEF StatementsOf
  <2> QED
    BY <1>1, <2>1, <2>3, <2>5, <2>6, GoKeeps
<1>6. CASE Seen!DeleteContactErr(i) # "nil"
  <2>1. FailWith(s, "ErrNotFound")
    BY <1>3, <1>6 DEF DeleteContactRow
  <2>2. "ErrNotFound" \in Result \ {"none"}
    BY DEF Result
  <2> QED
    BY <1>1, <2>1, <2>2, FailWithKeeps
<1> QED
  BY <1>5, <1>6

LEMMA CommitKeeps ==
    ASSUME IInv, NEW s \in Slots, Commit(s)
    PROVE  IInv'
<1>1. Working(s) /\ scan[s] = {} /\ TypeOK
  BY DEF Commit, Working, IInv, InCall
<1>2. scan' = [scan EXCEPT ![s] = {}]
  BY <1>1 DEF Commit, TypeOK
<1>3. Decided(s)
  BY CommitPerforms, PerformDecides
<1> QED
  BY <1>1, <1>2, <1>3, EndKeeps DEF Commit, Release

-----------------------------------------------------------------------------
(* Statements of their own *)

LEMMA AutocommitKeeps ==
    ASSUME IInv, NEW s \in Slots, Autocommit(s)
    PROVE  IInv'
<1>1. Working(s) /\ scan[s] = {} /\ TypeOK
  BY DEF Autocommit, Working, IInv, InCall
<1>2. scan' = [scan EXCEPT ![s] = {}]
  BY <1>1 DEF Autocommit, TypeOK
<1>3. Decided(s)
  BY PerformDecides DEF Autocommit
<1> QED
  BY <1>1, <1>2, <1>3, EndKeeps DEF Autocommit, Release

(* The rows that a list has read when it has read all there are *)
LEMMA LastRow ==
    ASSUME IInv, NEW s \in Slots, Next1(s), scan[s] = ListContacts(call[s].id)
    PROVE  Perform(s) /\ scan' = [scan EXCEPT ![s] = {}]
              /\ pc' = [pc EXCEPT ![s] = "done"] /\ Release(s)
<1>1. pc[s] = "select" /\ Working(s) /\ call[s].op = "ListContacts"
  BY StatementTells DEF Next1, Working
<1>2. Pending(s)
  BY <1>1, WorkingCalls DEF Pending
<1>3. ListContacts(call[s].id) \ scan[s] = {}
  OBVIOUS
<1> QED
  BY <1>1, <1>2, <1>3 DEF Next1, Perform

LEMMA Next1Keeps ==
    ASSUME IInv, NEW s \in Slots, Next1(s)
    PROVE  IInv'
<1>1. pc[s] = "select" /\ Working(s) /\ call[s].op = "ListContacts" /\ TypeOK
  BY StatementTells DEF Next1, Working, IInv
<1>2. scan[s] \subseteq ListContacts(call[s].id)
  BY <1>1 DEF IInv, InCall
<1>3. CASE scan[s] = ListContacts(call[s].id)
  BY <1>1, <1>3, LastRow, PerformDecides, EndKeeps DEF Release
<1>4. CASE scan[s] # ListContacts(call[s].id)
  <2>1. PICK c \in ListContacts(call[s].id) : scan' = [scan EXCEPT ![s] = @ \cup {c}]
    BY <1>2, <1>4 DEF Next1
  <2>2. UNCHANGED <<atomicVars, conn, view, pc>>
    BY <1>2, <1>4 DEF Next1
  <2>3. /\ books' = books /\ contacts' = contacts /\ fts' = fts /\ enforced' = enforced
        /\ loose' = loose /\ call' = call /\ err' = err /\ rows' = rows
        /\ conn' = conn /\ view' = view /\ pc' = pc /\ UNCHANGED tables
    BY <2>2 DEF atomicVars, callVars, tables
  <2>4. c \in Contact
    BY <1>1 DEF ListContacts, TypeOK, StoreTypeOK
  <2>5. TypeOK'
    <3>1. scan' \in [Slots -> SUBSET Contact]
      BY <1>1, <2>1, <2>4 DEF TypeOK
    <3> QED
      BY <1>1, <2>3, <3>1 DEF TypeOK, StoreTypeOK
  <2>6. Sound'
    BY <2>3, SoundIs, NothingDone
  <2>7. ASSUME NEW t \in Slots PROVE InCall(t)' /\ (Working(t)' => HalfDone(t)')
    <3>1. InCall(t)'
      <4>1. CASE t = s
        BY <1>1, <1>2, <2>1, <2>3, <4>1 DEF IInv, InCall, Working, ListContacts, TypeOK
      <4>2. CASE t # s
        <5>1. SameSlot(t)
          BY <1>1, <2>1, <2>3, <4>2 DEF SameSlot, TypeOK
        <5> QED
          BY <2>3, <5>1, InCallStays DEF IInv
      <4> QED
        BY <4>1, <4>2
    <3>2. Working(t)' <=> Working(t)
      BY <2>3 DEF Working
    <3>3. Working(t) => t = s
      BY <1>1, WorkingCalls
    <3>4. HalfDone(s)'
      <4>1. view.books = books /\ view.contacts = contacts /\ view.fts = fts
        BY <1>1, WorkingCalls DEF HalfDone
      <4> QED
        BY <1>1, <2>3, <4>1 DEF HalfDone
    <3> QED
      BY <3>1, <3>2, <3>3, <3>4
  <2>8. OneWorks' /\ StillFresh'
    BY <2>3 DEF IInv, OneWorks, StillFresh, Working, Creating, Used
  <2> QED
    BY <2>5, <2>6, <2>7, <2>8
       DEF IInv, Sound, Indexed, IndexFollows, ConstraintsHold
<1> QED
  BY <1>3, <1>4

(* Half of a BumpSyncToken is done and the other waits for the connection. *)
LEMMA BumpUpdateKeeps ==
    ASSUME IInv, NEW s \in Slots, BumpUpdate(s)
    PROVE  IInv'
<1>1. /\ pc[s] = "autocommit" /\ Working(s) /\ call[s].op = "BumpSyncToken" /\ TypeOK
      /\ BumpSyncToken(call[s].id)
      /\ call' = [call EXCEPT ![s].op = "SelectToken"]
      /\ UNCHANGED <<err, rows, enforced, loose, scan>>
      /\ pc' = [pc EXCEPT ![s] = "wait"] /\ conn' = Nobody /\ view' = NoView
  BY DEF BumpUpdate, BumpFirst, Working, IInv, Release
<1>2. /\ call[s] # NoCall /\ err[s] = "none" /\ scan[s] = {} /\ conn = s
      /\ \A t \in Slots \ {s} : ~ Working(t)
  BY <1>1, WorkingCalls DEF IInv, InCall
<1>3. call[s] \in [op : {"BumpSyncToken"}, id : Ids]
  BY <1>1, <1>2, CallTypes DEF Operation, SecondHalf
<1>4. PICK k : k = [call[s] EXCEPT !.op = "SelectToken"]
  OBVIOUS
<1>5. call' = [call EXCEPT ![s] = k]
  BY <1>1, <1>4
<1>6. k \in SecondHalf /\ k.op = "SelectToken"
  BY <1>3, <1>4 DEF SecondHalf
<1>7. /\ call'[s] = k /\ pc'[s] = "wait"
      /\ \A t \in Slots \ {s} : SameSlot(t)
  BY <1>1, <1>5 DEF TypeOK, SameSlot
<1>8. /\ StoreTypeOK'
      /\ KeysUnique(books, contacts)'
      /\ ReferencesHold(books, contacts) => ReferencesHold(books, contacts)'
      /\ Indexed'
      /\ \A id : Used(id)' => Used(id)
  BY <1>1, SoundIs, BumpSyncTokenKeeps DEF Sound
<1>9. Sound'
  BY <1>1, <1>8, SoundIs DEF Sound
<1>10. TypeOK'
  <2>1. call' \in [Slots -> Calls \cup {NoCall} \cup SecondHalf]
    BY <1>1, <1>5, <1>6 DEF TypeOK
  <2>2. pc' \in [Slots -> Statements]
    BY <1>1 DEF TypeOK, Statements
  <2>3. NoView \in [books : SUBSET Book, contacts : SUBSET Contact, fts : SUBSET FTSRow]
    BY DEF NoView
  <2> QED
    BY <1>1, <1>8, <2>1, <2>2, <2>3 DEF TypeOK
<1>11. ASSUME NEW t \in Slots PROVE InCall(t)' /\ ~ Working(t)'
  <2>1. CASE t = s
    <3>1. k # NoCall
      BY <1>6
    <3> QED
      BY <1>1, <1>2, <1>7, <2>1, <3>1 DEF InCall, Working
  <2>2. CASE t # s
    <3>1. SameSlot(t) /\ pc[t] # "select"
      BY <1>2, <1>7, <2>2 DEF Working
    <3> QED
      BY <1>2, <2>2, <3>1, InCallStays DEF IInv, Working, SameSlot
  <2> QED
    BY <2>1, <2>2
<1>12. OneWorks'
  BY <1>1, <1>11 DEF OneWorks
<1>13. StillFresh'
  <2>1. \A t \in Slots : Creating(t)' => Creating(t) /\ call'[t].row = call[t].row /\ t # s
    BY <1>6, <1>7 DEF Creating, Creations, SameSlot
  <2> QED
    BY <1>1, <1>8, <2>1, FreshStays DEF IInv
<1> QED
  BY <1>9, <1>10, <1>11, <1>12, <1>13
     DEF IInv, Sound, Indexed, IndexFollows, ConstraintsHold

-----------------------------------------------------------------------------
(* Steps that no statement makes *)

LEMMA CancelKeeps ==
    ASSUME IInv, NEW s \in Slots, Cancel(s)
    PROVE  IInv'
<1>1. Pending(s)
  BY DEF Cancel, IInv, InCall, Pending
<1>2. "error" \in Result \ {"none"} /\ Decide(s, "error") /\ UNCHANGED tables
  BY DEF Result, Cancel, tables
<1>3. Decided(s)
  BY <1>1, <1>2, FailDecides
<1> QED
  BY <1>3, EndKeeps DEF Cancel, tables, IInv, TypeOK

(* A step that leaves the tables and the open transaction alone and takes  *)
(* s from one place outside the connection to another                      *)
LEMMA OutsideKeeps ==
    ASSUME IInv, NEW s \in Slots, ~ Working(s),
           UNCHANGED <<tables, enforced, loose, conn, view, scan>>,
           NEW p \in {"idle", "wait"}, pc' = [pc EXCEPT ![s] = p],
           NEW c \in Calls \cup {NoCall}, call' = [call EXCEPT ![s] = c],
           err' = [err EXCEPT ![s] = "none"],
           rows' \in [Slots -> SUBSET Contact],
           p = "idle" <=> c = NoCall,
           c # NoCall /\ c.op \in Creations => Fresh(c.row.id)
    PROVE  IInv'
<1>1. /\ books' = books /\ contacts' = contacts /\ fts' = fts /\ UNCHANGED tables
      /\ enforced' = enforced /\ loose' = loose /\ conn' = conn /\ view' = view
      /\ scan' = scan /\ TypeOK /\ scan[s] = {}
  BY DEF tables, IInv, InCall, Working
<1>2. /\ pc'[s] = p /\ call'[s] = c /\ err'[s] = "none"
      /\ \A t \in Slots \ {s} : SameSlot(t)
  BY <1>1 DEF TypeOK, SameSlot
<1>3. Sound'
  BY <1>1, SoundIs, NothingDone
<1>4. TypeOK'
  <2>1. pc' \in [Slots -> Statements]
    BY <1>1 DEF TypeOK, Statements
  <2>2. err' \in [Slots -> Result]
    BY <1>1 DEF TypeOK, Result
  <2>3. call' \in [Slots -> Calls \cup {NoCall} \cup SecondHalf]
    BY <1>1 DEF TypeOK
  <2> QED
    BY <1>1, <2>1, <2>2, <2>3 DEF TypeOK, StoreTypeOK
<1>5. ASSUME NEW t \in Slots
      PROVE  /\ InCall(t)'
             /\ Working(t)' <=> Working(t)
             /\ Working(t)' => HalfDone(t)'
  <2>1. CASE t = s
    BY <1>1, <1>2, <2>1 DEF InCall, Working
  <2>2. CASE t # s
    <3>1. InCall(t)'
      BY <1>1, <1>2, <2>2, InCallStays DEF IInv
    <3>2. Working(t)' <=> Working(t)
      BY <1>2, <2>2 DEF SameSlot, Working
    <3>3. Working(t) => HalfDone(t)'
      BY <1>1, <1>2, <2>2, HalfDoneStays DEF IInv
    <3> QED
      BY <3>1, <3>2, <3>3
  <2> QED
    BY <2>1, <2>2
<1>6. OneWorks'
  BY <1>1, <1>5 DEF IInv, OneWorks
<1>7. StillFresh'
  <2>1. \A id : Used(id)' <=> Used(id)
    BY <1>1 DEF Used
  <2>2. \A t \in Slots \ {s} : Creating(t)' => Creating(t) /\ call'[t] = call[t] /\ err'[t] = err[t]
    BY <1>2 DEF Creating, SameSlot
  <2>3. Creating(s)' => /\ ~ Used(c.row.id)
                       /\ \A t \in Slots : Creating(t) => call[t].row.id # c.row.id
    BY <1>2 DEF Creating, Fresh
  <2>4. ASSUME NEW t \in Slots, Creating(t)', err'[t] = "none"
        PROVE  ~ Used(call[t].row.id)'
    <3>1. PICK i : i = call'[t].row.id
      OBVIOUS
    <3>2. ~ Used(i)
      BY <1>2, <2>2, <2>3, <2>4, <3>1 DEF IInv, StillFresh
    <3> QED
      BY <1>1, <3>1, <3>2 DEF Used
  <2>5. ASSUME NEW t \in Slots, Creating(t)', NEW u \in Slots, Creating(u)',
               call'[u].row.id = call'[t].row.id
        PROVE  u = t
    BY <1>2, <2>2, <2>3, <2>5 DEF IInv, StillFresh
  <2> QED
    BY <2>4, <2>5 DEF StillFresh
<1> QED
  BY <1>3, <1>4, <1>5, <1>6, <1>7
     DEF IInv, Sound, Indexed, IndexFollows, ConstraintsHold

LEMMA CallKeeps ==
    ASSUME IInv, NEW s \in Slots, Call(s)
    PROVE  IInv'
<1>1. PICK c \in Calls : /\ c.op \in Creations => Fresh(c.row.id)
                        /\ call' = [call EXCEPT ![s] = c]
  BY DEF Call, Invoke
<1>2. c # NoCall
  OBVIOUS
<1>3. err[s] = "none" /\ TypeOK /\ ~ Working(s)
  BY DEF Call, IInv, InCall, Working
<1>4. err' = [err EXCEPT ![s] = "none"]
  BY <1>3 DEF Call, Invoke, TypeOK
<1> QED
  BY <1>1, <1>2, <1>3, <1>4, OutsideKeeps DEF Call, Invoke, TypeOK

LEMMA ResumeKeeps ==
    ASSUME IInv, NEW s \in Slots, Resume(s)
    PROVE  IInv'
<1>1. ~ Working(s) /\ TypeOK
  BY DEF Resume, Working, IInv
<1>2. rows' \in [Slots -> SUBSET Contact]
  BY <1>1 DEF Resume, Return, TypeOK
<1> QED
  BY <1>1, <1>2, OutsideKeeps DEF Resume, Return

LEMMA AcquireKeeps ==
    ASSUME IInv, NEW s \in Slots, Acquire(s)
    PROVE  IInv'
<1>1. /\ pc[s] = "wait" /\ conn = Nobody /\ conn' = s /\ view' = Tables
      /\ pc' = [pc EXCEPT ![s] = FirstStatement(call[s].op)]
      /\ UNCHANGED <<atomicVars, scan>> /\ TypeOK
  BY DEF Acquire, IInv
<1>2. /\ books' = books /\ contacts' = contacts /\ fts' = fts /\ UNCHANGED tables
      /\ enforced' = enforced /\ loose' = loose /\ call' = call /\ err' = err
      /\ rows' = rows /\ scan' = scan
  BY <1>1 DEF atomicVars, callVars, tables
<1>3. call[s] # NoCall /\ err[s] = "none" /\ scan[s] = {}
  BY <1>1 DEF IInv, InCall
<1>4. call[s].op \in OpNames
  BY <1>1, <1>3, CallTypes
<1>5. PICK st : /\ st = FirstStatement(call[s].op)
                /\ st \in StatementsOf(call[s].op)
                /\ st \in {"insert contact", "update contact", "delete index", "select", "autocommit"}
  BY <1>4 DEF FirstStatement, StatementsOf, OpNames
<1>6. pc'[s] = st /\ \A t \in Slots \ {s} : SameSlot(t)
  BY <1>1, <1>2, <1>5 DEF TypeOK, SameSlot
<1>7. \A t \in Slots : ~ Working(t)
  BY <1>1 DEF IInv, OneWorks
<1>8. TypeOK'
  <2>1. pc' \in [Slots -> Statements]
    BY <1>1, <1>5 DEF TypeOK, Statements
  <2>2. Tables \in [books : SUBSET Book, contacts : SUBSET Contact, fts : SUBSET FTSRow]
    BY <1>1 DEF Tables, TypeOK, StoreTypeOK
  <2> QED
    BY <1>1, <1>2, <2>1, <2>2 DEF TypeOK, StoreTypeOK
<1>9. Sound'
  BY <1>2, SoundIs, NothingDone
<1>10. ASSUME NEW t \in Slots, t # s PROVE InCall(t)' /\ ~ Working(t)'
  BY <1>2, <1>6, <1>7, <1>10, InCallStays DEF IInv, Working, SameSlot
<1>11. InCall(s)' /\ Working(s)'
  BY <1>2, <1>3, <1>5, <1>6 DEF InCall, Working
<1>12. HalfDone(s)'
  <2>1. view'.books = books /\ view'.contacts = contacts /\ view'.fts = fts
    BY <1>1 DEF Tables
  <2> QED
    BY <1>2, <1>5, <1>6, <2>1 DEF HalfDone
<1>13. OneWorks'
  BY <1>1, <1>10, <1>11 DEF OneWorks
<1>14. StillFresh'
  BY <1>2 DEF IInv, StillFresh, Creating, Used
<1> QED
  BY <1>8, <1>9, <1>10, <1>11, <1>12, <1>13, <1>14
     DEF IInv, Sound, Indexed, IndexFollows, ConstraintsHold

LEMMA UndoKeeps ==
    ASSUME IInv, Undo
    PROVE  IInv'
<1>1. /\ conn = Undoing /\ conn' = Nobody /\ view' = NoView
      /\ books' = books /\ contacts' = contacts /\ fts' = fts
      /\ call' = call /\ err' = err /\ rows' = rows /\ pc' = pc /\ scan' = scan
      /\ \/ enforced' = enforced /\ loose' = loose
         \/ enforced' = FALSE /\ loose' = TRUE
  BY DEF Undo, tables, callVars
<1>2. \A t \in Slots : ~ Working(t)
  BY <1>1 DEF IInv, OneWorks
<1>3. TypeOK'
  <2>1. NoView \in [books : SUBSET Book, contacts : SUBSET Contact, fts : SUBSET FTSRow]
    BY DEF NoView
  <2> QED
    BY <1>1, <2>1 DEF IInv, TypeOK, StoreTypeOK
<1>4. IndexFollows' /\ ConstraintsHold' /\ (~loose => enforced)'
  BY <1>1 DEF IInv, IndexFollows, ConstraintsHold, KeysUnique, ReferencesHold
<1>5. \A t \in Slots : InCall(t)' /\ ~ Working(t)'
  BY <1>1, <1>2 DEF IInv, InCall, Working, ListContacts
<1>6. OneWorks' /\ StillFresh'
  BY <1>1, <1>5 DEF IInv, OneWorks, StillFresh, Creating, Used
<1> QED
  BY <1>3, <1>4, <1>5, <1>6 DEF IInv

(* After a start, whether the first or another: no calls, and the tables.  *)
LEMMA Started ==
    ASSUME Sound', TypeOK',
           call' = [s \in Slots |-> NoCall], err' = [s \in Slots |-> "none"],
           pc' = [s \in Slots |-> "idle"], scan' = [s \in Slots |-> {}],
           conn' = Nobody
    PROVE  IInv'
<1>1. \A t \in Slots : InCall(t)' /\ ~ Working(t)' /\ ~ Creating(t)'
  BY DEF InCall, Working, Creating
<1>2. OneWorks' /\ StillFresh'
  BY <1>1 DEF OneWorks, StillFresh
<1> QED
  BY <1>1, <1>2 DEF IInv, Sound, Indexed, IndexFollows, ConstraintsHold

LEMMA CrashKeeps ==
    ASSUME IInv, Crash
    PROVE  IInv'
<1>1. /\ books' = books /\ contacts' = contacts /\ fts' = fts
      /\ enforced' = TRUE /\ loose' = loose
      /\ call' = [s \in Slots |-> NoCall] /\ err' = [s \in Slots |-> "none"]
      /\ rows' = [s \in Slots |-> {}]
      /\ pc' = [s \in Slots |-> "idle"] /\ scan' = [s \in Slots |-> {}]
      /\ conn' = Nobody /\ view' = NoView
  BY DEF Crash, Restart, tables
<1>2. Sound'
  BY <1>1, SoundIs DEF Sound, StoreTypeOK, KeysUnique, ReferencesHold, Indexed
<1>3. TypeOK'
  <2>1. NoView \in [books : SUBSET Book, contacts : SUBSET Contact, fts : SUBSET FTSRow]
    BY DEF NoView
  <2> QED
    BY <1>1, <1>2, <2>1 DEF TypeOK, Sound, Statements, Result, IInv
<1> QED
  BY <1>1, <1>2, <1>3, Started

LEMMA StoreInit == Init => IInv
<1> SUFFICES ASSUME Init PROVE IInv
  OBVIOUS
<1>1. /\ books = SeedBooks /\ contacts = SeedContacts
      /\ fts = {IndexRow(c) : c \in SeedContacts}
      /\ enforced = TRUE /\ loose = FALSE
      /\ call = [s \in Slots |-> NoCall] /\ err = [s \in Slots |-> "none"]
      /\ rows = [s \in Slots |-> {}]
      /\ pc = [s \in Slots |-> "idle"] /\ scan = [s \in Slots |-> {}]
      /\ conn = Nobody /\ view = NoView
  BY DEF Init, AtomicInit
<1>2. StoreTypeOK
  BY <1>1, IndexRowTyped DEF StoreTypeOK
<1>3. TypeOK
  <2>1. NoView \in [books : SUBSET Book, contacts : SUBSET Contact, fts : SUBSET FTSRow]
    BY DEF NoView
  <2> QED
    BY <1>1, <1>2, <2>1 DEF TypeOK, Statements, Result
<1>4. ConstraintsHold
  BY <1>1 DEF ConstraintsHold
<1>5. IndexFollows
  <2>1. \A x, y \in contacts : x.id = y.id => x = y
    BY <1>4 DEF ConstraintsHold, KeysUnique
  <2> QED
    BY <1>1, <2>1 DEF IndexFollows, IndexRow
<1>6. \A t \in Slots : InCall(t) /\ ~ Working(t) /\ ~ Creating(t)
  BY <1>1 DEF InCall, Working, Creating
<1>7. OneWorks /\ StillFresh
  BY <1>1, <1>6 DEF OneWorks, StillFresh
<1> QED
  BY <1>1, <1>3, <1>4, <1>5, <1>6, <1>7 DEF IInv

LEMMA StatementKeeps ==
    ASSUME IInv, NEW s \in Slots, Statement(s)
    PROVE  IInv'
BY InsertContactKeeps, InsertIndexKeeps, UpdateContactRowKeeps, ReplaceIndexKeeps,
   DeleteIndexKeeps, DeleteContactRowKeeps, CommitKeeps, AutocommitKeeps,
   BumpUpdateKeeps, Next1Keeps DEF Statement

LEMMA StoreStep == IInv /\ [Next]_vars => IInv'
<1> SUFFICES ASSUME IInv, [Next]_vars PROVE IInv'
  OBVIOUS
<1>1. ASSUME NEW s \in Slots, Call(s) PROVE IInv'
  BY <1>1, CallKeeps
<1>2. ASSUME NEW s \in Slots, Acquire(s) PROVE IInv'
  BY <1>2, AcquireKeeps
<1>3. ASSUME NEW s \in Slots, Statement(s) PROVE IInv'
  BY <1>3, StatementKeeps
<1>4. ASSUME NEW s \in Slots, StatementFails(s) PROVE IInv'
  BY <1>4, FailWithKeeps DEF StatementFails, Result
<1>5. ASSUME NEW s \in Slots, Cancel(s) PROVE IInv'
  BY <1>5, CancelKeeps
<1>6. ASSUME NEW s \in Slots, Resume(s) PROVE IInv'
  BY <1>6, ResumeKeeps
<1>7. CASE Undo
  BY <1>7, UndoKeeps
<1>8. CASE Crash
  BY <1>8, CrashKeeps
<1>9. CASE UNCHANGED vars
  <2>1. /\ books' = books /\ contacts' = contacts /\ fts' = fts /\ call' = call
        /\ err' = err /\ rows' = rows /\ enforced' = enforced /\ loose' = loose
        /\ conn' = conn /\ view' = view /\ pc' = pc /\ scan' = scan /\ UNCHANGED tables
    BY <1>9 DEF vars, atomicVars, callVars, tables
  <2>2. Sound'
    BY <2>1, SoundIs, NothingDone
  <2>3. ASSUME NEW t \in Slots PROVE InCall(t)' /\ (Working(t)' => HalfDone(t)')
    <3>1. SameSlot(t)
      BY <2>1 DEF SameSlot
    <3> QED
      BY <2>1, <3>1, InCallStays, HalfDoneStays DEF IInv, Working
  <2>4. TypeOK' /\ OneWorks' /\ StillFresh'
    BY <2>1 DEF IInv, TypeOK, StoreTypeOK, OneWorks, StillFresh, Working, Creating, Used
  <2> QED
    BY <2>2, <2>3, <2>4 DEF IInv, Sound, Indexed, IndexFollows, ConstraintsHold
<1> QED
  BY <1>1, <1>2, <1>3, <1>4, <1>5, <1>6, <1>7, <1>8, <1>9 DEF Next

(* The inductive invariant holds: any number of callers share one          *)
(* connection, one transaction at a time (db.go:26, contacts.go:13-152).   *)
THEOREM StoreInvariant == Spec => []IInv
BY StoreInit, StoreStep, PTL DEF Spec

LEMMA IInvIsolates == IInv => Isolated
<1> SUFFICES ASSUME IInv, NEW s \in Slots, Working(s)
             PROVE  /\ conn = s /\ view.books = books
                    /\ \A c \in view.contacts \cup contacts :
                          \/ c \in view.contacts \cap contacts
                          \/ /\ call[s].op \in {"CreateContact", "UpdateContact"}
                             /\ c.id = call[s].row.id
                          \/ call[s].op = "DeleteContact" /\ c.id = call[s].id
  BY DEF Isolated
<1> DEFINE d == call[s].row
<1>1. /\ HalfDone(s) /\ conn = s /\ view.books = books /\ TypeOK /\ contacts \subseteq Contact
      /\ call[s].op \in {"CreateContact", "UpdateContact"} => d \in Contact
  BY WorkingCalls, CallTypes DEF HalfDone, IInv, TypeOK, StoreTypeOK
<1>2. \/ view.contacts = contacts
      \/ call[s].op = "CreateContact" /\ Inserted(d, view.contacts)
      \/ call[s].op = "UpdateContact" /\ Replaced(d, view.contacts)
      \/ call[s].op = "DeleteContact" /\ Removed(call[s].id, view.contacts)
  <2>1. pc[s] \in Statements \ {"idle", "wait", "done"}
    BY <1>1 DEF Working, TypeOK
  <2>2. pc[s] = "replace index" => call[s].op = "UpdateContact"
    BY StatementTells
  <2> QED
    BY <1>1, <2>1, <2>2 DEF HalfDone, Statements
<1>3. CASE view.contacts = contacts
  BY <1>1, <1>3
<1>4. CASE call[s].op = "CreateContact" /\ Inserted(d, view.contacts)
  BY <1>1, <1>4 DEF Inserted
<1>5. CASE call[s].op = "UpdateContact" /\ Replaced(d, view.contacts)
  <2>1. view.contacts = {IF x.id = d.id THEN Rewritten(x, d) ELSE x : x \in contacts}
    BY <1>5 DEF Replaced, Updated
  <2>2. \A x \in contacts : Rewritten(x, d).id = d.id
    BY <1>1, <1>5, RewrittenTyped
  <2> QED
    BY <1>1, <1>5, <2>1, <2>2
<1>6. CASE call[s].op = "DeleteContact" /\ Removed(call[s].id, view.contacts)
  BY <1>1, <1>6 DEF Removed
<1> QED
  BY <1>2, <1>3, <1>4, <1>5, <1>6

(* Types, isolation and the index, for any calls: what a transaction has   *)
(* done so far is seen by nobody, and the index row of every contact is    *)
(* the one of its current name.                                            *)
THEOREM TransactionsCorrect == Spec => []TransactionsOK
<1>1. IInv => TransactionsOK
  BY IInvIsolates DEF IInv, TransactionsOK
<1> QED
  BY <1>1, StoreInvariant, PTL

(* Primary keys, UNIQUE and, while the first connection lives, REFERENCES  *)
(* hold although each check is made inside a transaction (db.go:32).       *)
THEOREM ConstraintsCorrect == Spec => []ConstraintsHold
<1>1. IInv => ConstraintsHold
  BY DEF IInv
<1> QED
  BY <1>1, StoreInvariant, PTL

-----------------------------------------------------------------------------
(* Every step is a step of the atomic store or changes nothing of it. *)

LEMMA StatementImplements ==
    ASSUME IInv, NEW s \in Slots, Statement(s)
    PROVE  UNCHANGED atomicVars \/ Perform(s) \/ BumpFirst(s)
<1> DEFINE c == call[s].row
           OK == UNCHANGED atomicVars \/ Perform(s) \/ BumpFirst(s)
<1>1. Working(s) => Pending(s) /\ view.books = books
  BY WorkingCalls DEF Pending, HalfDone
<1>2. ASSUME InsertContact(s) PROVE OK
  <2>1. pc[s] = "insert contact" /\ call[s].op = "CreateContact" /\ Working(s)
    BY <1>2, StatementTells DEF InsertContact, Working
  <2>2. InsertErr(c) = CreateContactErr(c)
    BY <2>1, WorkingCalls, SeenErrors DEF HalfDone
  <2>3. ASSUME InsertErr(c) # "nil", FailWith(s, InsertErr(c)) PROVE OK
    BY <1>1, <2>1, <2>2, <2>3 DEF FailWith, Perform, When
  <2> QED
    BY <1>2, <2>3 DEF InsertContact, Go
<1>3. ASSUME UpdateContactRow(s) PROVE OK
  <2>1. pc[s] = "update contact" /\ call[s].op = "UpdateContact" /\ Working(s)
    BY <1>3, StatementTells DEF UpdateContactRow, Working
  <2>2. Seen!UpdateContactErr(c) = UpdateContactErr(c)
    BY <2>1, WorkingCalls, SeenErrors DEF HalfDone
  <2>3. ASSUME Seen!UpdateContactErr(c) # "nil", FailWith(s, Seen!UpdateContactErr(c))
        PROVE  OK
    BY <1>1, <2>1, <2>2, <2>3 DEF FailWith, Perform, When
  <2> QED
    BY <1>3, <2>3 DEF UpdateContactRow, Go
<1>4. ASSUME DeleteContactRow(s) PROVE OK
  <2>1. pc[s] = "delete contact" /\ call[s].op = "DeleteContact" /\ Working(s)
    BY <1>4, StatementTells DEF DeleteContactRow, Working
  <2>2. Seen!DeleteContactErr(call[s].id) = DeleteContactErr(call[s].id)
    BY <2>1, WorkingCalls, SeenErrors DEF HalfDone
  <2>3. ASSUME Seen!DeleteContactErr(call[s].id) = "ErrNotFound", FailWith(s, "ErrNotFound")
        PROVE  OK
    BY <1>1, <2>1, <2>2, <2>3 DEF FailWith, Perform, When
  <2> QED
    BY <1>4, <2>3 DEF DeleteContactRow, Go
<1>5. ASSUME Next1(s) PROVE OK
  <2>1. CASE scan[s] = ListContacts(call[s].id)
    BY <1>5, <2>1, LastRow
  <2>2. CASE scan[s] # ListContacts(call[s].id)
    <3>1. scan[s] \subseteq ListContacts(call[s].id)
      BY <1>5 DEF Next1, IInv, InCall
    <3> QED
      BY <1>5, <2>2, <3>1 DEF Next1
  <2> QED
    BY <2>1, <2>2
<1>6. ASSUME InsertIndex(s) \/ ReplaceIndex(s) \/ DeleteIndex(s) PROVE OK
  BY <1>6 DEF InsertIndex, ReplaceIndex, DeleteIndex, Go
<1>7. ASSUME Commit(s) PROVE OK
  BY <1>7, CommitPerforms
<1>8. ASSUME Autocommit(s) \/ BumpUpdate(s) PROVE OK
  BY <1>8 DEF Autocommit, BumpUpdate
<1> QED
  BY <1>2, <1>3, <1>4, <1>5, <1>6, <1>7, <1>8 DEF Statement

LEMMA StepImplements == IInv /\ [Next]_vars => [AtomicNext]_atomicVars
<1> SUFFICES ASSUME IInv, [Next]_vars PROVE [AtomicNext]_atomicVars
  OBVIOUS
<1>1. ASSUME NEW s \in Slots, Call(s) PROVE Invoke(s)
  BY <1>1 DEF Call
<1>2. ASSUME NEW s \in Slots, Acquire(s) PROVE UNCHANGED atomicVars
  BY <1>2 DEF Acquire
<1>3. ASSUME NEW s \in Slots, Statement(s)
      PROVE  UNCHANGED atomicVars \/ Perform(s) \/ BumpFirst(s)
  BY <1>3, StatementImplements
<1>4. ASSUME NEW s \in Slots, StatementFails(s) \/ Cancel(s) PROVE Fail(s)
  <2>1. pc[s] \notin {"idle", "done"} /\ UNCHANGED tables /\ Decide(s, "error")
    BY <1>4 DEF StatementFails, Cancel, Working, FailWith, tables
  <2>2. Pending(s)
    BY <2>1 DEF IInv, InCall, Pending
  <2> QED
    BY <2>1, <2>2 DEF Fail
<1>5. ASSUME NEW s \in Slots, Resume(s) PROVE Return(s)
  BY <1>5 DEF Resume
<1>6. CASE Undo
  <2>1. CASE UNCHANGED <<enforced, loose>>
    BY <1>6, <2>1 DEF Undo, atomicVars
  <2>2. CASE enforced' = FALSE /\ loose' = TRUE
    BY <1>6, <2>2 DEF Undo, AtomicNext, Reconnect
  <2> QED
    BY <1>6, <2>1, <2>2 DEF Undo
<1>7. CASE Crash
  BY <1>7 DEF Crash, AtomicNext
<1>8. CASE UNCHANGED vars
  BY <1>8 DEF vars
<1> QED
  BY <1>1, <1>2, <1>3, <1>4, <1>5, <1>6, <1>7, <1>8 DEF Next, AtomicNext

(* The SQL statements implement the atomic store that the handlers assume: *)
(* each operation takes effect at one moment, with the error of that       *)
(* moment, or not at all, through failing statements, cancelled contexts,  *)
(* a replaced connection and crashes (contacts.go:13-152, db.go:26-32).    *)
THEOREM StoreImplements == Spec => ImplementsAtomicStore
<1>1. Init => AtomicInit
  BY DEF Init
<1> QED
  BY <1>1, StepImplements, StoreInvariant, PTL DEF Spec, ImplementsAtomicStore, AtomicSpec
=============================================================================
