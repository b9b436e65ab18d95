---------------------------- MODULE ContactStore ----------------------------
(***************************************************************************)
(* The tables of the SQLite store that hold address books and contacts     *)
(* (internal/store/sqlite, internal/migrations/sql), and the operations of *)
(* store.Store on them.  A table is a set of rows.  The store has a single *)
(* connection and every operation is one statement or one transaction, so  *)
(* an operation is atomic: it is written as the error it returns, computed *)
(* from the tables it finds, and its effect when that error is "nil".      *)
(*                                                                         *)
(* Foreign keys hold only while the connection is the one that Open gave   *)
(* the PRAGMA to (db.go:32): another one that takes its place, as may      *)
(* happen when the context of an operation is cancelled, does not have it. *)
(*                                                                         *)
(* Columns that no handler branches on (display name, colour, timestamps,  *)
(* kind, birthday ...) are left out; they are copied from the vCard at the *)
(* same places as fn.                                                      *)
(***************************************************************************)
EXTENDS Naturals, VCard

CONSTANTS Users,      \* user names in the users table
          BookNames,  \* address book slugs
          Files,      \* file names of contacts
          Ids         \* primary keys of books and contacts

VARIABLES books,      \* address_books
          contacts,   \* contacts
          fts,        \* contacts_fts, the full-text index
          enforced,   \* the connection enforces foreign keys
          loose       \* history: there was a time when it did not

tables == <<books, contacts, fts>>
pragma == <<enforced, loose>>

(* Another connection takes the place of the first. *)
LosePragma == enforced' = FALSE /\ loose' = TRUE

(* Open, when the process starts. *)
SetPragma == enforced' = TRUE /\ UNCHANGED loose

(* The decimal text that CAST(n AS TEXT) yields. *)
AsText(n) == [text |-> n]

ETags == [sha256 : VCards]

Book == [id : Ids, owner : Users, name : BookNames, token : Nat,
         ctag : [text : Nat]]

Contact == [id : Ids, book : Ids, file : Files, uid : UIDs, etag : ETags,
            vcard : VCards, fn : Names \cup {Absent}]

FTSRow == [contact : Ids, fn : Names \cup {Absent}]

(* What the constraints of the schema promise of the rows: primary keys and *)
(* UNIQUE, REFERENCES, and the columns that are computed from others.      *)
KeysUnique(bs, cs) ==
    /\ \A x, y \in bs :
          x.id = y.id \/ (x.owner = y.owner /\ x.name = y.name) => x = y
    /\ \A x, y \in cs :
          \/ x.id = y.id
          \/ x.book = y.book /\ (x.file = y.file \/ x.uid = y.uid)
          => x = y

ReferencesHold(bs, cs) == \A c \in cs : \E b \in bs : b.id = c.book

ColumnsAgree(bs, cs) ==
    /\ \A b \in bs : b.ctag = AsText(b.token)
    /\ \A c \in cs : c.etag = ComputeETag(c.vcard) /\ c.fn = ExtractFN(c.vcard)

(* The UID column is the UID in the text, except in a text that had no     *)
(* place to put one.                                                       *)
UIDInText(c) == \/ c.vcard.uid = c.uid
                \/ c.vcard.uid = Absent /\ ~c.vcard.anchored

StoreTypeOK == /\ books \subseteq Book
               /\ contacts \subseteq Contact
               /\ fts \subseteq FTSRow

-----------------------------------------------------------------------------
(* Queries.  A query by a unique key returns at most one row. *)

GetAddressBookByName(user, name) ==
    {b \in books : b.owner = user /\ b.name = name}

ListAddressBooks(user) == {b \in books : b.owner = user}

GetContactByFilename(bookID, file) ==
    {c \in contacts : c.book = bookID /\ c.file = file}

ListContacts(bookID) == {c \in contacts : c.book = bookID}

(* A filter names a property, and its pattern is the set of what it is     *)
(* LIKE: names for FN, else texts (organization is a column computed from  *)
(* the text).  Absent is a filter that is nil or has an empty field.       *)
Filter == {Absent} \cup [prop : {"FN"}, like : SUBSET Names]
                   \cup [prop : {"ORG", "other"}, like : SUBSET VCards]

SearchContacts(bookID, filter) ==
    IF filter = Absent THEN ListContacts(bookID)
    ELSE IF filter.prop = "FN"
    THEN {c \in ListContacts(bookID) : c.fn \in filter.like}
    ELSE {c \in ListContacts(bookID) : c.vcard \in filter.like}

-----------------------------------------------------------------------------
(* Address books *)

CreateAddressBookErr(b) ==
    IF \E x \in books : x.id = b.id \/ (x.owner = b.owner /\ x.name = b.name)
    THEN "ErrConflict" ELSE "nil"

CreateAddressBook(b) == books' = books \cup {b} /\ UNCHANGED <<contacts, fts>>

DeleteAddressBookErr(bookID) ==
    IF \E b \in books : b.id = bookID THEN "nil" ELSE "ErrNotFound"

(* ON DELETE CASCADE reaches the contacts while foreign keys are enforced, *)
(* and they stay when not; a virtual table has no foreign keys, so the     *)
(* index rows of these contacts stay behind in any case.                   *)
DeleteAddressBook(bookID) ==
    /\ books' = {b \in books : b.id # bookID}
    /\ contacts' = {c \in contacts : enforced => c.book # bookID}
    /\ UNCHANGED fts

(* Mutant of Bumped: only the ctag moves. *)
BumpedCTagOnly(b) == [b EXCEPT !.ctag = AsText(b.token + 1)]

(* Both right-hand sides of the UPDATE read the old sync_token. *)
Bumped(b) == [b EXCEPT !.token = b.token + 1, !.ctag = AsText(b.token + 1)]

(* On a book that is gone the UPDATE matches no row, which is no error;    *)
(* the SELECT that follows then returns ErrNotFound.                       *)
BumpSyncToken(bookID) ==
    /\ books' = {IF b.id = bookID THEN Bumped(b) ELSE b : b \in books}
    /\ UNCHANGED <<contacts, fts>>

-----------------------------------------------------------------------------
(* Contacts *)

(* A row breaks a UNIQUE constraint (primary key, file name or UID) of one *)
(* of the rows in "others".                                                *)
IsUniqueConstraint(c, others) ==
    \E x \in others : \/ x.id = c.id
                      \/ x.book = c.book /\ x.file = c.file
                      \/ x.book = c.book /\ x.uid = c.uid

IndexRow(c) == [contact |-> c.id, fn |-> c.fn]

(* A row of a table or of the index has this id. *)
Used(id) == \/ \E x \in books \cup contacts : x.id = id
            \/ \E f \in fts : f.contact = id

NotIndexing(contactID) == {f \in fts : f.contact # contactID}

(* Mutant of CreateContactErr: foreign keys are never enforced. *)
CreateContactErrNoFK(c) ==
    IF IsUniqueConstraint(c, contacts) THEN "ErrConflict" ELSE "nil"

CreateContactErr(c) ==
    IF IsUniqueConstraint(c, contacts) THEN "ErrConflict"
    ELSE IF enforced /\ ~ \E b \in books : b.id = c.book THEN "error"
    ELSE "nil"

CreateContact(c) == /\ contacts' = contacts \cup {c}
                    /\ fts' = fts \cup {IndexRow(c)}
                    /\ UNCHANGED books

(* The row with the id of c gets every column of c but the address book. *)
Rewritten(row, c) == [c EXCEPT !.book = row.book]

UpdateContactErr(c) ==
    IF ~ \E x \in contacts : x.id = c.id THEN "ErrNotFound"
    ELSE IF \E x \in contacts :
                /\ x.id = c.id
                /\ IsUniqueConstraint(Rewritten(x, c), contacts \ {x})
    THEN "ErrConflict"
    ELSE "nil"

(* Mutant of UpdateContact: the old index row is not deleted. *)
UpdateContactKeepsIndex(c) ==
    /\ contacts' = {IF x.id = c.id THEN Rewritten(x, c) ELSE x : x \in contacts}
    /\ fts' = fts \cup {IndexRow(c)}
    /\ UNCHANGED books

UpdateContact(c) ==
    /\ contacts' = {IF x.id = c.id THEN Rewritten(x, c) ELSE x : x \in contacts}
    /\ fts' = NotIndexing(c.id) \cup {IndexRow(c)}
    /\ UNCHANGED books

DeleteContactErr(contactID) ==
    IF \E x \in contacts : x.id = contactID THEN "nil" ELSE "ErrNotFound"

DeleteContact(contactID) ==
    /\ contacts' = {x \in contacts : x.id # contactID}
    /\ fts' = NotIndexing(contactID)
    /\ UNCHANGED books
=============================================================================
