--------------------------- MODULE DavProperties ---------------------------
(***************************************************************************)
(* What the handlers of DavHandlers keep true of the store and of the      *)
(* answers they give, whatever requests run at the same time and wherever  *)
(* they fail.                                                              *)
(***************************************************************************)
EXTENDS DavHandlers

(* The type of every variable. *)
TypeOK == /\ StoreTypeOK
          /\ pc \in [Requests -> Steps \cup {"idle", "done", "gone"}]
          /\ loc \in [Requests -> Locals]
          /\ answer \in [Requests -> Answers]
          /\ enforced \in BOOLEAN /\ loose \in BOOLEAN
          /\ dirty \subseteq Ids
          /\ lost \subseteq Ids

(* Ids, names, file names and UIDs stay unique, although a request writes  *)
(* with rows it read before others wrote: two PUTs of one new file, a MOVE *)
(* back of a row whose UID was handed on (contact.go:153-197, 478).  Every *)
(* contact has a book, also when a PUT meets a DELETE of the book, but     *)
(* only as long as the connection was never replaced (db.go:26-32): on a   *)
(* connection without foreign keys that PUT succeeds, and the contacts of  *)
(* a book outlive it.                                                      *)
StoreIntegrity == /\ KeysUnique(books, contacts)
                  /\ ~loose => enforced /\ ReferencesHold(books, contacts)

(* The UID column is the UID in the text, except in a text that had no     *)
(* place to put one (contact.go:127-133, 369-374).                         *)
UIDMatchesText == \A c \in contacts : UIDInText(c)

(* etag, fn and uid belong to the vCard of their row and ctag to the token,*)
(* also when PUT adds a UID after it computed the ETag (contact.go:126-133)*)
(* and when rows read earlier are written back.                            *)
RowsCoherent == ColumnsAgree(books, contacts) /\ UIDMatchesText

(* What is stored passes Validate: no sequence of PUT, COPY and MOVE gets  *)
(* an unsupported version or a nameless contact in (contact.go:112, 124).  *)
StoredValid == \A c \in contacts : Validate(c.vcard)

(* Every contact has exactly one index row, with its current name          *)
(* (contacts.go:36, 120-129, 142): no interleaving of updates and deletes  *)
(* leaves a contact without one or with an old one.                        *)
IndexInStep == \A c \in contacts :
    {f \in fts : f.contact = c.id} = {IndexRow(c)}

(* The row an answer shows is one the store could have held: its ETag is   *)
(* that of its text, but for a GET that converted the text afterwards.     *)
AnswersCoherent == \A r \in Requests : \A k \in answer[r].rows :
    k.etag = ComputeETag(k.vcard) \/ k.etag = ComputeETag(ToV4(k.vcard))

(* A depth-1 PROPFIND shows a token and a listing that were read one after *)
(* the other (addressbook.go:179, 204).  As long as the book still has     *)
(* that token and no change waits for its bump, the listing is what the    *)
(* book holds: a client that finds the token unmoved may keep its copy.    *)
(* This needs the token read before the contacts and written after them.   *)
TokenVouchesForListing == \A r \in Requests :
    answer[r].listing =>
        \A a \in answer[r].books, b \in books :
            a.id = b.id /\ a.token = b.token /\ b.id \notin dirty
                => answer[r].rows = ListContacts(b.id)

(* A change the token does not show yet has a request that is about to     *)
(* show it, unless that request failed or died (contact.go:199-202).       *)
ChangesOwed == dirty \subseteq lost \cup UNION {Owes(r) : r \in Requests}

-----------------------------------------------------------------------------
StepOf(r) == pc[r] # pc'[r] /\ loc[r].call # Absent

(* A COPY or MOVE with "Overwrite: F" never changes or removes a contact   *)
(* that has the destination's file name, even one that appeared after it   *)
(* looked (contact.go:362, 465): the UNIQUE constraint is the last guard.  *)
NoOverwriteHolds == [][
    \A r \in Requests : \A c \in contacts :
        /\ StepOf(r)
        /\ loc[r].call.op \in {"COPY", "MOVE"}
        /\ ~loc[r].call.overwrite
        /\ \E b \in Target(loc[r]) : c.book = b.id
        /\ c.file = loc[r].call.dst.file
        /\ loc[r].call.op = "MOVE" => \A k \in loc[r].contact : k.id # c.id
        => c \in contacts' ]_vars

(* A contact that a request still holds a copy of and that was deleted in  *)
(* the meantime does not come back when the request writes its copy        *)
(* (contact.go:163, 389, 478): UpdateContact is no upsert.                 *)
NoResurrection == [][
    \A r \in Requests : \A k \in loc[r].contact \cup loc[r].existing :
        (\A c \in contacts : c.id # k.id) => \A c \in contacts' : c.id # k.id ]_vars

(* What a book holds changes only in a step of a request made by its owner *)
(* or by an admin; the user in a Destination header does not count         *)
(* (contact.go:315, 341).                                                  *)
OnlyOwnerWrites == [][
    \A b \in books :
        ListContacts(b.id)' # ListContacts(b.id)
        => \E r \in Requests : /\ StepOf(r)
                               /\ loc[r].call.as \in Admins \cup {b.owner} ]_vars

-----------------------------------------------------------------------------
(* What comments and tests say and the code does not do.                   *)

(* contact.go:168: "If-None-Match: * means refuse if the resource already  *)
(* exists."  A PUT with that header that finds a contact stops there.      *)
IfNoneMatchRefuses == [][
    \A r \in Requests :
        /\ StepOf(r) /\ pc[r] = "lookup"
        /\ loc[r].call.op = "PUT" /\ loc[r].call.ifNoneMatch = Star
        /\ \E b \in loc[r].ab : GetContactByFilename(b.id, loc[r].call.file) # {}
        => pc'[r] = "done" ]_vars

(* contact_test.go:137: "Update with stale ETag -> 412."  A PUT with an    *)
(* If-Match header only ever replaces a row that has this ETag.            *)
IfMatchIsCurrent == [][
    \A r \in Requests : \A c \in contacts :
        /\ StepOf(r) /\ pc[r] = "write" /\ pc'[r] = "bump"
        /\ loc[r].call.op = "PUT" /\ loc[r].call.ifMatch # Absent
        /\ \E e \in loc[r].existing : e.id = c.id
        => loc[r].call.ifMatch = c.etag ]_vars

-----------------------------------------------------------------------------
(* A request that was let in is answered, unless the server stops. *)
RequestsAnswered == \A r \in Requests :
    pc[r] \in Steps ~> pc[r] \in {"done", "gone"}

(* The books there are, each with its token and what it holds. *)
BookShelf == [i \in {b.id : b \in books} |->
                 [token |-> (CHOOSE b \in books : b.id = i).token,
                  contents |-> ListContacts(i)]]

Sync == INSTANCE BookSync WITH
    shelf <- BookShelf, unsynced <- dirty, abandoned <- lost

(* The handlers implement the abstract book of BookSync: contents and token*)
(* change only as it allows, a change of contents never moves the token,   *)
(* and one announcement covers every change before it                      *)
(* (contact.go:199-202; address_books.go:97-116).                          *)
ImplementsBookSync == Sync!ASpec

(* Every change is announced in the end, its book is removed, or a failure *)
(* made its request give up (contact.go:199-202).                          *)
ChangesAnnounced == Sync!Settled

-----------------------------------------------------------------------------
(* The inductive invariant behind the proofs of DavProofs.                 *)

(* What a request's local variables are when it is about to do "step": it  *)
(* knows its call; its body and destination passed their checks; each      *)
(* pointer points to one row, of the book it was looked up in.             *)
FlowAt(step, l) ==
    /\ step \in Steps => l.call \in Calls /\ l.call.user \in Users
    /\ step \in Steps => Allowed(l.call)
    /\ step \notin Steps => l = NoLocals
    /\ step \in {"lookup", "write"} /\ l.call.op = "PUT" =>
          l.call.body \in VCards /\ Validate(l.call.body)
    /\ step \in {"dstbook", "lookup", "write", "clear", "update"}
          /\ l.call.op \in {"COPY", "MOVE"} => l.call.dst # Absent
    /\ step = "book" => l.contact = {}
    /\ step \in {"book", "contact", "dstbook"} => l.existing = {}
    /\ step = "dstbook" => l.call.op = "COPY"
    /\ step \in {"clear", "update"} => l.call.op = "MOVE"
    /\ step = "delete" => l.call.op = "DELETE"
    /\ step = "rmbook" => l.call.op = "BOOKDELETE"
    /\ l.existing # {} /\ l.call.op \in {"COPY", "MOVE"} => l.call.overwrite
    /\ \A x, y \in l.ab : x = y
    /\ \A x, y \in l.dstAB : x = y
    /\ \A b \in l.ab \cup l.dstAB : b.owner = l.call.user
    /\ \A k \in l.contact, b \in l.ab : k.book = b.id
    /\ \A e \in l.existing : \A b \in Target(l) : e.book = b.id

FlowOK == \A r \in Requests : FlowAt(pc[r], loc[r])

(* No row anywhere has, or refers to, an id that is still to be generated. *)
FreshIDs == \A r \in Requests :
    pc[r] \notin {"bump", "done", "gone"} =>
        /\ \A b \in books : b.id # r
        /\ \A c \in contacts : c.id # r /\ c.book # r
        /\ \A f \in fts : f.contact # r
        /\ \A q \in Requests :
              /\ \A b \in loc[q].ab \cup loc[q].dstAB \cup answer[q].books : b.id # r
              /\ \A k \in loc[q].contact \cup loc[q].existing : k.id # r

(* A contact stays in its book, so a copy of its row shows the right one. *)
BooksStay == \A r \in Requests :
    \A k \in loc[r].contact \cup loc[r].existing, c \in contacts :
        c.id = k.id => c.book = k.book

(* A token that was read is not ahead of the book, and a listing is what   *)
(* the book holds until the book is marked or its token moves on.          *)
TokensRead == \A r \in Requests, b \in books :
    /\ \A a \in loc[r].ab : a.id = b.id => a.token <= b.token
    /\ answer[r].listing => \A a \in answer[r].books :
          a.id = b.id => /\ a.token <= b.token
                         /\ a.token = b.token /\ b.id \notin dirty
                               => answer[r].rows = ListContacts(b.id)

(* A book stays with its owner, so a copy of its row names the right one.  *)
OwnersStay == \A r \in Requests :
    \A a \in loc[r].ab \cup loc[r].dstAB, b \in books :
        a.id = b.id => a.owner = b.owner

(* A contact as the handlers leave it: every column that is computed from  *)
(* the text fits the text, and the text is valid.                          *)
Sound(k) == /\ k.etag = ComputeETag(k.vcard) /\ k.fn = ExtractFN(k.vcard)
            /\ UIDInText(k) /\ Validate(k.vcard)

(* The tables, and the copies that requests go on working with, are sound. *)
ContentsSound ==
    /\ \A b \in books : b.ctag = AsText(b.token)
    /\ \A c \in contacts : Sound(c)
    /\ \A r \in Requests :
          \A k \in loc[r].contact \cup loc[r].existing \cup loc[r].found : Sound(k)

(* What requests know of the tables is not older or newer than they allow. *)
KnownOK == /\ TypeOK /\ FlowOK /\ StoreIntegrity /\ FreshIDs
           /\ BooksStay /\ OwnersStay /\ TokensRead

(* What waits for a bump, or lost it, is a book that there is. *)
MarkedBooksExist == \A i \in dirty \cup lost : \E b \in books : b.id = i

(* The invariant that every step preserves: what requests hold and what    *)
(* clients were shown agrees with the tables (contact.go, addressbook.go). *)
IInv == /\ KnownOK /\ ContentsSound /\ AnswersCoherent
        /\ MarkedBooksExist /\ ChangesOwed
=============================================================================
