---------------------------- MODULE DavHandlers ----------------------------
(***************************************************************************)
(* The CardDAV handlers of internal/handler over the shared store.         *)
(*                                                                         *)
(* Each request runs in a goroutine of its own as a sequence of store      *)
(* operations; between two of them any other request may run.  A step of a *)
(* request is one store operation together with the local work up to the   *)
(* next one.  What the handler read stays in its local variables while the *)
(* tables move on.  A store operation may fail (the client hangs up and    *)
(* cancels the context, the disk is full ...), and the process may stop at *)
(* any moment, which loses every request in flight and keeps the tables.   *)
(* The store may also come to work on a connection without foreign keys.   *)
(***************************************************************************)
EXTENDS ContactStore, Sequences

CONSTANTS Requests,      \* requests the server ever gets; each runs once
          Calls,         \* what a request may ask for
          Admins,        \* users whose is_admin column is set
          Star,          \* the header value "*"
          SeedBooks,     \* rows that an earlier run of the server left
          SeedContacts

VARIABLES pc,      \* the store operation a request is about to do
          loc,     \* its local variables
          answer,  \* the response it gave
          dirty,   \* history: books changed since their token last moved
          lost     \* history: books with a change whose bump was given up

requestVars == <<pc, loc, answer>>
history == <<dirty, lost>>
vars == <<tables, pragma, requestVars, history>>

-----------------------------------------------------------------------------
(* Requests *)

Ops == {"HOMESET", "MKCOL", "BOOKPROPFIND", "BOOKDELETE", "REPORT",
        "GET", "PUT", "DELETE", "PROPFIND", "COPY", "MOVE"}

(* A header that is not sent reads as the empty string, hence Absent; as a *)
(* URL user Absent stands for a name without a row.  "dst" is what the     *)
(* Destination header parses to.  A REPORT is a query with a filter or a   *)
(* multiget with hrefs, of which the file names count.                     *)
Call == [op : Ops, as : Users, user : Users \cup {Absent},
         book : BookNames, file : Files,
         ifMatch : ETags \cup {Absent, Star},
         ifNoneMatch : ETags \cup {Absent, Star},
         body : VCards \cup {Absent}, wellFormed : BOOLEAN,
         depth : {"0", "1", "infinity"}, accept3 : BOOLEAN,
         dst : [user : Users, book : BookNames, file : Files] \cup {Absent},
         overwrite : BOOLEAN, query : BOOLEAN,
         filter : Filter, hrefs : Seq(Files \cup {Absent})]

(* A pointer to a row is the set of rows it points to: {} is nil. *)
Locals == [call : Calls \cup {Absent}, ab : SUBSET Book, dstAB : SUBSET Book,
           contact : SUBSET Contact, existing : SUBSET Contact,
           found : SUBSET Contact, todo : Seq(Files \cup {Absent})]

NoLocals == [call |-> Absent, ab |-> {}, dstAB |-> {}, contact |-> {},
             existing |-> {}, found |-> {}, todo |-> <<>>]

Statuses == {200, 201, 204, 207, 304, 400, 403, 404, 409, 405, 412, 413,
             415, 422, 500}

(* "listing" marks the answers whose rows are a whole book at depth 1. *)
Answers == [status : Statuses \cup {0}, books : SUBSET Book,
            rows : SUBSET Contact, listing : BOOLEAN]

NoAnswer == [status |-> 0, books |-> {}, rows |-> {}, listing |-> FALSE]

ASSUME RequestsAssumption == Requests \subseteq Ids /\ Requests \subseteq UIDs

ASSUME CallsAssumption == Calls \subseteq Call /\ Absent \notin Calls

ASSUME SeedAssumption ==
    /\ SeedBooks \subseteq Book /\ SeedContacts \subseteq Contact
    /\ KeysUnique(SeedBooks, SeedContacts)
    /\ ReferencesHold(SeedBooks, SeedContacts)
    /\ ColumnsAgree(SeedBooks, SeedContacts)
    /\ \A c \in SeedContacts : UIDInText(c) /\ Validate(c.vcard)
    /\ \A row \in SeedBooks \cup SeedContacts : row.id \notin Requests

Steps == {"book", "contact", "dstbook", "lookup", "write", "delete", "clear",
          "update", "bump", "homeset", "mkcol", "rmbook", "list", "search",
          "multiget"}

InFlight == {r \in Requests : pc[r] \in Steps}

(* uuid.New() and vcard.NewUID(): values nobody used before, named after   *)
(* the request that asks for them (a request needs one of each at most).   *)
FreshID(r) == r
FreshUID(r) == r

-----------------------------------------------------------------------------
(* Moving a request along *)

Continue(r, step, l) == /\ pc' = [pc EXCEPT ![r] = step]
                        /\ loc' = [loc EXCEPT ![r] = l]
                        /\ UNCHANGED answer

Reply(r, ans) == /\ pc' = [pc EXCEPT ![r] = "done"]
                 /\ loc' = [loc EXCEPT ![r] = NoLocals]
                 /\ answer' = [answer EXCEPT ![r] = ans]

ReplyStatus(r, s) == Reply(r, [NoAnswer EXCEPT !.status = s])

ReplyRows(r, s, rows) == Reply(r, [NoAnswer EXCEPT !.status = s, !.rows = rows])

UnchangedStore == UNCHANGED <<tables, pragma, history>>

(* The book a handler bumps: COPY its destination, the others their own. *)
Target(l) == IF l.call.op = "COPY" THEN l.dstAB ELSE l.ab

(* The books that r has changed and is still to bump. *)
Owes(r) ==
    IF pc[r] = "bump" \/ (pc[r] = "update" /\ loc[r].existing # {})
    THEN {b.id : b \in Target(loc[r])} ELSE {}

(* A book that is gone (and whose contacts were left behind when it went)  *)
(* has no token to announce a change with.                                 *)
Changed(bookID) == /\ dirty' = dirty \cup ({bookID} \cap {b.id : b \in books})
                   /\ UNCHANGED <<lost, pragma>>

GiveUp(rs) == /\ lost' = lost \cup (dirty \cap UNION {Owes(r) : r \in rs})
              /\ UNCHANGED dirty

-----------------------------------------------------------------------------
(* Arrival: the checks before the first lookup that matters.  The users    *)
(* table does not change here, so GetUserByUsername is part of this step.  *)

Allowed(c) == c.as = c.user \/ c.as \in Admins

LooksUpUser(c) == Allowed(c) /\ (c.op = "PROPFIND" => c.depth # "infinity")

Rejection(c) ==
    IF ~LooksUpUser(c) THEN 403
    ELSE IF c.user \notin Users THEN 404
    ELSE IF c.op = "HOMESET" /\ ~c.wellFormed THEN 400
    ELSE IF c.op \in {"HOMESET", "BOOKPROPFIND"} /\ c.depth = "infinity" THEN 403
    ELSE IF c.op = "MKCOL" /\ c.body # Absent THEN 415
    ELSE 0

FirstStep(c) == IF c.op = "HOMESET" THEN "homeset"
                ELSE IF c.op = "MKCOL" THEN "mkcol" ELSE "book"

Arrive(r) ==
    /\ pc[r] = "idle"
    /\ \E c \in Calls :
          \/ /\ Rejection(c) # 0
             /\ ReplyStatus(r, Rejection(c))
          \/ /\ LooksUpUser(c)   \* GetUserByUsername fails
             /\ ReplyStatus(r, 500)
          \/ /\ Rejection(c) = 0
             /\ Continue(r, FirstStep(c),
                         [NoLocals EXCEPT !.call = c, !.todo = c.hrefs])
    /\ UnchangedStore

(* Mutant of BodyRejection: PUT does not validate. *)
BodyRejectionUnchecked(c) ==
    IF c.op \in {"BOOKPROPFIND", "REPORT"} /\ ~c.wellFormed THEN 400
    ELSE IF c.op # "PUT" THEN 0
    ELSE IF c.body = Absent THEN 400
    ELSE IF ~ValidatePhotoSize(c.body) THEN 413
    ELSE 0

(* What PUT checks of its body, and PROPFIND and REPORT of theirs. *)
BodyRejection(c) ==
    IF c.op \in {"BOOKPROPFIND", "REPORT"} /\ ~c.wellFormed THEN 400
    ELSE IF c.op # "PUT" THEN 0
    ELSE IF c.body = Absent THEN 400
    ELSE IF ~Validate(c.body) THEN 422
    ELSE IF ~ValidatePhotoSize(c.body) THEN 413
    ELSE 0

AfterBook(c) ==
    IF c.op = "PUT" THEN "lookup"
    ELSE IF c.op = "BOOKPROPFIND" THEN "list"
    ELSE IF c.op = "BOOKDELETE" THEN "rmbook"
    ELSE IF c.op = "REPORT" THEN (IF c.query THEN "search" ELSE "multiget")
    ELSE "contact"

ResolveBook(r) ==
    LET c == loc[r].call
        ab == GetAddressBookByName(c.user, c.book)
    IN  /\ pc[r] = "book"
        /\ \/ ab = {} /\ ReplyStatus(r, 404)
           \/ /\ ab # {} /\ BodyRejection(c) # 0
              /\ ReplyStatus(r, BodyRejection(c))
           \/ /\ ab # {} /\ BodyRejection(c) = 0
              /\ Continue(r, AfterBook(c), [loc[r] EXCEPT !.ab = ab])
        /\ UnchangedStore

-----------------------------------------------------------------------------
(* GET, PROPFIND, DELETE, COPY and MOVE go on from the contact at the URL. *)

ContactGet(r, k) ==
    /\ loc[r].call.op = "GET"
    /\ IF loc[r].call.ifNoneMatch = k.etag THEN ReplyStatus(r, 304)
       ELSE ReplyRows(r, 200, {IF loc[r].call.accept3
                               THEN [k EXCEPT !.vcard = ToV3(k.vcard)] ELSE k})

ContactPropfind(r, k) ==
    /\ loc[r].call.op = "PROPFIND"
    /\ IF loc[r].call.wellFormed THEN ReplyRows(r, 207, {k})
                                 ELSE ReplyStatus(r, 400)

(* fmt.Sprintf("%q", etag) is compared as a whole, so "*" matches nothing. *)
IfMatchHolds(c, k) == c.ifMatch \in {Absent, k.etag}

DeletePrecondition(r, k) ==
    /\ loc[r].call.op = "DELETE"
    /\ IF IfMatchHolds(loc[r].call, k)
       THEN Continue(r, "delete", [loc[r] EXCEPT !.contact = {k}])
       ELSE ReplyStatus(r, 412)

(* Mutant of DestinationPath: a missing Destination header is let through. *)
DestinationUnchecked(r, k) ==
    /\ loc[r].call.op \in {"COPY", "MOVE"}
    /\ Continue(r, IF loc[r].call.op = "COPY" THEN "dstbook" ELSE "lookup",
                [loc[r] EXCEPT !.contact = {k}])

DestinationPath(r, k) ==
    /\ loc[r].call.op \in {"COPY", "MOVE"}
    /\ IF loc[r].call.dst = Absent THEN ReplyStatus(r, 400)
       ELSE Continue(r, IF loc[r].call.op = "COPY" THEN "dstbook" ELSE "lookup",
                     [loc[r] EXCEPT !.contact = {k}])

ResolveContact(r) ==
    /\ pc[r] = "contact"
    /\ \E b \in loc[r].ab :
          LET found == GetContactByFilename(b.id, loc[r].call.file)
          IN  \/ found = {} /\ ReplyStatus(r, 404)
              \/ \E k \in found : \/ ContactGet(r, k)
                                  \/ ContactPropfind(r, k)
                                  \/ DeletePrecondition(r, k)
                                  \/ DestinationPath(r, k)
    /\ UnchangedStore

-----------------------------------------------------------------------------
(* Writing a contact *)

SetContent(row, uid, blob) ==
    [row EXCEPT !.uid = uid, !.etag = ComputeETag(blob), !.vcard = blob,
                !.fn = ExtractFN(blob)]

(* Mutant of NewContact: the ETag is not computed again for the new UID. *)
NewContactOldETag(r, b, file, uid, blob) ==
    [id |-> FreshID(r), book |-> b.id, file |-> file, uid |-> uid,
     etag |-> ComputeETag(IF uid = FreshUID(r) THEN [blob EXCEPT !.uid = Absent]
                                               ELSE blob),
     vcard |-> blob, fn |-> ExtractFN(blob)]

NewContact(r, b, file, uid, blob) ==
    [id |-> FreshID(r), book |-> b.id, file |-> file, uid |-> uid,
     etag |-> ComputeETag(blob), vcard |-> blob, fn |-> ExtractFN(blob)]

(* Mutants of Update: no bump after it; a row that is gone is inserted. *)
UpdateNoBump(r, row, b) ==
    IF UpdateContactErr(row) = "nil"
    THEN UpdateContact(row) /\ Changed(b.id) /\ ReplyStatus(r, 204)
    ELSE ReplyStatus(r, 500) /\ UnchangedStore

UpdateOrInsert(r, row, b) ==
    \/ /\ UpdateContactErr(row) = "nil" /\ UpdateContact(row)
       /\ Changed(b.id) /\ Continue(r, "bump", loc[r])
    \/ /\ UpdateContactErr(row) = "ErrNotFound" /\ CreateContactErr(row) = "nil"
       /\ CreateContact(row) /\ Changed(b.id) /\ Continue(r, "bump", loc[r])
    \/ /\ UpdateContactErr(row) # "nil" /\ CreateContactErr(row) # "nil"
       /\ ReplyStatus(r, 500) /\ UnchangedStore

Update(r, row, b) ==
    IF UpdateContactErr(row) = "nil"
    THEN UpdateContact(row) /\ Changed(b.id) /\ Continue(r, "bump", loc[r])
    ELSE ReplyStatus(r, 500) /\ UnchangedStore

(* Mutant of Create: no bump after it. *)
CreateNoBump(r, row, b, onConflict) ==
    IF CreateContactErr(row) = "nil"
    THEN CreateContact(row) /\ Changed(b.id) /\ ReplyStatus(r, 201)
    ELSE ReplyStatus(r, onConflict) /\ UnchangedStore

Create(r, row, b, onConflict) ==
    IF CreateContactErr(row) = "nil"
    THEN CreateContact(row) /\ Changed(b.id) /\ Continue(r, "bump", loc[r])
    ELSE /\ ReplyStatus(r, IF CreateContactErr(row) = "ErrConflict"
                           THEN onConflict ELSE 500)
         /\ UnchangedStore

(* Mutant of PutUID: the UID is taken as it was sent. *)
PutUIDAsSent(r) == ExtractUID(ToV4(loc[r].call.body))

(* PUT: a UID is assigned when the client sent none. *)
PutUID(r) == LET uid == ExtractUID(ToV4(loc[r].call.body))
             IN  IF uid = Absent THEN FreshUID(r) ELSE uid

PutBlob(r) == LET blob == ToV4(loc[r].call.body)
              IN  IF ExtractUID(blob) = Absent THEN ReplaceUID(blob, FreshUID(r))
                                               ELSE blob

PutLookup(r) ==
    LET c == loc[r].call
    IN  /\ pc[r] = "lookup" /\ c.op = "PUT"
        /\ \E b \in loc[r].ab :
              LET existing == GetContactByFilename(b.id, c.file)
                  refused == IF existing = {} THEN c.ifNoneMatch = Star
                             ELSE \E e \in existing : ~IfMatchHolds(c, e)
              IN  IF refused THEN ReplyStatus(r, 412)
                  ELSE Continue(r, "write", [loc[r] EXCEPT !.existing = existing])
        /\ UnchangedStore

PutWrite(r) ==
    /\ pc[r] = "write" /\ loc[r].call.op = "PUT"
    /\ \E b \in loc[r].ab :
          \/ \E e \in loc[r].existing :
                Update(r, SetContent(e, PutUID(r), PutBlob(r)), b)
          \/ /\ loc[r].existing = {}
             /\ Create(r, NewContact(r, b, loc[r].call.file, PutUID(r), PutBlob(r)),
                       b, 409)

ContactDelete(r) ==
    /\ pc[r] = "delete"
    /\ \E b \in loc[r].ab, k \in loc[r].contact :
          IF DeleteContactErr(k.id) = "nil"
          THEN DeleteContact(k.id) /\ Changed(b.id) /\ Continue(r, "bump", loc[r])
          ELSE ReplyStatus(r, 500) /\ UnchangedStore

-----------------------------------------------------------------------------
(* COPY: the destination book is looked up among those of the URL's user;  *)
(* a copy within one book gets a UID of its own.                           *)

(* Mutant of CopyResolveBook: the user of the Destination header counts. *)
CopyResolveAnyBook(r) ==
    LET c == loc[r].call
        dstAB == GetAddressBookByName(c.dst.user, c.dst.book)
    IN  /\ pc[r] = "dstbook"
        /\ IF dstAB = {} THEN ReplyStatus(r, 404)
           ELSE Continue(r, "lookup", [loc[r] EXCEPT !.dstAB = dstAB])
        /\ UnchangedStore

CopyResolveBook(r) ==
    LET c == loc[r].call
        dstAB == GetAddressBookByName(c.user, c.dst.book)
    IN  /\ pc[r] = "dstbook"
        /\ IF dstAB = {} THEN ReplyStatus(r, 404)
           ELSE Continue(r, "lookup", [loc[r] EXCEPT !.dstAB = dstAB])
        /\ UnchangedStore

CopyLookup(r) ==
    LET c == loc[r].call
    IN  /\ pc[r] = "lookup" /\ c.op = "COPY"
        /\ \E b \in loc[r].dstAB :
              LET existing == GetContactByFilename(b.id, c.dst.file)
              IN  IF existing # {} /\ ~c.overwrite THEN ReplyStatus(r, 412)
                  ELSE Continue(r, "write", [loc[r] EXCEPT !.existing = existing])
        /\ UnchangedStore

SameBook(r) == \E a \in loc[r].ab, b \in loc[r].dstAB : a.id = b.id

CopyUID(r, k) == IF SameBook(r) THEN FreshUID(r) ELSE k.uid

(* Mutant of CopyBlob: a copy keeps the UID line. *)
CopyBlobOldUID(r, k) == k.vcard

CopyBlob(r, k) == IF SameBook(r) THEN ReplaceUID(k.vcard, FreshUID(r)) ELSE k.vcard

CopyWrite(r) ==
    /\ pc[r] = "write" /\ loc[r].call.op = "COPY"
    /\ \E b \in loc[r].dstAB, k \in loc[r].contact :
          \/ \E e \in loc[r].existing :
                Update(r, SetContent(e, CopyUID(r, k), CopyBlob(r, k)), b)
          \/ /\ loc[r].existing = {}
             /\ Create(r, NewContact(r, b, loc[r].call.dst.file,
                                     CopyUID(r, k), CopyBlob(r, k)), b, 500)

-----------------------------------------------------------------------------
(* MOVE: the destination is looked for in the source book, whatever book   *)
(* the Destination header names.  What is there is deleted by an operation *)
(* of its own; then the row read at the start is written back under the    *)
(* new file name.                                                          *)

(* Mutant of MoveLookup: "Overwrite: F" is not looked at. *)
MoveLookupOverwrites(r) ==
    LET c == loc[r].call
    IN  /\ pc[r] = "lookup" /\ c.op = "MOVE"
        /\ \E b \in loc[r].ab :
              LET existing == GetContactByFilename(b.id, c.dst.file)
              IN  Continue(r, IF existing = {} THEN "update" ELSE "clear",
                           [loc[r] EXCEPT !.existing = existing])
        /\ UnchangedStore

MoveLookup(r) ==
    LET c == loc[r].call
    IN  /\ pc[r] = "lookup" /\ c.op = "MOVE"
        /\ \E b \in loc[r].ab :
              LET existing == GetContactByFilename(b.id, c.dst.file)
              IN  IF existing # {} /\ ~c.overwrite THEN ReplyStatus(r, 412)
                  ELSE Continue(r, IF existing = {} THEN "update" ELSE "clear",
                                [loc[r] EXCEPT !.existing = existing])
        /\ UnchangedStore

MoveDelete(r) ==
    /\ pc[r] = "clear"
    /\ \E b \in loc[r].ab, e \in loc[r].existing :
          IF DeleteContactErr(e.id) = "nil"
          THEN DeleteContact(e.id) /\ Changed(b.id) /\ Continue(r, "update", loc[r])
          ELSE ReplyStatus(r, 500) /\ UnchangedStore

MoveUpdate(r) ==
    /\ pc[r] = "update"
    /\ \E b \in loc[r].ab, k \in loc[r].contact :
          LET row == [k EXCEPT !.file = loc[r].call.dst.file]
          IN  \/ UpdateContactErr(row) = "nil" /\ Update(r, row, b)
              \/ /\ UpdateContactErr(row) # "nil"
                 /\ ReplyStatus(r, 500) /\ GiveUp({r}) /\ UNCHANGED <<tables, pragma>>

-----------------------------------------------------------------------------
(* The last operation of every write: its error is ignored. *)

SuccessStatus(l) ==
    IF l.call.op = "MOVE" THEN 201
    ELSE IF l.call.op = "DELETE" \/ l.existing # {} THEN 204
    ELSE 201

Bump(r) ==
    /\ pc[r] = "bump"
    /\ \E b \in Target(loc[r]) :
          /\ BumpSyncToken(b.id)
          /\ dirty' = dirty \ {b.id}
          /\ lost' = lost \ {b.id}
    /\ ReplyStatus(r, SuccessStatus(loc[r]))
    /\ UNCHANGED pragma

-----------------------------------------------------------------------------
(* Collections *)

HomeSetPropfind(r) ==
    /\ pc[r] = "homeset"
    /\ LET bs == IF loc[r].call.depth = "1"
                 THEN ListAddressBooks(loc[r].call.user) ELSE {}
       IN  Reply(r, [NoAnswer EXCEPT !.status = 207, !.books = bs])
    /\ UnchangedStore

AddressBookMkcol(r) ==
    LET b == [id |-> FreshID(r), owner |-> loc[r].call.user,
              name |-> loc[r].call.book, token |-> 0, ctag |-> AsText(0)]
    IN  /\ pc[r] = "mkcol"
        /\ IF CreateAddressBookErr(b) = "nil"
           THEN CreateAddressBook(b) /\ ReplyStatus(r, 201)
           ELSE ReplyStatus(r, 405) /\ UNCHANGED tables
        /\ UNCHANGED <<history, pragma>>

AddressBookDelete(r) ==
    /\ pc[r] = "rmbook"
    /\ \E b \in loc[r].ab :
          IF DeleteAddressBookErr(b.id) = "nil"
          THEN /\ DeleteAddressBook(b.id) /\ ReplyStatus(r, 204)
               /\ dirty' = dirty \ {b.id} /\ lost' = lost \ {b.id}
               /\ UNCHANGED pragma
          ELSE ReplyStatus(r, 500) /\ UnchangedStore

(* The book row, and with it the sync-token, was read before the contacts. *)
AddressBookPropfind(r) ==
    /\ pc[r] = "list"
    /\ \E b \in loc[r].ab :
          IF loc[r].call.depth = "1"
          THEN Reply(r, [status |-> 207, books |-> {b},
                         rows |-> ListContacts(b.id), listing |-> TRUE])
          ELSE Reply(r, [NoAnswer EXCEPT !.status = 207, !.books = {b}])
    /\ UnchangedStore

ReportAddressbookQuery(r) ==
    /\ pc[r] = "search"
    /\ \E b \in loc[r].ab : ReplyRows(r, 207, SearchContacts(b.id, loc[r].call.filter))
    /\ UnchangedStore

(* Mutant of ReportAddressbookMultiget: the loop does not advance. *)
MultigetForever(r) ==
    /\ pc[r] = "multiget"
    /\ IF loc[r].todo = <<>> THEN ReplyRows(r, 207, loc[r].found)
       ELSE \E b \in loc[r].ab :
               Continue(r, "multiget",
                        [loc[r] EXCEPT !.found = GetContactByFilename(
                                                 b.id, Head(loc[r].todo))])
    /\ UnchangedStore

(* One lookup per href; an href without a contact yields a 404 entry, and  *)
(* one without a file name a 400 entry and no lookup.                      *)
ReportAddressbookMultiget(r) ==
    /\ pc[r] = "multiget"
    /\ IF loc[r].todo = <<>> THEN ReplyRows(r, 207, loc[r].found)
       ELSE \E b \in loc[r].ab :
               Continue(r, "multiget",
                        [loc[r] EXCEPT !.todo = Tail(loc[r].todo),
                                       !.found = @ \cup GetContactByFilename(
                                                   b.id, Head(loc[r].todo))])
    /\ UnchangedStore

-----------------------------------------------------------------------------
(* Failures *)

(* The step begins with a store operation; answering needs none.           *)
CallsStore(r) == /\ pc[r] \in {"list", "homeset"} => loc[r].call.depth = "1"
                 /\ pc[r] = "multiget" =>
                       loc[r].todo # <<>> /\ Head(loc[r].todo) # Absent

(* A store operation returns an error that is not one of the store's own,  *)
(* and has no effect.  Everywhere but at the bump the answer is 500.       *)
StoreError(r) ==
    /\ r \in InFlight /\ CallsStore(r)
    /\ ReplyStatus(r, IF pc[r] = "bump" THEN SuccessStatus(loc[r]) ELSE 500)
    /\ GiveUp({r})
    /\ UNCHANGED <<tables, pragma>>

(* The context of a request is cancelled, of one here or of any other that *)
(* uses the store, and the next operation finds a new connection.          *)
Reconnect == /\ enforced
             /\ LosePragma
             /\ UNCHANGED <<tables, requestVars, history>>

(* The process stops and is started again, on a connection of its own. *)
Crash ==
    /\ InFlight # {} \/ ~enforced
    /\ pc' = [r \in Requests |-> IF r \in InFlight THEN "gone" ELSE pc[r]]
    /\ loc' = [r \in Requests |-> NoLocals]
    /\ SetPragma
    /\ GiveUp(InFlight)
    /\ UNCHANGED <<tables, answer>>

-----------------------------------------------------------------------------
Init ==
    /\ books = SeedBooks
    /\ contacts = SeedContacts
    /\ fts = {IndexRow(c) : c \in SeedContacts}
    /\ pc = [r \in Requests |-> "idle"]
    /\ loc = [r \in Requests |-> NoLocals]
    /\ answer = [r \in Requests |-> NoAnswer]
    /\ enforced = TRUE
    /\ loose = FALSE
    /\ dirty = {}
    /\ lost = {}

(* The steps that a request in flight takes on its own. *)
Step(r) == \/ ResolveBook(r) \/ ResolveContact(r)
           \/ PutLookup(r) \/ PutWrite(r)
           \/ ContactDelete(r)
           \/ CopyResolveBook(r) \/ CopyLookup(r) \/ CopyWrite(r)
           \/ MoveLookup(r) \/ MoveDelete(r) \/ MoveUpdate(r)
           \/ Bump(r)
           \/ HomeSetPropfind(r) \/ AddressBookMkcol(r) \/ AddressBookDelete(r)
           \/ AddressBookPropfind(r) \/ ReportAddressbookQuery(r)
           \/ ReportAddressbookMultiget(r)

(* All requests of the instance have been dealt with; the server waits. *)
Quiet == /\ \A r \in Requests : pc[r] \in {"done", "gone"}
         /\ UNCHANGED vars

Next == \/ \E r \in Requests : Arrive(r) \/ Step(r) \/ StoreError(r)
        \/ Reconnect
        \/ Crash
        \/ Quiet

Spec == Init /\ [][Next]_vars

(* Every goroutine that can go on is scheduled in the end. *)
FairSpec == Spec /\ \A r \in Requests : WF_vars(Step(r))
=============================================================================
