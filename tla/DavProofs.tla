----------------------------- MODULE DavProofs -----------------------------
(***************************************************************************)
(* Proofs about the handlers.  A step is first reduced to three outcomes   *)
(* that do not depend on the handler: what it does to the tables           *)
(* (StoreOp), to the request (Replied or Advanced) and to the history      *)
(* variables.  The invariants are then proved from the outcomes.           *)
(***************************************************************************)
EXTENDS DavProperties, StoreLemmas

USE DEF pragma

-----------------------------------------------------------------------------
(* The store by itself *)

StoreOp ==
    \/ UNCHANGED tables
    \/ \E c \in Contact : CreateContactErr(c) = "nil" /\ CreateContact(c)
    \/ \E c \in Contact : UpdateContactErr(c) = "nil" /\ UpdateContact(c)
    \/ \E i \in Ids : DeleteContact(i)
    \/ \E b \in Book : CreateAddressBookErr(b) = "nil" /\ CreateAddressBook(b)
    \/ \E i \in Ids : DeleteAddressBook(i)
    \/ \E i \in Ids : BumpSyncToken(i)

(* Every operation of the store leaves well-typed tables, and the          *)
(* constraints of the schema survive it.                                   *)
LEMMA StoreOpIntegrity ==
    ASSUME StoreTypeOK, StoreIntegrity, StoreOp, UNCHANGED pragma
    PROVE  StoreTypeOK' /\ StoreIntegrity'
<1> USE DEF StoreIntegrity
<1>1. CASE UNCHANGED tables
  BY <1>1 DEF tables, StoreTypeOK, KeysUnique, ReferencesHold
<1>2. ASSUME NEW c \in Contact, CreateContactErr(c) = "nil", CreateContact(c)
      PROVE  StoreTypeOK' /\ StoreIntegrity'
  BY <1>2, CreateContactKeeps
<1>3. ASSUME NEW c \in Contact, UpdateContactErr(c) = "nil", UpdateContact(c)
      PROVE  StoreTypeOK' /\ StoreIntegrity'
  BY <1>3, UpdateContactKeeps
<1>4. ASSUME NEW i \in Ids, DeleteContact(i) PROVE StoreTypeOK' /\ StoreIntegrity'
  BY <1>4, DeleteContactKeeps
<1>5. ASSUME NEW b \in Book, CreateAddressBookErr(b) = "nil", CreateAddressBook(b)
      PROVE  StoreTypeOK' /\ StoreIntegrity'
  BY <1>5, CreateAddressBookKeeps
<1>6. ASSUME NEW i \in Ids, DeleteAddressBook(i) PROVE StoreTypeOK' /\ StoreIntegrity'
  BY <1>6, DeleteAddressBookKeeps
<1>7. ASSUME NEW i \in Ids, BumpSyncToken(i) PROVE StoreTypeOK' /\ StoreIntegrity'
  BY <1>7, BumpSyncTokenKeeps
<1>8. QED
  BY <1>1, <1>2, <1>3, <1>4, <1>5, <1>6, <1>7 DEF StoreOp
-----------------------------------------------------------------------------
(* The values that handlers compute *)

LEMMA VersionTyped ==
    ASSUME NEW blob \in VCards
    PROVE  ToV4(blob) \in VCards /\ ToV3(blob) \in VCards
  BY DEF ToV4, ToV3, ToVersion, VCards, Versions

LEMMA ReplaceUIDTyped ==
    ASSUME NEW blob \in VCards, NEW uid \in UIDs
    PROVE  ReplaceUID(blob, uid) \in VCards
  BY DEF ReplaceUID, VCards

LEMMA ColumnsTyped ==
    ASSUME NEW blob \in VCards
    PROVE  /\ ComputeETag(blob) \in ETags
           /\ ExtractFN(blob) \in Names \cup {Absent}
           /\ ExtractUID(blob) \in UIDs \cup {Absent}
  BY DEF ComputeETag, ETags, ExtractFN, ExtractUID, VCards

(* New content leaves a row its id, its book and its file name. *)
LEMMA SetContentTyped ==
    ASSUME NEW row \in Contact, NEW uid \in UIDs, NEW blob \in VCards
    PROVE  /\ SetContent(row, uid, blob) \in Contact
           /\ SetContent(row, uid, blob).id = row.id
           /\ SetContent(row, uid, blob).book = row.book
<1>1. PICK tag \in ETags, fn \in Names \cup {Absent} :
         tag = ComputeETag(blob) /\ fn = ExtractFN(blob)
  BY ColumnsTyped
<1>2. SetContent(row, uid, blob) =
        [row EXCEPT !.uid = uid, !.etag = tag, !.vcard = blob, !.fn = fn]
  BY <1>1, Zenon DEF SetContent
<1>3. PICK x : x = [row EXCEPT !.uid = uid, !.etag = tag, !.vcard = blob, !.fn = fn]
  OBVIOUS
<1>4. x \in Contact /\ x.id = row.id /\ x.book = row.book
  BY <1>3 DEF Contact
<1>5. QED
  BY <1>2, <1>3, <1>4, Zenon

LEMMA NewContactTyped ==
    ASSUME NEW r \in Requests, NEW b \in Book, NEW file \in Files,
           NEW uid \in UIDs, NEW blob \in VCards
    PROVE  /\ NewContact(r, b, file, uid, blob) \in Contact
           /\ NewContact(r, b, file, uid, blob).id = r
           /\ NewContact(r, b, file, uid, blob).book = b.id
<1>1. r \in Ids /\ b.id \in Ids
  BY RequestsAssumption DEF Book
<1>2. ComputeETag(blob) \in ETags /\ ExtractFN(blob) \in Names \cup {Absent}
  BY ColumnsTyped
<1>3. QED
  BY <1>1, <1>2 DEF NewContact, FreshID, Contact

(* The text is valid, and uid is the UID in it if there is a place for one.*)
Fits(uid, blob) == /\ Validate(blob)
                   /\ blob.uid = uid \/ (blob.uid = Absent /\ ~blob.anchored)

(* Content that fits makes a sound row, old or new. *)
LEMMA SetContentSound ==
    ASSUME NEW row \in Contact, NEW uid \in UIDs, NEW blob \in VCards, Fits(uid, blob)
    PROVE  Sound(SetContent(row, uid, blob))
<1>1. PICK tag, fn : tag = ComputeETag(blob) /\ fn = ExtractFN(blob)
  OBVIOUS
<1>2. SetContent(row, uid, blob) =
        [row EXCEPT !.uid = uid, !.etag = tag, !.vcard = blob, !.fn = fn]
  BY <1>1, Zenon DEF SetContent
<1>3. PICK x : x = [row EXCEPT !.uid = uid, !.etag = tag, !.vcard = blob, !.fn = fn]
  OBVIOUS
<1>4. x.uid = uid /\ x.etag = tag /\ x.vcard = blob /\ x.fn = fn
  BY <1>3 DEF Contact
<1>5. Sound(x)
  BY <1>1, <1>4, Zenon DEF Sound, Fits, UIDInText
<1>6. QED
  BY <1>2, <1>3, <1>5, Zenon

LEMMA NewContactSound ==
    ASSUME NEW r, NEW b, NEW file, NEW uid, NEW blob, Fits(uid, blob)
    PROVE  Sound(NewContact(r, b, file, uid, blob))
<1>1. PICK x : x = NewContact(r, b, file, uid, blob)
  OBVIOUS
<1>2. /\ x.uid = uid /\ x.vcard = blob
      /\ x.etag = ComputeETag(blob) /\ x.fn = ExtractFN(blob)
  BY <1>1 DEF NewContact
<1>3. QED
  BY <1>1, <1>2, Zenon DEF Sound, Fits, UIDInText

LEMMA ReplaceUIDFits ==
    ASSUME NEW blob \in VCards, Validate(blob), NEW uid \in UIDs
    PROVE  Fits(uid, ReplaceUID(blob, uid))
<1>1. CASE blob.anchored
  <2>1. PICK x : x = [blob EXCEPT !.uid = uid]
    OBVIOUS
  <2>2. /\ x.uid = uid /\ x.version = blob.version /\ x.fn = blob.fn
        /\ x.hasN = blob.hasN
    BY <2>1 DEF VCards
  <2>3. Fits(uid, x)
    BY <2>2 DEF Fits, Validate
  <2>4. QED
    BY <1>1, <2>1, <2>3, Zenon DEF ReplaceUID
<1>2. CASE ~blob.anchored
  <2>1. blob.uid = Absent
    BY <1>2 DEF VCards
  <2>2. QED
    BY <1>2, <2>1, Zenon DEF ReplaceUID, Fits
<1>3. QED
  BY <1>1, <1>2

(* The conversion to 4.0 keeps a text valid, and nothing but its version   *)
(* changes.                                                                *)
LEMMA ToV4Valid ==
    ASSUME NEW blob \in VCards, Validate(blob)
    PROVE  Validate(ToV4(blob))
  BY DEF ToV4, ToVersion, Validate, VCards

LEMMA PutFits ==
    ASSUME NEW r \in Requests, loc[r].call.body \in VCards, Validate(loc[r].call.body)
    PROVE  Fits(PutUID(r), PutBlob(r))
<1>1. PICK blob \in VCards : blob = ToV4(loc[r].call.body)
  BY VersionTyped
<1>2. Validate(blob) /\ r \in UIDs
  BY <1>1, ToV4Valid, RequestsAssumption
<1>3. CASE blob.uid = Absent
  <2>1. PutUID(r) = r /\ PutBlob(r) = ReplaceUID(blob, r)
    BY <1>1, <1>3, Zenon DEF PutUID, PutBlob, ExtractUID, FreshUID
  <2>2. QED
    BY <1>2, <1>3, <2>1, ReplaceUIDFits
<1>4. CASE blob.uid # Absent
  <2>1. PutUID(r) = blob.uid /\ PutBlob(r) = blob
    BY <1>1, <1>4, Zenon DEF PutUID, PutBlob, ExtractUID
  <2>2. QED
    BY <1>2, <2>1, Zenon DEF Fits
<1>5. QED
  BY <1>3, <1>4

-----------------------------------------------------------------------------
(* The outcome of a step, whatever the handler *)

(* What a request points to it has just read, or pointed to before. *)
Held(r, l) == /\ l.ab \subseteq books \cup loc[r].ab
              /\ l.dstAB \subseteq books \cup loc[r].dstAB
              /\ l.contact \subseteq contacts \cup loc[r].contact
              /\ l.existing \subseteq contacts \cup loc[r].existing
              /\ l.found \subseteq contacts \cup loc[r].found

Advanced(r) ==
    /\ pc[r] \notin {"bump", "done", "gone"}
    /\ \E step \in Steps, l \in Locals :
          FlowAt(step, l) /\ Held(r, l) /\ Continue(r, step, l)

(* A listing is of a book looked up before, and is what the book holds.    *)
(* Every row shown is a contact, perhaps converted, or was found before.   *)
Vouched(r, ans) ==
    /\ ans.books \subseteq books \cup loc[r].ab
    /\ ans.listing => /\ UNCHANGED tables
                      /\ \A a \in ans.books : /\ a \in loc[r].ab
                                              /\ ans.rows = ListContacts(a.id)
    /\ \A k \in ans.rows :
          \/ k \in contacts \cup loc[r].found
          \/ \E c \in contacts : k = [c EXCEPT !.vcard = ToV3(c.vcard)]

Replied(r) == \E ans \in Answers : Vouched(r, ans) /\ Reply(r, ans)

Pointers(l) == l.contact \cup l.existing

(* What r writes is as sound as the copies it has. *)
Sourced(r, c) == (\A k \in Pointers(loc[r]) : Sound(k)) => Sound(c)

(* With "Overwrite: F", r touches no contact but the one it moves. *)
Spares(r, k) == loc[r].call.op \in {"COPY", "MOVE"} /\ ~loc[r].call.overwrite
                    => loc[r].call.op = "MOVE" /\ k \in loc[r].contact

(* A change of book i goes on to a bump of that book. *)
Writes(r, i) == /\ Changed(i)
                /\ pc'[r] # pc[r] /\ pc[r] \in Steps
                /\ \E b \in Target(loc[r]) : b.id = i
                /\ {i} \cup Owes(r) \subseteq Owes(r)'

(* What a request does to the tables and to the history. *)
Effect(r) ==
    \/ UNCHANGED tables /\ UNCHANGED history /\ Owes(r) = {}
    \/ UNCHANGED tables /\ GiveUp({r})
    \/ \E c \in Contact : /\ CreateContactErr(c) = "nil" /\ CreateContact(c)
                          /\ c.id = r /\ pc[r] = "write" /\ pc'[r] = "bump"
                          /\ Writes(r, c.book) /\ Sourced(r, c)
    \/ \E c \in Contact : /\ UpdateContactErr(c) = "nil" /\ UpdateContact(c)
                          /\ \E k \in Pointers(loc[r]) :
                                k.id = c.id /\ k.book = c.book /\ Spares(r, k)
                          /\ Writes(r, c.book) /\ Sourced(r, c)
    \/ \E k \in Pointers(loc[r]) :
          /\ DeleteContactErr(k.id) = "nil" /\ DeleteContact(k.id)
          /\ Spares(r, k) /\ Writes(r, k.book)
    \/ \E b \in Book : /\ CreateAddressBookErr(b) = "nil" /\ CreateAddressBook(b)
                       /\ b.id = r /\ pc[r] = "mkcol" /\ pc'[r] = "done"
                       /\ b.token = 0 /\ b.ctag = AsText(0)
                       /\ UNCHANGED history
    \/ \E b \in loc[r].ab :
          /\ DeleteAddressBookErr(b.id) = "nil" /\ DeleteAddressBook(b.id)
          /\ pc[r] = "rmbook" /\ pc'[r] = "done"
          /\ dirty' = dirty \ {b.id} /\ lost' = lost \ {b.id}
    \/ \E b \in Target(loc[r]) :
          /\ BumpSyncToken(b.id) /\ pc[r] = "bump" /\ pc'[r] = "done"
          /\ dirty' = dirty \ {b.id} /\ lost' = lost \ {b.id}

Outcome(r) == /\ Effect(r) /\ UNCHANGED pragma
              /\ Advanced(r) \/ Replied(r)
              /\ dirty' \subseteq Ids /\ lost' \subseteq Ids

Before == TypeOK /\ FlowOK /\ StoreIntegrity

LEMMA EffectIsStoreOp ==
    ASSUME Before, NEW r \in Requests, Effect(r)
    PROVE  StoreOp
<1>1. /\ \A k \in Pointers(loc[r]) : k.id \in Ids
      /\ \A b \in loc[r].ab \cup Target(loc[r]) : b.id \in Ids
  BY DEF Before, TypeOK, Locals, Contact, Book, Pointers, Target
<1>2. QED
  BY <1>1 DEF Effect, StoreOp

(* An answer without rows. *)
LEMMA StatusReplied ==
    ASSUME NEW r \in Requests, NEW s \in Statuses, ReplyStatus(r, s)
    PROVE  Replied(r)
<1>1. PICK ans : ans = [NoAnswer EXCEPT !.status = s]
  OBVIOUS
<1>2. ans \in Answers /\ Vouched(r, ans)
  BY <1>1 DEF NoAnswer, Answers, Vouched
<1>3. Reply(r, ans)
  BY <1>1 DEF ReplyStatus
<1>4. QED
  BY <1>2, <1>3 DEF Replied

LEMMA RowsReplied ==
    ASSUME NEW r \in Requests, NEW s \in Statuses, NEW rows \in SUBSET Contact,
           \A k \in rows :
              \/ k \in contacts \cup loc[r].found
              \/ \E c \in contacts : k = [c EXCEPT !.vcard = ToV3(c.vcard)],
           ReplyRows(r, s, rows)
    PROVE  Replied(r)
<1>1. PICK ans : ans = [NoAnswer EXCEPT !.status = s, !.rows = rows]
  OBVIOUS
<1>2. ans \in Answers /\ Vouched(r, ans)
  BY <1>1 DEF NoAnswer, Answers, Vouched
<1>3. Reply(r, ans)
  BY <1>1 DEF ReplyRows
<1>4. QED
  BY <1>2, <1>3 DEF Replied

LEMMA BooksReplied ==
    ASSUME NEW r \in Requests, NEW s \in Statuses, NEW bs \in SUBSET Book,
           bs \subseteq books \cup loc[r].ab,
           Reply(r, [NoAnswer EXCEPT !.status = s, !.books = bs])
    PROVE  Replied(r)
<1>1. PICK ans : ans = [NoAnswer EXCEPT !.status = s, !.books = bs]
  OBVIOUS
<1>2. ans \in Answers /\ Vouched(r, ans)
  BY <1>1 DEF NoAnswer, Answers, Vouched
<1>3. QED
  BY <1>1, <1>2 DEF Replied

(* A step that only reads. *)
LEMMA ReadOutcome ==
    ASSUME Before, NEW r \in Requests, UnchangedStore, Advanced(r) \/ Replied(r),
           pc[r] \notin {"bump", "update"}
    PROVE  Outcome(r)
<1>1. Owes(r) = {}
  BY DEF Owes
<1>2. QED
  BY <1>1 DEF Before, TypeOK, Outcome, Effect, UnchangedStore, history

LEMMA RefusedOutcome ==
    ASSUME Before, NEW r \in Requests, NEW s \in Statuses,
           ReplyStatus(r, s), UnchangedStore, pc[r] \notin {"bump", "update"}
    PROVE  Outcome(r)
  BY StatusReplied, ReadOutcome

LEMMA UniqueBook ==
    ASSUME Before, NEW user, NEW name
    PROVE  LET found == GetAddressBookByName(user, name)
           IN  found \in SUBSET Book /\ \A x, y \in found : x = y
  BY DEF Before, TypeOK, StoreTypeOK, StoreIntegrity, KeysUnique, GetAddressBookByName

LEMMA FoundContacts ==
    ASSUME Before, NEW i, NEW file
    PROVE  LET found == GetContactByFilename(i, file)
           IN  /\ found \in SUBSET Contact /\ found \subseteq contacts
               /\ \A k \in found : k.book = i
  BY DEF Before, TypeOK, StoreTypeOK, GetContactByFilename

LEMMA ArriveOutcome ==
    ASSUME Before, NEW r \in Requests, Arrive(r)
    PROVE  Outcome(r)
<1>1. PICK c \in Calls :
         \/ Rejection(c) # 0 /\ ReplyStatus(r, Rejection(c))
         \/ ReplyStatus(r, 500)
         \/ /\ Rejection(c) = 0
            /\ Continue(r, FirstStep(c), [NoLocals EXCEPT !.call = c, !.todo = c.hrefs])
  BY DEF Arrive
<1>2. UnchangedStore /\ pc[r] = "idle"
  BY DEF Arrive
<1>3. CASE Rejection(c) # 0 /\ ReplyStatus(r, Rejection(c))
  <2>1. Rejection(c) \in Statuses
    BY <1>3 DEF Rejection, Statuses
  <2>2. QED
    BY <1>2, <1>3, <2>1, RefusedOutcome
<1>4. CASE /\ Rejection(c) = 0
           /\ Continue(r, FirstStep(c), [NoLocals EXCEPT !.call = c, !.todo = c.hrefs])
  <2>1. c.user \in Users /\ c.hrefs \in Seq(Files \cup {Absent}) /\ Allowed(c)
    <3>1. c \in Call
      BY CallsAssumption
    <3>2. c.hrefs \in Seq(Files \cup {Absent})
      BY <3>1 DEF Call
    <3>3. QED
      BY <1>4, <3>2 DEF Rejection, LooksUpUser
  <2>2. FirstStep(c) \in {"homeset", "mkcol", "book"}
    BY DEF FirstStep
  <2>3. PICK l : l = [NoLocals EXCEPT !.call = c, !.todo = c.hrefs]
    OBVIOUS
  <2>4. /\ l \in Locals /\ l.call = c /\ Pointers(l) = {} /\ l.ab = {} /\ l.dstAB = {}
        /\ l.found = {}
    BY <2>1, <2>3 DEF NoLocals, Locals, Pointers
  <2>5. FlowAt(FirstStep(c), l) /\ Held(r, l)
    BY <2>1, <2>2, <2>4 DEF FlowAt, Held, Steps, Pointers
  <2>6. FirstStep(c) \in Steps
    BY <2>2 DEF Steps
  <2>7. Advanced(r)
    BY <1>4, <2>3, <2>4, <2>5, <2>6 DEF Advanced, Arrive
  <2>8. QED
    BY <1>2, <2>7, ReadOutcome
<1>5. CASE ReplyStatus(r, 500)
  BY <1>2, <1>5, RefusedOutcome DEF Statuses
<1>6. QED
  BY <1>1, <1>3, <1>4, <1>5

(* The row of a lookup by name is the only one. *)
LEMMA ResolveBookOutcome ==
    ASSUME Before, NEW r \in Requests, ResolveBook(r)
    PROVE  Outcome(r)
<1> DEFINE c == loc[r].call
           ab == GetAddressBookByName(c.user, c.book)
<1>1. /\ loc[r] \in Locals /\ FlowAt("book", loc[r]) /\ UnchangedStore
      /\ pc[r] = "book"
      /\ \/ ab = {} /\ ReplyStatus(r, 404)
         \/ ab # {} /\ BodyRejection(c) # 0 /\ ReplyStatus(r, BodyRejection(c))
         \/ /\ ab # {} /\ BodyRejection(c) = 0
            /\ Continue(r, AfterBook(c), [loc[r] EXCEPT !.ab = ab])
  BY DEF Before, TypeOK, FlowOK, ResolveBook
<1>2. c \in Calls /\ c.user \in Users /\ c \in Call
  BY <1>1, CallsAssumption DEF FlowAt, Steps
<1>3. CASE ReplyStatus(r, 404)
  BY <1>1, <1>3, RefusedOutcome DEF Statuses
<1>4. CASE BodyRejection(c) # 0 /\ ReplyStatus(r, BodyRejection(c))
  <2>1. BodyRejection(c) \in Statuses
    BY <1>4 DEF BodyRejection, Statuses
  <2>2. QED
    BY <1>1, <1>4, <2>1, RefusedOutcome
<1>5. CASE /\ BodyRejection(c) = 0
           /\ Continue(r, AfterBook(c), [loc[r] EXCEPT !.ab = ab])
  <2>1. /\ ab \in SUBSET Book /\ ab \subseteq books /\ \A x, y \in ab : x = y
        /\ \A b \in ab : b.owner = c.user
    BY UniqueBook DEF GetAddressBookByName
  <2>2. PICK l : l = [loc[r] EXCEPT !.ab = ab]
    OBVIOUS
  <2>3. /\ l \in Locals /\ l.call = c /\ l.ab = ab /\ l.dstAB = loc[r].dstAB
        /\ l.contact = loc[r].contact /\ l.existing = loc[r].existing
        /\ l.found = loc[r].found
    BY <1>1, <2>1, <2>2 DEF Locals
  <2>4. /\ AfterBook(c) \in {"lookup", "list", "rmbook", "search", "multiget", "contact"}
        /\ AfterBook(c) = "rmbook" => c.op = "BOOKDELETE"
        /\ AfterBook(c) = "lookup" =>
              c.op = "PUT" /\ c.body \in VCards /\ Validate(c.body)
    <3>1. c.op = "PUT" => c.body \in VCards /\ Validate(c.body)
      BY <1>2, <1>5 DEF BodyRejection, Call
    <3>2. QED
      BY <3>1 DEF AfterBook
  <2>5. FlowAt(AfterBook(c), l)
    BY <1>1, <1>2, <2>1, <2>3, <2>4 DEF FlowAt, Steps
  <2>6. Advanced(r)
    <3>1. AfterBook(c) \in Steps
      BY <2>4 DEF Steps
    <3>2. Held(r, l)
      BY <2>1, <2>3 DEF Held
    <3>3. QED
      BY <1>5, <2>2, <2>3, <2>5, <3>1, <3>2 DEF Advanced, ResolveBook
  <2>7. QED
    BY <1>1, <2>6, ReadOutcome
<1>6. QED
  BY <1>1, <1>3, <1>4, <1>5

(* A request that points to a contact of its book goes on with it. *)
LEMMA PointsTo ==
    ASSUME Before, NEW r \in Requests, NEW step \in Steps,
           pc[r] = "contact", NEW k \in contacts,
           \A b \in loc[r].ab : k.book = b.id,
           step = "delete" => loc[r].call.op = "DELETE",
           step \in {"dstbook", "lookup"} => loc[r].call.dst # Absent,
           step = "dstbook" => loc[r].call.op = "COPY",
           step = "lookup" => loc[r].call.op = "MOVE",
           step \in {"delete", "dstbook", "lookup"},
           Continue(r, step, [loc[r] EXCEPT !.contact = {k}])
    PROVE  Advanced(r)
<1>1. loc[r] \in Locals /\ FlowAt("contact", loc[r]) /\ k \in Contact
  BY DEF Before, TypeOK, StoreTypeOK, FlowOK
<1>2. PICK l : l = [loc[r] EXCEPT !.contact = {k}]
  OBVIOUS
<1>3. /\ l \in Locals /\ l.call = loc[r].call /\ l.ab = loc[r].ab
      /\ l.dstAB = loc[r].dstAB /\ l.contact = {k} /\ l.existing = loc[r].existing
      /\ l.found = loc[r].found
  BY <1>1, <1>2 DEF Locals
<1>4. FlowAt(step, l)
  BY <1>1, <1>3 DEF FlowAt, Steps, Target
<1>5. Held(r, l)
  BY <1>3 DEF Held
<1>6. QED
  BY <1>2, <1>3, <1>4, <1>5 DEF Advanced

LEMMA ResolveContactOutcome ==
    ASSUME Before, NEW r \in Requests, ResolveContact(r)
    PROVE  Outcome(r)
<1>1. PICK b \in loc[r].ab :
         LET found == GetContactByFilename(b.id, loc[r].call.file)
         IN  \/ ReplyStatus(r, 404)
             \/ \E k \in found : \/ ContactGet(r, k) \/ ContactPropfind(r, k)
                                 \/ DeletePrecondition(r, k)
                                 \/ DestinationPath(r, k)
  BY DEF ResolveContact
<1>2. UnchangedStore /\ pc[r] = "contact" /\ FlowAt("contact", loc[r])
  BY DEF ResolveContact, Before, FlowOK
<1>3. CASE ReplyStatus(r, 404)
  BY <1>2, <1>3, RefusedOutcome DEF Statuses
<1>4. ASSUME NEW k \in GetContactByFilename(b.id, loc[r].call.file),
             \/ ContactGet(r, k) \/ ContactPropfind(r, k)
             \/ DeletePrecondition(r, k) \/ DestinationPath(r, k)
      PROVE  Outcome(r)
  <2>1. k \in Contact /\ k \in contacts /\ k.book = b.id
    BY FoundContacts
  <2>2. \A x \in loc[r].ab : k.book = x.id
    BY <1>2, <2>1 DEF FlowAt
  <2>3. CASE ContactGet(r, k)
    <3>1. [k EXCEPT !.vcard = ToV3(k.vcard)] \in Contact
      <4>1. ToV3(k.vcard) \in VCards
        BY <2>1, VersionTyped DEF Contact
      <4>2. QED
        BY <2>1, <4>1 DEF Contact
    <3>2. Replied(r)
      BY <2>1, <2>3, <3>1, StatusReplied, RowsReplied DEF ContactGet, Statuses
    <3>3. QED
      BY <1>2, <3>2, ReadOutcome
  <2>4. CASE ContactPropfind(r, k)
    <3>1. Replied(r)
      BY <2>1, <2>4, StatusReplied, RowsReplied DEF ContactPropfind, Statuses
    <3>2. QED
      BY <1>2, <3>1, ReadOutcome
  <2>5. CASE DeletePrecondition(r, k)
    <3>1. CASE ReplyStatus(r, 412)
      BY <1>2, <3>1, RefusedOutcome DEF Statuses
    <3>2. CASE Continue(r, "delete", [loc[r] EXCEPT !.contact = {k}])
      <4>1. Advanced(r)
        BY <1>2, <2>1, <2>2, <2>5, <3>2, PointsTo DEF DeletePrecondition, Steps
      <4>2. QED
        BY <1>2, <4>1, ReadOutcome
    <3>3. QED
      BY <2>5, <3>1, <3>2 DEF DeletePrecondition
  <2>6. CASE DestinationPath(r, k)
    <3>1. CASE ReplyStatus(r, 400)
      BY <1>2, <3>1, RefusedOutcome DEF Statuses
    <3>2. CASE /\ loc[r].call.dst # Absent /\ loc[r].call.op = "COPY"
               /\ Continue(r, "dstbook", [loc[r] EXCEPT !.contact = {k}])
      <4>1. Advanced(r)
        BY <1>2, <2>1, <2>2, <3>2, PointsTo DEF Steps
      <4>2. QED
        BY <1>2, <4>1, ReadOutcome
    <3>3. CASE /\ loc[r].call.dst # Absent /\ loc[r].call.op = "MOVE"
               /\ Continue(r, "lookup", [loc[r] EXCEPT !.contact = {k}])
      <4>1. Advanced(r)
        BY <1>2, <2>1, <2>2, <3>3, PointsTo DEF Steps
      <4>2. QED
        BY <1>2, <4>1, ReadOutcome
    <3>4. QED
      BY <2>6, <3>1, <3>2, <3>3 DEF DestinationPath
  <2>7. QED
    BY <1>4, <2>3, <2>4, <2>5, <2>6
<1>5. QED
  BY <1>1, <1>3, <1>4

(* A write that went well leaves the bump to be done. *)
LEMMA GoesOn ==
    ASSUME Before, NEW r \in Requests, NEW b \in Target(loc[r]), Changed(b.id),
           NEW step \in Steps, Continue(r, step, loc[r]),
           \/ pc[r] \in {"write", "delete", "update"} /\ step = "bump"
           \/ pc[r] = "clear" /\ step = "update" /\ loc[r].existing # {}
    PROVE  /\ Writes(r, b.id) /\ Advanced(r) /\ pc'[r] = step
           /\ dirty' \subseteq Ids /\ lost' \subseteq Ids
<1>1. loc[r] \in Locals /\ FlowAt(pc[r], loc[r]) /\ Held(r, loc[r])
  BY DEF Before, TypeOK, FlowOK, Held
<1>2. FlowAt(step, loc[r])
  BY <1>1 DEF FlowAt, Steps
<1>3. Advanced(r)
  BY <1>1, <1>2 DEF Advanced
<1>4. pc'[r] = step /\ loc'[r] = loc[r]
  BY DEF Continue, Before, TypeOK
<1>5. Writes(r, b.id)
  <2>1. Owes(r)' = {x.id : x \in Target(loc[r])}
    BY <1>4 DEF Owes, Target
  <2>2. {b.id} \cup Owes(r) \subseteq {x.id : x \in Target(loc[r])}
    BY DEF Owes
  <2>3. pc'[r] # pc[r] /\ pc[r] \in Steps
    BY <1>4 DEF Steps
  <2>4. QED
    BY <2>1, <2>2, <2>3 DEF Writes
<1>6. dirty' \subseteq Ids /\ lost' \subseteq Ids
  <2>1. b.id \in Ids
    BY <1>1 DEF Target, Locals, Book
  <2>2. QED
    BY <2>1 DEF Changed, Before, TypeOK
<1>7. QED
  BY <1>3, <1>4, <1>5, <1>6

LEMMA UpdateOutcome ==
    ASSUME Before, NEW r \in Requests, NEW row \in Contact, NEW b \in Target(loc[r]),
           NEW k \in Pointers(loc[r]), k.id = row.id, k.book = row.book,
           row.book = b.id, Spares(r, k), Sourced(r, row),
           pc[r] = "write" \/ (pc[r] = "update" /\ UpdateContactErr(row) = "nil"),
           Update(r, row, b)
    PROVE  Outcome(r)
<1>1. CASE /\ UpdateContactErr(row) = "nil" /\ UpdateContact(row)
           /\ Changed(b.id) /\ Continue(r, "bump", loc[r])
  <2>1. /\ Writes(r, b.id) /\ Advanced(r)
        /\ dirty' \subseteq Ids /\ lost' \subseteq Ids
    BY <1>1, GoesOn DEF Steps
  <2>2. Effect(r)
    BY <1>1, <2>1 DEF Effect
  <2>3. QED
    BY <1>1, <2>1, <2>2 DEF Outcome, Changed
<1>2. CASE pc[r] = "write" /\ ReplyStatus(r, 500) /\ UnchangedStore
  BY <1>2, RefusedOutcome DEF Statuses
<1>3. QED
  BY <1>1, <1>2 DEF Update

LEMMA CreateOutcome ==
    ASSUME Before, NEW r \in Requests, NEW row \in Contact, NEW b \in Target(loc[r]),
           row.id = r, row.book = b.id, Sourced(r, row), pc[r] = "write",
           NEW onConflict \in Statuses, Create(r, row, b, onConflict)
    PROVE  Outcome(r)
<1>1. CASE /\ CreateContactErr(row) = "nil" /\ CreateContact(row)
           /\ Changed(b.id) /\ Continue(r, "bump", loc[r])
  <2>1. /\ Writes(r, b.id) /\ Advanced(r) /\ pc'[r] = "bump"
        /\ dirty' \subseteq Ids /\ lost' \subseteq Ids
    BY <1>1, GoesOn DEF Steps
  <2>2. Effect(r)
    BY <1>1, <2>1 DEF Effect
  <2>3. QED
    BY <1>1, <2>1, <2>2 DEF Outcome, Changed
<1>2. CASE /\ ReplyStatus(r, IF CreateContactErr(row) = "ErrConflict"
                              THEN onConflict ELSE 500)
           /\ UnchangedStore
  <2>1. (IF CreateContactErr(row) = "ErrConflict" THEN onConflict ELSE 500) \in Statuses
    BY DEF Statuses
  <2>2. QED
    BY <1>2, <2>1, RefusedOutcome
<1>3. QED
  BY <1>1, <1>2 DEF Create

(* A contact is deleted by a request that points to it, in its book. *)
LEMMA DeleteOutcome ==
    ASSUME Before, NEW r \in Requests, NEW k \in Pointers(loc[r]),
           NEW b \in Target(loc[r]), k.book = b.id, Spares(r, k), NEW step \in Steps,
           \/ pc[r] = "delete" /\ step = "bump"
           \/ pc[r] = "clear" /\ step = "update" /\ loc[r].existing # {},
           \/ /\ DeleteContactErr(k.id) = "nil" /\ DeleteContact(k.id)
              /\ Changed(b.id) /\ Continue(r, step, loc[r])
           \/ ReplyStatus(r, 500) /\ UnchangedStore
    PROVE  Outcome(r)
<1>1. CASE /\ DeleteContactErr(k.id) = "nil" /\ DeleteContact(k.id)
           /\ Changed(b.id) /\ Continue(r, step, loc[r])
  <2>1. /\ Writes(r, b.id) /\ Advanced(r)
        /\ dirty' \subseteq Ids /\ lost' \subseteq Ids
    BY <1>1, GoesOn
  <2>2. Effect(r)
    BY <1>1, <2>1 DEF Effect
  <2>3. QED
    BY <1>1, <2>1, <2>2 DEF Outcome, Changed
<1>2. CASE ReplyStatus(r, 500) /\ UnchangedStore
  BY <1>2, RefusedOutcome DEF Statuses
<1>3. QED
  BY <1>1, <1>2

LEMMA ContactDeleteOutcome ==
    ASSUME Before, NEW r \in Requests, ContactDelete(r)
    PROVE  Outcome(r)
<1>1. PICK b \in loc[r].ab, k \in loc[r].contact :
         \/ /\ DeleteContactErr(k.id) = "nil" /\ DeleteContact(k.id)
            /\ Changed(b.id) /\ Continue(r, "bump", loc[r])
         \/ ReplyStatus(r, 500) /\ UnchangedStore
  BY DEF ContactDelete
<1>2. /\ pc[r] = "delete" /\ loc[r].call.op = "DELETE"
      /\ k \in Pointers(loc[r]) /\ k.book = b.id /\ "bump" \in Steps
  BY DEF ContactDelete, Before, FlowOK, FlowAt, Pointers, Steps
<1>3. b \in Target(loc[r]) /\ Spares(r, k)
  BY <1>2 DEF Target, Spares
<1>4. QED
  BY <1>1, <1>2, <1>3, DeleteOutcome

LEMMA MoveDeleteOutcome ==
    ASSUME Before, NEW r \in Requests, MoveDelete(r)
    PROVE  Outcome(r)
<1>1. PICK b \in loc[r].ab, e \in loc[r].existing :
         \/ /\ DeleteContactErr(e.id) = "nil" /\ DeleteContact(e.id)
            /\ Changed(b.id) /\ Continue(r, "update", loc[r])
         \/ ReplyStatus(r, 500) /\ UnchangedStore
  BY DEF MoveDelete
<1>2. /\ pc[r] = "clear" /\ loc[r].call.op = "MOVE" /\ loc[r].call.overwrite
      /\ e \in Pointers(loc[r]) /\ "update" \in Steps /\ FlowAt("clear", loc[r])
  BY DEF MoveDelete, Before, FlowOK, FlowAt, Pointers, Steps
<1>3. b \in Target(loc[r]) /\ Spares(r, e)
  BY <1>2 DEF Target, Spares
<1>4. e.book = b.id
  BY <1>2, <1>3 DEF FlowAt
<1>5. QED
  BY <1>1, <1>2, <1>3, <1>4, DeleteOutcome

(* A writer that looked for a contact in the book it will bump goes on     *)
(* with what it found.                                                     *)
LEMMA LookedUp ==
    ASSUME Before, NEW r \in Requests, pc[r] = "lookup", UnchangedStore,
           NEW b \in Target(loc[r]), NEW file,
           NEW step \in {"write", "update", "clear"},
           step \in {"update", "clear"} => loc[r].call.op = "MOVE",
           loc[r].call.op \in {"COPY", "MOVE"} =>
              GetContactByFilename(b.id, file) = {} \/ loc[r].call.overwrite,
           Continue(r, step, [loc[r] EXCEPT !.existing = GetContactByFilename(b.id, file)])
    PROVE  Outcome(r)
<1>1. loc[r] \in Locals /\ FlowAt("lookup", loc[r])
  BY DEF Before, TypeOK, FlowOK
<1>2. PICK found : found = GetContactByFilename(b.id, file)
  OBVIOUS
<1>3. /\ found \in SUBSET Contact /\ found \subseteq contacts
      /\ \A k \in found : k.book = b.id
      /\ loc[r].call.op \in {"COPY", "MOVE"} => found = {} \/ loc[r].call.overwrite
  BY <1>2, FoundContacts
<1>4. PICK l : l = [loc[r] EXCEPT !.existing = found]
  OBVIOUS
<1>5. /\ l \in Locals /\ l.call = loc[r].call /\ l.ab = loc[r].ab
      /\ l.dstAB = loc[r].dstAB /\ l.contact = loc[r].contact /\ l.existing = found
      /\ l.found = loc[r].found
  BY <1>1, <1>3, <1>4 DEF Locals
<1>6. FlowAt(step, l)
  BY <1>1, <1>3, <1>5 DEF FlowAt, Steps, Target
<1>7. Held(r, l) /\ step \in Steps
  BY <1>3, <1>5 DEF Held, Steps
<1>8. Advanced(r)
  BY <1>2, <1>4, <1>5, <1>6, <1>7 DEF Advanced
<1>9. QED
  BY <1>8, ReadOutcome

LEMMA PutLookupOutcome ==
    ASSUME Before, NEW r \in Requests, PutLookup(r)
    PROVE  Outcome(r)
<1>1. PICK b \in loc[r].ab :
         \/ ReplyStatus(r, 412)
         \/ Continue(r, "write", [loc[r] EXCEPT !.existing =
                                     GetContactByFilename(b.id, loc[r].call.file)])
  BY DEF PutLookup
<1>2. /\ pc[r] = "lookup" /\ loc[r].call.op = "PUT" /\ UnchangedStore
      /\ b \in Target(loc[r])
  BY DEF PutLookup, Target
<1>3. QED
  BY <1>1, <1>2, LookedUp, RefusedOutcome DEF Statuses

LEMMA PutWriteOutcome ==
    ASSUME Before, NEW r \in Requests, PutWrite(r)
    PROVE  Outcome(r)
<1>1. PICK b \in loc[r].ab :
         \/ \E e \in loc[r].existing :
               Update(r, SetContent(e, PutUID(r), PutBlob(r)), b)
         \/ Create(r, NewContact(r, b, loc[r].call.file, PutUID(r), PutBlob(r)), b, 409)
  BY DEF PutWrite
<1>2. /\ pc[r] = "write" /\ loc[r].call.op = "PUT" /\ loc[r].call \in Call
      /\ loc[r].call.body \in VCards /\ Validate(loc[r].call.body)
      /\ b \in Book /\ b \in Target(loc[r]) /\ 409 \in Statuses
      /\ \A e \in loc[r].existing :
            e \in Contact /\ e \in Pointers(loc[r]) /\ e.book = b.id
  <2>1. /\ pc[r] = "write" /\ loc[r].call.op = "PUT" /\ b \in Target(loc[r])
        /\ FlowAt("write", loc[r]) /\ loc[r] \in Locals
    BY DEF PutWrite, Before, TypeOK, FlowOK, Target
  <2>2. /\ loc[r].call \in Calls
        /\ loc[r].call.body \in VCards /\ Validate(loc[r].call.body)
        /\ \A e \in loc[r].existing : e.book = b.id
    BY <2>1 DEF FlowAt, Steps
  <2>3. QED
    BY <2>1, <2>2, CallsAssumption DEF Locals, Pointers, Statuses
<1>3. PutUID(r) \in UIDs /\ PutBlob(r) \in VCards /\ loc[r].call.file \in Files
  <2>1. PICK blob \in VCards : blob = ToV4(loc[r].call.body)
    BY <1>2, VersionTyped
  <2>2. r \in UIDs
    BY RequestsAssumption
  <2>3. QED
    BY <1>2, <2>1, <2>2, ColumnsTyped, ReplaceUIDTyped DEF PutUID, PutBlob, FreshUID, Call
<1>4. Fits(PutUID(r), PutBlob(r))
  BY <1>2, PutFits
<1>5. ASSUME NEW e \in loc[r].existing, Update(r, SetContent(e, PutUID(r), PutBlob(r)), b)
      PROVE  Outcome(r)
  <2>1. PICK row : row = SetContent(e, PutUID(r), PutBlob(r))
    OBVIOUS
  <2>2. row \in Contact /\ row.id = e.id /\ row.book = e.book /\ Sound(row)
    BY <1>2, <1>3, <1>4, <2>1, SetContentTyped, SetContentSound
  <2>3. Spares(r, e) /\ Sourced(r, row)
    BY <1>2, <2>2 DEF Spares, Sourced
  <2>4. QED
    BY <1>2, <1>5, <2>1, <2>2, <2>3, UpdateOutcome
<1>6. CASE Create(r, NewContact(r, b, loc[r].call.file, PutUID(r), PutBlob(r)), b, 409)
  <2>1. PICK row : row = NewContact(r, b, loc[r].call.file, PutUID(r), PutBlob(r))
    OBVIOUS
  <2>2. row \in Contact /\ row.id = r /\ row.book = b.id /\ Sound(row)
    BY <1>2, <1>3, <1>4, <2>1, NewContactTyped, NewContactSound
  <2>3. QED
    BY <1>2, <1>6, <2>1, <2>2, CreateOutcome DEF Sourced
<1>7. QED
  BY <1>1, <1>5, <1>6

LEMMA CopyResolveBookOutcome ==
    ASSUME Before, NEW r \in Requests, CopyResolveBook(r)
    PROVE  Outcome(r)
<1> DEFINE dstAB == GetAddressBookByName(loc[r].call.user, loc[r].call.dst.book)
<1>1. /\ loc[r] \in Locals /\ FlowAt("dstbook", loc[r]) /\ UnchangedStore
      /\ pc[r] = "dstbook"
      /\ \/ ReplyStatus(r, 404)
         \/ Continue(r, "lookup", [loc[r] EXCEPT !.dstAB = dstAB])
  BY DEF Before, TypeOK, FlowOK, CopyResolveBook
<1>2. CASE ReplyStatus(r, 404)
  BY <1>1, <1>2, RefusedOutcome DEF Statuses
<1>3. CASE Continue(r, "lookup", [loc[r] EXCEPT !.dstAB = dstAB])
  <2>1. /\ dstAB \in SUBSET Book /\ dstAB \subseteq books /\ \A x, y \in dstAB : x = y
        /\ \A b \in dstAB : b.owner = loc[r].call.user
    BY UniqueBook DEF GetAddressBookByName
  <2>2. PICK l : l = [loc[r] EXCEPT !.dstAB = dstAB]
    OBVIOUS
  <2>3. /\ l \in Locals /\ l.call = loc[r].call /\ l.ab = loc[r].ab /\ l.dstAB = dstAB
        /\ l.contact = loc[r].contact /\ l.existing = loc[r].existing
        /\ l.found = loc[r].found
    BY <1>1, <2>1, <2>2 DEF Locals
  <2>4. FlowAt("lookup", l)
    BY <1>1, <2>1, <2>3 DEF FlowAt, Steps
  <2>5. Held(r, l) /\ "lookup" \in Steps
    BY <2>1, <2>3 DEF Held, Steps
  <2>6. Advanced(r)
    BY <1>3, <2>2, <2>3, <2>4, <2>5 DEF Advanced, CopyResolveBook
  <2>7. QED
    BY <1>1, <2>6, ReadOutcome
<1>4. QED
  BY <1>1, <1>2, <1>3

LEMMA CopyLookupOutcome ==
    ASSUME Before, NEW r \in Requests, CopyLookup(r)
    PROVE  Outcome(r)
<1>1. PICK b \in loc[r].dstAB :
         \/ ReplyStatus(r, 412)
         \/ /\ \/ GetContactByFilename(b.id, loc[r].call.dst.file) = {}
               \/ loc[r].call.overwrite
            /\ Continue(r, "write", [loc[r] EXCEPT !.existing =
                                     GetContactByFilename(b.id, loc[r].call.dst.file)])
  BY DEF CopyLookup
<1>2. /\ pc[r] = "lookup" /\ loc[r].call.op = "COPY" /\ UnchangedStore
      /\ b \in Target(loc[r])
  BY DEF CopyLookup, Target
<1>3. QED
  BY <1>1, <1>2, LookedUp, RefusedOutcome DEF Statuses

LEMMA CopyWriteOutcome ==
    ASSUME Before, NEW r \in Requests, CopyWrite(r)
    PROVE  Outcome(r)
<1>1. PICK b \in loc[r].dstAB, k \in loc[r].contact :
         \/ \E e \in loc[r].existing :
               Update(r, SetContent(e, CopyUID(r, k), CopyBlob(r, k)), b)
         \/ Create(r, NewContact(r, b, loc[r].call.dst.file,
                                 CopyUID(r, k), CopyBlob(r, k)), b, 500)
  BY DEF CopyWrite
<1>2. /\ pc[r] = "write" /\ loc[r].call.op = "COPY" /\ loc[r].call \in Call
      /\ loc[r].call.dst # Absent /\ k \in Contact /\ k \in Pointers(loc[r])
      /\ b \in Book /\ b \in Target(loc[r]) /\ 500 \in Statuses
      /\ \A e \in loc[r].existing :
            /\ e \in Contact /\ e \in Pointers(loc[r]) /\ e.book = b.id
            /\ loc[r].call.overwrite
  BY CallsAssumption DEF CopyWrite, Before, TypeOK, FlowOK, FlowAt, Steps, Target,
                         Locals, Pointers, Statuses
<1>3. /\ CopyUID(r, k) \in UIDs /\ CopyBlob(r, k) \in VCards
      /\ loc[r].call.dst.file \in Files /\ k.vcard \in VCards /\ r \in UIDs
  <2>1. k.uid \in UIDs /\ k.vcard \in VCards /\ r \in UIDs
    BY <1>2, RequestsAssumption DEF Contact
  <2>2. loc[r].call.dst.file \in Files
    BY <1>2 DEF Call
  <2>3. QED
    BY <2>1, <2>2, ReplaceUIDTyped DEF CopyUID, CopyBlob, FreshUID
<1>4. ASSUME Sound(k)
      PROVE  Fits(CopyUID(r, k), CopyBlob(r, k))
  <2>1. Validate(k.vcard) /\ UIDInText(k)
    BY <1>4 DEF Sound
  <2>2. CASE SameBook(r)
    BY <1>3, <2>1, <2>2, ReplaceUIDFits DEF CopyUID, CopyBlob, FreshUID
  <2>3. CASE ~SameBook(r)
    BY <2>1, <2>3, Zenon DEF CopyUID, CopyBlob, Fits, UIDInText
  <2>4. QED
    BY <2>2, <2>3
<1>5. ASSUME NEW e \in loc[r].existing,
             Update(r, SetContent(e, CopyUID(r, k), CopyBlob(r, k)), b)
      PROVE  Outcome(r)
  <2>1. PICK row : row = SetContent(e, CopyUID(r, k), CopyBlob(r, k))
    OBVIOUS
  <2>2. row \in Contact /\ row.id = e.id /\ row.book = e.book
    BY <1>2, <1>3, <2>1, SetContentTyped
  <2>3. Spares(r, e) /\ Sourced(r, row)
    BY <1>2, <1>3, <1>4, <2>1, SetContentSound DEF Spares, Sourced
  <2>4. QED
    BY <1>2, <1>5, <2>1, <2>2, <2>3, UpdateOutcome
<1>6. CASE Create(r, NewContact(r, b, loc[r].call.dst.file,
                                CopyUID(r, k), CopyBlob(r, k)), b, 500)
  <2>1. PICK row : row = NewContact(r, b, loc[r].call.dst.file,
                                    CopyUID(r, k), CopyBlob(r, k))
    OBVIOUS
  <2>2. row \in Contact /\ row.id = r /\ row.book = b.id
    BY <1>2, <1>3, <2>1, NewContactTyped
  <2>3. Sourced(r, row)
    BY <1>2, <1>4, <2>1, NewContactSound DEF Sourced
  <2>4. QED
    BY <1>2, <1>6, <2>1, <2>2, <2>3, CreateOutcome
<1>7. QED
  BY <1>1, <1>5, <1>6

LEMMA MoveLookupOutcome ==
    ASSUME Before, NEW r \in Requests, MoveLookup(r)
    PROVE  Outcome(r)
<1>1. PICK b \in loc[r].ab :
         LET found == GetContactByFilename(b.id, loc[r].call.dst.file)
         IN  \/ ReplyStatus(r, 412)
             \/ /\ found = {} \/ loc[r].call.overwrite
                /\ \/ Continue(r, "update", [loc[r] EXCEPT !.existing = found])
                   \/ Continue(r, "clear", [loc[r] EXCEPT !.existing = found])
  BY DEF MoveLookup
<1>2. /\ pc[r] = "lookup" /\ loc[r].call.op = "MOVE" /\ UnchangedStore
      /\ b \in Target(loc[r])
  BY DEF MoveLookup, Target
<1>3. QED
  BY <1>1, <1>2, LookedUp, RefusedOutcome DEF Statuses

LEMMA GiveUpTyped ==
    ASSUME Before, NEW rs \in SUBSET Requests, GiveUp(rs)
    PROVE  dirty' = dirty /\ dirty' \subseteq Ids /\ lost' \subseteq Ids
  BY DEF GiveUp, Before, TypeOK

LEMMA MoveUpdateOutcome ==
    ASSUME Before, NEW r \in Requests, MoveUpdate(r)
    PROVE  Outcome(r)
<1>1. PICK b \in loc[r].ab, k \in loc[r].contact :
         \/ /\ UpdateContactErr([k EXCEPT !.file = loc[r].call.dst.file]) = "nil"
            /\ Update(r, [k EXCEPT !.file = loc[r].call.dst.file], b)
         \/ ReplyStatus(r, 500) /\ GiveUp({r}) /\ UNCHANGED <<tables, pragma>>
  BY DEF MoveUpdate
<1>2. /\ pc[r] = "update" /\ loc[r].call \in Call /\ loc[r].call.dst # Absent
      /\ loc[r].call.op = "MOVE" /\ b \in Target(loc[r])
      /\ k \in Contact /\ k \in Pointers(loc[r]) /\ k.book = b.id
  BY CallsAssumption DEF MoveUpdate, Before, TypeOK, FlowOK, FlowAt, Steps, Locals,
                         Pointers, Target
<1>3. CASE /\ UpdateContactErr([k EXCEPT !.file = loc[r].call.dst.file]) = "nil"
           /\ Update(r, [k EXCEPT !.file = loc[r].call.dst.file], b)
  <2>1. loc[r].call.dst.file \in Files
    BY <1>2 DEF Call
  <2>2. PICK row : row = [k EXCEPT !.file = loc[r].call.dst.file]
    OBVIOUS
  <2>3. /\ row \in Contact /\ row.id = k.id /\ row.book = k.book /\ row.uid = k.uid
        /\ row.etag = k.etag /\ row.vcard = k.vcard /\ row.fn = k.fn
    BY <1>2, <2>1, <2>2 DEF Contact
  <2>4. Spares(r, k) /\ Sourced(r, row)
    BY <1>2, <2>3, Zenon DEF Spares, Sourced, Sound, UIDInText
  <2>5. QED
    BY <1>2, <1>3, <2>2, <2>3, <2>4, UpdateOutcome
<1>4. CASE ReplyStatus(r, 500) /\ GiveUp({r}) /\ UNCHANGED <<tables, pragma>>
  BY <1>4, GiveUpTyped, StatusReplied DEF Outcome, Effect, Statuses
<1>5. QED
  BY <1>1, <1>3, <1>4

LEMMA SuccessStatusTyped ==
    \A l : SuccessStatus(l) \in Statuses
  BY DEF SuccessStatus, Statuses

LEMMA BumpOutcome ==
    ASSUME Before, NEW r \in Requests, Bump(r)
    PROVE  Outcome(r)
<1>1. PICK b \in Target(loc[r]) :
         /\ BumpSyncToken(b.id)
         /\ dirty' = dirty \ {b.id} /\ lost' = lost \ {b.id}
         /\ UNCHANGED pragma
  BY DEF Bump
<1>2. pc[r] = "bump" /\ pc'[r] = "done"
  BY DEF Bump, ReplyStatus, Reply, Before, TypeOK
<1>3. Replied(r)
  BY StatusReplied, SuccessStatusTyped DEF Bump
<1>4. Effect(r)
  BY <1>1, <1>2 DEF Effect
<1>5. QED
  BY <1>1, <1>3, <1>4 DEF Outcome, Before, TypeOK

LEMMA HomeSetPropfindOutcome ==
    ASSUME Before, NEW r \in Requests, HomeSetPropfind(r)
    PROVE  Outcome(r)
<1>1. PICK bs : /\ bs \subseteq books
                /\ Reply(r, [NoAnswer EXCEPT !.status = 207, !.books = bs])
  BY DEF HomeSetPropfind, ListAddressBooks
<1>2. 207 \in Statuses /\ bs \in SUBSET Book
  BY <1>1 DEF Statuses, Before, TypeOK, StoreTypeOK
<1>3. Replied(r)
  BY <1>1, <1>2, BooksReplied
<1>4. QED
  BY <1>3, ReadOutcome DEF HomeSetPropfind

LEMMA AddressBookMkcolOutcome ==
    ASSUME Before, NEW r \in Requests, AddressBookMkcol(r)
    PROVE  Outcome(r)
<1> DEFINE b == [id |-> FreshID(r), owner |-> loc[r].call.user,
                 name |-> loc[r].call.book, token |-> 0, ctag |-> AsText(0)]
<1>1. /\ pc[r] = "mkcol" /\ UNCHANGED <<history, pragma>>
      /\ \/ /\ CreateAddressBookErr(b) = "nil" /\ CreateAddressBook(b)
            /\ ReplyStatus(r, 201)
         \/ ReplyStatus(r, 405) /\ UNCHANGED tables
  BY DEF AddressBookMkcol
<1>2. b \in Book /\ b.id = r /\ b.token = 0 /\ b.ctag = AsText(0)
  <2>1. loc[r].call \in Call /\ loc[r].call.user \in Users /\ r \in Ids
    BY <1>1, CallsAssumption, RequestsAssumption DEF Before, FlowOK, FlowAt, Steps
  <2>2. loc[r].call.book \in BookNames
    BY <2>1 DEF Call
  <2>3. QED
    BY <2>1, <2>2 DEF Book, FreshID, AsText
<1> HIDE DEF b
<1>3. Replied(r)
  BY <1>1, StatusReplied DEF Statuses
<1>4. Effect(r)
  <2>1. CASE /\ CreateAddressBookErr(b) = "nil" /\ CreateAddressBook(b)
             /\ ReplyStatus(r, 201)
    <3>1. pc'[r] = "done"
      BY <2>1 DEF ReplyStatus, Reply, Before, TypeOK
    <3>2. QED
      BY <1>1, <1>2, <2>1, <3>1 DEF Effect, history
  <2>2. CASE UNCHANGED tables
    BY <1>1, <2>2 DEF Effect, Owes
  <2>3. QED
    BY <1>1, <2>1, <2>2
<1>5. QED
  BY <1>1, <1>3, <1>4 DEF Outcome, history, Before, TypeOK

LEMMA AddressBookDeleteOutcome ==
    ASSUME Before, NEW r \in Requests, AddressBookDelete(r)
    PROVE  Outcome(r)
<1>1. PICK b \in loc[r].ab :
         \/ /\ DeleteAddressBookErr(b.id) = "nil"
            /\ DeleteAddressBook(b.id) /\ ReplyStatus(r, 204)
            /\ dirty' = dirty \ {b.id} /\ lost' = lost \ {b.id}
            /\ UNCHANGED pragma
         \/ ReplyStatus(r, 500) /\ UnchangedStore
  BY DEF AddressBookDelete
<1>2. pc[r] = "rmbook"
  BY DEF AddressBookDelete
<1>3. CASE /\ DeleteAddressBookErr(b.id) = "nil"
           /\ DeleteAddressBook(b.id) /\ ReplyStatus(r, 204)
           /\ dirty' = dirty \ {b.id} /\ lost' = lost \ {b.id}
           /\ UNCHANGED pragma
  <2>1. pc'[r] = "done"
    BY <1>3 DEF ReplyStatus, Reply, Before, TypeOK
  <2>2. Effect(r)
    BY <1>2, <1>3, <2>1 DEF Effect
  <2>3. QED
    BY <1>3, <2>2, StatusReplied DEF Outcome, Statuses, Before, TypeOK
<1>4. CASE ReplyStatus(r, 500) /\ UnchangedStore
  BY <1>2, <1>4, RefusedOutcome DEF Statuses
<1>5. QED
  BY <1>1, <1>3, <1>4

LEMMA AddressBookPropfindOutcome ==
    ASSUME Before, NEW r \in Requests, AddressBookPropfind(r)
    PROVE  Outcome(r)
<1>1. PICK b \in loc[r].ab :
         \/ Reply(r, [status |-> 207, books |-> {b},
                      rows |-> ListContacts(b.id), listing |-> TRUE])
         \/ Reply(r, [NoAnswer EXCEPT !.status = 207, !.books = {b}])
  BY DEF AddressBookPropfind
<1>2. /\ UnchangedStore /\ b \in Book /\ ListContacts(b.id) \in SUBSET Contact
      /\ ListContacts(b.id) \subseteq contacts /\ pc[r] = "list"
  BY DEF AddressBookPropfind, Before, TypeOK, StoreTypeOK, Locals, ListContacts
<1>3. CASE Reply(r, [status |-> 207, books |-> {b},
                     rows |-> ListContacts(b.id), listing |-> TRUE])
  <2>1. PICK ans : ans = [status |-> 207, books |-> {b},
                          rows |-> ListContacts(b.id), listing |-> TRUE]
    OBVIOUS
  <2>2. ans \in Answers /\ Vouched(r, ans)
    BY <1>2, <2>1 DEF Answers, Statuses, Vouched, UnchangedStore
  <2>3. QED
    BY <1>2, <1>3, <2>1, <2>2, ReadOutcome DEF Replied
<1>4. CASE Reply(r, [NoAnswer EXCEPT !.status = 207, !.books = {b}])
  <2>1. 207 \in Statuses /\ {b} \in SUBSET Book
    BY <1>2 DEF Statuses
  <2>2. Replied(r)
    BY <1>4, <2>1, BooksReplied
  <2>3. QED
    BY <1>2, <2>2, ReadOutcome
<1>5. QED
  BY <1>1, <1>3, <1>4

LEMMA ReportAddressbookQueryOutcome ==
    ASSUME Before, NEW r \in Requests, ReportAddressbookQuery(r)
    PROVE  Outcome(r)
<1>1. PICK b \in loc[r].ab :
         ReplyRows(r, 207, SearchContacts(b.id, loc[r].call.filter))
  BY DEF ReportAddressbookQuery
<1>2. /\ SearchContacts(b.id, loc[r].call.filter) \in SUBSET Contact
      /\ SearchContacts(b.id, loc[r].call.filter) \subseteq contacts
  BY DEF SearchContacts, ListContacts, Before, TypeOK, StoreTypeOK
<1>3. Replied(r)
  BY <1>1, <1>2, RowsReplied DEF Statuses
<1>4. QED
  BY <1>3, ReadOutcome DEF ReportAddressbookQuery

LEMMA ReportAddressbookMultigetOutcome ==
    ASSUME Before, NEW r \in Requests, ReportAddressbookMultiget(r)
    PROVE  Outcome(r)
<1>1. /\ loc[r] \in Locals /\ FlowAt("multiget", loc[r]) /\ UnchangedStore
      /\ "multiget" \in Steps /\ pc[r] = "multiget"
  BY DEF Before, TypeOK, FlowOK, ReportAddressbookMultiget, Steps
<1>2. CASE loc[r].todo = <<>> /\ ReplyRows(r, 207, loc[r].found)
  <2>1. loc[r].found \in SUBSET Contact
    BY <1>1 DEF Locals
  <2>2. QED
    BY <1>1, <1>2, <2>1, RowsReplied, ReadOutcome DEF Statuses
<1>3. CASE loc[r].todo # <<>>
  <2>1. PICK b \in loc[r].ab :
           Continue(r, "multiget",
                    [loc[r] EXCEPT !.todo = Tail(loc[r].todo),
                                   !.found = loc[r].found \cup GetContactByFilename(
                                               b.id, Head(loc[r].todo))])
    BY <1>3 DEF ReportAddressbookMultiget
  <2>2. PICK rest, found : /\ rest = Tail(loc[r].todo)
                           /\ found = loc[r].found \cup GetContactByFilename(
                                               b.id, Head(loc[r].todo))
    OBVIOUS
  <2>3. rest \in Seq(Files \cup {Absent})
    <3>1. loc[r].todo \in Seq(Files \cup {Absent})
      BY <1>1 DEF Locals
    <3>2. QED
      BY <1>3, <2>2, <3>1
  <2>4. found \in SUBSET Contact /\ found \subseteq contacts \cup loc[r].found
    BY <1>1, <2>2, FoundContacts DEF Locals
  <2>5. PICK l : l = [loc[r] EXCEPT !.todo = rest, !.found = found]
    OBVIOUS
  <2>6. /\ l \in Locals /\ l.call = loc[r].call /\ l.ab = loc[r].ab
        /\ l.dstAB = loc[r].dstAB /\ l.contact = loc[r].contact
        /\ l.existing = loc[r].existing /\ l.found = found
    BY <1>1, <2>3, <2>4, <2>5 DEF Locals
  <2>7. FlowAt("multiget", l) /\ Held(r, l)
    BY <1>1, <2>4, <2>6 DEF FlowAt, Held, Steps, Target
  <2>8. Advanced(r)
    BY <1>1, <2>1, <2>2, <2>5, <2>6, <2>7 DEF Advanced, ReportAddressbookMultiget
  <2>9. QED
    BY <1>1, <2>8, ReadOutcome
<1>4. QED
  BY <1>2, <1>3 DEF ReportAddressbookMultiget

LEMMA StoreErrorOutcome ==
    ASSUME Before, NEW r \in Requests, StoreError(r)
    PROVE  Outcome(r)
<1>1. PICK s \in Statuses : ReplyStatus(r, s)
  BY SuccessStatusTyped DEF StoreError, Statuses
<1>2. UNCHANGED <<tables, pragma>> /\ GiveUp({r})
  BY DEF StoreError
<1>3. QED
  BY <1>1, <1>2, GiveUpTyped, StatusReplied DEF Outcome, Effect

LEMMA StepOutcome ==
    ASSUME Before, NEW r \in Requests, Arrive(r) \/ Step(r) \/ StoreError(r)
    PROVE  Outcome(r)
  BY ArriveOutcome, ResolveBookOutcome, ResolveContactOutcome,
     PutLookupOutcome, PutWriteOutcome, ContactDeleteOutcome,
     CopyResolveBookOutcome, CopyLookupOutcome, CopyWriteOutcome,
     MoveLookupOutcome, MoveDeleteOutcome, MoveUpdateOutcome, BumpOutcome,
     HomeSetPropfindOutcome, AddressBookMkcolOutcome, AddressBookDeleteOutcome,
     AddressBookPropfindOutcome, ReportAddressbookQueryOutcome,
     ReportAddressbookMultigetOutcome, StoreErrorOutcome
  DEF Step

-----------------------------------------------------------------------------
(* Types, local variables and the constraints of the schema *)

LEMMA NoLocalsFlow ==
    /\ NoLocals \in Locals
    /\ \A step \in {"idle", "done", "gone"} : FlowAt(step, NoLocals)
  BY DEF NoLocals, Locals, FlowAt, Steps

LEMMA NoAnswerTyped == NoAnswer \in Answers
  BY DEF NoAnswer, Answers

LEMMA BeforeInit == Init => Before
<1> SUFFICES ASSUME Init PROVE Before
  OBVIOUS
<1>1. StoreTypeOK
  <2>1. \A c \in Contact : IndexRow(c) \in FTSRow
    BY DEF IndexRow, FTSRow, Contact
  <2>2. QED
    BY <2>1, SeedAssumption DEF Init, StoreTypeOK
<1>2. TypeOK
  BY <1>1, NoLocalsFlow, NoAnswerTyped DEF Init, TypeOK
<1>3. FlowOK
  BY NoLocalsFlow DEF Init, FlowOK
<1>4. StoreIntegrity
  BY SeedAssumption DEF Init, StoreIntegrity
<1>5. QED
  BY <1>2, <1>3, <1>4 DEF Before

LEMMA OutcomeBefore ==
    ASSUME Before, NEW r \in Requests, Outcome(r)
    PROVE  Before'
<1>1. StoreOp
  BY EffectIsStoreOp DEF Outcome
<1>2. StoreTypeOK' /\ StoreIntegrity'
  <2>1. StoreTypeOK /\ StoreIntegrity /\ UNCHANGED pragma
    BY DEF Before, TypeOK, Outcome
  <2>2. QED
    BY <1>1, <2>1, StoreOpIntegrity
<1>3. PICK step \in Steps \cup {"done"}, l \in Locals, ans \in Answers :
         /\ FlowAt(step, l)
         /\ pc' = [pc EXCEPT ![r] = step] /\ loc' = [loc EXCEPT ![r] = l]
         /\ answer' = [answer EXCEPT ![r] = ans]
  <2>1. CASE Advanced(r)
    <3>1. answer[r] \in Answers /\ answer = [answer EXCEPT ![r] = answer[r]]
      BY DEF Before, TypeOK
    <3>2. QED
      BY <2>1, <3>1 DEF Advanced, Continue
  <2>2. CASE Replied(r)
    BY <2>2, NoLocalsFlow DEF Replied, Reply
  <2>3. QED
    BY <2>1, <2>2 DEF Outcome
<1>4. TypeOK'
  BY <1>2, <1>3 DEF Before, TypeOK, Outcome
<1>5. FlowOK'
  BY <1>3 DEF Before, TypeOK, FlowOK
<1>6. QED
  BY <1>2, <1>4, <1>5 DEF Before

LEMMA CrashBefore ==
    ASSUME Before, Crash
    PROVE  Before'
<1>1. /\ UNCHANGED tables /\ UNCHANGED answer /\ UNCHANGED dirty /\ lost' \subseteq Ids
      /\ enforced' = TRUE /\ loose' = loose
  BY GiveUpTyped DEF Crash, InFlight, SetPragma
<1>2. \A q \in Requests : pc'[q] \in {"idle", "done", "gone"} /\ loc'[q] = NoLocals
  BY DEF Crash, InFlight, Before, TypeOK
<1>3. /\ pc' \in [Requests -> Steps \cup {"idle", "done", "gone"}]
      /\ loc' \in [Requests -> Locals]
  BY NoLocalsFlow DEF Crash, Before, TypeOK
<1>4. TypeOK'
  BY <1>1, <1>3 DEF Before, TypeOK, StoreTypeOK, tables
<1>5. FlowOK'
  BY <1>2, NoLocalsFlow DEF FlowOK
<1>6. StoreIntegrity'
  BY <1>1 DEF Before, StoreIntegrity, tables
<1>7. QED
  BY <1>4, <1>5, <1>6 DEF Before

(* A new connection, or nothing. *)
LEMMA StutterBefore ==
    ASSUME Before, Reconnect \/ UNCHANGED vars
    PROVE  Before'
<1>1. /\ UNCHANGED tables /\ UNCHANGED <<pc, loc, answer, dirty, lost>>
      /\ UNCHANGED pragma \/ (enforced' = FALSE /\ loose' = TRUE)
  BY DEF vars, requestVars, history, Reconnect, LosePragma
<1>2. TypeOK'
  BY <1>1 DEF Before, TypeOK, StoreTypeOK, tables
<1>3. FlowOK'
  BY <1>1 DEF Before, FlowOK
<1>4. StoreIntegrity'
  BY <1>1 DEF Before, StoreIntegrity, tables
<1>5. QED
  BY <1>2, <1>3, <1>4 DEF Before

LEMMA BeforeNext == Before /\ [Next]_vars => Before'
<1> SUFFICES ASSUME Before, [Next]_vars PROVE Before'
  OBVIOUS
<1>1. ASSUME NEW r \in Requests, Arrive(r) \/ Step(r) \/ StoreError(r)
      PROVE  Before'
  BY <1>1, StepOutcome, OutcomeBefore
<1>2. CASE Crash
  BY <1>2, CrashBefore
<1>3. CASE Reconnect \/ UNCHANGED vars
  BY <1>3, StutterBefore
<1>4. QED
  BY <1>1, <1>2, <1>3 DEF Next, Quiet

(* Every variable keeps its type: rows, local variables and answers are    *)
(* well-formed in every interleaving of the handlers of contact.go,        *)
(* addressbook.go and report.go, with failures and crashes.                *)
THEOREM TypeCorrect == Spec => []TypeOK
<1>1. Before => TypeOK
  BY DEF Before
<1>2. QED
  BY BeforeInit, BeforeNext, <1>1, PTL DEF Spec

(* Whatever requests do with rows they read earlier, the UNIQUE constraints*)
(* of 0001_initial.sql hold for any number of requests, users, books and   *)
(* files; and so do its references until the connection that Open gave the *)
(* PRAGMA to is replaced (db.go:26-32).                                    *)
THEOREM IntegrityCorrect == Spec => []StoreIntegrity
<1>1. Before => StoreIntegrity
  BY DEF Before
<1>2. QED
  BY BeforeInit, BeforeNext, <1>1, PTL DEF Spec

=============================================================================
