------------------------------- MODULE Cards -------------------------------
(***************************************************************************)
(* One contact in the hands of clients that speak vCard 3.0 and clients    *)
(* that speak 4.0: what PUT makes of the text a client sends and what GET  *)
(* makes of the text that is stored (internal/handler/contact.go with      *)
(* internal/vcard).  Requests come one after the other here; how they      *)
(* interleave is the subject of DavHandlers, whose texts are the facts     *)
(* that module VCard keeps of a text.                                      *)
(*                                                                         *)
(* A client composes a contact, fetches it, sends back what it was given   *)
(* or an edited form of it, with If-Match.                                 *)
(***************************************************************************)
EXTENDS VCardLines, FiniteSets

CONSTANTS Clients, Dialect,  \* the version a client asks for and writes
          Bodies,            \* what a client of each dialect composes
          NewUIDs,           \* what vcard.NewUID may return
          Edited,            \* a line that a client of each dialect adds
          MaxEdits,          \* bound
          None               \* no contact, no copy, no If-Match

VARIABLES stored,   \* the column vcard, or None
          uid,      \* the column uid
          copy,     \* the text and ETag a client holds, or None
          answer,   \* the last answer to a PUT of each client
          edits,    \* how often the contact was edited
          meant,    \* history: the text that was composed, with the edits
          tripped   \* history: a 3.0 client has written it back since

vars == <<stored, uid, copy, answer, edits, meant, tripped>>

Init ==
    /\ stored = None
    /\ uid = Absent
    /\ copy = [c \in Clients |-> None]
    /\ answer = [c \in Clients |-> "none"]
    /\ edits = 0
    /\ meant = None
    /\ tripped = FALSE

-----------------------------------------------------------------------------
(* The text that PUT stores for a body, and the UID it stores with it.     *)

(* Mutant of Normalised: the UID is looked for before the conversion, in   *)
(* the text that is not stored.                                            *)
NormalisedLate(body, new) ==
    IF ExtractProp(body, "UID") = Absent THEN ReplaceUID(body, new) ELSE ToV4(body)

Normalised(body, new) ==
    IF ExtractProp(ToV4(body), "UID") = Absent THEN ReplaceUID(ToV4(body), new)
                                               ELSE ToV4(body)

PutUID(body, new) == IF ExtractProp(ToV4(body), "UID") = Absent THEN new
                     ELSE ExtractProp(ToV4(body), "UID")

Rejection(body) ==
    IF ~ Validate(body) THEN "unprocessable"
    ELSE IF ~ ValidatePhotoSize(body) THEN "too large"
    ELSE "none"

(* PUT of a body with If-Match, unless "etag" is None, up to its answer. *)
Put(c, body, etag) ==
    \/ /\ Rejection(body) # "none"
       /\ answer' = [answer EXCEPT ![c] = Rejection(body)]
       /\ UNCHANGED <<stored, uid>>
    \/ /\ Rejection(body) = "none"
       /\ stored # None /\ etag \notin {None, stored}
       /\ answer' = [answer EXCEPT ![c] = "precondition failed"]
       /\ UNCHANGED <<stored, uid>>
    \/ /\ Rejection(body) = "none"
       /\ stored = None \/ etag \in {None, stored}
       /\ \E new \in NewUIDs \ {uid} : /\ stored' = Normalised(body, new)
                                       /\ uid' = PutUID(body, new)
       /\ answer' = [answer EXCEPT ![c] = "stored"]

(* A client makes the contact. *)
Compose(c) ==
    /\ stored = None
    /\ \E body \in Bodies[Dialect[c]] :
          /\ Put(c, body, None)
          /\ meant' = IF answer'[c] = "stored" THEN body ELSE None
    /\ UNCHANGED <<copy, edits, tripped>>

(* The text that GET answers: 3.0 when Accept asks for it. *)
Text(c) == IF Dialect[c] = "3.0" THEN ToV3(stored) ELSE stored

(* Mutant of Served: the ETag is that of the text that is sent. *)
ServedETagOfText(c) == [text |-> Text(c), etag |-> Text(c)]

(* The ETag is the hash of the stored text, which stands for it here. *)
Served(c) == [text |-> Text(c), etag |-> stored]

Get(c) ==
    /\ stored # None
    /\ copy' = [copy EXCEPT ![c] = Served(c)]
    /\ UNCHANGED <<stored, uid, answer, edits, meant, tripped>>

(* What a client sends is forgotten: it fetches again. *)
WriteBack(c) ==
    /\ copy[c] # None
    /\ Put(c, copy[c].text, copy[c].etag)
    /\ copy' = [copy EXCEPT ![c] = None]
    /\ tripped' = (tripped \/ (answer'[c] = "stored" /\ Dialect[c] = "3.0"))
    /\ UNCHANGED <<edits, meant>>

Added(c, text) == InsertAt(text, 2, Edited[Dialect[c]])

(* A client adds a line of its dialect after the first one of the text. *)
Edit(c) ==
    /\ copy[c] # None
    /\ edits < MaxEdits
    /\ Put(c, Added(c, copy[c].text), copy[c].etag)
    /\ meant' = IF answer'[c] = "stored" THEN Added(c, meant) ELSE meant
    /\ copy' = [copy EXCEPT ![c] = None]
    /\ edits' = edits + 1
    /\ tripped' = (tripped /\ answer'[c] # "stored")

Next == \E c \in Clients : Compose(c) \/ Get(c) \/ WriteBack(c) \/ Edit(c)

Spec == Init /\ [][Next]_vars

-----------------------------------------------------------------------------
(* What a text says, in whichever dialect *)

(* An address with the set of its types; INTERNET says nothing. *)
Meaning(email) ==
    [name |-> email.name, address |-> email.value,
     types |-> (UNION {{w.word : w \in ToSet(p.types)} :
                          p \in {q \in ToSet(email.params) : IsTypes(q)}})
               \ {"INTERNET"},
     others |-> {p \in ToSet(email.params) : ~ IsTypes(p)}]

(* An image with its kind, as far as the code knows kinds. *)
Image(photo) == [name |-> photo.name, data |-> photo.data, base64 |-> photo.base64,
                 kind |-> IF photo.kind \in {"png", "gif"} THEN photo.kind ELSE "other"]

(* A data URI of which convertPhotoToV3 keeps a part, or that is not base64*)
(* and is called so.                                                       *)
Misread(line) == line.splits /\ (~ line.base64 \/ line.cut # line.data)

(* A property whose name only begins with PHOTO and becomes PHOTO. *)
Renamed(line) == line.name # "PHOTO" /\ (line.form = "b" \/ line.splits)

Kept(photo, as) ==
    \/ Misread(as) \/ Renamed(as)
    \/ ~ Misread(photo) /\ ~ Renamed(photo) /\ Image(photo) = Image(as)

Rewritable == {"VERSION", "PROFILE", "UID", ""} \cup EmailNames \cup PhotoNames

But(text, names) == Without(text, {line \in ToSet(text) : line.name \in names})

Named(text, names) == Without(text, {line \in ToSet(text) : line.name \notin names})

Photos(text) == Named(text, PhotoNames)

Says(text) == [emails |-> Each(Named(text, EmailNames), Meaning),
               others |-> But(text, Rewritable)]

PhotosKept(text, as) ==
    /\ Len(Photos(text)) = Len(Photos(as))
    /\ \A i \in DOMAIN Photos(as) : Kept(Photos(text)[i], Photos(as)[i])

(* Every address has INTERNET, types are in capitals, no photo is a data   *)
(* URI, but for one that convertPhotoToV3 cannot split.                    *)
PureV3(line) ==
    /\ line.name \in EmailNames =>
          LET words == UNION {ToSet(p.types) : p \in {q \in ToSet(line.params) : IsTypes(q)}}
          IN  Internet \in words /\ \A w \in words : w.upper
    /\ line.name \in PhotoNames => ~ line.splits

(* No profile or blank line, no INTERNET or capitals in the types of an    *)
(* address, no photo with ENCODING=b.                                      *)
PureV4(line) ==
    /\ line # Profile /\ line # Blank
    /\ line.name \in EmailNames => \A p \in ToSet(line.params) :
          IsTypes(p) => p.types # <<>> /\ \A w \in ToSet(p.types) : ~ IsInternet(w) /\ ~ w.upper
    /\ line.name \in PhotoNames => line.form # "b"

AnyMisread(text) == \E line \in ToSet(text) : line.name \in PhotoNames /\ Misread(line)

(* The facts of module VCard. *)
V == INSTANCE VCard WITH Names <- STRING \ {Absent}, UIDs <- STRING \ {Absent}

Facts(text) ==
    [version |-> ExtractProp(text, "VERSION"),
     exact |-> Find(text, "VERSION") # 0 /\ text[Find(text, "VERSION")].exact,
     fn |-> ExtractProp(text, "FN"),
     hasN |-> ExtractProp(text, "N") # Absent,
     uid |-> ExtractProp(text, "UID"),
     anchored |-> Find(text, "UID") # 0 \/ Find(text, "END") # 0,
     bigPhoto |-> ~ ValidatePhotoSize(text)]

(* Clients write any lines after BEGIN:VCARD, and add an address in their  *)
(* own dialect.                                                            *)
ASSUME CardsAssumption ==
    /\ Dialect \in [Clients -> {"3.0", "4.0"}]
    /\ \A v \in {"3.0", "4.0"} :
          /\ \A body \in Bodies[v] : body \in Seq(Line) /\ Len(body) > 0
                                    /\ body[1] = [name |-> "BEGIN"]
          /\ Edited[v] \in EmailLine
    /\ PureV4(Edited["4.0"])
    /\ Absent \in STRING /\ NewUIDs \subseteq STRING \ {Absent}
    /\ None \notin Seq(Line)
    /\ MaxEdits \in Nat

-----------------------------------------------------------------------------
(* Through any number of conversions and edits by clients of both dialects *)
(* the stored text says what its authors meant: every address with its     *)
(* types, every image with its kind when that is PNG or GIF, and all other *)
(* lines as they were written, in the order they were written.  A stale    *)
(* copy never undoes an edit (contact.go:124, 145-151, convert.go).  Of an *)
(* image that convertPhotoToV3 misreads only the place is kept - a 3.0     *)
(* client may store a part of it, or call it base64 - and so of a property *)
(* whose name only begins with PHOTO, which a conversion makes a PHOTO     *)
(* (convert.go:59, 75, 183, 187-214).                                      *)
MeaningKept == stored # None => Says(stored) = Says(meant) /\ PhotosKept(stored, meant)

(* The text comes to rest: a 4.0 client that writes back what it was given *)
(* changes nothing, a 3.0 client at most once.  From then on the ETag      *)
(* stays, and clients that poll have nothing to fetch.  The UID stays too, *)
(* but for a text that has no place for one.                               *)
Settles == [][\A c \in Clients :
    WriteBack(c) /\ (tripped \/ Dialect[c] = "4.0") =>
        /\ stored' = stored
        /\ uid' = uid \/ ExtractProp(stored, "UID") = Absent]_vars

(* With an exact VERSION line, what is stored is 4.0 and what a 3.0 client *)
(* is given is 3.0 in its VERSION, addresses and photos; of a text composed*)
(* as 3.0 the addresses and photos that are stored are 4.0, and no PROFILE *)
(* is (convert.go:8-29, 31-50).  Two things are excepted, for the code does*)
(* them otherwise: a data URI that cannot be split stays one for 3.0       *)
(* (convert.go:194-204), and a line of another name is passed on whatever  *)
(* it says, 3.0 syntax in item1.EMAIL or LOGO;ENCODING=b too.              *)
DialectsPure == stored # None /\ Facts(stored).exact =>
    /\ ExtractProp(stored, "VERSION") = "4.0"
    /\ ExtractProp(ToV3(stored), "VERSION") = "3.0"
    /\ \A line \in ToSet(ToV3(stored)) : PureV3(line)
    /\ ExtractProp(meant, "VERSION") = "3.0" => \A line \in ToSet(stored) : PureV4(line)

(* The facts that DavHandlers keeps of a text are right: after any number  *)
(* of conversions, edits and PUTs they are what the operators of VCard     *)
(* make of the text that was composed (contact.go:123-133).                *)
FactsAgree == stored # None =>
    LET put == V!ToV4(Facts(meant)) IN
    /\ Facts(stored) = IF put.uid = Absent THEN V!ReplaceUID(put, uid) ELSE put
    /\ ~ AnyMisread(stored) => Facts(ToV3(stored)) = V!ToV3(Facts(stored))

(* A client that writes back what it would be given now is not refused;    *)
(* two kinds of text are the exception for 3.0 clients: one without N,     *)
(* which 4.0 does not ask for, and one with a large data URI that the      *)
(* conversion takes for base64 or cuts (vcard.go:36, convert.go:187-214).  *)
FreshAccepted == [][\A c \in Clients :
    WriteBack(c) /\ stored # None /\ copy[c] = Served(c) =>
        \/ answer'[c] = "stored"
        \/ Dialect[c] = "3.0" /\ answer'[c] = "unprocessable" /\ ~ Facts(stored).hasN
        \/ Dialect[c] = "3.0" /\ answer'[c] = "too large" /\ AnyMisread(stored)]_vars
=============================================================================
