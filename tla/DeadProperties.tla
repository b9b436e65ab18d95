--------------------------- MODULE DeadProperties ---------------------------
(***************************************************************************)
(* WebDAV properties: PROPPATCH, which stores the properties clients make  *)
(* up ("dead" ones), and PROPFIND of a contact or a book, which answers    *)
(* with the dead ones and those the server computes ("live" ones).         *)
(*                                                                         *)
(* A PROPPATCH is a loop of single store operations without a transaction, *)
(* and an explicit PROPFIND asks the store once per name, so requests      *)
(* interleave inside both loops, and both may stop half way.               *)
(***************************************************************************)
EXTENDS Integers, Sequences

CONSTANTS Requests,    \* requests the server ever gets; each runs once
          Calls,       \* what a request may ask for
          Contacts,    \* paths of contacts
          Books,       \* paths of address books
          Names,       \* property names
          Values,
          Absent,      \* no row, no value
          Seed         \* the rows an earlier run of the server left

VARIABLES properties,  \* the properties table: path, name -> value
          pc,          \* the store operation a request is about to do
          call,        \* what it asks for
          at,          \* its place in the loop over instructions or names
          part,        \* what its PROPFIND has gathered so far
          answer,      \* the response it gave
          before,      \* history: the rows of its path when it arrived
          alone        \* history: nobody else wrote to its path since

local == <<pc, call, at, part, answer>>
history == <<before, alone>>
vars == <<properties, local, history>>

-----------------------------------------------------------------------------
(* Names and requests *)

Resources == Contacts \cup Books
Property == [ns : {"DAV:", "carddav", "other"}, local : STRING]

(* What xml.Unmarshal makes of a body: the elements of all <set> and those *)
(* of all <remove>, apart; "want" tells allprop, propname and prop.        *)
Instruction == [remove : BOOLEAN, name : Names, value : Values \cup {Absent}]
Sets == {i \in Instruction : ~i.remove /\ i.value # Absent}
Removes == {i \in Instruction : i.remove}

Call == [op : {"PROPPATCH", "PROPFIND"}, path : Resources,
         wellFormed : BOOLEAN, sets : Seq(Sets), removes : Seq(Removes),
         want : {"allprop", "propname", "prop"}, names : Seq(Names)]

Answers == [status : {0, 207, 400, 403, 404, 500}, ok : SUBSET Names,
            shown : SUBSET (Names \X Values), missing : SUBSET Names]

NoAnswer == [status |-> 0, ok |-> {}, shown |-> {}, missing |-> {}]

Rows == [Names -> Values \cup {Absent}]

ASSUME NamesAssumption == Names \subseteq Property
ASSUME ValuesAssumption == Absent \notin Values
ASSUME PathsAssumption == Contacts \cap Books = {}
ASSUME CallsAssumption == Calls \subseteq Call /\ Absent \notin Calls
ASSUME SeedAssumption ==
    /\ Seed \in [Resources -> Rows]
    /\ \A p \in Resources : \A n \in Names : n.ns = "DAV:" => Seed[p][n] = Absent

DAV(locals) == {[ns |-> "DAV:", local |-> l] : l \in locals}
CardDAV(locals) == {[ns |-> "carddav", local |-> l] : l \in locals}

ContactLive == DAV({"resourcetype", "getetag", "getcontenttype",
                    "getcontentlength", "getlastmodified", "displayname"})

BookLive == DAV({"resourcetype", "displayname", "sync-token",
                 "getlastmodified", "supported-report-set"})
            \cup CardDAV({"addressbook-description", "supported-address-data"})

(* Mutant of LiveProps: a name that buildContactProps has and the map lacks. *)
LivePropsNoDisplayName == DAV({"resourcetype", "getetag", "getcontenttype",
                               "getcontentlength", "getlastmodified"})

(* The names deadPropertyPropstats leaves to buildContactProps. *)
LiveProps == DAV({"resourcetype", "getetag", "getcontenttype",
                  "getcontentlength", "getlastmodified", "displayname"})

(* Mutant of ParsePropPatch: removals first. *)
RemovesFirst(c) == c.removes \o c.sets

ParsePropPatch(c) == c.sets \o c.removes

RequestedProps(c) ==
    IF c.want = "prop" THEN {c.names[i] : i \in DOMAIN c.names} ELSE {}

(* buildPropResponse: the 200 and the 404 part for the live properties. *)
Hit(c, live) ==
    IF c.want = "allprop" THEN live \cap Names ELSE live \cap RequestedProps(c)
Miss(c, live) == RequestedProps(c) \ live

InFlight == {r \in Requests : pc[r] \in {"patch", "list", "get"}}

-----------------------------------------------------------------------------
(* Moving a request along *)

Continue(r, step, i) == /\ pc' = [pc EXCEPT ![r] = step]
                        /\ at' = [at EXCEPT ![r] = i]
                        /\ UNCHANGED answer

Reply(r, ans) == /\ pc' = [pc EXCEPT ![r] = "done"]
                 /\ answer' = [answer EXCEPT ![r] = ans]
                 /\ UNCHANGED at

ReplyStatus(r, s) == Reply(r, [NoAnswer EXCEPT !.status = s])

(* Mutant of PatchFrom: no instruction is refused. *)
PatchFromUnchecked(r, c, i) ==
    \/ i > Len(ParsePropPatch(c)) /\ ReplyStatus(r, 207)
    \/ i <= Len(ParsePropPatch(c)) /\ Continue(r, "patch", i)

(* The loop of PropPatchHandler, from instruction i to its store operation. *)
PatchFrom(r, c, i) ==
    LET ops == ParsePropPatch(c)
    IN  \/ i > Len(ops) /\ ReplyStatus(r, 207)
        \/ i <= Len(ops) /\ ops[i].name.ns = "DAV:" /\ ReplyStatus(r, 403)
        \/ i <= Len(ops) /\ ops[i].name.ns # "DAV:" /\ Continue(r, "patch", i)

(* The answer of ContactPropfind, with the dead properties d. *)
ContactAnswer(c, d) ==
    [status |-> 207, ok |-> Hit(c, ContactLive), shown |-> d.shown,
     missing |-> Miss(c, ContactLive) \cup d.missing]

(* The loop of deadPropertyPropstats, from name i to the next query. *)
LookUpFrom(r, c, i, d) ==
    \E j \in i .. Len(c.names) + 1 :
        /\ \A k \in i .. j - 1 : c.names[k] \in LiveProps
        /\ \/ j > Len(c.names) /\ Reply(r, ContactAnswer(c, d))
           \/ /\ j <= Len(c.names) /\ c.names[j] \notin LiveProps
              /\ Continue(r, "get", j)

Nothing == [shown |-> {}, missing |-> {}]

-----------------------------------------------------------------------------
(* The handlers *)

(* Arrivals: the request is parsed and goes as far as its first operation  *)
(* on the properties table.                                                *)
Arrive(r, c) ==
    /\ pc[r] = "idle"
    /\ call' = [call EXCEPT ![r] = c]
    /\ before' = [before EXCEPT ![r] = properties[c.path]]
    /\ UNCHANGED <<properties, part, alone>>

PropPatch(r) == \E c \in Calls :
    /\ c.op = "PROPPATCH"
    /\ Arrive(r, c)
    /\ \/ ~c.wellFormed /\ ReplyStatus(r, 400)
       \/ c.wellFormed /\ PatchFrom(r, c, 1)

(* The checks and the look-up of the contact may end it (DavHandlers says  *)
(* when they do).                                                          *)
ContactPropfind(r) == \E c \in Calls :
    /\ c.op = "PROPFIND" /\ c.path \in Contacts
    /\ Arrive(r, c)
    /\ \/ \E s \in {403, 404, 500} : ReplyStatus(r, s)
       \/ ~c.wellFormed /\ ReplyStatus(r, 400)
       \/ c.wellFormed /\ c.want # "prop" /\ Continue(r, "list", 1)
       \/ c.wellFormed /\ c.want = "prop" /\ LookUpFrom(r, c, 1, Nothing)

(* A book shows its live properties only. *)
BookAnswer(c) == [status |-> 207, ok |-> Hit(c, BookLive), shown |-> {},
                  missing |-> Miss(c, BookLive)]

AddressBookPropfind(r) == \E c \in Calls :
    /\ c.op = "PROPFIND" /\ c.path \in Books
    /\ Arrive(r, c)
    /\ \/ \E s \in {403, 404, 500} : ReplyStatus(r, s)
       \/ ~c.wellFormed /\ ReplyStatus(r, 400)
       \/ c.wellFormed /\ Reply(r, BookAnswer(c))

(* Mutant of Stored: the properties of a path are replaced as a whole. *)
StoredAlone(path, name, value) ==
    [properties EXCEPT ![path] =
        [n \in Names |-> IF n = name THEN value ELSE Absent]]

(* SetProperty is an upsert of one row; DeleteProperty of no row is nil. *)
Stored(path, name, value) == [properties EXCEPT ![path][name] = value]

PatchOp(r) ==
    LET c == call[r]
        op == ParsePropPatch(c)[at[r]]
    IN  /\ pc[r] = "patch"
        /\ properties' = Stored(c.path, op.name,
                                IF op.remove THEN Absent ELSE op.value)
        /\ PatchFrom(r, c, at[r] + 1)
        /\ alone' = [q \in Requests |->
                         alone[q] /\ (q = r \/ q \notin InFlight
                                            \/ call[q].path # c.path)]
        /\ UNCHANGED <<call, part, before>>

(* One query returns every row of the path. *)
ListProperties(path) ==
    {<<n, properties[path][n]>> : n \in {m \in Names : properties[path][m] # Absent}}

ListDead(r) ==
    /\ pc[r] = "list"
    /\ Reply(r, ContactAnswer(call[r],
                    [shown |-> ListProperties(call[r].path), missing |-> {}]))
    /\ UNCHANGED <<properties, call, part, history>>

(* Mutant of GetProperty: the WHERE clause forgets the resource. *)
GetPropertyAnywhere(path, name) ==
    IF \E p \in Resources : properties[p][name] # Absent
    THEN properties[CHOOSE p \in Resources : properties[p][name] # Absent][name]
    ELSE Absent

GetProperty(path, name) == properties[path][name]

LookUp(d, path, name) ==
    IF GetProperty(path, name) = Absent
    THEN [d EXCEPT !.missing = @ \cup {name}]
    ELSE [d EXCEPT !.shown = @ \cup {<<name, GetProperty(path, name)>>}]

GetDead(r) ==
    LET c == call[r]
    IN  /\ pc[r] = "get"
        /\ part' = [part EXCEPT ![r] = LookUp(@, c.path, c.names[at[r]])]
        /\ LookUpFrom(r, c, at[r] + 1, part'[r])
        /\ UNCHANGED <<properties, call, history>>

(* The store operation fails without effect: the earlier ones stay. *)
StoreError(r) ==
    /\ r \in InFlight
    /\ ReplyStatus(r, 500)
    /\ UNCHANGED <<properties, call, part, history>>

(* The process stops: the requests in flight vanish, the table stays. *)
Crash ==
    /\ InFlight # {}
    /\ pc' = [r \in Requests |-> IF r \in InFlight THEN "gone" ELSE pc[r]]
    /\ UNCHANGED <<properties, call, at, part, answer, history>>

-----------------------------------------------------------------------------

Init == /\ properties = Seed
        /\ pc = [r \in Requests |-> "idle"]
        /\ call = [r \in Requests |-> Absent]
        /\ at = [r \in Requests |-> 1]
        /\ part = [r \in Requests |-> Nothing]
        /\ answer = [r \in Requests |-> NoAnswer]
        /\ before = [r \in Requests |-> [n \in Names |-> Absent]]
        /\ alone = [r \in Requests |-> TRUE]

Step(r) == \/ PropPatch(r) \/ ContactPropfind(r) \/ AddressBookPropfind(r)
           \/ PatchOp(r) \/ ListDead(r) \/ GetDead(r) \/ StoreError(r)

(* All requests of the instance have been dealt with; the server waits. *)
Quiet == /\ \A r \in Requests : pc[r] \in {"done", "gone"}
         /\ UNCHANGED vars

Next == \/ \E r \in Requests : Step(r)
        \/ Crash
        \/ Quiet

Spec == Init /\ [][Next]_vars

-----------------------------------------------------------------------------
(* Properties *)

(* Every variable keeps its type; the place in a loop stays inside it. *)
TypeOK ==
    /\ properties \in [Resources -> Rows]
    /\ pc \in [Requests -> {"idle", "patch", "list", "get", "done", "gone"}]
    /\ call \in [Requests -> Calls \cup {Absent}]
    /\ at \in [Requests -> Nat \ {0}]
    /\ part \in [Requests -> [shown : SUBSET (Names \X Values),
                              missing : SUBSET Names]]
    /\ answer \in [Requests -> Answers]
    /\ before \in [Requests -> Rows]
    /\ alone \in [Requests -> BOOLEAN]
    /\ \A r \in Requests : (pc[r] = "idle") <=> (call[r] = Absent)
    /\ \A r \in Requests : pc[r] = "patch" => at[r] \in DOMAIN ParsePropPatch(call[r])
    /\ \A r \in Requests : pc[r] = "get" => at[r] \in DOMAIN call[r].names

(* proppatch.go:13: a DAV: property is never stored, wherever in a body it *)
(* stands and however far the other instructions of the body got.          *)
OnlyDeadStored ==
    \A p \in Resources : \A n \in Names :
        n.ns = "DAV:" => properties[p][n] = Absent

InstructionsOf(r, p) ==
    IF call[r] # Absent /\ call[r].op = "PROPPATCH" /\ call[r].path = p
    THEN {ParsePropPatch(call[r])[i] : i \in DOMAIN ParsePropPatch(call[r])}
    ELSE {}

(* Two clients that set different properties of one path never undo each   *)
(* other: what a 207 acknowledged is stored (perhaps with a newer value)   *)
(* until some request removes that very property.                          *)
SetSurvives ==
    \A r \in Requests : answer[r].status = 207 =>
        \A p \in Resources : \A op \in InstructionsOf(r, p) :
            \/ properties[p][op.name] # Absent
            \/ \E q \in Requests : \E other \in InstructionsOf(q, p) :
                   other.remove /\ other.name = op.name

(* What a PROPFIND shows was set on that very path, by a client or by an   *)
(* earlier run.                                                            *)
ShownWasSet ==
    \A r \in Requests : \A pair \in answer[r].shown :
        \/ Seed[call[r].path][pair[1]] = pair[2]
        \/ \E q \in Requests : \E op \in InstructionsOf(q, call[r].path) :
               op.name = pair[1] /\ op.value = pair[2]

(* A client that asks a contact for names hears about each of them, and    *)
(* about a live one exactly once: the two lists of live properties, in     *)
(* buildContactProps and in deadPropertyPropstats, are the same.           *)
EveryNameAnswered ==
    \A r \in Requests :
        LET a == answer[r]
            dead == {pair[1] : pair \in a.shown} \cup a.missing
        IN  (a.status = 207 /\ call[r].op = "PROPFIND" /\ call[r].want = "prop")
            => /\ a.ok \cup dead = RequestedProps(call[r])
               /\ a.ok \cap dead = {}

(* The rows that a body leaves on a path: a removal beats a set wherever   *)
(* it stands, the last set of a name wins, other names keep their row.     *)
Reference(c, rows) ==
    [n \in Names |->
        LET places == {i \in DOMAIN c.sets : c.sets[i].name = n}
            last == CHOOSE i \in places : \A j \in places : j <= i
        IN  IF \E i \in DOMAIN c.removes : c.removes[i].name = n THEN Absent
            ELSE IF places # {} THEN c.sets[last].value ELSE rows[n]]

(* A PROPPATCH that nobody interfered with and that answers 207 has done   *)
(* the whole of its body: the loop of single operations adds up to it.     *)
PatchApplied ==
    [][\A r \in Requests :
          (answer'[r].status = 207 /\ answer[r].status = 0 /\ alone'[r]
              /\ call'[r].op = "PROPPATCH")
          => properties'[call'[r].path] = Reference(call'[r], before'[r])]_vars

-----------------------------------------------------------------------------
(* The inductive invariant *)

(* A request about to patch has a dead property before it, and a request   *)
(* that is not done has not answered.                                      *)
Ready ==
    /\ \A r \in Requests : pc[r] = "patch" =>
          /\ call[r].op = "PROPPATCH"
          /\ ParsePropPatch(call[r])[at[r]].name.ns # "DAV:"
    /\ \A r \in Requests : pc[r] \in {"list", "get"} => call[r].op = "PROPFIND"
    /\ \A r \in Requests : pc[r] # "done" => answer[r] = NoAnswer
    /\ \A r \in Requests : pc[r] = "idle" => part[r] = Nothing

Removed(p, n) == \E q \in Requests : \E op \in InstructionsOf(q, p) :
                     op.remove /\ op.name = n

(* The instructions a request has been through. *)
Past(r) == {i \in DOMAIN ParsePropPatch(call[r]) :
               (pc[r] = "patch" /\ i < at[r]) \/ answer[r].status = 207}

(* What a request has set is stored, unless somebody removes that name. *)
SetsSoFar ==
    \A r \in Requests : (call[r] # Absent /\ call[r].op = "PROPPATCH") =>
        \A i \in Past(r) :
            LET n == ParsePropPatch(call[r])[i].name
            IN  properties[call[r].path][n] # Absent \/ Removed(call[r].path, n)

WasSet(p, n, v) ==
    \/ Seed[p][n] = v
    \/ \E q \in Requests : \E op \in InstructionsOf(q, p) :
           op.name = n /\ op.value = v

(* What is stored was set, and so was what a request has read of it. *)
OnlyWhatWasSet ==
    /\ \A p \in Resources : \A n \in Names :
          properties[p][n] # Absent => WasSet(p, n, properties[p][n])
    /\ \A r \in Requests : \A pair \in part[r].shown \cup answer[r].shown :
          WasSet(call[r].path, pair[1], pair[2])

(* The part that is about rows *)
Inv == TypeOK /\ OnlyDeadStored /\ Ready /\ SetsSoFar /\ OnlyWhatWasSet

ClearedOr(op) == IF op.remove THEN Absent ELSE op.value

(* v is what the instructions before i leave of the row of n. *)
Written(c, rows, i, n, v) ==
    LET on == {j \in DOMAIN ParsePropPatch(c) : j < i /\ ParsePropPatch(c)[j].name = n}
    IN  \/ on = {} /\ v = rows[n]
        \/ \E j \in on : (\A k \in on : k <= j) /\ v = ClearedOr(ParsePropPatch(c)[j])

(* Left alone, a PROPPATCH has written what it has been through. *)
PatchedSoFar == \A r \in Requests : (pc[r] = "patch" /\ alone[r]) =>
    \A n \in Names : Written(call[r], before[r], at[r], n, properties[call[r].path][n])

(* The names that a look-up has heard about *)
HeardOf(d) == {pair[1] : pair \in d.shown} \cup d.missing

DeadBefore(c, i) ==
    {c.names[k] : k \in {j \in DOMAIN c.names : j < i /\ c.names[j] \notin LiveProps}}

(* An explicit PROPFIND has looked up the dead names that it has been      *)
(* through, and is about to look up another.                               *)
HeardSoFar == \A r \in Requests :
    /\ pc[r] = "list" => call[r].want # "prop"
    /\ pc[r] = "get" => /\ HeardOf(part[r]) = DeadBefore(call[r], at[r])
                        /\ call[r].names[at[r]] \notin LiveProps
                        /\ call[r].want = "prop" /\ call[r].op = "PROPFIND"

(* The inductive invariant of the handlers of properties: it says of each  *)
(* request how far it is in its loop, what that left in the table and what *)
(* it has heard of it (proppatch.go:36-69, contact.go:554-592).            *)
IInv == Inv /\ PatchedSoFar /\ HeardSoFar /\ EveryNameAnswered
=============================================================================
