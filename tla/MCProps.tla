------------------------------ MODULE MCProps ------------------------------
(***************************************************************************)
(* Small instances of DeadProperties for TLC: two contacts, one book, two  *)
(* dead properties and live ones of both namespaces.                       *)
(***************************************************************************)
EXTENDS DeadProperties, TLC

Color == [ns |-> "other", local |-> "color"]
Note == [ns |-> "other", local |-> "note"]
DisplayName == [ns |-> "DAV:", local |-> "displayname"]
SyncToken == [ns |-> "DAV:", local |-> "sync-token"]
Description == [ns |-> "carddav", local |-> "addressbook-description"]

MCNames == {Color, Note, DisplayName, SyncToken, Description}
MCValues == {"blue", "red"}
MCContacts == {"/home/a", "/home/b"}
MCBooks == {"/home/"}
MCSeed == [p \in MCContacts \cup MCBooks |->
              [n \in MCNames |-> IF p = "/home/b" /\ n = Color THEN "red" ELSE Absent]]

Set(name, value) == [remove |-> FALSE, name |-> name, value |-> value]
Remove(name) == [remove |-> TRUE, name |-> name, value |-> Absent]

Patch(path, sets, removes) ==
    [op |-> "PROPPATCH", path |-> path, wellFormed |-> TRUE, sets |-> sets,
     removes |-> removes, want |-> "prop", names |-> <<>>]
Find(path, want, names) ==
    [op |-> "PROPFIND", path |-> path, wellFormed |-> TRUE, sets |-> <<>>,
     removes |-> <<>>, want |-> want, names |-> names]
Broken(c) == [c EXCEPT !.wellFormed = FALSE]

(* All runs: bodies that set twice, set and remove, set a DAV: property *)
(* in the middle, and every kind of question.                              *)
PropCalls ==
    {Patch("/home/a", <<Set(Color, "blue"), Set(Note, "red")>>, <<>>),
     Patch("/home/a", <<Set(Color, "red"), Set(Color, "blue")>>, <<>>),
     Patch("/home/a", <<Set(Color, "red"), Set(Note, "red")>>, <<Remove(Color)>>),
     Patch("/home/a", <<Set(Note, "blue"), Set(DisplayName, "red")>>, <<Remove(Color)>>),
     Patch("/home/a", <<>>, <<Remove(Note)>>),
     Patch("/home/", <<Set(Color, "red"), Set(Description, "red")>>, <<>>),
     Broken(Patch("/home/a", <<>>, <<>>)),
     Find("/home/a", "allprop", <<>>),
     Find("/home/b", "propname", <<>>),
     Find("/home/a", "prop", <<DisplayName, Color, SyncToken, Note>>),
     Broken(Find("/home/a", "prop", <<>>)),
     Find("/home/", "prop", <<Description, Color, SyncToken>>),
     Broken(Find("/home/", "prop", <<>>))}

Symmetry == Permutations(Requests)
=============================================================================
