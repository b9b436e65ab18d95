------------------------------- MODULE MCDav -------------------------------
(***************************************************************************)
(* Small instances of DavHandlers for TLC.  One user, alice, owns the book *)
(* "home" with one contact in file "a"; the calls differ from run to run.  *)
(***************************************************************************)
EXTENDS DavProperties, TLC

MCUsers == {"alice"}
MCBookNames == {"home"}
MCFiles == {"a", "b"}
MCNames == {"Ann", "Bea"}
MCUIDs == {"u1", "u2"} \cup Requests
MCIds == {"home1", "ann1"} \cup Requests

Card(fn, uid) == [version |-> "4.0", exact |-> TRUE, fn |-> fn, hasN |-> TRUE,
                  uid |-> uid, anchored |-> TRUE, bigPhoto |-> FALSE]

Row(id, book, file, blob) ==
    [id |-> id, book |-> book, file |-> file, uid |-> blob.uid,
     etag |-> ComputeETag(blob), vcard |-> blob, fn |-> blob.fn]

Shelf(id, owner, name, token) ==
    [id |-> id, owner |-> owner, name |-> name, token |-> token,
     ctag |-> AsText(token)]

MCSeedBooks == {Shelf("home1", "alice", "home", 1)}
MCSeedContacts == {Row("ann1", "home1", "a", Card("Ann", "u1"))}

(* A call with every header absent; the runs set what they need. *)
Plain(op, file) ==
    [op |-> op, as |-> "alice", user |-> "alice", book |-> "home",
     file |-> file, ifMatch |-> Absent, ifNoneMatch |-> Absent,
     body |-> Absent, wellFormed |-> TRUE, depth |-> "0", accept3 |-> FALSE,
     dst |-> Absent, overwrite |-> TRUE, query |-> TRUE, filter |-> Absent,
     hrefs |-> <<>>]

PutOf(file, blob) == [Plain("PUT", file) EXCEPT !.body = blob]
To(op, file, book, dst, overwrite) ==
    [Plain(op, file) EXCEPT !.dst = [user |-> "alice", book |-> book, file |-> dst],
                            !.overwrite = overwrite]
Listing == [Plain("BOOKPROPFIND", "a") EXCEPT !.depth = "1"]

(* Run "sync": writers of the same few files of one book, and a client     *)
(* that lists it.                                                          *)
SyncCalls == {PutOf("a", Card("Bea", "u1")),
              PutOf("b", Card("Bea", "u2")),
              [PutOf("a", Card("Ann", "u2")) EXCEPT
                  !.ifMatch = ComputeETag(Card("Ann", "u1"))],
              Plain("DELETE", "a"),
              To("MOVE", "a", "home", "b", TRUE),
              To("MOVE", "a", "home", "b", FALSE),
              To("COPY", "a", "home", "b", TRUE),
              To("COPY", "a", "home", "b", FALSE),
              Listing,
              Plain("BOOKDELETE", "a"),
              Plain("MKCOL", "a")}

(* Run "live": the same, with a multiget. *)
LiveCalls == SyncCalls \cup
    {[Plain("REPORT", "a") EXCEPT !.query = FALSE, !.hrefs = <<"a", "b">>]}

Symmetry == Permutations(Requests)

-----------------------------------------------------------------------------
(* Run "calls": requests of every kind, refused or not.  Two users with a  *)
(* book each, alice with a second one, root is an admin.  The Destination  *)
(* header may name another user's book.                                    *)
OwnUsers == {"alice", "bob", "root"}
OwnAdmins == {"root"}
OwnBookNames == {"home", "work"}
OwnIds == {"home1", "work1", "bhome1", "ann1", "bea1"} \cup Requests

OwnSeedBooks == {Shelf("home1", "alice", "home", 1),
                 Shelf("work1", "alice", "work", 0),
                 Shelf("bhome1", "bob", "home", 0)}
OwnSeedContacts == {Row("ann1", "home1", "a", Card("Ann", "u1")),
                    Row("bea1", "bhome1", "a", Card("Bea", "u1"))}

By(who, whose, c) == [c EXCEPT !.as = who, !.user = whose]

Writes == {PutOf("a", Card("Bea", "u1")), PutOf("b", Card("Bea", "u1")),
           Plain("DELETE", "a"),
           [To("COPY", "a", "home", "a", TRUE) EXCEPT !.dst.user = "bob"],
           To("COPY", "a", "work", "a", TRUE),
           [To("MOVE", "a", "home", "b", TRUE) EXCEPT !.dst.user = "bob"],
           Plain("BOOKDELETE", "a"), Plain("MKCOL", "a"),
           [Plain("MKCOL", "a") EXCEPT !.book = "work"]}

OwnCalls == {By(who, whose, c) : who \in {"alice", "root"},
                                 whose \in {"alice", "bob"}, c \in Writes}
            \cup {By("root", Absent, Plain("GET", "a"))}

(* Every kind of read, refused or not. *)
ReadCalls ==
    LET get == Plain("GET", "a")
        find == Plain("BOOKPROPFIND", "a")
        home == Plain("HOMESET", "a")
        multiget == [Plain("REPORT", "a") EXCEPT !.query = FALSE]
    IN  {get, Plain("GET", "b"), [get EXCEPT !.accept3 = TRUE],
         [get EXCEPT !.ifNoneMatch = ComputeETag(Card("Ann", "u1"))],
         Plain("PROPFIND", "a"), [Plain("PROPFIND", "a") EXCEPT !.depth = "infinity"],
         [Plain("PROPFIND", "a") EXCEPT !.wellFormed = FALSE],
         home, [home EXCEPT !.depth = "1"], [home EXCEPT !.depth = "infinity"],
         [home EXCEPT !.wellFormed = FALSE],
         find, Listing, [find EXCEPT !.depth = "infinity"],
         [find EXCEPT !.wellFormed = FALSE], [find EXCEPT !.book = "work"],
         Plain("REPORT", "a"),
         [Plain("REPORT", "a") EXCEPT !.filter = [prop |-> "FN", like |-> {"Bea"}]],
         [Plain("REPORT", "a") EXCEPT
             !.filter = [prop |-> "other", like |-> {Card("Ann", "u1")}]],
         [multiget EXCEPT !.wellFormed = FALSE],
         [multiget EXCEPT !.hrefs = <<"a", "b">>],
         [multiget EXCEPT !.hrefs = <<"b", Absent, "a">>],
         PutOf("a", Card("Bea", "u1")), PutOf("b", Card("Bea", "u2")),
         Plain("DELETE", "a"), To("MOVE", "a", "home", "b", TRUE),
         Plain("BOOKDELETE", "a")}

(* What clients send as a vCard, sound or not, and copies. *)
Ann == Card("Ann", "u1")

Bodies ==
    {Card("Bea", "u2"), Card("Bea", Absent), Absent,
     [Card("Bea", "u2") EXCEPT !.version = "3.0"],
     [Card("Bea", "u2") EXCEPT !.version = "3.0", !.hasN = FALSE],
     [Card("Bea", Absent) EXCEPT !.version = "3.0", !.exact = FALSE],
     [Ann EXCEPT !.version = Absent], [Ann EXCEPT !.fn = Absent],
     [Ann EXCEPT !.version = "2.1"], [Ann EXCEPT !.bigPhoto = TRUE],
     [Card("Bea", Absent) EXCEPT !.anchored = FALSE]}

BodyCalls ==
    {PutOf(f, blob) : f \in MCFiles, blob \in Bodies}
    \cup {[PutOf("a", Ann) EXCEPT !.ifMatch = Star],
          [PutOf("b", Ann) EXCEPT !.ifNoneMatch = Star],
          [Plain("DELETE", "a") EXCEPT !.ifMatch = ComputeETag(Ann)],
          [Plain("DELETE", "a") EXCEPT !.ifMatch = ComputeETag(Card("Bea", "u2"))],
          [Plain("MKCOL", "a") EXCEPT !.body = Ann],
          [Plain("GET", "a") EXCEPT !.accept3 = TRUE],
          Plain("COPY", "a"), Plain("MOVE", "a"),
          To("COPY", "a", "work", "a", TRUE),
          To("COPY", "a", "home", "b", TRUE), To("COPY", "b", "home", "a", TRUE),
          To("COPY", "a", "home", "a", TRUE), To("MOVE", "a", "home", "a", TRUE),
          To("MOVE", "b", "home", "a", FALSE), To("MOVE", "a", "home", "b", FALSE)}

AllCalls == OwnCalls \cup ReadCalls \cup BodyCalls

-----------------------------------------------------------------------------
(* The runs that show where a comment or a test is not borne out.          *)
NoneMatchCalls == {[PutOf("a", Card("Bea", "u1")) EXCEPT !.ifNoneMatch = Star]}

MatchCalls == {[PutOf("a", Card("Bea", "u1")) EXCEPT !.ifMatch = ComputeETag(Ann)],
               [PutOf("a", Card("Ann", "u2")) EXCEPT !.ifMatch = ComputeETag(Ann)]}
=============================================================================
