------------------------------ MODULE MCCards ------------------------------
(***************************************************************************)
(* Instances of Cards: what clients of both dialects compose, sound and    *)
(* odd, in the parts that a conversion touches.                            *)
(***************************************************************************)
EXTENDS Cards, TLC

MCDialect == [c \in Clients |-> IF c = "old" THEN "3.0" ELSE "4.0"]
MCNewUIDs == {"n1", "n2"}

Home == Word("HOME", TRUE)
Pref == [name |-> "PREF", types |-> <<>>]

Low(word) == Word(word.word, FALSE)

(* A text with these parts: "shape" tells of the VERSION line, N, UID, END *)
(* and lines that are dropped.                                             *)
Card(version, shape, params, photo) ==
    <<[name |-> "BEGIN"]>>
    \o (IF shape = "padded" THEN <<Profile, Blank>> ELSE <<>>)
    \o <<Version(version, shape # "inexact"), Property("FN", "Ann")>>
    \o (IF shape = "no N" THEN <<>> ELSE <<Property("N", "Ann")>>)
    \o (CASE shape \in {"no UID", "no end"} -> <<>>
          [] shape = "empty UID" -> <<Property("UID", Absent)>>
          [] OTHER -> <<Property("UID", "u1")>>)
    \o <<Email("a@b", params), Property("ITEM1.EMAIL", "c@d")>>
    \o (IF shape = "padded" THEN <<[Email("g@h", params) EXCEPT !.name = "EMAILX"]>> ELSE <<>>)
    \o photo
    \o (IF shape = "no end" THEN <<>> ELSE <<End>>)
    \o (IF shape = "padded" THEN <<Blank>> ELSE <<>>)

OddShapes == {"inexact", "no N", "no UID", "empty UID", "no end", "padded"}

Params == {<<>>, <<Types(<<Internet>>)>>, <<Types(<<Low(Home), Low(Internet)>>)>>,
           <<Pref, Types(<<Home>>), Types(<<Internet, Home>>)>>, <<Pref>>}

(* data:image/png,... and data:image/svg+xml,...;...,... *)
Unsplit == [Photo("data", "png", FALSE, FALSE, "small") EXCEPT !.splits = FALSE, !.cut = Absent]
Torn == [Photo("data", "svg", FALSE, FALSE, "small") EXCEPT !.cut = "part"]

MCPhotos ==
          {<<>>,
           <<Photo("b", "png", TRUE, TRUE, "small")>>,
           <<Photo("b", "gif", TRUE, FALSE, "small"),
             Photo("b", "none", TRUE, FALSE, "small")>>,
           <<Photo("b", "jpeg", TRUE, FALSE, "big")>>,
           <<Photo("data", "gif", TRUE, FALSE, "small")>>,
           <<Photo("data", "webp", TRUE, TRUE, "small")>>,
           <<Photo("data", "svg", FALSE, FALSE, "big")>>,
           <<Unsplit>>, <<Torn>>, <<Torn, Photo("uri", "none", FALSE, FALSE, "small")>>,
           <<[Photo("b", "png", TRUE, FALSE, "small") EXCEPT !.name = "PHOTOX"]>>}

SomePhotos == {<<Photo("b", "png", TRUE, TRUE, "small")>>,
               <<Photo("data", "svg", FALSE, FALSE, "big")>>}

(* Every address and every odd shape with some photos, every photo with    *)
(* one address: a conversion takes line by line.                           *)
MCTexts(version) ==
    {Card(version, "plain", params, photo) : params \in Params, photo \in SomePhotos}
    \cup {Card(version, "plain", <<Types(<<Low(Home), Low(Internet)>>)>>, photo) :
            photo \in MCPhotos}
    \cup {Card(version, shape, <<Types(<<Low(Home), Internet>>)>>, photo) :
            shape \in OddShapes, photo \in SomePhotos}

MCBodies == [v \in {"3.0", "4.0"} |-> MCTexts(v)]

MCEdited == [v \in {"3.0", "4.0"} |->
    Email("e@f", <<Types(IF v = "3.0" THEN <<Internet, Home>> ELSE <<Low(Home)>>)>>)]
=============================================================================
