----------------------------- MODULE VCardLines -----------------------------
(***************************************************************************)
(* The conversions between vCard 3.0 and 4.0 (internal/vcard/convert.go)   *)
(* and the scan for a property (vcard.go, extractProp), line by line.  A   *)
(* text is the sequence of lines that strings.Split(blob, "\n") yields: it *)
(* ends with a Blank when the text ends with a line feed.  Texts are       *)
(* unfolded, as PUT leaves them.                                           *)
(*                                                                         *)
(* A line is a record with the name of its property and what the code      *)
(* looks at: for a name that begins with EMAIL its parameters, for one     *)
(* that begins with PHOTO the form it is written in.  A line of any other  *)
(* name, one with a group prefix ("item1.EMAIL") among them, is passed on  *)
(* as it is.  Left out: carriage returns (kept line by line), the case of  *)
(* property and parameter names, quoted parameters, lines without a colon  *)
(* (returned unchanged), lines that hold END:VCARD beside other text, and  *)
(* lines with ENCODING=b that hold "data:" too.                            *)
(***************************************************************************)
EXTENDS Naturals, Sequences, SequencesExt

CONSTANTS Absent,                \* the empty string
          EmailNames, PhotoNames \* names that begin with EMAIL, with PHOTO

Blank == [name |-> ""]
Profile == [name |-> "PROFILE"]
End == [name |-> "END"]

(* "exact": the line is "VERSION:<value>" without blanks or parameters. *)
Version(value, exact) == [name |-> "VERSION", value |-> value, exact |-> exact]

(* FN, N, UID *)
Property(name, value) == [name |-> name, value |-> value]

(* A type value is a word in upper or lower case; a parameter is TYPE with  *)
(* a list of types, or one of another name.                                *)
Word(word, upper) == [word |-> word, upper |-> upper]
Types(words) == [name |-> "TYPE", types |-> words]
Email(address, params) == [name |-> "EMAIL", value |-> address, params |-> params]

(* form     "b"    PHOTO;ENCODING=b;TYPE=<kind>:<data>                     *)
(*          "data" "data:" is in it: PHOTO:data:image/<kind>;base64,<data> *)
(*          "uri"  anything else                                           *)
(* kind     of "data", the type up to the first ";"                        *)
(* base64   the line says that its data is encoded so                      *)
(* params   there are other parameters                                     *)
(* splits   behind "data:" there is a ";", and a "," behind that           *)
(* cut      what follows that ",": not the data when the first ";" or the  *)
(*          "," behind it is in the data, as in data:image/svg+xml,a;b,c   *)
Photo(form, kind, base64, params, data) ==
    [name |-> "PHOTO", form |-> form, kind |-> kind, base64 |-> base64,
     params |-> params, data |-> data, splits |-> form = "data",
     cut |-> IF form = "data" THEN data ELSE Absent]

Words == [word : STRING, upper : BOOLEAN]
Param == [name : STRING, types : Seq(Words)]

EmailLine == [name : EmailNames, value : STRING, params : Seq(Param)]

PhotoLine ==
    {line \in [name : PhotoNames, form : {"b", "data", "uri"}, kind : STRING,
               base64 : BOOLEAN, params : BOOLEAN, data : STRING,
               splits : BOOLEAN, cut : STRING] :
        /\ line.form = "b" => line.base64
        /\ line.form # "data" => ~ line.splits
        /\ ~ line.splits => line.cut = Absent}

Mark == [name : {"BEGIN", "END", "PROFILE", ""}]
VersionLine == [name : {"VERSION"}, value : STRING, exact : BOOLEAN]
Plain == [name : STRING \ ({"BEGIN", "END", "PROFILE", "", "VERSION"}
                           \cup EmailNames \cup PhotoNames),
          value : STRING]

(* These are strings; the provers do not know it of any literal. *)
ASSUME LiteralsAssumption ==
    {"3.0", "4.0", "UID", "INTERNET", "TYPE", "png", "gif", "jpeg", Absent} \subseteq STRING

ASSUME NamesAssumption ==
    /\ "EMAIL" \in EmailNames /\ "PHOTO" \in PhotoNames
    /\ EmailNames \cap PhotoNames = {}
    /\ (EmailNames \cup PhotoNames)
           \cap {"BEGIN", "END", "PROFILE", "", "VERSION", "UID", "FN", "N"} = {}

Line == Mark \cup VersionLine \cup EmailLine \cup PhotoLine \cup Plain

(* The elements of a sequence but those that are dropped.  SelectSeq would *)
(* do for TLC; a recursive function can be reasoned about.                 *)
Without(seq, dropped) ==
    LET kept[n \in 0..Len(seq)] ==
            IF n = 0 THEN <<>>
            ELSE IF seq[n] \in dropped THEN kept[n - 1]
            ELSE Append(kept[n - 1], seq[n])
    IN  kept[Len(seq)]

Each(seq, Op(_)) == [i \in DOMAIN seq |-> Op(seq[i])]

-----------------------------------------------------------------------------
(* extractProp: the first line of that name. *)

Find(text, name) == SelectInSeq(text, LAMBDA line : line.name = name)

ExtractProp(text, name) ==
    IF Find(text, name) = 0 THEN Absent ELSE text[Find(text, name)].value

Validate(text) ==
    /\ ExtractProp(text, "VERSION") \in {"3.0", "4.0"}
    /\ ExtractProp(text, "FN") # Absent
    /\ ExtractProp(text, "VERSION") = "3.0" => ExtractProp(text, "N") # Absent

(* Only data that a line calls base64 is measured. *)
TooBig(line) == line.name \in PhotoNames /\ line.base64 /\ line.data = "big"

ValidatePhotoSize(text) == \A i \in DOMAIN text : ~ TooBig(text[i])

(* The UID line is overwritten, or one put in front of the first END:VCARD.*)
ReplaceUID(text, newUID) ==
    LET uid == Find(text, "UID")
        end == Find(text, "END")
    IN  IF uid # 0 THEN ReplaceAt(text, uid, Property("UID", newUID))
        ELSE IF end # 0 THEN InsertAt(text, end, Property("UID", newUID))
        ELSE text

-----------------------------------------------------------------------------
(* EMAIL *)

IsTypes(param) == param.name = "TYPE"

Internet == Word("INTERNET", TRUE)

IsInternet(word) == word.word = "INTERNET"

TypesToV4(param) ==
    IF ~ IsTypes(param) THEN param
    ELSE Types(Each(Without(param.types, {w \in ToSet(param.types) : IsInternet(w)}),
                    LAMBDA w : Word(w.word, FALSE)))

(* A list of types that held nothing but INTERNET goes altogether. *)
EmailParamsToV4(params) == Without(Each(params, TypesToV4), {Types(<<>>)})

(* Mutant of TypesToV3: INTERNET is put in front whether it is there or not.*)
TypesToV3Again(param) ==
    IF ~ IsTypes(param) THEN param
    ELSE Types(<<Internet>> \o Each(param.types, LAMBDA w : Word(w.word, TRUE)))

TypesToV3(param) ==
    IF ~ IsTypes(param) THEN param
    ELSE LET upper == Each(param.types, LAMBDA w : Word(w.word, TRUE))
         IN  Types(IF \E i \in DOMAIN upper : IsInternet(upper[i]) THEN upper
                   ELSE <<Internet>> \o upper)

EmailParamsToV3(params) ==
    IF \E i \in DOMAIN params : IsTypes(params[i])
    THEN Each(params, TypesToV3)
    ELSE Append(params, Types(<<Internet>>))

-----------------------------------------------------------------------------
(* PHOTO: of the kinds of image only PNG and GIF are told from JPEG, and   *)
(* other parameters are dropped.                                           *)

(* Mutant of Known: GIF is forgotten. *)
KnownNoGIF(kind) == IF kind = "png" THEN kind ELSE "jpeg"

Known(kind) == IF kind \in {"png", "gif"} THEN kind ELSE "jpeg"

PhotoToV4(line) == Photo("data", Known(line.kind), TRUE, FALSE, line.data)

(* Whatever the encoding, the line is cut at the first ";" and the first   *)
(* "," behind it.                                                          *)
PhotoToV3(line) == IF line.splits THEN Photo("b", Known(line.kind), TRUE, FALSE, line.cut)
                                  ELSE line

-----------------------------------------------------------------------------
LineToV4(line) ==
    IF line = Version("3.0", TRUE) THEN Version("4.0", TRUE)
    ELSE IF line.name \in EmailNames THEN [line EXCEPT !.params = EmailParamsToV4(@)]
    ELSE IF line.name \in PhotoNames /\ line.form = "b" THEN PhotoToV4(line)
    ELSE IF line = Profile THEN Blank
    ELSE line

LineToV3(line) ==
    IF line = Version("4.0", TRUE) THEN Version("3.0", TRUE)
    ELSE IF line.name \in EmailNames THEN [line EXCEPT !.params = EmailParamsToV3(@)]
    ELSE IF line.name \in PhotoNames /\ line.form = "data" THEN PhotoToV3(line)
    ELSE line

(* Every empty line is dropped, the one after the last line feed too. *)
ToV4(text) ==
    IF ExtractProp(text, "VERSION") = "4.0" THEN text
    ELSE Without(Each(text, LineToV4), {Blank})

(* Mutant of ToV3: 3.0 is written over 4.0 and nothing else. *)
ToV3VersionOnly(text) ==
    Each(text, LAMBDA line : IF line = Version("4.0", TRUE) THEN Version("3.0", TRUE)
                                                           ELSE line)

ToV3(text) ==
    IF ExtractProp(text, "VERSION") = "3.0" THEN text
    ELSE Each(text, LineToV3)
=============================================================================
