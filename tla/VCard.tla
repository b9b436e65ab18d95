------------------------------- MODULE VCard -------------------------------
(***************************************************************************)
(* The text of a vCard as internal/vcard sees it.  A blob is abstracted to *)
(* the facts that the DAV handlers branch on or store in a column:         *)
(*                                                                         *)
(*   version   the value of the VERSION property, Absent when there is none*)
(*   exact     the VERSION line is exactly "VERSION:<value>": no blanks, no*)
(*             parameters.  Only such a line is rewritten by a conversion. *)
(*   fn        the value of FN, Absent when there is none                  *)
(*   hasN      N has a value                                               *)
(*   uid       the value of UID, Absent when there is none                 *)
(*   anchored  there is a UID line or an END:VCARD to put one in front of  *)
(*   bigPhoto  some inline PHOTO decodes to more than 250 KB               *)
(*                                                                         *)
(* Line folding is undone before anything else looks at the text, so blobs *)
(* are unfolded here.  The line-level part of the conversions (EMAIL and   *)
(* PHOTO parameters) is in module VCardLines; Cards!FactsAgree shows that  *)
(* it changes none of these facts but one, bigPhoto: in 3.0 a data URI that*)
(* is not base64, or that the conversion cuts, counts with what is left.   *)
(***************************************************************************)

CONSTANTS Names,    \* values that an FN line can have
          UIDs,     \* values that a UID line can have
          Absent    \* the empty string that extractProp returns for "none"

ASSUME AbsentAssumption == Absent \notin Names /\ Absent \notin UIDs

Versions == {"2.1", "3.0", "4.0"}

VCards ==
    {blob \in [version : Versions \cup {Absent}, exact : BOOLEAN,
               fn : Names \cup {Absent}, hasN : BOOLEAN,
               uid : UIDs \cup {Absent}, anchored : BOOLEAN, bigPhoto : BOOLEAN] :
        blob.uid # Absent => blob.anchored}

ExtractUID(blob) == blob.uid

ExtractFN(blob) == blob.fn

(* The minimum that RFC 2426 and RFC 6350 require of a vCard. *)
Validate(blob) ==
    /\ blob.version \in {"3.0", "4.0"}
    /\ blob.fn # Absent
    /\ blob.version = "3.0" => blob.hasN

ValidatePhotoSize(blob) == ~blob.bigPhoto

(* A conversion rewrites the VERSION line only when the line is exact. *)
ToVersion(blob, from, to) ==
    IF blob.version = from /\ blob.exact THEN [blob EXCEPT !.version = to]
                                         ELSE blob

ToV4(blob) == ToVersion(blob, "3.0", "4.0")

(* Mutant of ToV3: the conversion drops the UID line. *)
ToV3DropsUID(blob) == [ToVersion(blob, "4.0", "3.0") EXCEPT !.uid = Absent]

ToV3(blob) == ToVersion(blob, "4.0", "3.0")

(* SHA-256, taken to be free of collisions. *)
ComputeETag(blob) == [sha256 |-> blob]

(* Replaces the UID line, or inserts one before END:VCARD; a blob that has *)
(* neither is returned as it is.                                           *)
ReplaceUID(blob, newUID) ==
    IF blob.anchored THEN [blob EXCEPT !.uid = newUID] ELSE blob
=============================================================================
