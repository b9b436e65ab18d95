------------------------------ MODULE BookSync ------------------------------
(***************************************************************************)
(* What the sync tokens promise a client, without the handlers: a book has *)
(* contents and a token.  A change of the contents leaves the token alone  *)
(* and has to be announced; an announcement moves the token by one and     *)
(* covers every change made so far.  An announcement that is owed is given *)
(* or, when the server fails at it, abandoned.                             *)
(***************************************************************************)
EXTENDS Naturals

CONSTANT Ids

VARIABLES shelf,      \* the books there are: id -> [token, contents]
          unsynced,   \* books with a change that their token does not show
          abandoned   \* those whose announcement was given up

avars == <<shelf, unsynced, abandoned>>

AInit == /\ \A b \in DOMAIN shelf : shelf[b].token \in Nat
         /\ unsynced = {} /\ abandoned = {}

Put(s, b, book) == [x \in DOMAIN s \cup {b} |-> IF x = b THEN book ELSE s[x]]

Open(b) == /\ b \notin DOMAIN shelf
           /\ shelf' = Put(shelf, b, [token |-> 0, contents |-> {}])
           /\ UNCHANGED <<unsynced, abandoned>>

Change(b) == /\ b \in DOMAIN shelf /\ b \in DOMAIN shelf'
             /\ shelf' = Put(shelf, b, [token |-> shelf[b].token,
                                        contents |-> shelf'[b].contents])
             /\ unsynced' = unsynced \cup {b}
             /\ UNCHANGED abandoned

Announce(b) ==
    /\ b \in DOMAIN shelf
    /\ shelf' = Put(shelf, b, [shelf[b] EXCEPT !.token = shelf[b].token + 1])
    /\ unsynced' = unsynced \ {b}
    /\ abandoned' = abandoned \ {b}

Abandon(bs) == /\ bs \subseteq unsynced
               /\ abandoned' = abandoned \cup bs
               /\ UNCHANGED <<shelf, unsynced>>

Drop(b) == /\ b \in DOMAIN shelf
           /\ shelf' = [x \in DOMAIN shelf \ {b} |-> shelf[x]]
           /\ unsynced' = unsynced \ {b}
           /\ abandoned' = abandoned \ {b}

ANext == \/ \E b \in Ids : Open(b) \/ Change(b) \/ Announce(b) \/ Drop(b)
         \/ Abandon(abandoned' \ abandoned)

ASpec == AInit /\ [][ANext]_avars

(* No change stays unannounced without somebody having given up on it. *)
Settled == \A b \in Ids : b \in unsynced ~> b \notin unsynced \/ b \in abandoned
=============================================================================
