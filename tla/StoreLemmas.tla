---------------------------- MODULE StoreLemmas ----------------------------
(***************************************************************************)
(* Lemmas about the operations of ContactStore by themselves: each keeps   *)
(* the types, the keys, the references and the index, under the conditions *)
(* that its error checks establish.  The proofs about the handlers and     *)
(* those about the transactions both rest on them.                         *)
(***************************************************************************)
EXTENDS ContactStore, TLAPS

(* Every contact has one index row, with its name. *)
Indexed == \A c \in contacts : {f \in fts : f.contact = c.id} = {IndexRow(c)}

(* A row with another token or another book is still a row. *)
LEMMA BumpedTyped ==
    ASSUME NEW b \in Book
    PROVE  /\ Bumped(b) \in Book
           /\ Bumped(b).id = b.id /\ Bumped(b).owner = b.owner
           /\ Bumped(b).name = b.name /\ Bumped(b).token = b.token + 1
           /\ Bumped(b).ctag = AsText(b.token + 1)
<1>1. b.token + 1 \in Nat
  BY DEF Book
<1>2. AsText(b.token + 1) \in [text : Nat]
  BY <1>1 DEF AsText
<1>3. PICK n \in Nat, t \in [text : Nat] : n = b.token + 1 /\ t = AsText(b.token + 1)
  BY <1>1, <1>2
<1>4. Bumped(b) = [b EXCEPT !.token = n, !.ctag = t]
  BY <1>3, Zenon DEF Bumped
<1>5. PICK x : x = [b EXCEPT !.token = n, !.ctag = t]
  OBVIOUS
<1>6. x \in Book /\ x.id = b.id /\ x.owner = b.owner /\ x.name = b.name
        /\ x.token = n /\ x.ctag = t
  BY <1>5 DEF Book
<1>7. QED
  BY <1>3, <1>4, <1>5, <1>6, Zenon

LEMMA RewrittenTyped ==
    ASSUME NEW x \in Contact, NEW c \in Contact
    PROVE  /\ Rewritten(x, c) \in Contact
           /\ Rewritten(x, c).id = c.id /\ Rewritten(x, c).book = x.book
           /\ Rewritten(x, c).file = c.file /\ Rewritten(x, c).uid = c.uid
           /\ Rewritten(x, c).etag = c.etag /\ Rewritten(x, c).vcard = c.vcard
           /\ Rewritten(x, c).fn = c.fn
  BY DEF Rewritten, Contact

LEMMA IndexRowTyped ==
    ASSUME NEW c \in Contact
    PROVE  IndexRow(c) \in FTSRow /\ IndexRow(c).contact = c.id
  BY DEF IndexRow, FTSRow, Contact

(* What "at most one row has this id" makes of an UPDATE. *)
LEMMA UpdatedRow ==
    ASSUME StoreTypeOK, KeysUnique(books, contacts),
           NEW c \in Contact, UpdateContactErr(c) = "nil"
    PROVE  \E x \in contacts :
              /\ x.id = c.id
              /\ {IF y.id = c.id THEN Rewritten(y, c) ELSE y : y \in contacts}
                    = (contacts \ {x}) \cup {Rewritten(x, c)}
              /\ ~ IsUniqueConstraint(Rewritten(x, c), contacts \ {x})
<1>1. PICK x \in contacts : x.id = c.id
  BY DEF UpdateContactErr
<1>2. \A y \in contacts : y.id = c.id => y = x
  BY <1>1 DEF KeysUnique
<1>3. ~ IsUniqueConstraint(Rewritten(x, c), contacts \ {x})
  BY <1>1 DEF UpdateContactErr
<1> QED
  BY <1>1, <1>2, <1>3

-----------------------------------------------------------------------------
(* One lemma for each operation *)

LEMMA CreateContactKeeps ==
    ASSUME StoreTypeOK, KeysUnique(books, contacts), NEW c \in Contact,
           CreateContactErr(c) = "nil", CreateContact(c)
    PROVE  /\ StoreTypeOK'
           /\ KeysUnique(books, contacts)'
           /\ ReferencesHold(books, contacts) /\ enforced =>
                 ReferencesHold(books, contacts)'
           /\ Indexed /\ (\A f \in fts : f.contact # c.id) => Indexed'
           /\ \A id : Used(id)' => Used(id) \/ id = c.id
<1>1. StoreTypeOK'
  BY IndexRowTyped DEF CreateContact, StoreTypeOK
<1>2. KeysUnique(books, contacts)'
  BY DEF CreateContact, CreateContactErr, IsUniqueConstraint, KeysUnique
<1>3. ReferencesHold(books, contacts) /\ enforced =>
         ReferencesHold(books, contacts)'
  BY DEF CreateContact, CreateContactErr, ReferencesHold
<1>4. ASSUME Indexed, \A f \in fts : f.contact # c.id PROVE Indexed'
  <2>1. \A x \in contacts : x.id # c.id
    BY DEF CreateContactErr, IsUniqueConstraint
  <2> QED
    BY <1>4, <2>1, IndexRowTyped DEF CreateContact, Indexed
<1>5. \A id : Used(id)' => Used(id) \/ id = c.id
  BY IndexRowTyped DEF CreateContact, Used
<1> QED
  BY <1>1, <1>2, <1>3, <1>4, <1>5

LEMMA UpdateContactKeeps ==
    ASSUME StoreTypeOK, KeysUnique(books, contacts), NEW c \in Contact,
           UpdateContactErr(c) = "nil", UpdateContact(c)
    PROVE  /\ StoreTypeOK'
           /\ KeysUnique(books, contacts)'
           /\ ReferencesHold(books, contacts) => ReferencesHold(books, contacts)'
           /\ Indexed => Indexed'
           /\ \A id : Used(id)' => Used(id)
<1>1. PICK x \in contacts :
        /\ x.id = c.id
        /\ contacts' = (contacts \ {x}) \cup {Rewritten(x, c)}
        /\ ~ IsUniqueConstraint(Rewritten(x, c), contacts \ {x})
  BY UpdatedRow DEF UpdateContact
<1>2. books' = books /\ fts' = NotIndexing(c.id) \cup {IndexRow(c)}
  BY DEF UpdateContact
<1> DEFINE y == Rewritten(x, c)
<1>3. /\ y \in Contact /\ y.id = c.id /\ y.book = x.book /\ y.fn = c.fn
  BY RewrittenTyped DEF StoreTypeOK
<1>4. IndexRow(y) = IndexRow(c)
  BY <1>3 DEF IndexRow
<1> HIDE DEF y
<1>5. StoreTypeOK'
  BY <1>1, <1>2, <1>3, IndexRowTyped DEF StoreTypeOK, NotIndexing, y
<1>6. KeysUnique(books, contacts)'
  BY <1>1, <1>2 DEF IsUniqueConstraint, KeysUnique, y
<1>7. ReferencesHold(books, contacts) => ReferencesHold(books, contacts)'
  BY <1>1, <1>2, <1>3 DEF ReferencesHold, y
<1>8. ASSUME Indexed, NEW z \in contacts'
      PROVE  {f \in fts' : f.contact = z.id} = {IndexRow(z)}
  <2>1. CASE z = y
    BY <1>2, <1>3, <1>4, <2>1, IndexRowTyped DEF NotIndexing
  <2>2. CASE z # y
    <3>1. z \in contacts /\ z.id # c.id
      BY <1>1, <2>2 DEF KeysUnique, y
    <3> QED
      BY <1>2, <1>8, <3>1, IndexRowTyped DEF NotIndexing, Indexed
  <2> QED
    BY <2>1, <2>2
<1>9. \A id : Used(id)' => Used(id)
  BY <1>1, <1>2, <1>3, IndexRowTyped DEF Used, NotIndexing, y
<1> QED
  BY <1>5, <1>6, <1>7, <1>8, <1>9 DEF Indexed

LEMMA DeleteContactKeeps ==
    ASSUME StoreTypeOK, NEW i, DeleteContact(i)
    PROVE  /\ StoreTypeOK'
           /\ KeysUnique(books, contacts) => KeysUnique(books, contacts)'
           /\ ReferencesHold(books, contacts) => ReferencesHold(books, contacts)'
           /\ Indexed => Indexed'
           /\ \A id : Used(id)' => Used(id)
<1>1. StoreTypeOK'
  BY DEF DeleteContact, NotIndexing, StoreTypeOK
<1>2. KeysUnique(books, contacts) => KeysUnique(books, contacts)'
  BY DEF DeleteContact, KeysUnique
<1>3. ReferencesHold(books, contacts) => ReferencesHold(books, contacts)'
  BY DEF DeleteContact, ReferencesHold
<1>4. Indexed => Indexed'
  BY DEF DeleteContact, NotIndexing, Indexed
<1>5. \A id : Used(id)' => Used(id)
  BY DEF DeleteContact, NotIndexing, Used
<1> QED
  BY <1>1, <1>2, <1>3, <1>4, <1>5

LEMMA CreateAddressBookKeeps ==
    ASSUME StoreTypeOK, NEW b \in Book,
           CreateAddressBookErr(b) = "nil", CreateAddressBook(b)
    PROVE  /\ StoreTypeOK'
           /\ KeysUnique(books, contacts) => KeysUnique(books, contacts)'
           /\ ReferencesHold(books, contacts) => ReferencesHold(books, contacts)'
           /\ Indexed => Indexed'
           /\ \A id : Used(id)' => Used(id) \/ id = b.id
<1>1. StoreTypeOK'
  BY DEF CreateAddressBook, StoreTypeOK
<1>2. KeysUnique(books, contacts) => KeysUnique(books, contacts)'
  BY DEF CreateAddressBook, CreateAddressBookErr, KeysUnique
<1>3. ReferencesHold(books, contacts) => ReferencesHold(books, contacts)'
  BY DEF CreateAddressBook, ReferencesHold
<1>4. Indexed => Indexed'
  BY DEF CreateAddressBook, Indexed
<1>5. \A id : Used(id)' => Used(id) \/ id = b.id
  BY DEF CreateAddressBook, Used
<1> QED
  BY <1>1, <1>2, <1>3, <1>4, <1>5

LEMMA DeleteAddressBookKeeps ==
    ASSUME StoreTypeOK, NEW i, DeleteAddressBook(i)
    PROVE  /\ StoreTypeOK'
           /\ KeysUnique(books, contacts) => KeysUnique(books, contacts)'
           /\ ReferencesHold(books, contacts) /\ enforced =>
                 ReferencesHold(books, contacts)'
           /\ Indexed => Indexed'
           /\ \A id : Used(id)' => Used(id)
<1>1. StoreTypeOK'
  BY DEF DeleteAddressBook, StoreTypeOK
<1>2. KeysUnique(books, contacts) => KeysUnique(books, contacts)'
  BY DEF DeleteAddressBook, KeysUnique
<1>3. ReferencesHold(books, contacts) /\ enforced => ReferencesHold(books, contacts)'
  BY DEF DeleteAddressBook, ReferencesHold
<1>4. Indexed => Indexed'
  BY DEF DeleteAddressBook, Indexed
<1>5. \A id : Used(id)' => Used(id)
  BY DEF DeleteAddressBook, Used
<1> QED
  BY <1>1, <1>2, <1>3, <1>4, <1>5

LEMMA BumpSyncTokenKeeps ==
    ASSUME StoreTypeOK, NEW i, BumpSyncToken(i)
    PROVE  /\ StoreTypeOK'
           /\ KeysUnique(books, contacts) => KeysUnique(books, contacts)'
           /\ ReferencesHold(books, contacts) => ReferencesHold(books, contacts)'
           /\ Indexed => Indexed'
           /\ \A id : Used(id)' => Used(id)
<1>1. /\ contacts' = contacts /\ fts' = fts
      /\ books' = {IF b.id = i THEN Bumped(b) ELSE b : b \in books}
  BY DEF BumpSyncToken
<1>2. StoreTypeOK'
  BY <1>1, BumpedTyped DEF StoreTypeOK
<1>3. \A b \in books' : \E x \in books :
         /\ b.id = x.id /\ b.owner = x.owner /\ b.name = x.name
         /\ b = IF x.id = i THEN Bumped(x) ELSE x
  BY <1>1, BumpedTyped DEF StoreTypeOK
<1>4. \A x \in books : \E b \in books' : b.id = x.id
  BY <1>1, BumpedTyped DEF StoreTypeOK
<1>5. KeysUnique(books, contacts) => KeysUnique(books, contacts)'
  BY <1>1, <1>3 DEF KeysUnique
<1>6. ReferencesHold(books, contacts) => ReferencesHold(books, contacts)'
  BY <1>1, <1>4 DEF ReferencesHold
<1>7. Indexed => Indexed'
  BY <1>1 DEF Indexed
<1>8. \A id : Used(id)' => Used(id)
  BY <1>1, <1>3 DEF Used
<1> QED
  BY <1>2, <1>5, <1>6, <1>7, <1>8
=============================================================================
