---------------------------- MODULE ContentProofs ----------------------------
(***************************************************************************)
(* Proofs about what requests know, write, announce and show.  The rows    *)
(* they hold may be old, but not older or newer than the tables allow; from*)
(* that and the outcomes of DavProofs follow the freshness of generated    *)
(* ids, the value of a sync token to a client, the agreement of the        *)
(* full-text index with the contacts, the coherence of rows and answers,   *)
(* the announcement of changes, who may change a book, and the             *)
(* implementation of BookSync.                                             *)
(***************************************************************************)
EXTENDS DavProofs

-----------------------------------------------------------------------------
(* What requests know *)

(* Which local variables and answers a step leaves alone, and what is new  *)
(* in those it sets.                                                       *)
LEMMA OutcomeMoves ==
    ASSUME Before, NEW r \in Requests, Outcome(r)
    PROVE  /\ \A q \in Requests \ {r} :
                 pc'[q] = pc[q] /\ loc'[q] = loc[q] /\ answer'[q] = answer[q]
           /\ Held(r, loc'[r])
           /\ answer'[r] = answer[r] \/ Vouched(r, answer'[r])
           /\ pc'[r] \notin {"bump", "done", "gone"} => pc[r] \notin {"bump", "done", "gone"}
<1>1. CASE Advanced(r)
  BY <1>1 DEF Advanced, Continue, Before, TypeOK
<1>2. CASE Replied(r)
  <2>1. Held(r, NoLocals)
    BY DEF Held, NoLocals
  <2>2. QED
    BY <1>2, <2>1 DEF Replied, Reply, Before, TypeOK
<1>3. QED
  BY <1>1, <1>2 DEF Outcome

-----------------------------------------------------------------------------
(* A row has the id of a row there was, or an id made for it in this step. *)

LEMMA BooksHeld ==
    ASSUME Before, NEW r \in Requests
    PROVE  /\ \A b \in loc[r].ab \cup loc[r].dstAB \cup Target(loc[r]) :
                 b \in Book /\ b.id \in Ids
           /\ \A k \in Pointers(loc[r]) : k \in Contact /\ k.id \in Ids
  BY DEF Before, TypeOK, Locals, Book, Contact, Target, Pointers

CreatesNow(r) == pc[r] = "write" /\ pc'[r] = "bump"

IDsKept(r) ==
    /\ \A b \in books' : \/ \E x \in books : x.id = b.id
                         \/ b.id = r /\ pc[r] = "mkcol" /\ pc'[r] = "done"
    /\ \A c \in contacts' :
          \/ \E x \in contacts : x.id = c.id /\ x.book = c.book
          \/ /\ c.id = r /\ CreatesNow(r)
             /\ \E b \in Target(loc[r]) : b.id = c.book
    /\ \A f \in fts' : \/ \E x \in fts : x.contact = f.contact
                       \/ \E x \in contacts : x.id = f.contact
                       \/ f.contact = r /\ CreatesNow(r)

LEMMA EffectIDs ==
    ASSUME Before, NEW r \in Requests, Effect(r)
    PROVE  IDsKept(r)
<1>1. books \subseteq Book /\ contacts \subseteq Contact
  BY DEF Before, TypeOK, StoreTypeOK
<1>2. CASE UNCHANGED tables
  BY <1>2 DEF tables, IDsKept
<1>3. ASSUME NEW c \in Contact, CreateContact(c), c.id = r, CreatesNow(r),
             Writes(r, c.book)
      PROVE  IDsKept(r)
  BY <1>3 DEF CreateContact, IndexRow, IDsKept, Writes
<1>4. ASSUME NEW c \in Contact, UpdateContactErr(c) = "nil", UpdateContact(c)
      PROVE  IDsKept(r)
  <2>1. PICK x \in contacts : x.id = c.id
    BY <1>4 DEF UpdateContactErr
  <2>2. \A y \in contacts' : \E z \in contacts : z.id = y.id /\ z.book = y.book
    BY <1>1, <1>4, RewrittenTyped DEF UpdateContact
  <2>3. QED
    BY <1>4, <2>1, <2>2 DEF UpdateContact, NotIndexing, IndexRow, IDsKept
<1>5. ASSUME NEW k, DeleteContact(k)
      PROVE  IDsKept(r)
  BY <1>5 DEF DeleteContact, NotIndexing, IDsKept
<1>6. ASSUME NEW b \in Book, CreateAddressBook(b), b.id = r,
             pc[r] = "mkcol", pc'[r] = "done"
      PROVE  IDsKept(r)
  BY <1>6 DEF CreateAddressBook, IDsKept
<1>7. ASSUME NEW i \in Ids, DeleteAddressBook(i)
      PROVE  IDsKept(r)
  BY <1>7 DEF DeleteAddressBook, IDsKept
<1>8. ASSUME NEW i \in Ids, BumpSyncToken(i)
      PROVE  IDsKept(r)
  BY <1>1, <1>8, BumpedTyped DEF BumpSyncToken, IDsKept
<1>9. \A b \in loc[r].ab \cup Target(loc[r]) : b.id \in Ids
  BY BooksHeld
<1>10. QED
  BY <1>2, <1>3, <1>4, <1>5, <1>6, <1>7, <1>8, <1>9 DEF Effect, CreatesNow

LEMMA OutcomeFresh ==
    ASSUME Before, FreshIDs, NEW r \in Requests, Outcome(r)
    PROVE  FreshIDs'
<1>1. IDsKept(r)
  BY EffectIDs DEF Outcome
<1>2. SUFFICES ASSUME NEW q \in Requests, pc'[q] \notin {"bump", "done", "gone"}
               PROVE  /\ \A b \in books' : b.id # q
                      /\ \A c \in contacts' : c.id # q /\ c.book # q
                      /\ \A f \in fts' : f.contact # q
                      /\ \A p \in Requests :
                            /\ \A b \in loc'[p].ab \cup loc'[p].dstAB \cup answer'[p].books :
                                  b.id # q
                            /\ \A k \in loc'[p].contact \cup loc'[p].existing : k.id # q
  BY DEF FreshIDs
<1>3. pc[q] \notin {"bump", "done", "gone"}
  BY <1>2, OutcomeMoves
<1>4. /\ \A b \in books : b.id # q
      /\ \A c \in contacts : c.id # q /\ c.book # q
      /\ \A f \in fts : f.contact # q
      /\ \A p \in Requests :
            /\ \A b \in loc[p].ab \cup loc[p].dstAB \cup answer[p].books : b.id # q
            /\ \A k \in loc[p].contact \cup loc[p].existing : k.id # q
  BY <1>3 DEF FreshIDs
<1>5. /\ \A b \in books' : b.id # q
      /\ \A c \in contacts' : c.id # q /\ c.book # q
      /\ \A f \in fts' : f.contact # q
  BY <1>1, <1>2, <1>4 DEF IDsKept, CreatesNow, Target
<1>6. ASSUME NEW p \in Requests
      PROVE  /\ \A b \in loc'[p].ab \cup loc'[p].dstAB \cup answer'[p].books : b.id # q
             /\ \A k \in loc'[p].contact \cup loc'[p].existing : k.id # q
  <2>1. CASE p = r
    <3>1. Held(r, loc'[r]) /\ (answer'[r] = answer[r] \/ Vouched(r, answer'[r]))
      BY OutcomeMoves
    <3>2. \A b \in loc'[r].ab \cup loc'[r].dstAB \cup answer'[r].books :
             b \in books \cup loc[r].ab \cup loc[r].dstAB \cup answer[r].books
      BY <3>1 DEF Held, Vouched
    <3>3. \A k \in loc'[r].contact \cup loc'[r].existing :
             k \in contacts \cup loc[r].contact \cup loc[r].existing
      BY <3>1 DEF Held
    <3>4. QED
      BY <1>4, <2>1, <3>2, <3>3
  <2>2. CASE p # r
    BY <1>4, <2>2, OutcomeMoves
  <2>3. QED
    BY <2>1, <2>2
<1>7. QED
  BY <1>5, <1>6

(* A contact never changes its book, so old copies of its row name the     *)
(* right one; the id of a new contact is in no copy.                       *)
LEMMA OutcomeBooksStay ==
    ASSUME Before, FreshIDs, BooksStay, NEW r \in Requests, Outcome(r)
    PROVE  BooksStay'
<1>1. IDsKept(r)
  BY EffectIDs DEF Outcome
<1>2. SUFFICES ASSUME NEW q \in Requests,
                      NEW k \in loc'[q].contact \cup loc'[q].existing,
                      NEW c \in contacts', c.id = k.id
               PROVE  c.book = k.book
  BY DEF BooksStay
<1>3. \/ k \in loc[q].contact \cup loc[q].existing
      \/ k \in contacts
  <2>1. CASE q = r
    BY <2>1, OutcomeMoves DEF Held
  <2>2. CASE q # r
    BY <2>2, OutcomeMoves
  <2>3. QED
    BY <2>1, <2>2
<1>4. CASE \E x \in contacts : x.id = c.id /\ x.book = c.book
  <2>1. PICK x \in contacts : x.id = c.id /\ x.book = c.book
    BY <1>4
  <2>2. x.book = k.book
    BY <1>2, <1>3, <2>1 DEF BooksStay, Before, StoreIntegrity, KeysUnique
  <2>3. QED
    BY <2>1, <2>2
<1>5. CASE c.id = r /\ CreatesNow(r)
  <2>1. k.id # r
    BY <1>3, <1>5 DEF FreshIDs, CreatesNow
  <2>2. QED
    BY <1>2, <1>5, <2>1
<1>6. QED
  BY <1>1, <1>4, <1>5 DEF IDsKept

(* Books keep their owners: a bump does not touch the column, and the id   *)
(* of a new book is in no copy.                                            *)
LEMMA OutcomeOwnersStay ==
    ASSUME Before, FreshIDs, OwnersStay, NEW r \in Requests, Outcome(r)
    PROVE  OwnersStay'
<1>1. /\ books \subseteq Book
      /\ \A x \in loc[r].ab \cup Target(loc[r]) : x.id \in Ids
  BY BooksHeld DEF Before, TypeOK, StoreTypeOK
<1>2. SUFFICES ASSUME NEW q \in Requests, NEW a \in loc'[q].ab \cup loc'[q].dstAB,
                      NEW b \in books', a.id = b.id
               PROVE  a.owner = b.owner
  BY DEF OwnersStay
<1>3. a \in loc[q].ab \cup loc[q].dstAB \/ a \in books
  <2>1. CASE q = r
    BY <2>1, OutcomeMoves DEF Held
  <2>2. CASE q # r
    BY <2>2, OutcomeMoves
  <2>3. QED
    BY <2>1, <2>2
<1>4. CASE \E x \in books : x.id = b.id /\ x.owner = b.owner
  <2>1. PICK x \in books : x.id = b.id /\ x.owner = b.owner
    BY <1>4
  <2>2. a.owner = x.owner
    BY <1>2, <1>3, <2>1 DEF OwnersStay, Before, StoreIntegrity, KeysUnique
  <2>3. QED
    BY <2>1, <2>2
<1>5. CASE b.id = r /\ pc[r] = "mkcol"
  <2>1. a.id # r
    BY <1>3, <1>5 DEF FreshIDs
  <2>2. QED
    BY <1>2, <1>5, <2>1
<1>6. (\E x \in books : x.id = b.id /\ x.owner = b.owner) \/ (b.id = r /\ pc[r] = "mkcol")
  <2>1. CASE books' = books
    BY <2>1
  <2>2. ASSUME NEW n \in Book, CreateAddressBook(n), n.id = r, pc[r] = "mkcol"
        PROVE  (\E x \in books : x.id = b.id /\ x.owner = b.owner) \/ b.id = r
    BY <2>2 DEF CreateAddressBook
  <2>3. ASSUME NEW i \in Ids, DeleteAddressBook(i)
        PROVE  \E x \in books : x.id = b.id /\ x.owner = b.owner
    BY <2>3 DEF DeleteAddressBook
  <2>4. ASSUME NEW i \in Ids, BumpSyncToken(i)
        PROVE  \E x \in books : x.id = b.id /\ x.owner = b.owner
    BY <1>1, <2>4, BumpedTyped DEF BumpSyncToken
  <2>5. QED
    BY <1>1, <2>1, <2>2, <2>3, <2>4
    DEF Outcome, Effect, tables, CreateContact, UpdateContact, DeleteContact
<1>7. QED
  BY <1>4, <1>5, <1>6

-----------------------------------------------------------------------------
(* Tokens *)

(* A token never goes back; while it stays and no change is unannounced,   *)
(* the contents stay.                                                      *)
TokenKept(x, b) ==
    /\ x.id = b.id /\ x.token <= b.token
    /\ x.token = b.token /\ b.id \notin dirty' =>
          b.id \notin dirty /\ ListContacts(b.id)' = ListContacts(b.id)

LEMMA EffectTokens ==
    ASSUME Before, BooksStay, NEW r \in Requests, Effect(r)
    PROVE  \A b \in books' :
              (\E x \in books : TokenKept(x, b)) \/ (b.id = r /\ pc[r] = "mkcol")
<1>1. /\ books \subseteq Book /\ contacts \subseteq Contact
      /\ \A x \in books : x.token \in Nat /\ x.token <= x.token
  BY DEF Before, TypeOK, StoreTypeOK, Book
<1>2. SUFFICES ASSUME NEW b \in books', ~(b.id = r /\ pc[r] = "mkcol")
               PROVE  \E x \in books : TokenKept(x, b)
  OBVIOUS
<1>3. CASE UNCHANGED tables /\ dirty' = dirty
  BY <1>1, <1>3 DEF tables, TokenKept, ListContacts
<1>4. ASSUME NEW c \in Contact, CreateContact(c), Changed(c.book)
      PROVE  \E x \in books : TokenKept(x, b)
  <2>1. b \in books
    BY <1>4 DEF CreateContact
  <2>2. b.id # c.book => ListContacts(b.id)' = ListContacts(b.id)
    BY <1>4 DEF CreateContact, ListContacts
  <2>3. QED
    BY <1>1, <1>4, <2>1, <2>2 DEF TokenKept, Changed
<1>5. ASSUME NEW c \in Contact, UpdateContactErr(c) = "nil", UpdateContact(c),
             NEW k \in Pointers(loc[r]), k.id = c.id, k.book = c.book,
             Changed(c.book)
      PROVE  \E x \in books : TokenKept(x, b)
  <2>1. b \in books
    BY <1>5 DEF UpdateContact
  <2>2. \A y \in contacts : y.id = c.id => y.book = c.book /\ Rewritten(y, c).book = c.book
    BY <1>1, <1>5, RewrittenTyped DEF BooksStay, Pointers
  <2>3. b.id # c.book => ListContacts(b.id)' = ListContacts(b.id)
    BY <1>5, <2>2 DEF UpdateContact, ListContacts
  <2>4. QED
    BY <1>1, <1>5, <2>1, <2>3 DEF TokenKept, Changed
<1>6. ASSUME NEW k \in Pointers(loc[r]), DeleteContact(k.id), Changed(k.book)
      PROVE  \E x \in books : TokenKept(x, b)
  <2>1. b \in books
    BY <1>6 DEF DeleteContact
  <2>2. \A y \in contacts : y.id = k.id => y.book = k.book
    BY <1>6 DEF BooksStay, Pointers
  <2>3. b.id # k.book => ListContacts(b.id)' = ListContacts(b.id)
    BY <1>6, <2>2 DEF DeleteContact, ListContacts
  <2>4. QED
    BY <1>1, <1>6, <2>1, <2>3 DEF TokenKept, Changed
<1>7. ASSUME NEW n \in Book, CreateAddressBook(n), n.id = r, pc[r] = "mkcol", UNCHANGED dirty
      PROVE  \E x \in books : TokenKept(x, b)
  <2>1. b \in books
    BY <1>2, <1>7 DEF CreateAddressBook
  <2>2. ListContacts(b.id)' = ListContacts(b.id)
    BY <1>7 DEF CreateAddressBook, ListContacts
  <2>3. QED
    BY <1>1, <1>7, <2>1, <2>2 DEF TokenKept
<1>8. ASSUME NEW i \in Ids, DeleteAddressBook(i), dirty' = dirty \ {i}
      PROVE  \E x \in books : TokenKept(x, b)
  <2>1. b \in books /\ b.id # i
    BY <1>8 DEF DeleteAddressBook
  <2>2. ListContacts(b.id)' = ListContacts(b.id)
    BY <1>8, <2>1 DEF DeleteAddressBook, ListContacts
  <2>3. QED
    BY <1>1, <1>8, <2>1, <2>2 DEF TokenKept
<1>9. ASSUME NEW i \in Ids, BumpSyncToken(i), dirty' = dirty \ {i}
      PROVE  \E x \in books : TokenKept(x, b)
  <2>1. PICK x \in books : b = IF x.id = i THEN Bumped(x) ELSE x
    BY <1>9 DEF BumpSyncToken
  <2>2. ListContacts(b.id)' = ListContacts(b.id)
    BY <1>9 DEF BumpSyncToken, ListContacts
  <2>3. CASE x.id = i
    <3>1. b.id = x.id /\ b.token = x.token + 1
      BY <1>1, <2>1, <2>3, BumpedTyped
    <3>2. x.token <= b.token /\ x.token # b.token
      BY <1>1, <3>1
    <3>3. QED
      BY <3>1, <3>2 DEF TokenKept
  <2>4. CASE x.id # i
    BY <1>1, <1>9, <2>1, <2>2, <2>4 DEF TokenKept
  <2>5. QED
    BY <2>3, <2>4
<1>10. \A x \in loc[r].ab \cup Target(loc[r]) : x.id \in Ids
  BY BooksHeld
<1>11. QED
  BY <1>3, <1>4, <1>5, <1>6, <1>7, <1>8, <1>9, <1>10
  DEF Effect, Writes, GiveUp, history

LEMMA OutcomeTokens ==
    ASSUME Before, FreshIDs, BooksStay, TokensRead, NEW r \in Requests, Outcome(r)
    PROVE  TokensRead'
<1>1. SUFFICES ASSUME NEW q \in Requests, NEW b \in books'
               PROVE  /\ \A a \in loc'[q].ab : a.id = b.id => a.token <= b.token
                      /\ answer'[q].listing => \A a \in answer'[q].books :
                            a.id = b.id => /\ a.token <= b.token
                                           /\ a.token = b.token /\ b.id \notin dirty'
                                                => answer'[q].rows = ListContacts(b.id)'
  BY DEF TokensRead
<1>2. /\ Held(r, loc'[r]) /\ (answer'[r] = answer[r] \/ Vouched(r, answer'[r]))
      /\ q # r => loc'[q] = loc[q] /\ answer'[q] = answer[q]
  BY OutcomeMoves
<1>3. /\ books' \subseteq Book /\ books \subseteq Book
      /\ \A a \in loc[q].ab \cup answer[q].books : a.token \in Nat
      /\ \A a \in books \cup books' : a.token \in Nat
  <2>1. TypeOK /\ TypeOK'
    BY OutcomeBefore DEF Before
  <2>2. \A a \in Book : a.token \in Nat
    BY DEF Book
  <2>3. QED
    BY <2>1, <2>2 DEF TypeOK, StoreTypeOK, Locals, Answers
<1>4. CASE b.id = r /\ pc[r] = "mkcol"
  <2>1. \A a \in books \cup loc[q].ab \cup answer[q].books : a.id # b.id
    BY <1>4 DEF FreshIDs
  <2>2. \A a \in loc'[q].ab : a \in books \cup loc[q].ab
    BY <1>2 DEF Held
  <2>3. \A a \in answer'[q].books : a \in books \cup loc[q].ab \cup answer[q].books
    BY <1>2 DEF Vouched
  <2>4. QED
    BY <2>1, <2>2, <2>3
<1>5. ASSUME NEW x \in books, TokenKept(x, b)
      PROVE  /\ \A a \in loc'[q].ab : a.id = b.id => a.token <= b.token
             /\ answer'[q].listing => \A a \in answer'[q].books :
                   a.id = b.id => /\ a.token <= b.token
                                  /\ a.token = b.token /\ b.id \notin dirty'
                                       => answer'[q].rows = ListContacts(b.id)'
  <2>1. x.id = b.id /\ x.token <= b.token
    BY <1>5 DEF TokenKept
  <2>2. ASSUME NEW a \in loc'[q].ab, a.id = b.id
        PROVE  a.token <= b.token
    <3>1. a \in loc[q].ab \/ a \in books
      BY <1>2 DEF Held
    <3>2. CASE a \in books
      BY <2>1, <2>2, <3>2 DEF Before, StoreIntegrity, KeysUnique
    <3>3. CASE a \in loc[q].ab
      <4>1. a.token <= x.token
        BY <2>1, <2>2, <3>3 DEF TokensRead
      <4>2. QED
        BY <1>3, <2>1, <3>3, <4>1
    <3>4. QED
      BY <3>1, <3>2, <3>3
  <2>3. ASSUME answer'[q] = answer[q], answer[q].listing,
               NEW a \in answer[q].books, a.id = b.id
        PROVE  /\ a.token <= b.token
               /\ a.token = b.token /\ b.id \notin dirty'
                    => answer[q].rows = ListContacts(b.id)'
    <3>1. /\ a.token <= x.token
          /\ a.token = x.token /\ x.id \notin dirty => answer[q].rows = ListContacts(x.id)
      BY <2>1, <2>3 DEF TokensRead
    <3>2. a.token <= b.token /\ (a.token = b.token => a.token = x.token /\ x.token = b.token)
      BY <1>3, <2>1, <2>3, <3>1
    <3>3. QED
      BY <1>5, <2>1, <3>1, <3>2 DEF TokenKept
  <2>4. ASSUME q = r, Vouched(r, answer'[r]), answer'[r].listing,
               NEW a \in answer'[r].books, a.id = b.id
        PROVE  /\ a.token <= b.token
               /\ a.token = b.token /\ b.id \notin dirty'
                    => answer'[r].rows = ListContacts(b.id)'
    <3>1. UNCHANGED tables /\ a \in loc[r].ab /\ answer'[r].rows = ListContacts(a.id)
      BY <2>4 DEF Vouched
    <3>2. a.token <= b.token
      BY <2>4, <3>1 DEF TokensRead, tables
    <3>3. ListContacts(b.id)' = ListContacts(b.id)
      BY <3>1 DEF tables, ListContacts
    <3>4. QED
      BY <2>4, <3>1, <3>2, <3>3
  <2>5. QED
    BY <1>2, <2>2, <2>3, <2>4
<1>6. QED
  BY <1>4, <1>5, EffectTokens DEF Outcome

-----------------------------------------------------------------------------
(* The inductive invariant *)

LEMMA KnownInit == Init => KnownOK
<1> SUFFICES ASSUME Init PROVE KnownOK
  OBVIOUS
<1>1. Before
  BY BeforeInit
<1>2. /\ \A r \in Requests : loc[r] = NoLocals /\ answer[r] = NoAnswer
      /\ books = SeedBooks /\ contacts = SeedContacts
      /\ fts = {IndexRow(c) : c \in SeedContacts}
  BY DEF Init
<1>3. FreshIDs
  <2>1. \A r \in Requests : \A c \in SeedContacts : c.id # r /\ c.book # r
    BY SeedAssumption DEF ReferencesHold
  <2>2. QED
    BY <1>2, <2>1, SeedAssumption DEF FreshIDs, NoLocals, NoAnswer, IndexRow
<1>4. BooksStay /\ OwnersStay
  BY <1>2 DEF BooksStay, OwnersStay, NoLocals
<1>5. TokensRead
  BY <1>2 DEF TokensRead, NoLocals, NoAnswer
<1>6. QED
  BY <1>1, <1>3, <1>4, <1>5 DEF KnownOK, Before

LEMMA KnownCrash ==
    ASSUME KnownOK, Crash
    PROVE  KnownOK'
<1>1. Before /\ Before'
  BY CrashBefore DEF KnownOK, Before
<1>2. /\ \A q \in Requests : /\ loc'[q] = NoLocals
                             /\ pc'[q] \notin {"bump", "done", "gone"} =>
                                   pc[q] \notin {"bump", "done", "gone"}
      /\ UNCHANGED tables /\ UNCHANGED answer /\ UNCHANGED dirty
  BY <1>1, GiveUpTyped DEF Crash, InFlight, Before, TypeOK
<1>3. FreshIDs'
  BY <1>2 DEF KnownOK, FreshIDs, NoLocals, tables
<1>4. BooksStay' /\ OwnersStay'
  BY <1>2 DEF BooksStay, OwnersStay, NoLocals
<1>5. TokensRead'
  <2>1. \A i : ListContacts(i)' = ListContacts(i)
    BY <1>2 DEF tables, ListContacts
  <2>2. QED
    BY <1>2, <2>1 DEF KnownOK, TokensRead, NoLocals, tables
<1>6. QED
  BY <1>1, <1>3, <1>4, <1>5 DEF KnownOK, Before

LEMMA KnownStutter ==
    ASSUME KnownOK, Reconnect \/ UNCHANGED vars
    PROVE  KnownOK'
<1>1. Before'
  BY StutterBefore DEF KnownOK, Before
<1>2. UNCHANGED tables /\ UNCHANGED <<pc, loc, answer, dirty>>
  BY DEF Reconnect, vars, requestVars, history
<1>3. FreshIDs' /\ BooksStay' /\ OwnersStay'
  BY <1>2 DEF KnownOK, FreshIDs, BooksStay, OwnersStay, tables
<1>4. TokensRead'
  <2>1. \A i : ListContacts(i)' = ListContacts(i)
    BY <1>2 DEF tables, ListContacts
  <2>2. QED
    BY <1>2, <2>1 DEF KnownOK, TokensRead, tables
<1>5. QED
  BY <1>1, <1>3, <1>4 DEF KnownOK, Before

LEMMA KnownNext == KnownOK /\ [Next]_vars => KnownOK'
<1> SUFFICES ASSUME KnownOK, [Next]_vars PROVE KnownOK'
  OBVIOUS
<1>1. ASSUME NEW r \in Requests, Arrive(r) \/ Step(r) \/ StoreError(r)
      PROVE  KnownOK'
  <2>1. Before /\ FreshIDs /\ BooksStay /\ OwnersStay /\ TokensRead
    BY DEF KnownOK, Before
  <2>2. Outcome(r)
    BY <1>1, <2>1, StepOutcome
  <2>3. Before' /\ FreshIDs' /\ BooksStay' /\ OwnersStay' /\ TokensRead'
    BY <2>1, <2>2, OutcomeBefore, OutcomeFresh, OutcomeBooksStay, OutcomeOwnersStay,
       OutcomeTokens
  <2>4. QED
    BY <2>3 DEF KnownOK, Before
<1>2. CASE Crash
  BY <1>2, KnownCrash
<1>3. CASE Reconnect \/ UNCHANGED vars
  BY <1>3, KnownStutter
<1>4. QED
  BY <1>1, <1>2, <1>3 DEF Next, Quiet

(* What requests know of the tables, the rows and tokens in their local    *)
(* variables (contact.go, addressbook.go), is not older or newer than the  *)
(* tables allow, for any number of requests.                               *)
THEOREM KnownCorrect == Spec => []KnownOK
  BY KnownInit, KnownNext, PTL DEF Spec

(* A client that was shown a token and a listing may keep the listing for  *)
(* as long as the token stays and no change waits for its bump, however    *)
(* many writers ran between the two reads of the PROPFIND                  *)
(* (addressbook.go:179, 204; address_books.go:97-116).                     *)
THEOREM TokenVouches == Spec => []TokenVouchesForListing
<1>1. KnownOK => TokenVouchesForListing
  BY DEF KnownOK, TokensRead, TokenVouchesForListing
<1>2. QED
  BY KnownCorrect, <1>1, PTL

-----------------------------------------------------------------------------
(* Deleted contacts *)

LEMMA OutcomeNoResurrection ==
    ASSUME KnownOK, NEW r \in Requests, Outcome(r), NEW q \in Requests,
           NEW k \in loc[q].contact \cup loc[q].existing,
           \A c \in contacts : c.id # k.id
    PROVE  \A c \in contacts' : c.id # k.id
<1>1. IDsKept(r)
  BY EffectIDs DEF Outcome, KnownOK, Before
<1>2. CreatesNow(r) => k.id # r
  BY DEF KnownOK, FreshIDs, CreatesNow
<1>3. QED
  BY <1>1, <1>2 DEF IDsKept

(* A request that writes back a row it read before somebody deleted it     *)
(* does not bring the row back (contact.go:163, 389, 478).                 *)
THEOREM NeverResurrected == Spec => NoResurrection
<1>1. KnownOK /\ [Next]_vars =>
         [\A r \in Requests : \A k \in loc[r].contact \cup loc[r].existing :
             (\A c \in contacts : c.id # k.id) => \A c \in contacts' : c.id # k.id]_vars
  <2> SUFFICES ASSUME KnownOK, [Next]_vars, NEW q \in Requests,
                      NEW k \in loc[q].contact \cup loc[q].existing,
                      \A c \in contacts : c.id # k.id
               PROVE  \A c \in contacts' : c.id # k.id
    OBVIOUS
  <2>1. ASSUME NEW r \in Requests, Arrive(r) \/ Step(r) \/ StoreError(r)
        PROVE  \A c \in contacts' : c.id # k.id
    BY <2>1, StepOutcome, OutcomeNoResurrection DEF KnownOK, Before
  <2>2. CASE UNCHANGED tables
    BY <2>2 DEF tables
  <2>3. QED
    BY <2>1, <2>2 DEF Next, Reconnect, Crash, Quiet, vars
<1>2. QED
  BY KnownCorrect, <1>1, PTL DEF Spec, NoResurrection

-----------------------------------------------------------------------------
(* The full-text index *)

LEMMA EffectIndex ==
    ASSUME KnownOK, IndexInStep, NEW r \in Requests, Effect(r)
    PROVE  IndexInStep'
<1>1. StoreTypeOK /\ KeysUnique(books, contacts)
  BY DEF KnownOK, TypeOK, StoreIntegrity
<1>2. IndexInStep <=> Indexed
  BY DEF IndexInStep, Indexed
<1>3. Indexed' => IndexInStep'
  BY DEF IndexInStep, Indexed
<1>4. CASE UNCHANGED tables
  BY <1>4 DEF tables, IndexInStep
<1>5. ASSUME NEW c \in Contact, CreateContactErr(c) = "nil", CreateContact(c),
             c.id = r, CreatesNow(r)
      PROVE  Indexed'
  <2>1. \A f \in fts : f.contact # c.id
    BY <1>5 DEF KnownOK, FreshIDs, CreatesNow
  <2> QED
    BY <1>1, <1>2, <1>5, <2>1, CreateContactKeeps
<1>6. ASSUME NEW c \in Contact, UpdateContactErr(c) = "nil", UpdateContact(c)
      PROVE  Indexed'
  BY <1>1, <1>2, <1>6, UpdateContactKeeps
<1>7. ASSUME NEW i, DeleteContact(i)
      PROVE  Indexed'
  BY <1>1, <1>2, <1>7, DeleteContactKeeps
<1>8. ASSUME NEW b \in Book, CreateAddressBookErr(b) = "nil", CreateAddressBook(b)
      PROVE  Indexed'
  BY <1>1, <1>2, <1>8, CreateAddressBookKeeps
<1>9. ASSUME NEW i \in Ids, DeleteAddressBook(i)
      PROVE  Indexed'
  BY <1>1, <1>2, <1>9, DeleteAddressBookKeeps
<1>10. ASSUME NEW i \in Ids, BumpSyncToken(i)
       PROVE  Indexed'
  BY <1>1, <1>2, <1>10, BumpSyncTokenKeeps
<1>11. \A b \in loc[r].ab \cup Target(loc[r]) : b.id \in Ids
  BY BooksHeld DEF KnownOK, Before
<1>12. QED
  BY <1>3, <1>4, <1>5, <1>6, <1>7, <1>8, <1>9, <1>10, <1>11 DEF Effect, CreatesNow

(* Every contact is found under its current name and no other: the delete  *)
(* and the insert of an update (contacts.go:120-129) hit the right row,    *)
(* although rows of deleted books stay in the index for ever.              *)
THEOREM IndexCorrect == Spec => []IndexInStep
<1>1. Init => IndexInStep
  <2> SUFFICES ASSUME Init PROVE IndexInStep
    OBVIOUS
  <2>1. \A x, y \in contacts : x.id = y.id => x = y
    BY SeedAssumption DEF Init, KeysUnique
  <2>2. QED
    BY <2>1 DEF Init, IndexInStep, IndexRow
<1>2. KnownOK /\ IndexInStep /\ [Next]_vars => IndexInStep'
  <2> SUFFICES ASSUME KnownOK, IndexInStep, [Next]_vars PROVE IndexInStep'
    OBVIOUS
  <2>1. ASSUME NEW r \in Requests, Arrive(r) \/ Step(r) \/ StoreError(r)
        PROVE  IndexInStep'
    BY <2>1, StepOutcome, EffectIndex DEF KnownOK, Before, Outcome
  <2>2. CASE UNCHANGED tables
    BY <2>2 DEF tables, IndexInStep
  <2>3. QED
    BY <2>1, <2>2 DEF Next, Reconnect, Crash, Quiet, vars
<1>3. QED
  BY KnownCorrect, <1>1, <1>2, PTL DEF Spec

-----------------------------------------------------------------------------
(* Rows and answers *)

LEMMA RewrittenSound ==
    ASSUME NEW x, NEW c \in Contact, Sound(c)
    PROVE  Sound(Rewritten(x, c))
<1>1. PICK k : k = Rewritten(x, c)
  OBVIOUS
<1>2. k.uid = c.uid /\ k.vcard = c.vcard /\ k.etag = c.etag /\ k.fn = c.fn
  BY <1>1 DEF Rewritten, Contact
<1>3. QED
  BY <1>1, <1>2, Zenon DEF Sound, UIDInText

(* What a request writes is as sound as what it read. *)
LEMMA EffectSound ==
    ASSUME KnownOK, ContentsSound, NEW r \in Requests, Effect(r)
    PROVE  /\ \A b \in books' : b.ctag = AsText(b.token)
           /\ \A c \in contacts' : Sound(c)
<1>1. /\ \A b \in books : b.ctag = AsText(b.token)
      /\ \A c \in contacts : Sound(c)
      /\ \A k \in Pointers(loc[r]) : Sound(k)
      /\ books \subseteq Book
  BY DEF ContentsSound, Pointers, KnownOK, TypeOK, StoreTypeOK
<1>2. CASE UNCHANGED tables
  BY <1>1, <1>2 DEF tables
<1>3. ASSUME NEW c \in Contact, CreateContact(c), Sourced(r, c)
      PROVE  /\ \A b \in books' : b.ctag = AsText(b.token)
             /\ \A k \in contacts' : Sound(k)
  <2>1. Sound(c)
    BY <1>1, <1>3 DEF Sourced
  <2>2. books' = books /\ contacts' = contacts \cup {c}
    BY <1>3 DEF CreateContact
  <2>3. QED
    BY <1>1, <2>1, <2>2
<1>4. ASSUME NEW c \in Contact, UpdateContact(c), Sourced(r, c)
      PROVE  /\ \A b \in books' : b.ctag = AsText(b.token)
             /\ \A k \in contacts' : Sound(k)
  <2>1. Sound(c)
    BY <1>1, <1>4 DEF Sourced
  <2>2. \A x : Sound(Rewritten(x, c))
    BY <2>1, RewrittenSound
  <2>3. /\ books' = books
        /\ \A k \in contacts' : \E x \in contacts : k = x \/ k = Rewritten(x, c)
    BY <1>4 DEF UpdateContact
  <2>4. QED
    BY <1>1, <2>2, <2>3
<1>5. ASSUME books' \subseteq books, contacts' \subseteq contacts
      PROVE  /\ \A b \in books' : b.ctag = AsText(b.token)
             /\ \A k \in contacts' : Sound(k)
  BY <1>1, <1>5
<1>6. ASSUME NEW n \in Book, CreateAddressBook(n), n.token = 0, n.ctag = AsText(0)
      PROVE  /\ \A b \in books' : b.ctag = AsText(b.token)
             /\ \A k \in contacts' : Sound(k)
  BY <1>1, <1>6 DEF CreateAddressBook
<1>7. ASSUME NEW i, BumpSyncToken(i)
      PROVE  /\ \A b \in books' : b.ctag = AsText(b.token)
             /\ \A k \in contacts' : Sound(k)
  <2>1. \A b \in Book : Bumped(b).ctag = AsText(Bumped(b).token)
    BY DEF Bumped, Book
  <2>2. /\ contacts' = contacts
        /\ \A b \in books' : \E x \in books : b = x \/ b = Bumped(x)
    BY <1>7 DEF BumpSyncToken
  <2>3. QED
    BY <1>1, <2>1, <2>2
<1>8. QED
  BY <1>2, <1>3, <1>4, <1>5, <1>6, <1>7 DEF Effect, DeleteContact, DeleteAddressBook

LEMMA OutcomeSound ==
    ASSUME KnownOK, ContentsSound, NEW r \in Requests, Outcome(r)
    PROVE  ContentsSound'
<1>1. /\ \A b \in books' : b.ctag = AsText(b.token)
      /\ \A c \in contacts' : Sound(c)
  BY EffectSound DEF Outcome
<1>2. ASSUME NEW q \in Requests,
             NEW k \in loc'[q].contact \cup loc'[q].existing \cup loc'[q].found
      PROVE  Sound(k)
  <2>1. CASE q = r
    <3>1. Held(r, loc'[r])
      BY OutcomeMoves DEF KnownOK, Before
    <3>2. k \in contacts \cup loc[r].contact \cup loc[r].existing \cup loc[r].found
      BY <1>2, <2>1, <3>1 DEF Held
    <3>3. QED
      BY <3>2 DEF ContentsSound
  <2>2. CASE q # r
    <3>1. loc'[q] = loc[q]
      BY <2>2, OutcomeMoves DEF KnownOK, Before
    <3>2. QED
      BY <1>2, <3>1 DEF ContentsSound
  <2>3. QED
    BY <2>1, <2>2
<1>3. QED
  BY <1>1, <1>2 DEF ContentsSound

(* A text of the store that was converted to 3.0 converts back to itself. *)
LEMMA ToV3Back ==
    ASSUME NEW blob \in VCards
    PROVE  blob = ToV3(blob) \/ blob = ToV4(ToV3(blob))
<1>1. CASE blob.version = "4.0" /\ blob.exact
  <2>1. PICK old : old = [blob EXCEPT !.version = "3.0"]
    OBVIOUS
  <2>2. old.version = "3.0" /\ old.exact /\ [old EXCEPT !.version = "4.0"] = blob
    BY <1>1, <2>1 DEF VCards
  <2>3. ToV3(blob) = old /\ ToV4(old) = blob
    BY <1>1, <2>1, <2>2 DEF ToV3, ToV4, ToVersion
  <2>4. QED
    BY <2>3
<1>2. CASE ~(blob.version = "4.0" /\ blob.exact)
  BY <1>2 DEF ToV3, ToVersion
<1>3. QED
  BY <1>1, <1>2

LEMMA OutcomeAnswers ==
    ASSUME KnownOK, ContentsSound, AnswersCoherent, NEW r \in Requests, Outcome(r)
    PROVE  AnswersCoherent'
<1>1. SUFFICES ASSUME NEW q \in Requests, NEW k \in answer'[q].rows
               PROVE  k.etag = ComputeETag(k.vcard) \/ k.etag = ComputeETag(ToV4(k.vcard))
  BY DEF AnswersCoherent
<1>2. CASE answer'[q] = answer[q]
  BY <1>1, <1>2 DEF AnswersCoherent
<1>3. CASE q = r /\ Vouched(r, answer'[r])
  <2>1. \/ k \in contacts \cup loc[r].found
        \/ \E c \in contacts : k = [c EXCEPT !.vcard = ToV3(c.vcard)]
    BY <1>1, <1>3 DEF Vouched
  <2>2. CASE k \in contacts \cup loc[r].found
    BY <2>2 DEF ContentsSound, Sound
  <2>3. ASSUME NEW c \in contacts, k = [c EXCEPT !.vcard = ToV3(c.vcard)]
        PROVE  k.etag = ComputeETag(k.vcard) \/ k.etag = ComputeETag(ToV4(k.vcard))
    <3>1. c \in Contact /\ c.etag = ComputeETag(c.vcard)
      BY <2>3 DEF ContentsSound, Sound, KnownOK, TypeOK, StoreTypeOK
    <3>2. PICK blob \in VCards : blob = c.vcard
      BY <3>1 DEF Contact
    <3>3. k.etag = ComputeETag(blob) /\ k.vcard = ToV3(blob)
      BY <2>3, <3>1, <3>2 DEF Contact
    <3>4. QED
      BY <3>3, ToV3Back
  <2>4. QED
    BY <2>1, <2>2, <2>3
<1>4. QED
  BY <1>2, <1>3, OutcomeMoves DEF KnownOK, Before

-----------------------------------------------------------------------------
(* Marks *)

(* A step that changes a book changes one that it has looked up, which may *)
(* be gone by then; the others keep what they hold.                        *)
ChangesOnly(r, i) == /\ UNCHANGED books
                     /\ \A j : j # i => ListContacts(j)' = ListContacts(j)
                     /\ Writes(r, i)

(* The outcomes of a step as they show from outside of one book. *)
Deed(r) ==
    \/ UNCHANGED tables /\ UNCHANGED history /\ Owes(r) = {}
    \/ UNCHANGED tables /\ GiveUp({r})
    \/ \E i \in Ids : ChangesOnly(r, i)
    \/ \E b \in Book : /\ CreateAddressBookErr(b) = "nil" /\ CreateAddressBook(b)
                       /\ b.id = r /\ b.token = 0 /\ pc[r] = "mkcol"
                       /\ UNCHANGED history
    \/ \E b \in loc[r].ab :
          /\ DeleteAddressBookErr(b.id) = "nil" /\ DeleteAddressBook(b.id)
          /\ pc[r] = "rmbook" /\ pc'[r] = "done"
          /\ dirty' = dirty \ {b.id} /\ lost' = lost \ {b.id}
    \/ \E b \in Target(loc[r]) :
          /\ BumpSyncToken(b.id) /\ pc[r] = "bump"
          /\ dirty' = dirty \ {b.id} /\ lost' = lost \ {b.id}

LEMMA EffectDeed ==
    ASSUME KnownOK, NEW r \in Requests, Effect(r)
    PROVE  Deed(r)
<1>1. /\ Before /\ contacts \subseteq Contact
      /\ \A x \in contacts : x.book \in Ids
  BY DEF KnownOK, Before, TypeOK, StoreTypeOK, Contact
<1>2. ASSUME NEW c \in Contact, CreateContactErr(c) = "nil", CreateContact(c),
             Writes(r, c.book)
      PROVE  ChangesOnly(r, c.book) /\ c.book \in Ids
  <2>1. c.book \in Ids
    BY <1>2 DEF Contact
  <2>2. \A j : j # c.book => ListContacts(j)' = ListContacts(j)
    BY <1>2 DEF CreateContact, ListContacts
  <2>3. QED
    BY <1>2, <2>1, <2>2 DEF ChangesOnly, CreateContact
<1>3. ASSUME NEW c \in Contact, UpdateContactErr(c) = "nil", UpdateContact(c),
             NEW k \in Pointers(loc[r]), k.id = c.id, k.book = c.book,
             Writes(r, c.book)
      PROVE  ChangesOnly(r, c.book) /\ c.book \in Ids
  <2>1. \A y \in contacts : y.id = c.id => y.book = c.book
    BY <1>3 DEF KnownOK, BooksStay, Pointers
  <2>2. PICK x \in contacts : x.id = c.id
    BY <1>3 DEF UpdateContactErr
  <2>3. c.book \in Ids
    BY <1>1, <2>1, <2>2
  <2>4. \A y \in contacts : y.id = c.id => Rewritten(y, c).book = c.book
    BY <1>1, <2>1, RewrittenTyped
  <2>5. \A j : j # c.book => ListContacts(j)' = ListContacts(j)
    BY <1>3, <2>1, <2>4 DEF UpdateContact, ListContacts
  <2>6. QED
    BY <1>3, <2>3, <2>5 DEF ChangesOnly, UpdateContact
<1>4. ASSUME NEW k \in Pointers(loc[r]), DeleteContactErr(k.id) = "nil",
             DeleteContact(k.id), Writes(r, k.book)
      PROVE  ChangesOnly(r, k.book) /\ k.book \in Ids
  <2>1. \A y \in contacts : y.id = k.id => y.book = k.book
    BY <1>4 DEF KnownOK, BooksStay, Pointers
  <2>2. PICK x \in contacts : x.id = k.id
    BY <1>4 DEF DeleteContactErr
  <2>3. k.book \in Ids
    BY <1>1, <2>1, <2>2
  <2>4. \A j : j # k.book => ListContacts(j)' = ListContacts(j)
    BY <1>4, <2>1 DEF DeleteContact, ListContacts
  <2>5. QED
    BY <1>4, <2>3, <2>4 DEF ChangesOnly, DeleteContact
<1>5. QED
  BY <1>2, <1>3, <1>4 DEF Effect, Deed

(* Only books that exist are marked, and their marks go when they do. *)
LEMMA DeedMarks ==
    ASSUME KnownOK, MarkedBooksExist, NEW r \in Requests, Deed(r)
    PROVE  MarkedBooksExist'
<1>1. SUFFICES ASSUME NEW i \in dirty' \cup lost'
               PROVE  \E b \in books' : b.id = i
  BY DEF MarkedBooksExist
<1>2. CASE i \notin dirty \cup lost
  <2>1. PICK j \in Ids : ChangesOnly(r, j)
    BY <1>1, <1>2 DEF Deed, GiveUp, history
  <2>2. QED
    BY <1>1, <1>2, <2>1 DEF ChangesOnly, Writes, Changed
<1>3. CASE i \in dirty \cup lost
  <2>1. PICK b \in books : b.id = i
    BY <1>3 DEF MarkedBooksExist
  <2>2. CASE books' = books
    BY <2>1, <2>2
  <2>3. ASSUME NEW n, CreateAddressBook(n)
        PROVE  \E x \in books' : x.id = i
    BY <2>1, <2>3 DEF CreateAddressBook
  <2>4. ASSUME NEW a, DeleteAddressBook(a.id),
               dirty' = dirty \ {a.id}, lost' = lost \ {a.id}
        PROVE  \E x \in books' : x.id = i
    BY <1>1, <2>1, <2>4 DEF DeleteAddressBook
  <2>5. ASSUME NEW j, BumpSyncToken(j)
        PROVE  \E x \in books' : x.id = i
    <3>1. b \in Book
      BY <2>1 DEF KnownOK, TypeOK, StoreTypeOK
    <3>2. Bumped(b).id = i
      BY <2>1, <3>1, BumpedTyped
    <3>3. QED
      BY <2>1, <2>5, <3>2 DEF BumpSyncToken
  <2>6. QED
    BY <2>2, <2>3, <2>4, <2>5 DEF Deed, ChangesOnly, tables
<1>4. QED
  BY <1>2, <1>3

(* A mark that no other request owes a bump is owed by r, or given up. *)
LEMMA DeedOwed ==
    ASSUME KnownOK, ChangesOwed, NEW r \in Requests, Outcome(r), Deed(r)
    PROVE  ChangesOwed'
<1>1. SUFFICES ASSUME NEW i \in dirty'
               PROVE  i \in lost' \/ \E q \in Requests : i \in Owes(q)'
  BY DEF ChangesOwed
<1>2. \A q \in Requests \ {r} : Owes(q)' = Owes(q)
  <2>1. \A q \in Requests \ {r} : pc'[q] = pc[q] /\ loc'[q] = loc[q]
    BY OutcomeMoves DEF KnownOK, Before
  <2>2. QED
    BY <2>1 DEF Owes, Target
<1>3. \/ i \in lost' \/ i \in Owes(r)'
      \/ i \in dirty /\ i \notin Owes(r) /\ (i \in lost => i \in lost')
  <2>1. CASE UNCHANGED history /\ Owes(r) = {}
    BY <1>1, <2>1 DEF history
  <2>2. CASE GiveUp({r})
    BY <1>1, <2>2 DEF GiveUp
  <2>3. ASSUME NEW j, Writes(r, j)
        PROVE  i \in Owes(r)' \/ (i \in dirty /\ i \notin Owes(r) /\ lost' = lost)
    BY <1>1, <2>3 DEF Writes, Changed
  <2>4. ASSUME NEW b \in loc[r].ab, pc[r] = "rmbook",
               dirty' = dirty \ {b.id}, lost' = lost \ {b.id}
        PROVE  i \in dirty /\ i \notin Owes(r) /\ (i \in lost => i \in lost')
    BY <1>1, <2>4 DEF Owes
  <2>5. ASSUME NEW b \in Target(loc[r]), pc[r] = "bump",
               dirty' = dirty \ {b.id}, lost' = lost \ {b.id}
        PROVE  i \in dirty /\ i \notin Owes(r) /\ (i \in lost => i \in lost')
    <3>1. \A x \in Target(loc[r]) : x = b
      BY <2>5 DEF KnownOK, FlowOK, FlowAt, Target
    <3>2. Owes(r) \subseteq {b.id}
      BY <3>1 DEF Owes
    <3>3. QED
      BY <1>1, <2>5, <3>2
  <2>6. CASE pc[r] = "mkcol" /\ UNCHANGED history
    BY <1>1, <2>6 DEF history, Owes
  <2>7. QED
    BY <2>1, <2>2, <2>3, <2>4, <2>5, <2>6 DEF Deed, ChangesOnly
<1>4. CASE i \in dirty /\ i \notin Owes(r) /\ (i \in lost => i \in lost')
  <2>1. i \in lost \/ \E q \in Requests \ {r} : i \in Owes(q)
    BY <1>4 DEF ChangesOwed
  <2>2. QED
    BY <1>2, <1>4, <2>1
<1>5. QED
  BY <1>3, <1>4

-----------------------------------------------------------------------------
(* The inductive invariant *)

LEMMA IInvInit == Init => IInv
<1> SUFFICES ASSUME Init PROVE IInv
  OBVIOUS
<1>1. KnownOK
  BY KnownInit
<1>2. /\ \A r \in Requests : loc[r] = NoLocals /\ answer[r] = NoAnswer
      /\ books = SeedBooks /\ contacts = SeedContacts /\ dirty = {} /\ lost = {}
  BY DEF Init
<1>3. ContentsSound
  <2>1. \A c \in SeedContacts : Sound(c)
    BY SeedAssumption, Zenon DEF Sound, ColumnsAgree
  <2>2. \A b \in SeedBooks : b.ctag = AsText(b.token)
    BY SeedAssumption DEF ColumnsAgree
  <2>3. QED
    BY <1>2, <2>1, <2>2 DEF ContentsSound, NoLocals
<1>4. AnswersCoherent
  BY <1>2 DEF AnswersCoherent, NoAnswer
<1>5. MarkedBooksExist /\ ChangesOwed
  BY <1>2 DEF MarkedBooksExist, ChangesOwed
<1>6. QED
  BY <1>1, <1>3, <1>4, <1>5 DEF IInv

LEMMA IInvStep ==
    ASSUME IInv, NEW r \in Requests, Arrive(r) \/ Step(r) \/ StoreError(r)
    PROVE  IInv'
<1>1. KnownOK /\ Outcome(r) /\ Deed(r)
  BY StepOutcome, EffectDeed DEF IInv, KnownOK, Before, Outcome
<1>2. KnownOK'
  BY <1>1, KnownNext DEF Next
<1>3. ContentsSound' /\ AnswersCoherent'
  BY <1>1, OutcomeSound, OutcomeAnswers DEF IInv
<1>4. MarkedBooksExist' /\ ChangesOwed'
  BY <1>1, DeedMarks, DeedOwed DEF IInv
<1>5. QED
  BY <1>2, <1>3, <1>4 DEF IInv

(* Every bump that was owed when the process stopped is given up. *)
LEMMA IInvCrash ==
    ASSUME IInv, Crash
    PROVE  IInv'
<1>1. KnownOK'
  BY KnownNext DEF IInv, Next
<1>2. /\ UNCHANGED tables /\ UNCHANGED answer /\ UNCHANGED dirty
      /\ lost' = lost \cup (dirty \cap UNION {Owes(q) : q \in InFlight})
      /\ \A q \in Requests : loc'[q] = NoLocals
  BY DEF Crash, GiveUp
<1>3. ContentsSound' /\ AnswersCoherent'
  BY <1>2 DEF IInv, ContentsSound, AnswersCoherent, NoLocals, tables
<1>4. MarkedBooksExist'
  BY <1>2 DEF IInv, MarkedBooksExist, tables
<1>5. ChangesOwed'
  <2>1. \A q \in Requests : Owes(q) # {} => q \in InFlight
    BY DEF Owes, InFlight, Steps
  <2>2. dirty \subseteq lost'
    BY <1>2, <2>1 DEF IInv, ChangesOwed
  <2>3. QED
    BY <1>2, <2>2 DEF ChangesOwed
<1>6. QED
  BY <1>1, <1>3, <1>4, <1>5 DEF IInv

LEMMA IInvStutter ==
    ASSUME IInv, Reconnect \/ UNCHANGED vars
    PROVE  IInv'
<1>1. KnownOK'
  BY KnownStutter DEF IInv
<1>2. UNCHANGED tables /\ UNCHANGED <<pc, loc, answer, dirty, lost>>
  BY DEF Reconnect, vars, requestVars, history
<1>3. ContentsSound' /\ AnswersCoherent' /\ MarkedBooksExist'
  BY <1>2 DEF IInv, ContentsSound, AnswersCoherent, MarkedBooksExist, tables
<1>4. ChangesOwed'
  <2>1. \A q \in Requests : Owes(q)' = Owes(q)
    BY <1>2 DEF Owes, Target
  <2>2. QED
    BY <1>2, <2>1 DEF IInv, ChangesOwed
<1>5. QED
  BY <1>1, <1>3, <1>4 DEF IInv

LEMMA IInvNext == IInv /\ [Next]_vars => IInv'
  BY IInvStep, IInvCrash, IInvStutter DEF Next, Quiet

(* The inductive invariant: types, what requests know of the tables, sound *)
(* contents and answers, and marks that somebody owes a bump               *)
(* (contact.go, addressbook.go, report.go over internal/store/sqlite).     *)
THEOREM IInvCorrect == Spec => []IInv
  BY IInvInit, IInvNext, PTL DEF Spec

(* etag, fn and uid fit the text of their row, ctag fits the token, for    *)
(* any texts and any interleaving of PUT, COPY and MOVE                    *)
(* (contact.go:126-133, 153-163, 369-389, 478).                            *)
THEOREM RowsCorrect == Spec => []RowsCoherent
<1>1. IInv => RowsCoherent
  BY DEF IInv, ContentsSound, Sound, RowsCoherent, ColumnsAgree, UIDMatchesText
<1>2. QED
  BY IInvCorrect, <1>1, PTL

(* What is stored passes Validate: conversion to 4.0 and a new UID keep a  *)
(* text valid, and rows are written from checked bodies or from rows of    *)
(* the store only (contact.go:112, 124-133, 369-374).                      *)
THEOREM StoredValidCorrect == Spec => []StoredValid
<1>1. IInv => StoredValid
  BY DEF IInv, ContentsSound, Sound, StoredValid
<1>2. QED
  BY IInvCorrect, <1>1, PTL

(* An answer never mixes the ETag of one text with another text, however   *)
(* old the rows are that it shows (contact.go:60-70; report.go:60-160).    *)
THEOREM AnswersCorrect == Spec => []AnswersCoherent
<1>1. IInv => AnswersCoherent
  BY DEF IInv
<1>2. QED
  BY IInvCorrect, <1>1, PTL

(* Whatever requests run, fail or die, a change that the token does not    *)
(* show has a request in flight that will show it or was given up by one   *)
(* that failed (contact.go:199-202, 467-482).                              *)
THEOREM ChangesOwedCorrect == Spec => []ChangesOwed
<1>1. IInv => ChangesOwed
  BY DEF IInv
<1>2. QED
  BY IInvCorrect, <1>1, PTL

-----------------------------------------------------------------------------
(* Who may change what *)

(* A book that a request looked up belongs to the user in its URL, and the *)
(* request is allowed to act for that user.                                *)
LEMMA LookedUpOwn ==
    ASSUME KnownOK, NEW r \in Requests, pc[r] \in Steps, pc'[r] # pc[r],
           NEW t \in loc[r].ab \cup loc[r].dstAB, NEW b \in books, t.id = b.id
    PROVE  StepOf(r) /\ loc[r].call.as \in Admins \cup {b.owner}
<1>1. FlowAt(pc[r], loc[r])
  BY DEF KnownOK, FlowOK
<1>2. loc[r].call \in Calls /\ Allowed(loc[r].call) /\ t.owner = loc[r].call.user
  BY <1>1 DEF FlowAt
<1>3. b.owner = t.owner
  BY DEF KnownOK, OwnersStay
<1>4. QED
  BY <1>2, <1>3, CallsAssumption DEF StepOf, Allowed

LEMMA DeedOwn ==
    ASSUME KnownOK, NEW r \in Requests, Deed(r), NEW b \in books,
           ListContacts(b.id)' # ListContacts(b.id)
    PROVE  StepOf(r) /\ loc[r].call.as \in Admins \cup {b.owner}
<1>1. PICK i : i = b.id
  OBVIOUS
<1>2. ListContacts(i)' # ListContacts(i)
  BY <1>1
<1>3. contacts' # contacts
  BY <1>2 DEF ListContacts
<1>4. CASE \E j \in Ids : ChangesOnly(r, j)
  <2>1. ChangesOnly(r, i)
    BY <1>2, <1>4 DEF ChangesOnly
  <2>2. PICK t \in Target(loc[r]) : t.id = i /\ pc'[r] # pc[r] /\ pc[r] \in Steps
    BY <2>1 DEF ChangesOnly, Writes
  <2>3. t \in loc[r].ab \cup loc[r].dstAB
    BY <2>2 DEF Target
  <2>4. QED
    BY <1>1, <2>2, <2>3, LookedUpOwn
<1>5. ASSUME NEW t \in loc[r].ab, DeleteAddressBook(t.id),
             pc[r] = "rmbook", pc'[r] = "done"
      PROVE  StepOf(r) /\ loc[r].call.as \in Admins \cup {b.owner}
  <2>1. t.id = i
    BY <1>2, <1>5 DEF DeleteAddressBook, ListContacts
  <2>2. pc[r] \in Steps /\ pc'[r] # pc[r]
    BY <1>5 DEF Steps
  <2>3. QED
    BY <1>1, <2>1, <2>2, LookedUpOwn
<1>6. QED
  BY <1>3, <1>4, <1>5 DEF Deed, tables, CreateAddressBook, BumpSyncToken

(* The contents of a book change only in a step of its owner or an admin,  *)
(* for any users, also when the book was looked up before others removed   *)
(* it, and whoever the Destination header names (contact.go:315, 341).     *)
THEOREM OnlyOwnerCorrect == Spec => OnlyOwnerWrites
<1>1. IInv /\ [Next]_vars =>
         [\A b \in books :
             ListContacts(b.id)' # ListContacts(b.id)
             => \E r \in Requests : /\ StepOf(r)
                                    /\ loc[r].call.as \in Admins \cup {b.owner}]_vars
  <2> SUFFICES ASSUME IInv, [Next]_vars, NEW b \in books,
                      ListContacts(b.id)' # ListContacts(b.id)
               PROVE  \E r \in Requests : /\ StepOf(r)
                                          /\ loc[r].call.as \in Admins \cup {b.owner}
    OBVIOUS
  <2>1. contacts' # contacts
    BY DEF ListContacts
  <2>2. PICK r \in Requests : Arrive(r) \/ Step(r) \/ StoreError(r)
    BY <2>1 DEF Next, Reconnect, Crash, Quiet, vars, tables
  <2>3. KnownOK /\ Deed(r)
    BY <2>2, StepOutcome, EffectDeed DEF IInv, KnownOK, Before, Outcome
  <2>4. QED
    BY <2>3, DeedOwn
<1>2. QED
  BY IInvCorrect, <1>1, PTL DEF Spec, OnlyOwnerWrites

(* What a COPY or MOVE without leave to overwrite does to a contact that   *)
(* it does not move.                                                       *)
LEMMA OutcomeSpares ==
    ASSUME KnownOK, NEW r \in Requests, Effect(r), NEW c \in contacts,
           loc[r].call.op \in {"COPY", "MOVE"}, ~loc[r].call.overwrite,
           loc[r].call.op = "MOVE" => \A k \in loc[r].contact : k.id # c.id
    PROVE  c \in contacts'
<1>1. \A k \in Pointers(loc[r]) : Spares(r, k) => k.id # c.id
  BY DEF Spares
<1>2. pc[r] # "rmbook"
  BY DEF KnownOK, FlowOK, FlowAt
<1>3. ASSUME NEW k, k.id # c.id, DeleteContact(k.id)
      PROVE  c \in contacts'
  BY <1>3 DEF DeleteContact
<1>4. ASSUME NEW k, k.id # c.id, UpdateContact(k)
      PROVE  c \in contacts'
  BY <1>4 DEF UpdateContact
<1>5. QED
  BY <1>1, <1>2, <1>3, <1>4
  DEF Effect, tables, CreateContact, CreateAddressBook, BumpSyncToken

(* With "Overwrite: F" no contact at the destination is changed or removed,*)
(* not even one that appeared after the request looked (contact.go:362,    *)
(* 465): a destination found there refuses the request, and what appears   *)
(* later is kept by the UNIQUE constraint.                                 *)
THEOREM NoOverwriteCorrect == Spec => NoOverwriteHolds
<1>1. IInv /\ [Next]_vars =>
         [\A r \in Requests : \A c \in contacts :
             /\ StepOf(r)
             /\ loc[r].call.op \in {"COPY", "MOVE"}
             /\ ~loc[r].call.overwrite
             /\ \E b \in Target(loc[r]) : c.book = b.id
             /\ c.file = loc[r].call.dst.file
             /\ loc[r].call.op = "MOVE" => \A k \in loc[r].contact : k.id # c.id
             => c \in contacts']_vars
  <2> SUFFICES ASSUME IInv, [Next]_vars, NEW r \in Requests, NEW c \in contacts,
                      pc[r] # pc'[r],
                      loc[r].call.op \in {"COPY", "MOVE"}, ~loc[r].call.overwrite,
                      loc[r].call.op = "MOVE" => \A k \in loc[r].contact : k.id # c.id
               PROVE  c \in contacts'
    BY DEF StepOf
  <2>1. CASE UNCHANGED contacts
    BY <2>1
  <2>2. ASSUME NEW q \in Requests, Arrive(q) \/ Step(q) \/ StoreError(q)
        PROVE  c \in contacts'
    <3>1. KnownOK /\ Outcome(q)
      BY <2>2, StepOutcome DEF IInv, KnownOK, Before
    <3>2. q = r
      BY <3>1, OutcomeMoves DEF KnownOK, Before
    <3>3. QED
      BY <3>1, <3>2, OutcomeSpares DEF Outcome
  <2>3. QED
    BY <2>1, <2>2 DEF Next, Reconnect, Crash, Quiet, vars, tables
<1>2. QED
  BY IInvCorrect, <1>1, PTL DEF Spec, NoOverwriteHolds

-----------------------------------------------------------------------------
(* The handlers implement BookSync *)

(* The contacts of book i among cs. *)
Of(cs, i) == {c \in cs : c.book = i}

ShelfOf(bs, cs) == [i \in {b.id : b \in bs} |->
                       [token |-> (CHOOSE b \in bs : b.id = i).token,
                        contents |-> Of(cs, i)]]

(* s shows each of these books under its id, and nothing else. *)
Shows(s, bs, cs) ==
    /\ DOMAIN s = {b.id : b \in bs} /\ s = [i \in {b.id : b \in bs} |-> s[i]]
    /\ \A b \in bs : s[b.id] = [token |-> b.token,
                                contents |-> Of(cs, b.id)]

LEMMA ShelfShows ==
    ASSUME NEW bs, NEW cs, \A x, y \in bs : x.id = y.id => x = y
    PROVE  Shows(ShelfOf(bs, cs), bs, cs)
<1>1. \A b \in bs : (CHOOSE x \in bs : x.id = b.id) = b
  OBVIOUS
<1>2. QED
  BY <1>1 DEF ShelfOf, Shows

LEMMA BookShelfShows ==
    ASSUME KnownOK, KnownOK'
    PROVE  Shows(BookShelf, books, contacts) /\ Shows(BookShelf', books', contacts')
<1>1. /\ \A x, y \in books : x.id = y.id => x = y
      /\ \A x, y \in books' : x.id = y.id => x = y
  BY DEF KnownOK, StoreIntegrity, KeysUnique
<1>2. /\ Shows(ShelfOf(books, contacts), books, contacts)
      /\ Shows(ShelfOf(books', contacts'), books', contacts')
  BY <1>1, ShelfShows
<1>3. /\ BookShelf = ShelfOf(books, contacts)
      /\ BookShelf' = ShelfOf(books', contacts')
  BY DEF BookShelf, ShelfOf, ListContacts, Of
<1>4. QED
  BY <1>2, <1>3

(* A book that stays as it is, with the same contents, is shown the same.  *)
LEMMA ShownTheSame ==
    ASSUME NEW s, NEW t, NEW bs, NEW cs, NEW bt, NEW ct,
           Shows(s, bs, cs), Shows(t, bt, ct),
           NEW x, NEW b \in bs \cap bt, b.id = x, Of(ct, x) = Of(cs, x)
    PROVE  t[x] = s[x]
<1>1. /\ s[x] = [token |-> b.token, contents |-> Of(cs, x)]
      /\ t[x] = [token |-> b.token, contents |-> Of(ct, x)]
  BY DEF Shows
<1>2. QED
  BY <1>1

LEMMA PutIs ==
    ASSUME NEW s, NEW t, NEW i, NEW v, NEW D, t = [x \in D |-> t[x]],
           D = DOMAIN s \cup {i}, t[i] = v, \A x \in DOMAIN s \ {i} : t[x] = s[x]
    PROVE  t = Sync!Put(s, i, v)
  BY DEF Sync!Put

LEMMA ChangeImplements ==
    ASSUME IInv, KnownOK', NEW r \in Requests, NEW i \in Ids, ChangesOnly(r, i),
           NEW b \in books, b.id = i
    PROVE  Sync!Change(i)
<1>1. PICK s, t : s = BookShelf /\ t = BookShelf'
  OBVIOUS
<1>2. Shows(s, books, contacts) /\ Shows(t, books', contacts')
  BY <1>1, BookShelfShows DEF IInv
<1>3. /\ books' = books /\ Changed(i)
      /\ \A j : j # i => Of(contacts', j) = Of(contacts, j)
  BY DEF ChangesOnly, Writes, ListContacts, Of
<1>4. b \in books /\ b.id = i
  OBVIOUS
<1>5. ASSUME NEW x \in DOMAIN s \ {i} PROVE t[x] = s[x]
  <2>1. PICK y \in books \cap books' : y.id = x
    BY <1>2, <1>3 DEF Shows
  <2>2. Of(contacts', x) = Of(contacts, x)
    BY <1>3
  <2>3. QED
    BY <1>2, <2>1, <2>2, ShownTheSame
<1>6. t[i] = [token |-> s[i].token, contents |-> t[i].contents]
  <2>1. /\ s[i] = [token |-> b.token, contents |-> Of(contacts, i)]
        /\ t[i] = [token |-> b.token, contents |-> Of(contacts', i)]
    BY <1>2, <1>3, <1>4 DEF Shows
  <2>2. QED
    BY <2>1
<1>7. DOMAIN t = DOMAIN s /\ i \in DOMAIN s /\ t = [x \in DOMAIN s |-> t[x]]
  BY <1>2, <1>3, <1>4 DEF Shows
<1>8. t = Sync!Put(s, i, [token |-> s[i].token, contents |-> t[i].contents])
  <2>1. DOMAIN s = DOMAIN s \cup {i}
    BY <1>7
  <2>2. QED
    BY <1>5, <1>6, <1>7, <2>1, PutIs
<1>9. QED
  BY <1>1, <1>3, <1>7, <1>8 DEF Sync!Change, Changed

(* Rows left in a book that is gone are in no book that can be seen.       *)
LEMMA LeftoverImplements ==
    ASSUME NEW r \in Requests, NEW i \in Ids, ChangesOnly(r, i),
           ~ \E b \in books : b.id = i
    PROVE  UNCHANGED Sync!avars
<1>1. books' = books /\ dirty' = dirty /\ lost' = lost
  BY DEF ChangesOnly, Writes, Changed
<1>2. \A x \in {b.id : b \in books} : ListContacts(x)' = ListContacts(x)
  BY DEF ChangesOnly
<1>3. BookShelf' = BookShelf
  BY <1>1, <1>2 DEF BookShelf
<1>4. QED
  BY <1>1, <1>3 DEF Sync!avars

LEMMA OpenImplements ==
    ASSUME IInv, KnownOK', NEW n \in Book, CreateAddressBookErr(n) = "nil",
           CreateAddressBook(n), n.token = 0, UNCHANGED history,
           n.id \in Requests, pc[n.id] = "mkcol"
    PROVE  Sync!Open(n.id)
<1>1. PICK s, t : s = BookShelf /\ t = BookShelf'
  OBVIOUS
<1>2. Shows(s, books, contacts) /\ Shows(t, books', contacts')
  BY <1>1, BookShelfShows DEF IInv
<1>3. books' = books \cup {n} /\ contacts' = contacts /\ \A b \in books : b.id # n.id
  BY DEF CreateAddressBook, CreateAddressBookErr
<1>4. Of(contacts, n.id) = {}
  BY DEF IInv, KnownOK, FreshIDs, Of
<1>5. /\ DOMAIN t = DOMAIN s \cup {n.id} /\ n.id \notin DOMAIN s
      /\ t = [x \in DOMAIN t |-> t[x]]
  BY <1>2, <1>3 DEF Shows
<1>6. t[n.id] = [token |-> 0, contents |-> {}]
  <2>1. t[n.id] = [token |-> n.token, contents |-> Of(contacts, n.id)]
    BY <1>2, <1>3 DEF Shows
  <2>2. QED
    BY <1>4, <2>1
<1>7. ASSUME NEW x \in DOMAIN s \ {n.id} PROVE t[x] = s[x]
  <2>1. PICK y \in books \cap books' : y.id = x
    BY <1>2, <1>3 DEF Shows
  <2>2. Of(contacts', x) = Of(contacts, x)
    BY <1>3
  <2>3. QED
    BY <1>2, <2>1, <2>2, ShownTheSame
<1>8. t = Sync!Put(s, n.id, [token |-> 0, contents |-> {}])
  BY <1>5, <1>6, <1>7, PutIs
<1>9. QED
  BY <1>1, <1>5, <1>8 DEF Sync!Open, history

LEMMA DropImplements ==
    ASSUME IInv, KnownOK', NEW i, DeleteAddressBookErr(i) = "nil", DeleteAddressBook(i),
           dirty' = dirty \ {i}, lost' = lost \ {i}
    PROVE  Sync!Drop(i)
<1>1. PICK s, t : s = BookShelf /\ t = BookShelf'
  OBVIOUS
<1>2. Shows(s, books, contacts) /\ Shows(t, books', contacts')
  BY <1>1, BookShelfShows DEF IInv
<1>3. /\ books' = {b \in books : b.id # i}
      /\ contacts' = {c \in contacts : enforced => c.book # i}
      /\ \E b \in books : b.id = i
  BY DEF DeleteAddressBook, DeleteAddressBookErr
<1>4. /\ i \in DOMAIN s /\ DOMAIN t = DOMAIN s \ {i}
      /\ t = [x \in DOMAIN s \ {i} |-> t[x]]
  BY <1>2, <1>3 DEF Shows
<1>5. ASSUME NEW x \in DOMAIN s \ {i} PROVE t[x] = s[x]
  <2>1. PICK y \in books \cap books' : y.id = x
    BY <1>2, <1>3 DEF Shows
  <2>2. Of(contacts', x) = Of(contacts, x)
    BY <1>3 DEF Of
  <2>3. QED
    BY <1>2, <2>1, <2>2, ShownTheSame
<1>6. t = [x \in DOMAIN s \ {i} |-> s[x]]
  BY <1>4, <1>5
<1>7. QED
  BY <1>1, <1>4, <1>6 DEF Sync!Drop

LEMMA AnnounceImplements ==
    ASSUME IInv, KnownOK', NEW i, \E b \in books : b.id = i, BumpSyncToken(i),
           dirty' = dirty \ {i}, lost' = lost \ {i}
    PROVE  Sync!Announce(i)
<1>1. PICK s, t : s = BookShelf /\ t = BookShelf'
  OBVIOUS
<1>2. Shows(s, books, contacts) /\ Shows(t, books', contacts')
  BY <1>1, BookShelfShows DEF IInv
<1>3. PICK b \in books : b.id = i
  OBVIOUS
<1>4. /\ contacts' = contacts
      /\ books' = {IF x.id = i THEN Bumped(x) ELSE x : x \in books}
  BY DEF BumpSyncToken
<1>5. \A x \in books : Bumped(x).id = x.id /\ Bumped(x).token = x.token + 1
  <2>1. books \subseteq Book
    BY DEF IInv, KnownOK, TypeOK, StoreTypeOK
  <2>2. QED
    BY <2>1, BumpedTyped
<1>6. DOMAIN t = DOMAIN s /\ i \in DOMAIN s /\ t = [x \in DOMAIN s |-> t[x]]
  <2>1. {x.id : x \in books'} = {x.id : x \in books}
    BY <1>4, <1>5
  <2>2. QED
    BY <1>2, <1>3, <2>1 DEF Shows
<1>7. t[i] = [s[i] EXCEPT !.token = s[i].token + 1]
  <2>1. Bumped(b) \in books' /\ Bumped(b).id = i /\ Bumped(b).token = b.token + 1
    BY <1>3, <1>4, <1>5
  <2>2. t[i] = [token |-> b.token + 1, contents |-> Of(contacts, i)]
    BY <1>2, <1>4, <2>1 DEF Shows
  <2>3. s[i] = [token |-> b.token, contents |-> Of(contacts, i)]
    BY <1>2, <1>3 DEF Shows
  <2>4. QED
    BY <2>2, <2>3
<1>8. ASSUME NEW x \in DOMAIN s \ {i} PROVE t[x] = s[x]
  <2>1. PICK y \in books \cap books' : y.id = x
    BY <1>2, <1>4 DEF Shows
  <2>2. QED
    BY <1>2, <1>4, <2>1, ShownTheSame
<1>9. t = Sync!Put(s, i, [s[i] EXCEPT !.token = s[i].token + 1])
  <2>1. DOMAIN s = DOMAIN s \cup {i}
    BY <1>6
  <2>2. QED
    BY <1>6, <1>7, <1>8, <2>1, PutIs
<1>10. QED
  BY <1>1, <1>6, <1>9 DEF Sync!Announce

LEMMA AbandonImplements ==
    ASSUME UNCHANGED <<books, contacts>>, NEW rs, GiveUp(rs)
    PROVE  Sync!Abandon(lost' \ lost)
<1>1. BookShelf' = BookShelf
  BY DEF BookShelf, ListContacts
<1>2. QED
  BY <1>1 DEF GiveUp, Sync!Abandon

(* A bump of a book that is gone changes nothing: it has no marks either.  *)
LEMMA DeedImplements ==
    ASSUME IInv, KnownOK', NEW r \in Requests, Deed(r)
    PROVE  [Sync!ANext]_(Sync!avars)
<1>1. CASE UNCHANGED tables /\ UNCHANGED history
  <2>1. BookShelf' = BookShelf
    BY <1>1 DEF BookShelf, ListContacts, tables
  <2>2. QED
    BY <1>1, <2>1 DEF Sync!avars, history
<1>2. CASE UNCHANGED tables /\ GiveUp({r})
  BY <1>2, AbandonImplements DEF tables, Sync!ANext
<1>3. ASSUME NEW i \in Ids, ChangesOnly(r, i) PROVE [Sync!ANext]_(Sync!avars)
  <2>1. CASE \E b \in books : b.id = i
    BY <1>3, <2>1, ChangeImplements DEF Sync!ANext
  <2>2. CASE ~ \E b \in books : b.id = i
    BY <1>3, <2>2, LeftoverImplements
  <2>3. QED
    BY <2>1, <2>2
<1>4. ASSUME NEW n \in Book, CreateAddressBookErr(n) = "nil",
             CreateAddressBook(n), n.token = 0, UNCHANGED history,
             n.id = r, pc[r] = "mkcol"
      PROVE  Sync!ANext
  <2>1. n.id \in Ids
    BY DEF Book
  <2>2. QED
    BY <1>4, <2>1, OpenImplements DEF Sync!ANext
<1>5. \A b \in loc[r].ab \cup Target(loc[r]) : b.id \in Ids
  BY BooksHeld DEF IInv, KnownOK, Before
<1>6. ASSUME NEW b \in loc[r].ab, DeleteAddressBookErr(b.id) = "nil",
             DeleteAddressBook(b.id), dirty' = dirty \ {b.id}, lost' = lost \ {b.id}
      PROVE  Sync!ANext
  BY <1>5, <1>6, DropImplements DEF Sync!ANext
<1>7. ASSUME NEW b \in Target(loc[r]), BumpSyncToken(b.id),
             dirty' = dirty \ {b.id}, lost' = lost \ {b.id}
      PROVE  [Sync!ANext]_(Sync!avars)
  <2>1. CASE \E x \in books : x.id = b.id
    BY <1>5, <1>7, <2>1, AnnounceImplements DEF Sync!ANext
  <2>2. CASE ~ \E x \in books : x.id = b.id
    <3>1. books' = books /\ contacts' = contacts
      BY <1>7, <2>2 DEF BumpSyncToken
    <3>2. dirty' = dirty /\ lost' = lost
      BY <1>7, <2>2 DEF IInv, MarkedBooksExist
    <3>3. BookShelf' = BookShelf
      BY <3>1 DEF BookShelf, ListContacts
    <3>4. QED
      BY <3>2, <3>3 DEF Sync!avars
  <2>3. QED
    BY <2>1, <2>2
<1>8. QED
  BY <1>1, <1>2, <1>3, <1>4, <1>6, <1>7 DEF Deed

LEMMA NextImplements == IInv /\ [Next]_vars => [Sync!ANext]_(Sync!avars)
<1> SUFFICES ASSUME IInv, [Next]_vars PROVE [Sync!ANext]_(Sync!avars)
  OBVIOUS
<1>1. ASSUME NEW r \in Requests, Arrive(r) \/ Step(r) \/ StoreError(r)
      PROVE  [Sync!ANext]_(Sync!avars)
  <2>1. KnownOK' /\ Deed(r)
    BY <1>1, IInvStep, StepOutcome, EffectDeed DEF IInv, KnownOK, Before, Outcome
  <2>2. QED
    BY <2>1, DeedImplements
<1>2. CASE Crash
  BY <1>2, AbandonImplements DEF Crash, tables, Sync!ANext
<1>3. CASE Reconnect \/ UNCHANGED vars
  <2>1. BookShelf' = BookShelf /\ UNCHANGED history
    BY <1>3 DEF Reconnect, BookShelf, ListContacts, vars, tables, history
  <2>2. QED
    BY <2>1 DEF Sync!avars, history
<1>4. QED
  BY <1>1, <1>2, <1>3 DEF Next, Quiet

(* The handlers implement the abstract book: contents change only with a   *)
(* mark, a token moves by one and only by a bump that covers every change  *)
(* so far, and nothing else happens to a book, for any number of requests  *)
(* and books (contact.go:199-202; address_books.go:97-116).                *)
THEOREM BooksImplement == Spec => ImplementsBookSync
<1>1. Init => Sync!AInit
  <2> SUFFICES ASSUME Init PROVE Sync!AInit
    OBVIOUS
  <2>1. \A x, y \in books : x.id = y.id => x = y
    BY SeedAssumption DEF Init, KeysUnique
  <2>2. PICK s : s = BookShelf
    OBVIOUS
  <2>3. Shows(s, books, contacts)
    <3>1. s = ShelfOf(books, contacts)
      BY <2>2 DEF BookShelf, ShelfOf, ListContacts, Of
    <3>2. QED
      BY <2>1, <3>1, ShelfShows
  <2>4. \A b \in books : b.token \in Nat
    BY SeedAssumption DEF Init, Book
  <2>5. \A i \in DOMAIN s : s[i].token \in Nat
    <3>1. \A i \in DOMAIN s : \E b \in books :
             s[i] = [token |-> b.token, contents |-> Of(contacts, b.id)]
      BY <2>3 DEF Shows
    <3>2. QED
      BY <2>4, <3>1
  <2>6. QED
    BY <2>2, <2>5 DEF Init, Sync!AInit
<1>2. QED
  BY <1>1, NextImplements, IInvCorrect, PTL DEF Spec, ImplementsBookSync, Sync!ASpec

=============================================================================
