---------------------------- MODULE AtomicStore ----------------------------
(***************************************************************************)
(* What the callers of store.Store rely on, and what DavHandlers assumes:  *)
(* an operation takes effect at one moment between its call and its        *)
(* return, entirely or not at all, and returns the error that belongs to   *)
(* that moment.  It may also fail without effect.  Tables outlive a crash, *)
(* calls do not.                                                           *)
(*                                                                         *)
(* BumpSyncToken is two such operations, an UPDATE and a SELECT of the new *)
(* token.                                                                  *)
(***************************************************************************)
EXTENDS ContactStore

CONSTANTS Slots,    \* callers: goroutines that may be in the store at a time
          Calls,    \* calls of the store
          NoCall,
          MaxToken, \* bound: BumpSyncToken is not called above it
          SeedBooks,    \* what an earlier run left
          SeedContacts

(* A call names its operation and what it is given: a row or a key. *)
Operation ==
    [op : {"CreateContact", "UpdateContact"}, row : Contact] \cup
    [op : {"CreateAddressBook"}, row : Book] \cup
    [op : {"DeleteContact", "DeleteAddressBook", "BumpSyncToken", "ListContacts"},
     id : Ids]

(* What is left of a BumpSyncToken after its UPDATE. *)
SecondHalf == [op : {"SelectToken"}, id : Ids]

(* The rows of an earlier run were written under the constraints of the    *)
(* schema.                                                                 *)
ASSUME AtomicAssumption ==
    /\ Calls \subseteq Operation
    /\ NoCall \notin Operation \cup SecondHalf
    /\ SeedBooks \subseteq Book /\ SeedContacts \subseteq Contact
    /\ KeysUnique(SeedBooks, SeedContacts)
    /\ ReferencesHold(SeedBooks, SeedContacts)

Result == {"none", "nil", "ErrConflict", "ErrNotFound", "error"}

VARIABLES call,      \* what a slot has called
          err,       \* the error that was decided, "none" before
          rows       \* the rows that a list returns

callVars == <<call, err, rows>>
atomicVars == <<tables, callVars, pragma>>

AtomicInit ==
    /\ books = SeedBooks
    /\ contacts = SeedContacts
    /\ fts = {IndexRow(c) : c \in SeedContacts}
    /\ call = [s \in Slots |-> NoCall]
    /\ err = [s \in Slots |-> "none"]
    /\ rows = [s \in Slots |-> {}]
    /\ enforced = TRUE
    /\ loose = FALSE

Creations == {"CreateContact", "CreateAddressBook"}

(* The id of a new row is a fresh UUID. *)
Fresh(id) == /\ ~ Used(id)
             /\ \A s \in Slots :
                   ~ (/\ call[s] # NoCall
                      /\ call[s].op \in Creations
                      /\ call[s].row.id = id)

Invoke(s) ==
    /\ call[s] = NoCall
    /\ \E c \in Calls :
          /\ c.op \in Creations => Fresh(c.row.id)
          /\ c.op = "BumpSyncToken" => \A b \in books : b.token < MaxToken
          /\ call' = [call EXCEPT ![s] = c]
    /\ UNCHANGED <<tables, err, rows, pragma>>

Pending(s) == call[s] # NoCall /\ err[s] = "none"

Decide(s, e) == /\ err' = [err EXCEPT ![s] = e]
                /\ UNCHANGED <<call, rows, pragma>>

(* An operation with the error it returns: its effect when that is "nil".  *)
When(s, e, Effect) == IF e = "nil" THEN Effect /\ Decide(s, "nil")
                                   ELSE UNCHANGED tables /\ Decide(s, e)


Perform(s) ==
    /\ Pending(s)
    /\ LET c == call[s] IN
       \/ /\ c.op = "CreateContact"
          /\ When(s, CreateContactErr(c.row), CreateContact(c.row))
       \/ /\ c.op = "UpdateContact"
          /\ When(s, UpdateContactErr(c.row), UpdateContact(c.row))
       \/ /\ c.op = "DeleteContact"
          /\ When(s, DeleteContactErr(c.id), DeleteContact(c.id))
       \/ /\ c.op = "CreateAddressBook"
          /\ When(s, CreateAddressBookErr(c.row), CreateAddressBook(c.row))
       \/ /\ c.op = "DeleteAddressBook"
          /\ When(s, DeleteAddressBookErr(c.id), DeleteAddressBook(c.id))
       \/ /\ c.op = "SelectToken"
          /\ When(s, DeleteAddressBookErr(c.id), UNCHANGED tables)
       \/ /\ c.op = "ListContacts"
          /\ rows' = [rows EXCEPT ![s] = ListContacts(c.id)]
          /\ err' = [err EXCEPT ![s] = "nil"]
          /\ UNCHANGED <<tables, call, pragma>>

(* The first half of BumpSyncToken; the second is still to come. *)
BumpFirst(s) ==
    /\ Pending(s)
    /\ call[s].op = "BumpSyncToken"
    /\ BumpSyncToken(call[s].id)
    /\ call' = [call EXCEPT ![s].op = "SelectToken"]
    /\ UNCHANGED <<err, rows, pragma>>

Fail(s) == Pending(s) /\ UNCHANGED tables /\ Decide(s, "error")

Return(s) ==
    /\ err[s] # "none"
    /\ call' = [call EXCEPT ![s] = NoCall]
    /\ err' = [err EXCEPT ![s] = "none"]
    /\ rows' = [rows EXCEPT ![s] = {}]
    /\ UNCHANGED <<tables, pragma>>

Reconnect == LosePragma /\ UNCHANGED <<tables, callVars>>

(* A crash, and a start that opens the file again. *)
Restart ==
    /\ call' = [s \in Slots |-> NoCall]
    /\ err' = [s \in Slots |-> "none"]
    /\ rows' = [s \in Slots |-> {}]
    /\ SetPragma
    /\ UNCHANGED tables

AtomicNext ==
    \/ \E s \in Slots : Invoke(s) \/ Perform(s) \/ BumpFirst(s) \/ Fail(s) \/ Return(s)
    \/ Reconnect
    \/ Restart

AtomicSpec == AtomicInit /\ [][AtomicNext]_atomicVars
=============================================================================
