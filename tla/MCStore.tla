------------------------------ MODULE MCStore ------------------------------
(***************************************************************************)
(* A small instance of StoreTx: one book with one contact, and calls that  *)
(* conflict with each other, with references and with themselves.          *)
(***************************************************************************)
EXTENDS StoreTx, TLC

MCUsers == {"alice"}
MCBookNames == {"home"}
MCFiles == {"a", "b"}
MCNames == {"Ann", "Bea"}
MCUIDs == {"u1", "u2"}
MCIds == {"home1", "home2", "ann1", "bea1"}

Card(fn, uid) == [version |-> "4.0", exact |-> TRUE, fn |-> fn, hasN |-> TRUE,
                  uid |-> uid, anchored |-> TRUE, bigPhoto |-> FALSE]

Row(id, file, blob) ==
    [id |-> id, book |-> "home1", file |-> file, uid |-> blob.uid,
     etag |-> ComputeETag(blob), vcard |-> blob, fn |-> blob.fn]

Home(id) == [id |-> id, owner |-> "alice", name |-> "home",
             token |-> 0, ctag |-> AsText(0)]

MCSeedBooks == {Home("home1")}
MCSeedContacts == {Row("ann1", "a", Card("Ann", "u1"))}

MCCalls ==
    {[op |-> "CreateContact", row |-> Row("bea1", "b", Card("Bea", "u2"))],
     [op |-> "UpdateContact", row |-> Row("ann1", "b", Card("Bea", "u1"))],
     [op |-> "DeleteContact", id |-> "ann1"],
     [op |-> "CreateAddressBook", row |-> Home("home2")],
     [op |-> "DeleteAddressBook", id |-> "home1"],
     [op |-> "BumpSyncToken", id |-> "home1"],
     [op |-> "ListContacts", id |-> "home1"]}
=============================================================================
