\* Two callers of the store, again and again.
SPECIFICATION FairSpec
CONSTANTS
    Slots = {s1, s2}
    Absent = Absent
    NoCall = NoCall
    Nobody = Nobody
    Undoing = Undoing
    MaxToken = 1
    Users <- MCUsers
    BookNames <- MCBookNames
    Files <- MCFiles
    Ids <- MCIds
    Names <- MCNames
    UIDs <- MCUIDs
    Calls <- MCCalls
    SeedBooks <- MCSeedBooks
    SeedContacts <- MCSeedContacts
INVARIANTS
    TransactionsOK
    ConstraintsHold
PROPERTIES
    ImplementsAtomicStore
    OperationsReturn
