\* Any two requests of any kind, by a user or an admin.
SPECIFICATION Spec
CONSTANTS
    Requests = {r1, r2}
    Absent = Absent
    Star = Star
    Names <- MCNames
    UIDs <- MCUIDs
    Users <- OwnUsers
    BookNames <- OwnBookNames
    Files <- MCFiles
    Ids <- OwnIds
    Admins <- OwnAdmins
    Calls <- AllCalls
    SeedBooks <- OwnSeedBooks
    SeedContacts <- OwnSeedContacts
SYMMETRY Symmetry
INVARIANTS
    RowsCoherent
    StoredValid
    AnswersCoherent
    IInv
PROPERTIES
    OnlyOwnerWrites
