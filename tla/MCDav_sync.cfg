\* Three requests of any kind on one book: tokens, constraints, index.
SPECIFICATION Spec
CONSTANTS
    Requests = {r1, r2, r3}
    Absent = Absent
    Star = Star
    Names <- MCNames
    UIDs <- MCUIDs
    Users <- MCUsers
    BookNames <- MCBookNames
    Files <- MCFiles
    Ids <- MCIds
    Admins = {}
    Calls <- SyncCalls
    SeedBooks <- MCSeedBooks
    SeedContacts <- MCSeedContacts
SYMMETRY Symmetry
INVARIANTS
    StoreIntegrity
    IndexInStep
    TokenVouchesForListing
    ChangesOwed
PROPERTIES
    NoOverwriteHolds
    NoResurrection
