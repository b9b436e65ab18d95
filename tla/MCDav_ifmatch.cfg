\* Two PUTs with the same If-Match.
SPECIFICATION Spec
CONSTANTS
    Requests = {r1, r2}
    Absent = Absent
    Star = Star
    Names <- MCNames
    UIDs <- MCUIDs
    Users <- MCUsers
    BookNames <- OwnBookNames
    Files <- MCFiles
    Ids <- MCIds
    Admins = {}
    Calls <- MatchCalls
    SeedBooks <- MCSeedBooks
    SeedContacts <- MCSeedContacts
PROPERTY IfMatchIsCurrent
