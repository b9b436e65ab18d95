\* PUT with If-None-Match: * on a file that exists.
SPECIFICATION Spec
CONSTANTS
    Requests = {r1}
    Absent = Absent
    Star = Star
    Names <- MCNames
    UIDs <- MCUIDs
    Users <- MCUsers
    BookNames <- OwnBookNames
    Files <- MCFiles
    Ids <- MCIds
    Admins = {}
    Calls <- NoneMatchCalls
    SeedBooks <- MCSeedBooks
    SeedContacts <- MCSeedContacts
PROPERTY IfNoneMatchRefuses
