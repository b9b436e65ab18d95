\* Two requests under fair scheduling: answers, announcements, refinement.
SPECIFICATION FairSpec
CONSTANTS
    Requests = {r1, r2}
    Absent = Absent
    Star = Star
    Names <- MCNames
    UIDs <- MCUIDs
    Users <- MCUsers
    BookNames <- MCBookNames
    Files <- MCFiles
    Ids <- MCIds
    Admins = {}
    Calls <- LiveCalls
    SeedBooks <- MCSeedBooks
    SeedContacts <- MCSeedContacts
PROPERTIES
    RequestsAnswered
    ImplementsBookSync
    ChangesAnnounced
