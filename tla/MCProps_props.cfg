\* Three requests on the properties of a contact, a second one and a book.
SPECIFICATION Spec
CONSTANTS
    Requests = {r1, r2, r3}
    Absent = Absent
    Contacts <- MCContacts
    Books <- MCBooks
    Names <- MCNames
    Values <- MCValues
    Seed <- MCSeed
    Calls <- PropCalls
SYMMETRY Symmetry
INVARIANTS
    IInv
    SetSurvives
    ShownWasSet
    EveryNameAnswered
PROPERTIES
    PatchApplied
