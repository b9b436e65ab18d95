\* A client of each dialect; the contact is edited twice.
SPECIFICATION Spec
CONSTANTS
    Clients = {"old", "new"}
    Absent = ""
    None = None
    EmailNames = {"EMAIL", "EMAILX"}
    PhotoNames = {"PHOTO", "PHOTOX"}
    MaxEdits = 2
    Dialect <- MCDialect
    Bodies <- MCBodies
    NewUIDs <- MCNewUIDs
    Edited <- MCEdited
INVARIANTS
    MeaningKept
    DialectsPure
    FactsAgree
PROPERTIES
    Settles
    FreshAccepted
