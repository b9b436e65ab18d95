\* Three requests in a process that starts twice.
SPECIFICATION Spec
CONSTANTS
    Requests = {r1, r2, r3}
    Absent = Absent
    Never = Never
    UserNames <- MCNames
    Passwords <- MCPasswords
    UserIds <- MCUserIds
    AdminID = "boot"
    Binaries <- MCBinaries
    AdminConfigs <- MCAdmins
    SeedApplied <- MCSeedApplied
    MaxStarts = 2
    Calls <- MCCalls
    Tokens <- MCTokens
    Prefixed <- MCPrefixed
    MaxAge = 1
    IdleTimeout = 1
    TicksPerSecond = 2
    MaxClock = 3
    SeedUsers <- MCSeedUsers
    SeedAppPasswords <- MCSeedAppPasswords
SYMMETRY Symmetry
INVARIANTS
    IInv
    ServesMigrated
    SetupAcknowledged
    SessionKept
    LastUsedWasUse
PROPERTIES
    LogoutFinal
    SetupOnlyAtFirst
    AdmittedRightly
