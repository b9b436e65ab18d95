\* Two first visitors of /setup.
SPECIFICATION Spec
CONSTANTS
    Requests = {r1, r2}
    Absent = Absent
    Never = Never
    UserNames <- MCNames
    Passwords <- MCPasswords
    UserIds <- MCUserIds
    AdminID = "boot"
    Binaries <- MCBinaries
    AdminConfigs <- MCAdmins
    SeedApplied <- MCSeedApplied
    MaxStarts = 2
    Calls <- VisitorCalls
    Tokens <- MCTokens
    Prefixed <- MCPrefixed
    MaxAge = 1
    IdleTimeout = 1
    TicksPerSecond = 2
    MaxClock = 3
    SeedUsers <- MCSeedUsers
    SeedAppPasswords <- MCSeedAppPasswords
PROPERTY SetupReachedBeforeUsers
