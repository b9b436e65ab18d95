\* A session that nobody uses for longer than the documented idle timeout.
SPECIFICATION Spec
CONSTANTS
    Requests = {r1, r2}
    Absent = Absent
    Never = Never
    UserNames <- MCNames
    Passwords <- MCPasswords
    UserIds <- MCUserIds
    AdminID = "boot"
    Binaries <- MCBinaries
    AdminConfigs <- MCAdmins
    SeedApplied <- MCSeedApplied
    MaxStarts = 2
    Calls <- IdleCalls
    Tokens <- MCTokens
    Prefixed <- MCPrefixed
    MaxAge = 2
    IdleTimeout = 1
    TicksPerSecond = 2
    MaxClock = 3
    SeedUsers <- MCSeedUsers
    SeedAppPasswords <- MCSeedAppPasswords
PROPERTY IdleSessionsEnd
