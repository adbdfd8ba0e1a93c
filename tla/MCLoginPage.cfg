CONSTANTS
    Boots <- BootRecords
    MaxSessions = 1
    MaxChallenges = 2
    MaxCodes = 2
    MaxTasks = 2
SPECIFICATION PagesSpec
INVARIANTS
    PageTypeOK
    NoDeadButton
    PasskeyGoesWithItsCode
PROPERTIES
    CheckingEnds
