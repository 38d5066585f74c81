SPECIFICATION Spec
CONSTANTS
    Tasks = {"consensus"}
    NumAccounts = 2
    MaxHeight = 4
    MaxCrashes = 3
INVARIANTS
    TypeOK
    NeverReopens
    NoHoles
    AccountsNearChain
CHECK_DEADLOCK FALSE
