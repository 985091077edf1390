\* Two builders, one of them an administrator, and one program with two hunks.
SPECIFICATION Spec
CONSTANTS
    Accounts = {alice, bob}
    Admins = {bob}
    Typists = {bob}
    Clients = {alice}
    Libs = {prog}
    Scripts = {prog}
    Locked = {}
    Hunks = {1, 2}
    Wordings = {x}
    Drafts <- HeadOnly
    Ttl = 2
    MaxVersions = 3
    MaxCrashes = 1
INVARIANTS
    HistoryComplete
    EditLocksHold
PROPERTY
    NoSilentOverwrite
