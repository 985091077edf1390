SPECIFICATION Spec
CONSTANTS
    Conns = {c1, c2}
    Accounts = {ann, bob}
    MaxRef = 3
    MaxCharacters = 2
    MaxCrashes = 1
    NoAccount = noAccount
    NoRef = noRef
    Nothing = nothing
    Item = item
SYMMETRY Symmetry
VIEW State
INVARIANTS
    SessionsAgree
    OwnUnlessRolledBack
    OfflineTagsRight
