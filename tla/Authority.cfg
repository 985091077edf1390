\* Two accounts, a room and its exit, one token at a time, two changes of objects.
SPECIFICATION AuthoritySpec
CONSTANTS
    hall = hall
    door = door
    Accounts = {root, ann}
    Objects = {hall, door}
    Rooms = {hall}
    EndsIn <- DoorInHall
    Managed = {hall}
    LockedFiles = {}
    Seeds = {root, ann}
    Tokens = {t1}
    TokenLife = 1
    MaxEditors = 1
    MaxEdits = 2
INVARIANT RightsHold
PROPERTIES LockedHeld GlobalHeld
SYMMETRY Symmetry
VIEW State
