CONSTANTS
    Keys = {ann, bob, cid}
    Creators = {ann}
    Leavers = {ann, bob}
    Rooms = {r1}
    Conns = {c1, c2, c3}
    Texts = {t1}
    Invites = {i1}
    KeyRotationLimit = 1
    MaxOpens = 1
    MaxRestarts = 1
    NoKey = NoKey
    NoRoom = NoRoom
    NoBody = NoBody
    NoConn = NoConn
    NoInvite = NoInvite
    NoData = NoData
    NoCipher = NoCipher
SYMMETRY Symmetry
SPECIFICATION Spec
INVARIANTS   SavedIsMember
PROPERTIES  ForgetsOnlyLostRooms
CHECK_DEADLOCK FALSE
