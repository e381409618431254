CONSTANTS
    Keys = {ann, bob, cid}
    Creators = {ann}
    Leavers = {}
    Rooms = {r1}
    Conns = {c1, c2, c3}
    Texts = {t1}
    Invites = {i1, i2}
    KeyRotationLimit = 2
    MaxOpens = 0
    MaxRestarts = 0
    NoKey = NoKey
    NoRoom = NoRoom
    NoBody = NoBody
    NoConn = NoConn
    NoInvite = NoInvite
    NoData = NoData
    NoCipher = NoCipher
SYMMETRY Symmetry
SPECIFICATION Spec
INVARIANT AdmittedOncePerInvite
CHECK_DEADLOCK FALSE
