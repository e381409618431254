CONSTANTS
    Keys = {ann, bob, cid}
    Creators = {ann}
    Leavers = {}
    Rooms = {r1}
    Conns = {c1, c2, c3}
    Texts = {t1, t2, t3, t4}
    Invites = {i1, i2}
    KeyRotationLimit = 2
    MaxOpens = 0
    MaxRestarts = 0
    NoKey = NoKey
    NoRoom = NoRoom
    NoBody = NoBody
    NoConn = NoConn
    NoInvite = NoInvite
    NoData = NoData
    NoCipher = NoCipher
SYMMETRY Symmetry
SPECIFICATION Spec
INVARIANTS TypeOK KeyChain KeyBeforeUse CountsOthers InviteOpensOnce
CHECK_DEADLOCK FALSE
