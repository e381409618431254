CONSTANTS
    Keys = {ann, bob}
    Creators = {ann}
    Leavers = {bob}
    Rooms = {r1}
    Conns = {c1, c2, c3}
    Texts = {t1, t2}
    Invites = {i1}
    KeyRotationLimit = 1
    MaxOpens = 1
    MaxRestarts = 0
    NoKey = NoKey
    NoRoom = NoRoom
    NoBody = NoBody
    NoConn = NoConn
    NoInvite = NoInvite
    NoData = NoData
    NoCipher = NoCipher
SPECIFICATION FairSpec
PROPERTIES InviteAdmits OpeningEnds
CHECK_DEADLOCK FALSE
