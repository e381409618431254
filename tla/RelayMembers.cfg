CONSTANTS
    Keys = {k1, k2, k3}
    Rooms = {r1}
    Conns = {c1, c2}
    Bodies = {b1, b2}
    MaxInFlight = 1
    NoKey = NoKey
    NoRoom = NoRoom
    NoBody = NoBody
    NoConn = NoConn
SYMMETRY Symmetry
VIEW View
SPECIFICATION Spec
INVARIANTS MembersOnly SinceLastRotation
PROPERTY KeepsThePromise
CHECK_DEADLOCK FALSE
