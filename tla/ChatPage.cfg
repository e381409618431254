CONSTANTS
    ann = ann
    bob = bob
    good = good
    typo = typo
    empty = empty
    Users <- MCUsers
    Passwords <- MCPasswords
    Credentials <- MCCredentials
    EmptyPassword = empty
    Stores = {s1, s2}
    Rooms = {r1, r2}
    MaxTasks = 1
    MaxQueue = 0
    MaxLogins = 2
    NoStore = NoStore
    NoFile = NoFile
    Torn = Torn
    NoContent = NoContent
    NoRoom = NoRoom
    NoUser = NoUser
SPECIFICATION FairSpec
INVARIANTS
    TypeOK
    
    
    
 
CHECK_DEADLOCK FALSE
