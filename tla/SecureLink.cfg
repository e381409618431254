CONSTANTS
    Conns = {c1, c2}
    KeyRequest = pubkey
    Requests = {ask, say}
    Replies = {reply, error}
    ErrorReply = error
    Bursts <- MCBursts
    NoFrame = NoFrame
    MaxFlight = 2
    reply = reply
SPECIFICATION FairSpec
INVARIANTS
    TypeOK
    SessionsAgree
PROPERTIES
    IsWire
    HandshakeEnds
