SPECIFICATION Spec
CONSTANTS
    Client = {c1,c2}
    LowID = {l1}
    IP = {i1, i2}
    Requester = {r1,r2,r3}
    Worker = {w1}
    None = None
    MaxPending = 2
    Fallback = 1
    Window = 1
    TTL = 1
    MaxTime = 2
    MaxPackets = 3
    MaxProof = 1
SYMMETRY Symmetry
CHECK_DEADLOCK FALSE
INVARIANTS  ProofOnce ToldOwnEndpoint
