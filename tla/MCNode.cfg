SPECIFICATION NodeSpec
CONSTANTS
    none = none
    g = g  a1 = a1  a2 = a2  b1 = b1  b2 = b2  d2 = d2  d3 = d3
    t1 = t1  t2 = t2  r1 = r1  r2 = r2
    th1 = th1  th2 = th2  th3 = th3  th4 = th4
    h1 = h1  p1 = p1  p2 = p2
    Block = {g, a1, a2, b1, b2, d2, d3}
    Genesis = g
    Parent <- MCParent
    Height <- MCHeight
    Ancestors <- MCAncestors
    Enabled = {"tx_lookup", "script_live", "compact_filters"}
    Leftover = {"script_history"}
    IdentityChunk = 2
    Cutover = 1
    StartTip = a2
    IndexStarts <- MCStarts
    MaxMoves = 2
    MaxFaults = 1
    NoBlock = none
    Requester = {r1, r2}
    MineTx = {t1, t2}
    BlockTxs <- MCTxs
    MineTip = d2
    MinePool = {t1}
    Scenario <- MCScenario
    NoTip = none
    NoOne = none
    CacheLimit = 1
    MaxEvents = 2
    GateThread = {th1, th2, th3, th4}
    GateHook = {h1}
    GateRoles <- MCRoles
    DlPeer = {p1, p2}
    DlBest <- MCBest
    DlFirstTip = b2
    DlTips = {d3}
    DlInvalid <- MCInvalid
    DlNoPeer = none
    DlNoBlock = none
    DlMaxPending = 3
    DlMaxReceived = 2
    DlBatch = 2
    DlInflight = 2
    DlMaxFaults = 1
INVARIANTS
    NodeTypeOK
    StoreIsCoherent
    RowsHaveBodies
    CoordinatorIsCoherent
    GateIsSafe
    
PROPERTIES
    
    NodeRequestsReturn
    NodeGateSettles
    NodeDownloadCompletes
CHECK_DEADLOCK FALSE
