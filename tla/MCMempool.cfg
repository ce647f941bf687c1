SPECIFICATION PoolsSpec
CONSTANTS
    rpc = rpc
    ingress = ingress
    g = g
    a1 = a1
    a2 = a2
    b1 = b1
    p = p
    q = q
    rival = rival
    x = x
    y = y
    Block = {g, a1, a2, b1}
    Genesis = g
    Parent <- MCParent
    Height <- MCHeight
    Ancestors <- MCAncestors
    Tx = {p, q, rival}
    Coin = {x, y}
    Inputs <- MCInputs
    FinalAt <- MCFinalAt
    Txs <- MCTxs
    Rpc = {rpc}
    Ingress = ingress
    Changer = {c1, c2}
    Attempts = 1
    Window = 2
    PoolLimit = 1
    OrphanQuota = 1
    Offers <- MCOffers
    MaxGen = 2
    Kind = {"window", "branch", "snapshot"}
    NoOne = none
    none = none
    worker = worker
    m1 = m1  m2 = m2
    s0 = s0  s1 = s1
    k1 = k1  k2 = k2
    x1 = x1  x2 = x2  z = z
    PlAccount = {1, 2}
    PlSession = {m1, m2}
    PlWorker = worker
    PlShareOf <- MCShareOf
    PlKey = {k1, k2}
    PlTx = {x1, x2}
    PlForeign = {z}
    PlSpends <- MCSpends
    PlRoom = {a1, b1}
    PlStarts <- MCPlStarts
    PlNone = none
    WindowWork = 2
    FeeBps = 2500
    Gross = 4
    Maturity = 1
    PayoutDepth = 1
    AbandonDepth = 2
    WatchDepth = 2
    MinPayout = 1
    MaxOutputs = 2
    PlSlots = 2
    PlMaxFaults = 1
INVARIANTS
    PoolsTypeOK
    PoolFollowsChain
    FenceIsOwned
    RefusalsAreCurrent
    NoOrphanForgotten
    ChangesNeverDeadlock
    LedgerIsSound
SYMMETRY MCSymmetry
