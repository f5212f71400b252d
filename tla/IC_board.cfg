CONSTANTS
    Issues = {i1}
    Board <- MCBoard
    Hidden = {}
    Muts = {m1}
    MaxChanges = 2
    NoData = NoData
    NoFetch = NoFetch
    Unread = Unread
    NoMut = NoMut
SPECIFICATION FairSpec
INVARIANTS TypeOK
PROPERTIES OptimisticHolds ReconnectRecovers SettleRecovers
CHECK_DEADLOCK FALSE
