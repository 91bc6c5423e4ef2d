CONSTANTS
    Threads = {t1, t2, t3}
    Selector = t1
    Feeder = t2
    Thief = t3
    Chans = {2}
    ReqCap <- MCReqCap
    Vals = {1, 2}
    Junk = 99
    Prog <- CoreProg

SPECIFICATION FairSpec
INVARIANT TypeOK
INVARIANT NoLostWakeup
PROPERTY Linearizable
PROPERTY RecvBlocksOnlyWhileEmpty
PROPERTY SendBlocksOnlyWhileFull
