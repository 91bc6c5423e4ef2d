CONSTANTS
    Threads = {t1, t2, t3}
    Selector = t1
    Feeder = t2
    Thief = t3
    Chans = {1, 2}
    ReqCap <- TightReqCap
    Vals = {1, 2}
    Junk = 99
    Prog <- SelectProg

SPECIFICATION FairSpec
INVARIANT NobodySleepsOnClosed
INVARIANT NoLostSender
PROPERTY Linearizable
PROPERTY ClosedReleasesEveryCall
