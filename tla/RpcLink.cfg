SPECIFICATION FairSpec
CONSTANTS
    Faulty = p
    Other = q
    Peers = {p, q}
    Addrs = {1, 2}
    Conns = {c1, c2, c3}
    SocketPerSecond = 1
    Frame = 2
    BufMax = 1
    MaxMsgs <- MsgsWithP
    MaxFaults <- FaultsOfP
INVARIANT OneLink
PROPERTIES InOrder RateKept Linked
\* Servers may rest when the failures are over.
CHECK_DEADLOCK FALSE
