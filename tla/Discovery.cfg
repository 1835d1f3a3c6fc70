SPECIFICATION FairSpec
CONSTANTS
    Servers = {a, b}
    Infos <- TwoAddresses
    Conns = {c1, c2, c3}
    MaxFaults = 2
INVARIANTS RegistryExact ViewFollows ListsAgree AddressFresh
PROPERTIES KeptThroughLoss Converges
\* Servers may rest when the failures are over.
CHECK_DEADLOCK FALSE
