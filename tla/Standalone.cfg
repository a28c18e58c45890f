SPECIFICATION FairSpec
CONSTANTS
    Pids = {p1, p2}
    Addrs = {a1, a2}
    NoAddr = NoAddr
    NoPid = NoPid
    Configs <- MCConfigs
INVARIANTS NoBug BooksExact SessionsWithinLimits
PROPERTIES ZombiesReaped ImplementsAdmission
