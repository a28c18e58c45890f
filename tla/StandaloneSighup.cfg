SPECIFICATION FairSpec
CONSTANTS
    Pids = {p1, p2}
    Addrs = {a1}
    NoAddr = NoAddr
    NoPid = NoPid
    Configs <- MCConfigsSmall
PROPERTY SighupHandled
