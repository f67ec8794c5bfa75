SPECIFICATION Spec
CHECK_DEADLOCK FALSE
CONSTANTS
    p1 = p1
    p2 = p2
    p3 = p3
    s1 = s1
    s2 = s2
    None = None
    main = main
    linked = linked
    b1 = b1
    b2 = b2
    o1 = o1
    o2 = o2
    Procs <- MCProcs
    Pid <- MCPid
    Shaky <- MCShaky
    Shells = {p1}
    Sids = {s1, s2}
    Dirs = {main, linked}
    Main = main
    Branches = {b1, b2}
    Oids = {o1, o2}
    First = b1
    Tips <- MCTips
    MaxTxns = 1
    MaxEvents = 1
SYMMETRY Sessions
PROPERTY NeverTooLow
