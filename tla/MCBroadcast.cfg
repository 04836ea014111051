SPECIFICATION BSpec
CONSTANTS
    m1 = m1
    m2 = m2
    i1 = i1
    host = host
    tab = tab
    other = other
    Macs = {m1, m2}
    Ips = {i1}
    Names = {host}
    Packets <- MCMixed
    NoL3 = NoL3
    Fades <- MCFades
    IdleCap = 2
    MaxBytes = 3
    Clients = {tab}
    Callers = {other}
    Capacity = 3
INVARIANTS
    BTypeOK
    ClientsConverge
