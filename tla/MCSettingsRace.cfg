SPECIFICATION Spec
CONSTANTS
    a = a
    b = b
    i1 = i1
    i2 = i2
    Tabs = {a}
    Others = {b}
    Values <- MCValues
    FadeMin = 2
    FadeMax = 3
    Ifaces <- MCIfaces
    None = None
    Lists <- MCLists
    RingCapacity = 2
    QueueCapacity = 1
    CommandCap = 1
INVARIANTS
    TabsSynchronised
