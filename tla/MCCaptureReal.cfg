SPECIFICATION Spec
CONSTANTS
    eth = eth
    wlan = wlan
    s1 = s1
    s2 = s2
    none = none
    Ifaces = {eth, wlan}
    First = eth
    Matches <- SomeMatches
    Slots = {s1, s2}
    None = none
    ChanCapacity = 1
    BatchMax = 1
    QueueCapacity = 1
    MaxFrames = 2
INVARIANTS
    AnnouncedIsReal
