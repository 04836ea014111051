SPECIFICATION MCSpec
CONSTANTS
    m1 = m1
    m2 = m2
    m3 = m3
    i1 = i1
    i2 = i2
    host = host
    Macs = {m1, m2, m3}
    Ips = {i1, i2}
    Names = {host}
    Packets <- MCPackets
    NoL3 = NoL3
    Fades <- MCFades
    IdleCap = 3
    MaxBytes = 4
    IpNumbers <- SomeNumbers
    Ports <- SomePorts
    MaxFrames = 3
    global = global
    local = local
    v1 = v1
    v2 = v2
    nobody = nobody
    Ouis = {global, local}
    Local = {local}
    Nibbles = {0, 1}
    Vendors = {v1, v2}
    NoVendor = nobody
    Lines <- SomeLines
    MaxLines = 4
INVARIANTS
    EndpointsCovered
    DirtyPresent
    OneFlow
    NodeAccounting
    MirrorAgrees
    OneName
    ViewsAgree
    SmallestBlockNamed
PROPERTIES
    IpsImplemented
    TickShowsSnapshot
