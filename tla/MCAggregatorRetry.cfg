SPECIFICATION ASpec
CONSTANTS
    i1 = i1
    i2 = i2
    host = host
    Ips = {i1, i2}
    Names = {host}
    Resolvable = {i1, i2}
    Queue = 1
    Permits = 1
    Frames <- SomeFrames
    Channel = 2
    BatchMax = 1
PROPERTIES
    RetriedAtNextTick
CHECK_DEADLOCK FALSE
