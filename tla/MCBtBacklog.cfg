SPECIFICATION PartSpec
CONSTANTS
    first = first
    second = second
    copy = copy
    image1 = image1
    image2 = image2
    Files = {first, second, copy}
    NoFile = NoFile
    Image <- MCImage
    NoImage = NoImage
    MaxGeneration = 5
    Letters = {letter1, letter2}
    NL = NL
    CR = CR
    LineSize = 3
    BufferLimit = 2
    MaxStream = 7
    Period = 5
    Lag = 1
    Expiry = 25
    Release = 50
    Dead = 300
    MaxDelay = 6
    MaxLosses = 1
    None = None
    Values = {default, one, two}
    Defaults = default
    Nothing = Nothing
    Damaged = Damaged
    Tags = {tag1, tag2}
    NoTag = NoTag
    QueueSize = 4
    TimerMod = 3
    StackRoom = 3
    Items = {item1, item2}
    Zero = Zero
    Size = 4
    Regions <- MCRegions
    AddrMod = 65536
    MaxLen = 29
    Addresses <- MCAddresses
    Axis = {0, 15, 16, 255, 256, 4095}
    MaxHeld = 3
INVARIANT
    NoBacklog
