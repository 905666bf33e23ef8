SPECIFICATION LinkSpec
CONSTANTS
    first = first
    second = second
    Files = {}
    NoFile = NoFile
    Image <- MCImage
    NoTag = NoTag
    Neutral <- MCNeutral
    Lines <- MCLines
    Buttons = {second}
    Faults = {"noise", "console"}
    LineQueue = 1
    OutSlots = 1
    EventSlots = 1
    MaxPending = 2
    MaxLinks = 1
    MaxGeneration = 0
PROPERTIES
    LetGoArrives
