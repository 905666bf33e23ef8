SPECIFICATION AppSpec
CONSTANTS
    first = first
    second = second
    Files = {first}
    NoFile = NoFile
    Image <- MCImage
    NoTag = NoTag
    Neutral <- MCNeutral
    Lines <- MCLines
    Buttons = {}
    Faults = {"noise"}
    LineQueue = 1
    OutSlots = 1
    EventSlots = 1
    MaxPending = 2
    MaxLinks = 1
    MaxGeneration = 2
PROPERTIES
    RequestEnds
