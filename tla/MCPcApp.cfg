SPECIFICATION AppSafe
CONSTANTS
    first = first
    second = second
    Files = {first, second}
    NoFile = NoFile
    Image <- MCImage
    NoTag = NoTag
    Neutral <- MCNeutral
    Lines <- MCLines
    Buttons = {}
    Faults = {"noise", "port", "restart", "console"}
    LineQueue = 1
    OutSlots = 1
    EventSlots = 1
    MaxPending = 2
    MaxLinks = 100
    MaxGeneration = 500
INVARIANTS
    AppTypeOK
    LoadAfterRemoval
    NeverTheWrongFile
PROPERTIES
    KeepsContract
    OwnFailure
SYMMETRY MCSymmetry
VIEW MCView
