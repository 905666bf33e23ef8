SPECIFICATION SessionSpec
CONSTANTS
    Controls = {pressed}
    Images = {image}
    Faults = {"noise", "port"}
    Neutral = Neutral
    NoTag = NoTag
    Lines <- MCLines
    LineQueue = 2
    Transit = 1
    Slots = {1, 6}
    MaxSeq = 100
INVARIANTS
    SessionTypeOK
    Released
    NothingDropped
VIEW MCView
