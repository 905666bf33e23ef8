SPECIFICATION Spec
CONSTANTS
    a = a
    neutral = neutral
    t1 = t1
    Tags = {t1}
    NoTag = NoTag
    QueueSize = 3
    Controls <- MCControls
    Neutral = neutral
    PcLines <- TagLines
    LineQueue = 1
    PollBatch = 1
    Timeout = 0
    PollSlack = 0
    HostOutputs <- NfcOutputs
    TimerMod = 3
    HostReopens = TRUE
    ReplyQueueSize = 1
INVARIANTS
    FragmentsInOrder
    LinkAgreement
    NumbersInOrder
VIEW LinkView
