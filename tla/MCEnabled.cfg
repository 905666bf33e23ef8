SPECIFICATION Spec
CONSTANTS
    a = a
    neutral = neutral
    t1 = t1
    Tags = {t1}
    NoTag = NoTag
    QueueSize = 3
    Controls <- MCControls
    Neutral = neutral
    PcLines <- NoLines
    LineQueue = 1
    PollBatch = 1
    Timeout = 0
    PollSlack = 0
    HostOutputs <- NfcOutputs
    TimerMod = 3
    HostReopens = FALSE
    ReplyQueueSize = 2
PROPERTIES
    EnabledByMode30
