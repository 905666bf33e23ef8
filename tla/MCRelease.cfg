SPECIFICATION FairSpec
CONSTANTS
    a = a
    neutral = neutral
    t1 = t1
    Tags = {t1}
    NoTag = NoTag
    QueueSize = 3
    Controls <- MCControls
    Neutral = neutral
    PcLines <- PressLines
    LineQueue = 1
    PollBatch = 1
    Timeout = 1
    PollSlack = 1
    HostOutputs <- AckOutputs
    TimerMod = 2
    HostReopens = FALSE
    ReplyQueueSize = 1
PROPERTIES
    ReleaseIsShown
