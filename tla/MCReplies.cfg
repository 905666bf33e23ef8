SPECIFICATION ScenarioSpec
CONSTANTS
    a = a
    b = b
    neutral = neutral
    t1 = t1
    Tags = {t1}
    NoTag = NoTag
    QueueSize = 4
    Controls <- Settings
    Neutral = neutral
    PcLines <- EveryLine
    LineQueue = 3
    PollBatch = 3
    Timeout = 2
    PollSlack = 2
    HostOutputs <- ReplyOutputs
    TimerMod = 3
    HostReopens = FALSE
    ReplyQueueSize = 2
INVARIANTS
    PcTypeOK
    DeadMan
    LoadedIsPresented
    TypeOK
    NoLostWakeup
    RequestsAgree
PROPERTIES
    OnlyStatesPress
    ServesPc
    RepliesInOrder
