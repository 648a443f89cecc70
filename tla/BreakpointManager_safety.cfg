SPECIFICATION PatchesSpec
CONSTANTS
    Thread = {t1}
    Hitter = {h1, h2}
    AnyThread = AnyThread
    NReg = 1
    IntMax = 3
    LogCap = 2
    LogDrop = 1
    Size = 3
    Lists = {l}
    Scripts = {s}
    Insns <- MCInsns
    Chunk = 2
    Images = 2
    Tolls <- MCTolls
INVARIANTS
    TableSound
    CodeOwned
    OriginalsKept
PROPERTY
    DeliveredOnlyLive
CHECK_DEADLOCK FALSE
