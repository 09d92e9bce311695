\* One sheet saved offline twice, two passes of the outbox at once.
CONSTANTS
    Sheet = {x}
    Pass = {p1, p2}
    GiveUpAt = 2
    Buttons = {"offline"}
    MaxSaves = 2
    MaxBatches = 2
SPECIFICATION OutboxSpec
CHECK_DEADLOCK FALSE
INVARIANT LastWriteWins
