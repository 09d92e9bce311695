\* One pass or reversal at a time, two slabs, a pass that throws halfway.
CONSTANTS
    Dues = 1
    N = 4
    NR = 2
    MinDays <- TwoRules
    MaxDays <- TwoRulesMax
    LastDay = 2
    Worker = {sweep}
    FailPoints = {"mark"}
    MaxFaults = 1
SPECIFICATION FairSpec
CHECK_DEADLOCK FALSE
INVARIANTS
    OneFinePerPair
    ReversedRunIsUndone
PROPERTIES
    OverdueIsFined
