\* Spec check: ConfigErrorExitCode
CONSTANTS
    a = a
    b = b
    c = c
    URLs <- URLSet
    Priorities <- PrioritySet
    LowestPriority = 5
    HighestPriority = 10
    Settings <- CutSettings
    MaxSources = 2
    MaxRecords = 2
SYMMETRY URLSymmetry
INIT Init
NEXT Next
INVARIANT ConfigErrorExitCode
