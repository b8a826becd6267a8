\* -r:0.5,1; descending with -b 1 -n 1, and ascending with -b 0 -n 0.
CONSTANTS
    a = a
    b = b
    c = c
    URLs <- URLSet
    Priorities <- PrioritySet
    LowestPriority = 5
    HighestPriority = 10
    Settings <- BothSettings
    MaxSources = 2
    MaxRecords = 3
SYMMETRY URLSymmetry
INIT Init
NEXT Next
INVARIANT DedupLastWins FinalCorpus
