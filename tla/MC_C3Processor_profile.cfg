\* Profiling with a warm-up pass: 4 URLs x 4 runs on 3 pages, missing-page
\* tolerance (the profiling default) and the final screenshot of -x.
CONSTANTS
    u1 = u1
    u2 = u2
    u3 = u3
    u4 = u4
    Corpus <- CorpusFour
    QueueSize = 3
    ProfileRuns = 4
    WarmUpPass = TRUE
    ExitIf = 2
    ImageTemplate = TRUE
    NumScreenshots = 1
    SaveChecks = 10
SPECIFICATION Spec
INVARIANT InFlightAccounting
INVARIANT CleanExit
PROPERTY Termination
PROPERTY PassRefinement
