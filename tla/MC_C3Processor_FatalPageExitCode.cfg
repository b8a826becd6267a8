\* Checks FatalPageExitCode alone against what the code does (expected violation).
CONSTANTS
    u1 = u1
    u2 = u2
    u3 = u3
    u4 = u4
    Corpus <- CorpusTwo
    QueueSize = 2
    ProfileRuns = 0
    WarmUpPass = FALSE
    ExitIf = 2
    ImageTemplate = FALSE
    NumScreenshots = 0
    SaveChecks = 10
SPECIFICATION Spec
INVARIANT FatalPageExitCode
