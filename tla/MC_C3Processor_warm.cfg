\* Cache warming of 3 URLs on 2 pages under recorded-errors tolerance, with
\* screenshots of the last 2 pages taken by the saveImageAsync() loop.
CONSTANTS
    u1 = u1
    u2 = u2
    u3 = u3
    u4 = u4
    Corpus <- CorpusThree
    QueueSize = 2
    ProfileRuns = 0
    WarmUpPass = FALSE
    ExitIf = 1
    ImageTemplate = TRUE
    NumScreenshots = 2
    SaveChecks = 10
SPECIFICATION Spec
INVARIANT InFlightAccounting
INVARIANT ExportBudget
PROPERTY ScreenshotInWindow
PROPERTY PassRefinement
