\* Spec check: the documented default sort order of each mode.
CONSTANTS
    Tokens <- OptionTokens
    MaxTokens = 3
    MaxDepth = 2
    NestingLimit = 0
INIT Init
NEXT Next
INVARIANT SortDefaultAsDocumented
