\* Spec check: -v prints the version only and -h the help only.
CONSTANTS
    Tokens <- OptionTokens
    MaxTokens = 3
    MaxDepth = 2
    NestingLimit = 0
INIT Init
NEXT Next
INVARIANT InfoRequestPrinted
