\* Every order of up to 5 arguments, with option files nested 2 deep.
CONSTANTS
    Tokens <- OptionTokens
    MaxTokens = 5
    MaxDepth = 3
    NestingLimit = 0
INIT Init
NEXT Next
INVARIANT ModeDefaultsHonoured ValidatedConfiguration
