CONSTANTS
    Args <- MCArgs
    MaxArgs = 3
    Tokens <- MCTokens
    Prefix2 <- MCPrefix2
    Rest <- MCRest

SPECIFICATION Spec

INVARIANT CommandLineReachesCompiler
