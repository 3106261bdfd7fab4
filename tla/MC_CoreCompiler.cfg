CONSTANTS
    Tokens <- MCTokens
    Prefix2 <- MCPrefix2
    Rest <- MCRest
    HeaderPath = "/usr/include/CL"
    BuiltinsHeader = "builtins.h"
    ExtensionNames <- MCExtensionNames
    MaxTokens = 3
    MaxBuilds = 2

SPECIFICATION Spec

INVARIANT TypeOK
INVARIANT ParsedAsSpecified

\* After the second build nothing more is called.
CHECK_DEADLOCK FALSE
