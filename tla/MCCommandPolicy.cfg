SPECIFICATION Spec
CONSTANTS
    Directories = {d1, d2}
    Unusable = none
    MaxTrusted <- MCMaxTrusted
    Names <- MCNames
    LowerCase <- MCLowerCase
    Malformed = {"a/b"}
    Suffixed = {"git.exe"}
    Privileged = {"sudo"}
    Inherited = {"constructor"}
    Policies <- MCPolicies
    DefaultPolicy <- MCDefaultPolicy
    Commands <- MCCommands
INVARIANTS Inv SearchIsOrdered CaseMakesNoDifference
PROPERTIES LoadedAsConfigured
CHECK_DEADLOCK FALSE
