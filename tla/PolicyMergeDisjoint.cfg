SPECIFICATION Spec
CONSTANTS
    PolicyRows <- MCPolicyRows
    MaxPolicies = 2
    Requests <- MCRequests
    Malformed = malformed
    None = none
INVARIANTS
    MostRestrictiveWins
CHECK_DEADLOCK FALSE
