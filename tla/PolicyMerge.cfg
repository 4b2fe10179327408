SPECIFICATION Spec
CONSTANTS
    PolicyRows <- MCPolicyRows
    MaxPolicies = 3
    Requests <- MCRequests
    Malformed = malformed
    None = none
INVARIANTS
    MergeIsOrderFree
    AdmittedByEach
    InvalidPolicyAdmitsNothing
CHECK_DEADLOCK FALSE
