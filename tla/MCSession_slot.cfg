SPECIFICATION Spec
CONSTANTS
    VC_MAX_ARGS = 5
    VC_MAX_INLINE_ARG = 6
    MaxFound = 2
    Requests <- MCRequests
    Users <- MCUsers
    MaxRequests = 3
    MaxClients = 2
INVARIANTS
    Framed
    Understood
