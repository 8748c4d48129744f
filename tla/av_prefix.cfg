SPECIFICATION Spec
CONSTANTS
    q1 = q1
    q2 = q2
    Requests <- MCRequests
    Attested <- MCAttested
    Response <- MCResponse
    History = 2
    MaxRound = 4
PROPERTIES
    LastProofFound
