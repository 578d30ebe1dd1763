CONSTANTS
    MaxCodes = 3
    MaxTime = 3
    TTL_S = 1
    ECHECS_MAX = 2
    MaxClaims = 3
SPECIFICATION PairingSpec
CHECK_DEADLOCK FALSE
INVARIANTS PairingTypeOK PaysOnce NoFurtherGuess AuthorityKept InstalledWasPaid
PROPERTY ClosedStaysClosed
