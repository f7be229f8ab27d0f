SPECIFICATION SFairSpec
CONSTANTS
    User = {u1}
    Reader = {r1, r2}
    Logout = {l1}
    MaxTokens = 2
    MaxSessions = 2
    MaxIncidents = 1
INVARIANTS STypeOK SignedOutStays TokenMatchesCookie GrantsAreFresh
PROPERTY RequestsEnd
