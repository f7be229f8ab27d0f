SPECIFICATION TFairSpec
CONSTANTS
    Host = {1, 2, 3}
    Text <- Texts
    Typed = {2}
    MaxRate = 2
    Limits = {1, 2}
    Period = 1
    Ttl = 1
INVARIANTS BusiestOnFirstPage
PROPERTY GoneRowsVanish
