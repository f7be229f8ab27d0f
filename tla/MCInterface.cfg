SPECIFICATION WFairSpec
CONSTANTS
    Channel = {c1, c2}
    Key = {k1}
    Listener = {l1, l2}
    MaxLive = 2
    MaxIds = 2
    MaxSent = 2
    MaxLosses = 1
INVARIANTS WTypeOK OneConnection SubscriptionsAgree ConnectedToSelected
PROPERTY SelectedIsShown
