------------------------ MODULE MCSubscriptionRegistry ------------------------
\* Model-checking instances of SubscriptionRegistry.
EXTENDS SubscriptionRegistry, TLC

ClientSymmetry == Permutations(Client)
=============================================================================
