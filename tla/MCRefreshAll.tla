----------------------------- MODULE MCRefreshAll -----------------------------
EXTENDS RefreshAll, TLC

CONSTANTS ann, bob, merlin, merlin2

\* Nobody connected an account yet, and both users default to the same name.
NoLogins == <<>>
SameNames == [u \in {ann, bob} |-> <<merlin, merlin2>>]
===============================================================================
