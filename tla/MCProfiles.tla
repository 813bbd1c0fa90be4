------------------------------ MODULE MCProfiles ------------------------------
EXTENDS Profiles, TLC

CONSTANTS ann, bob, github, gitlab, own1, own2

\* Logins that are no usernames; each user has a name of their own.
UnusableLogins == [a \in {github, gitlab} |-> <<>>]
OwnNames == [u \in {ann, bob} |-> IF u = ann THEN <<own1>> ELSE <<own2>>]

\* Nobody connected an account, and both users default to the same name.
NoAccounts == <<>>
SameNames == [u \in {ann, bob} |-> <<own1, own2>>]
===============================================================================
