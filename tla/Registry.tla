------------------------------ MODULE Registry ------------------------------
(***************************************************************************)
(* What the service promises about names and ownership, apart from rows,   *)
(* ids, requests and jobs: a user registers under a name that nobody else  *)
(* has; registered users own accounts that they proved to be theirs, each  *)
(* account one user at most; and whoever leaves gives everything back in   *)
(* the same instant, so that a newcomer inherits nothing.                  *)
(***************************************************************************)
CONSTANTS Users, Accounts, Names, NoName

VARIABLES
  name,    \* the name of each user; NoName if not registered
  owned,   \* the accounts attributed to each user
  proven   \* the accounts each user has had connected

rvars == <<name, owned, proven>>

RegistryInit ==
  /\ name = [u \in Users |-> NoName]
  /\ owned = [u \in Users |-> {}]
  /\ proven \in [Users -> SUBSET Accounts]

\* Register, or change one's name.
Take(u, n) ==
  /\ \A v \in Users \ {u} : name[v] # n
  /\ name' = [name EXCEPT ![u] = n]
  /\ UNCHANGED <<owned, proven>>

Leave(u) ==
  /\ name' = [name EXCEPT ![u] = NoName]
  /\ owned' = [owned EXCEPT ![u] = {}]
  /\ UNCHANGED proven

\* Whoever owned the account before does so no longer.
Attribute(u, a) ==
  /\ name[u] # NoName
  /\ a \in proven[u]
  /\ owned' = [v \in Users |-> IF v = u THEN owned[v] \cup {a} ELSE owned[v] \ {a}]
  /\ UNCHANGED <<name, proven>>

\* Ownership is withdrawn as a whole before it is rebuilt.
Withdraw(u) ==
  /\ owned' = [owned EXCEPT ![u] = {}]
  /\ UNCHANGED <<name, proven>>

Prove(u, a) ==
  /\ proven' = [proven EXCEPT ![u] = @ \cup {a}]
  /\ UNCHANGED <<name, owned>>

RegistryNext ==
  \E u \in Users :
    \/ Leave(u) \/ Withdraw(u)
    \/ \E n \in Names : Take(u, n)
    \/ \E a \in Accounts : Attribute(u, a) \/ Prove(u, a)

RegistrySpec == RegistryInit /\ [][RegistryNext]_rvars

\* Names are exclusive, accounts have one owner, and only registered users own
\* any, of those they proved to be theirs.
RegistrySafe ==
  \A u \in Users :
    /\ owned[u] \subseteq proven[u]
    /\ owned[u] # {} => name[u] # NoName
    /\ \A v \in Users \ {u} :
         /\ name[u] = name[v] => name[u] = NoName
         /\ owned[u] \cap owned[v] = {}
=============================================================================
