--------------------------- MODULE PromisesProofs ---------------------------
(***************************************************************************)
(* What the abstract specifications amount to.  TaskQueueProofs and        *)
(* ProfilesProofs show that the code's tables behave as WorkLock and as    *)
(* Registry do; here it is shown that this is worth having.                *)
(***************************************************************************)
EXTENDS WorkLock, Registry, TLAPS

LockTypes ==
  /\ holder \in [Works -> SUBSET Calls]
  /\ busy \in [Works -> SUBSET Calls]

\* Whatever goes through the states of the lock carries no work out twice at
\* a time, nor for a request that does not hold it.
THEOREM LockIsSafe ==
  ASSUME WorkOf \in [Calls -> Works]
  PROVE  LockSpec => []LockSafe
<1>. DEFINE Inv == LockTypes /\ LockSafe
<1>1. LockInit => Inv
  BY DEF LockInit, LockTypes, LockSafe
<1>2. Inv /\ [LockNext]_lvars => Inv'
  <2>. USE DEF LockTypes, LockSafe
  <2>1. ASSUME Inv, NEW c \in Calls, Acquire(c) PROVE Inv'
    BY <2>1 DEF Acquire
  <2>2. ASSUME Inv, NEW c \in Calls, Begin(c) PROVE Inv'
    BY <2>2 DEF Begin
  <2>3. ASSUME Inv, NEW c \in Calls, End(c) PROVE Inv'
    BY <2>3 DEF End
  <2>4. ASSUME Inv, NEW c \in Calls, Release(c) PROVE Inv'
    BY <2>4 DEF Release
  <2>5. ASSUME Inv, UNCHANGED lvars PROVE Inv'
    BY <2>5 DEF lvars
  <2>. QED BY <2>1, <2>2, <2>3, <2>4, <2>5 DEF LockNext
<1>. QED BY <1>1, <1>2, PTL DEF LockSpec

RegistryTypes ==
  /\ name \in [Users -> Names \cup {NoName}]
  /\ owned \in [Users -> SUBSET Accounts]
  /\ proven \in [Users -> SUBSET Accounts]

\* Whatever goes through the states of the registry keeps names apart, gives
\* an account one owner, who is registered and proved it, and leaves nothing
\* with a user who left.
THEOREM RegistryIsSafe ==
  ASSUME NoName \notin Names
  PROVE  RegistrySpec => []RegistrySafe
<1>. DEFINE Inv == RegistryTypes /\ RegistrySafe
<1>1. RegistryInit => Inv
  BY DEF RegistryInit, RegistryTypes, RegistrySafe
<1>2. Inv /\ [RegistryNext]_rvars => Inv'
  <2>. USE DEF RegistryTypes, RegistrySafe
  <2>1. ASSUME Inv, NEW u \in Users, NEW n \in Names, Take(u, n) PROVE Inv'
    BY <2>1 DEF Take
  <2>2. ASSUME Inv, NEW u \in Users, Leave(u) PROVE Inv'
    BY <2>2 DEF Leave
  <2>3. ASSUME Inv, NEW u \in Users, NEW a \in Accounts, Attribute(u, a) PROVE Inv'
    <3>1. RegistryTypes'
      BY <2>3 DEF Attribute
    <3>2. \A v \in Users : owned'[v] = IF v = u THEN owned[v] \cup {a} ELSE owned[v] \ {a}
      BY <2>3 DEF Attribute
    <3>3. RegistrySafe'
      BY <2>3, <3>2 DEF Attribute
    <3>. QED BY <3>1, <3>3
  <2>4. ASSUME Inv, NEW u \in Users, Withdraw(u) PROVE Inv'
    BY <2>4 DEF Withdraw
  <2>5. ASSUME Inv, NEW u \in Users, NEW a \in Accounts, Prove(u, a) PROVE Inv'
    BY <2>5 DEF Prove
  <2>6. ASSUME Inv, UNCHANGED rvars PROVE Inv'
    BY <2>6 DEF rvars
  <2>. QED BY <2>1, <2>2, <2>3, <2>4, <2>5, <2>6 DEF RegistryNext
<1>. QED BY <1>1, <1>2, PTL DEF RegistrySpec
=============================================================================
