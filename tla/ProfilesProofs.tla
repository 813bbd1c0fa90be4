---------------------------- MODULE ProfilesProofs ----------------------------
(***************************************************************************)
(* Proofs about Profiles for any users, accounts, names and requests, and  *)
(* any bounds.                                                             *)
(***************************************************************************)
EXTENDS Profiles, TLAPS

\* A claim carries a name, only a claim sets one, and one is left to insert.
LocalInv ==
  \A p \in Procs :
    /\ call[p].kind = "claim" => call[p].name \in Names
    /\ pc[p] = "set" => call[p].kind = "claim"
    /\ pc[p] = "insert" => names[p] # <<>>

Base == TypeOK /\ LocalInv

-----------------------------------------------------------------------------
(* Type correctness.                                                       *)

LEMMA NoCallType == \A p \in Procs : NoCall(p) \in Calls /\ NoCall(p).kind # "claim"
  BY ProfilesAssumption DEF NoCall, Calls, Refresh

LEMMA BaseInit == Init => Base
  BY NoCallType, ProfilesAssumption DEF Init, Base, TypeOK, LocalInv, NoProfile, Nobody, Procs

LEMMA ReturnKeepsTypes ==
  ASSUME Base, NEW p \in Procs, Return(p)
  PROVE  /\ pc' \in [Procs -> {"idle", "get", "accounts", "pick", "insert", "reread",
                               "set", "find", "clear", "own", "delete"}]
         /\ call' \in [Procs -> Calls]
         /\ got' \in [Procs -> SUBSET Accounts]
         /\ names' \in [Procs -> Seq(Names)]
         /\ held' \in [Procs -> Ids \cup {Nobody}]
         /\ LocalInv'
  BY NoCallType DEF Base, TypeOK, LocalInv, Return

LEMMA EnsuredKeepsTypes ==
  ASSUME Base, NEW p \in Procs, Ensured(p)
  PROVE  /\ pc' \in [Procs -> {"idle", "get", "accounts", "pick", "insert", "reread",
                               "set", "find", "clear", "own", "delete"}]
         /\ call' \in [Procs -> Calls]
         /\ got' \in [Procs -> SUBSET Accounts]
         /\ names' \in [Procs -> Seq(Names)]
         /\ held' \in [Procs -> Ids \cup {Nobody}]
         /\ LocalInv'
<1>1. CASE call[p].kind # "claim"
  BY <1>1, ReturnKeepsTypes DEF Ensured
<1>2. CASE call[p].kind = "claim"
  <2>1. /\ pc' = [pc EXCEPT ![p] = "set"] /\ UNCHANGED call
        /\ got' = [got EXCEPT ![p] = {}]
        /\ names' = [names EXCEPT ![p] = <<>>]
        /\ held' = [held EXCEPT ![p] = Nobody]
    BY <1>2 DEF Ensured, Goto
  <2>2. /\ pc \in [Procs -> {"idle", "get", "accounts", "pick", "insert", "reread",
                              "set", "find", "clear", "own", "delete"}]
        /\ got \in [Procs -> SUBSET Accounts] /\ call \in [Procs -> Calls]
        /\ held \in [Procs -> Ids \cup {Nobody}]
    BY DEF Base, TypeOK
  <2>3. names' \in [Procs -> Seq(Names)]
    <3>1. <<>> \in Seq(Names)
      OBVIOUS
    <3>. QED BY <2>1, <3>1 DEF Base, TypeOK
  <2>4. LocalInv'
    <3>. SUFFICES ASSUME NEW q \in Procs
                  PROVE  /\ call'[q].kind = "claim" => call'[q].name \in Names
                         /\ pc'[q] = "set" => call'[q].kind = "claim"
                         /\ pc'[q] = "insert" => names'[q] # <<>>
      BY DEF LocalInv
    <3>1. CASE q = p
      BY <1>2, <2>1, <2>2, <3>1 DEF Base, LocalInv
    <3>2. CASE q # p
      <4>1. pc'[q] = pc[q] /\ names'[q] = names[q] /\ call'[q] = call[q]
        BY <2>1, <2>2, <3>2 DEF Base, TypeOK
      <4>. QED BY <4>1 DEF Base, LocalInv
    <3>. QED BY <3>1, <3>2
  <2>. QED BY <2>1, <2>2, <2>3, <2>4
<1>. QED BY <1>1, <1>2

LEMMA BaseEnvironment ==
  ASSUME Base,
         \/ \E u \in Users, a \in Accounts : Switch(u, a)
         \/ \E a \in Accounts : Crawl(a)
         \/ \E r \in Requests : Arrivals(r)
         \/ \E u \in Users : StartRefresh(u)
  PROVE  Base'
<1>. USE ProfilesAssumption DEF Base, TypeOK, LocalInv, Procs
<1>1. CASE \E u \in Users, a \in Accounts : Switch(u, a)
  <2>1. PICK u \in Users, a \in Accounts : Switch(u, a)
    BY <1>1
  <2>2. mishaps' \in 0..MaxMishaps
    BY <2>1 DEF Switch
  <2>3. connected' \in [Users -> SUBSET Accounts] /\ proven' \in [Users -> SUBSET Accounts]
    <3>1. CASE /\ connected' = [connected EXCEPT ![u] = @ \cup {a}]
               /\ proven' = [proven EXCEPT ![u] = @ \cup {a}]
      BY <3>1
    <3>2. CASE connected' = [connected EXCEPT ![u] = @ \ {a}] /\ UNCHANGED proven
      BY <3>2
    <3>. QED BY <2>1, <3>1, <3>2 DEF Switch
  <2>. QED BY <2>1, <2>2, <2>3 DEF Switch, tables, localVars
<1>2. CASE \E a \in Accounts : Crawl(a)
  BY <1>2 DEF Crawl, outerVars, localVars
<1>3. ASSUME NEW r \in Requests, NEW c \in Calls, c.kind = "claim" => c.name \in Names, Arrive(r, c)
      PROVE  Base'
  BY <1>3 DEF Arrive, Goto, outerVars, tables
<1>4. CASE \E r \in Requests : Arrivals(r)
  <2>1. PICK r \in Requests, u \in Users :
          \/ \E k \in {"me", "delete"} : Arrive(r, [kind |-> k, user |-> u, name |-> NoName])
          \/ \E n \in Claims : Arrive(r, [kind |-> "claim", user |-> u, name |-> n])
    BY <1>4 DEF Arrivals
  <2>. QED BY <2>1, <1>3 DEF Calls
<1>5. CASE \E u \in Users : StartRefresh(u)
  BY <1>5 DEF StartRefresh, Goto, outerVars, tables
<1>. QED BY <1>1, <1>2, <1>4, <1>5

LEMMA UserType == ASSUME Base, NEW p \in Procs PROVE User(p) \in Users
  BY DEF Base, TypeOK, User, Calls

LEMMA BaseEnsure ==
  ASSUME Base, NEW p \in Procs,
         \/ GetByClerkUserID(p) \/ ReadAccounts(p) \/ PickDefaultUsername(p)
         \/ InsertProfile(p) \/ Reread(p)
  PROVE  Base'
<1>. USE DEF Base
<1>1. CASE GetByClerkUserID(p) \/ Reread(p)
  BY <1>1, EnsuredKeepsTypes, ReturnKeepsTypes
     DEF GetByClerkUserID, Reread, Goto, TypeOK, LocalInv, outerVars, tables
<1>2. CASE ReadAccounts(p)
  <2>1. DefaultNames(User(p)) \subseteq Seq(Names)
    BY UserType, ProfilesAssumption DEF DefaultNames, TypeOK
  <2>. QED BY <1>2, <2>1, UserType DEF ReadAccounts, Goto, TypeOK, LocalInv, outerVars, tables
<1>3. CASE PickDefaultUsername(p)
  <2>1. CASE Return(p)
    BY <1>3, <2>1, ReturnKeepsTypes DEF PickDefaultUsername, TypeOK, outerVars, tables
  <2>2. CASE names[p] # <<>> /\ names' = [names EXCEPT ![p] = Tail(@)] /\ UNCHANGED <<pc, call, got, held>>
    <3>1. Tail(names[p]) \in Seq(Names)
      BY <2>2 DEF TypeOK
    <3>. QED BY <1>3, <2>2, <3>1 DEF PickDefaultUsername, TypeOK, LocalInv, outerVars, tables
  <2>3. CASE names[p] # <<>> /\ Goto(p, "insert") /\ UNCHANGED <<names, call, got, held>>
    BY <1>3, <2>3 DEF PickDefaultUsername, Goto, TypeOK, LocalInv, outerVars, tables
  <2>. QED BY <1>3, <2>1, <2>2, <2>3 DEF PickDefaultUsername
<1>4. CASE InsertProfile(p)
  <2>1. Head(names[p]) \in Names
    BY <1>4 DEF InsertProfile, TypeOK, LocalInv
  <2>2. CASE NewProfile(p)
    BY <1>4, <2>1, <2>2, UserType
       DEF InsertProfile, NewProfile, FreshIds, Goto, TypeOK, LocalInv, outerVars
  <2>. QED BY <1>4, <2>2 DEF InsertProfile, Goto, TypeOK, LocalInv, outerVars
<1>. QED BY <1>1, <1>2, <1>3, <1>4

LEMMA BaseOwnership ==
  ASSUME Base, NEW p \in Procs, OwnershipStep(p)
  PROVE  Base'
<1>. USE DEF Base
<1>1. CASE ClearProfile(p)
  BY <1>1 DEF ClearProfile, AfterClear, Goto, TypeOK, LocalInv, outerVars, Nobody
<1>2. CASE OwnershipSynced(p)
  BY <1>2, EnsuredKeepsTypes DEF OwnershipSynced, TypeOK, outerVars, tables
<1>3. CASE \E a \in Accounts : SetProfile(p, a)
  BY <1>3 DEF SetProfile, TypeOK, LocalInv, outerVars
<1>. QED BY <1>1, <1>2, <1>3 DEF OwnershipStep

LEMMA BaseRest ==
  ASSUME Base, NEW p \in Procs,
         \/ SetUsername(p) \/ GetProfileToDelete(p) \/ DeleteByClerkUserID(p)
         \/ (p \in Users /\ (FindProfile(p) \/ TaskLeft(p))) \/ Fails(p)
  PROVE  Base'
<1>. USE DEF Base
<1>1. CASE SetUsername(p)
  <2>1. call[p].name \in Names
    BY <1>1 DEF SetUsername, TypeOK, LocalInv
  <2>. QED BY <1>1, <2>1, UserType, ReturnKeepsTypes DEF SetUsername, Mine, TypeOK, outerVars
<1>2. CASE GetProfileToDelete(p)
  BY <1>2, UserType DEF GetProfileToDelete, Mine, Goto, TypeOK, LocalInv, outerVars, tables, NoProfile
<1>3. CASE DeleteByClerkUserID(p)
  BY <1>3, UserType, ReturnKeepsTypes DEF DeleteByClerkUserID, TypeOK, outerVars, NoProfile
<1>4. CASE p \in Users /\ FindProfile(p)
  BY <1>4, ReturnKeepsTypes DEF FindProfile, Goto, TypeOK, LocalInv, outerVars, tables, NoProfile
<1>5. CASE Fails(p)
  <2>1. mishaps' \in 0..MaxMishaps /\ UNCHANGED <<outerVars, tables, arrivals>>
    BY <1>5, ProfilesAssumption DEF Fails, TypeOK
  <2>2. CASE Return(p) \/ Ensured(p)
    BY <2>1, <2>2, ReturnKeepsTypes, EnsuredKeepsTypes DEF TypeOK, outerVars, tables
  <2>3. CASE Goto(p, "delete") /\ UNCHANGED <<call, got, names, held>>
    BY <2>1, <2>3 DEF Goto, TypeOK, LocalInv, outerVars, tables
  <2>4. CASE /\ \E a \in got[p] : got' = [got EXCEPT ![p] = @ \ {a}]
             /\ UNCHANGED <<pc, call, names, held>>
    BY <2>1, <2>4 DEF TypeOK, LocalInv, outerVars, tables
  <2>. QED BY <1>5, <2>2, <2>3, <2>4 DEF Fails, LoggedFailure
<1>6. CASE p \in Users /\ TaskLeft(p)
  <2>1. /\ mishaps' \in 0..MaxMishaps /\ stuck' \subseteq Users
        /\ UNCHANGED <<connected, proven, tables, arrivals>>
    BY <1>6, ProfilesAssumption DEF TaskLeft, TypeOK
  <2>2. Return(p)
    BY <1>6 DEF TaskLeft
  <2>. QED BY <2>1, <2>2, ReturnKeepsTypes DEF TypeOK, tables
<1>. QED BY <1>1, <1>2, <1>3, <1>4, <1>5, <1>6

LEMMA BaseStep == Base /\ [Next]_vars => Base'
<1>. SUFFICES ASSUME Base, [Next]_vars PROVE Base'
  OBVIOUS
<1>1. CASE UNCHANGED vars
  BY <1>1 DEF Base, TypeOK, LocalInv, vars, outerVars, tables, localVars
<1>2. CASE Next
  BY <1>2, BaseEnvironment, BaseEnsure, BaseOwnership, BaseRest
     DEF Next, Request, RefreshJob, Procs
<1>. QED BY <1>1, <1>2

\* Every table and local variable keeps its type.
THEOREM TypeCorrect == Spec => []TypeOK
<1>1. Spec => []Base
  BY BaseInit, BaseStep, PTL DEF Spec
<1>. QED BY <1>1, PTL DEF Base

-----------------------------------------------------------------------------
(* Who changes the profiles table.                                         *)

LEMMA ProfileWriters ==
  ASSUME Base, [Next]_vars
  PROVE  \/ UNCHANGED profile
         \/ \E p \in Requests : InsertProfile(p) \/ SetUsername(p) \/ DeleteByClerkUserID(p)
<1>1. CASE UNCHANGED vars
  BY <1>1 DEF vars, tables
<1>2. CASE Next
  <2>1. ASSUME NEW p \in Procs, OwnershipStep(p) \/ Fails(p)
        PROVE  UNCHANGED profile
    BY <2>1 DEF OwnershipStep, ClearProfile, OwnershipSynced, SetProfile, Fails, tables
  <2>2. ASSUME NEW u \in Users,
               \/ StartRefresh(u) \/ FindProfile(u) \/ TaskLeft(u)
               \/ \E a \in Accounts : Switch(u, a)
        PROVE  UNCHANGED profile
    BY <2>2 DEF StartRefresh, FindProfile, TaskLeft, Switch, tables
  <2>3. ASSUME NEW r \in Requests,
               \/ Arrivals(r) \/ GetByClerkUserID(r) \/ ReadAccounts(r)
               \/ PickDefaultUsername(r) \/ Reread(r) \/ GetProfileToDelete(r)
        PROVE  UNCHANGED profile
    BY <2>3 DEF Arrivals, Arrive, GetByClerkUserID, ReadAccounts, PickDefaultUsername, Reread,
                GetProfileToDelete, tables
  <2>4. ASSUME NEW a \in Accounts, Crawl(a)
        PROVE  UNCHANGED profile
    BY <2>4 DEF Crawl
  <2>. QED BY <1>2, <2>1, <2>2, <2>3, <2>4 DEF Next, Request, RefreshJob, Procs
<1>. QED BY <1>1, <1>2

\* What the inserting and renaming statements do to the table: a row of the
\* user's own, with a fresh id or its old one, under a name nobody else holds.
LEMMA WritersEffect ==
  ASSUME Base, NEW p \in Requests, InsertProfile(p) \/ SetUsername(p), ~UNCHANGED profile
  PROVE  \E n \in Names, i \in Ids :
           /\ ~HeldByOther(User(p), n)
           /\ profile' = [profile EXCEPT ![User(p)] = [id |-> i, name |-> n]]
           /\ \/ Mine(p) = NoProfile /\ i \in FreshIds
              \/ i = Mine(p).id
<1>. USE DEF Base
<1>0. p \in Procs /\ User(p) \in Users
  BY UserType DEF Procs
<1>1. CASE InsertProfile(p)
  <2>1. Head(names[p]) \in Names
    BY <1>0, <1>1 DEF InsertProfile, TypeOK, LocalInv
  <2>. QED BY <1>1, <2>1 DEF InsertProfile, NewProfile, FreshIds
<1>2. CASE SetUsername(p)
  <2>1. call[p].name \in Names
    BY <1>0, <1>2 DEF SetUsername, TypeOK, LocalInv
  <2>2. Mine(p) # NoProfile /\ ~HeldByOther(User(p), call[p].name)
        /\ profile' = [profile EXCEPT ![User(p)].name = call[p].name]
    BY <1>2 DEF SetUsername
  <2>3. Mine(p) \in [id : Ids, name : Names]
    BY <1>0, <2>2 DEF TypeOK, Mine
  <2>4. [Mine(p) EXCEPT !.name = call[p].name] = [id |-> Mine(p).id, name |-> call[p].name]
    BY <2>3
  <2>. QED BY <2>1, <2>2, <2>3, <2>4 DEF Mine
<1>. QED BY <1>1, <1>2

-----------------------------------------------------------------------------
(* Names.                                                                  *)

LEMMA NamesStep ==
  ASSUME Base, OneHolderPerName, [Next]_vars
  PROVE  OneHolderPerName'
<1>1. CASE UNCHANGED profile
  BY <1>1 DEF OneHolderPerName
<1>2. ASSUME NEW p \in Requests, DeleteByClerkUserID(p)
      PROVE  OneHolderPerName'
  BY <1>2, UserType DEF DeleteByClerkUserID, OneHolderPerName, Base, TypeOK, Procs
<1>3. ASSUME NEW p \in Requests, InsertProfile(p) \/ SetUsername(p), ~UNCHANGED profile
      PROVE  OneHolderPerName'
  <2>1. PICK n \in Names, i \in Ids :
          /\ ~HeldByOther(User(p), n)
          /\ profile' = [profile EXCEPT ![User(p)] = [id |-> i, name |-> n]]
    BY <1>3, WritersEffect
  <2>2. profile'[User(p)].name = n /\ \A u \in Users \ {User(p)} : profile'[u] = profile[u]
    BY <2>1, UserType DEF Base, TypeOK, Procs
  <2>. QED BY <2>1, <2>2 DEF OneHolderPerName, HeldByOther
<1>. QED BY <1>1, <1>2, <1>3, ProfileWriters

\* Whatever was read before the insert or the rename, a name has one holder.
THEOREM NamesAreExclusive == Spec => []OneHolderPerName
<1>1. Init => OneHolderPerName
  BY DEF Init, OneHolderPerName
<1>2. Base /\ OneHolderPerName /\ [Next]_vars => OneHolderPerName'
  BY NamesStep
<1>. QED BY BaseInit, BaseStep, <1>1, <1>2, PTL DEF Spec

\* A profile keeps its id until it is deleted: the second of two first visits
\* does not replace what the first has created.
THEOREM IdsAreKept == Spec => ProfileKeepsItsId
<1>1. ASSUME Base, [Next]_vars
      PROVE  [\A u \in Users : profile[u] # NoProfile /\ profile'[u] # NoProfile
                                 => profile'[u].id = profile[u].id]_vars
  <2>1. ASSUME NEW u \in Users, profile[u] # NoProfile, profile'[u] # NoProfile
        PROVE  profile'[u].id = profile[u].id
    <3>1. ASSUME NEW p \in Requests, DeleteByClerkUserID(p)
          PROVE  profile'[u].id = profile[u].id
      BY <2>1, <3>1, UserType DEF DeleteByClerkUserID, Base, TypeOK, Procs
    <3>2. ASSUME NEW p \in Requests, InsertProfile(p) \/ SetUsername(p), ~UNCHANGED profile
          PROVE  profile'[u].id = profile[u].id
      <4>1. PICK n \in Names, i \in Ids :
              /\ profile' = [profile EXCEPT ![User(p)] = [id |-> i, name |-> n]]
              /\ Mine(p) = NoProfile \/ i = Mine(p).id
        BY <1>1, <3>2, WritersEffect
      <4>2. profile'[u] = IF u = User(p) THEN [id |-> i, name |-> n] ELSE profile[u]
        BY <1>1, <2>1, <4>1 DEF Base, TypeOK
      <4>3. CASE u = User(p)
        BY <2>1, <4>1, <4>2, <4>3 DEF Mine
      <4>. QED BY <4>2, <4>3
    <3>. QED BY <1>1, <3>1, <3>2, ProfileWriters
  <2>. QED BY <2>1
<1>. QED BY BaseInit, BaseStep, <1>1, PTL DEF Spec, ProfileKeepsItsId

-----------------------------------------------------------------------------
(* Ownership.  A process that rebuilds it works from accounts read before, *)
(* for a profile found or created before: the accounts were connected by   *)
(* its user at some time, and the profile, if it still exists, is its      *)
(* user's.                                                                 *)

IdsAreUnique ==
  \A u, v \in Users : u # v /\ profile[u] # NoProfile => profile[u].id # profile[v].id

WorkIsOwn ==
  \A p \in Procs :
    /\ p \in Users => User(p) = p
    /\ pc[p] = "idle" => held[p] = Nobody /\ got[p] = {}
    /\ got[p] \subseteq proven[User(p)]
    /\ held[p] # Nobody => \A v \in Users : profile[v].id = held[p] => v = User(p)

ConnectedIsProven == \A u \in Users : connected[u] \subseteq proven[u]

OwnershipInv ==
  Base /\ IdsAreUnique /\ WorkIsOwn /\ ConnectedIsProven /\ OwnershipIsProven

LEMMA IdType ==
  ASSUME Base, NEW u \in Users
  PROVE  /\ profile[u] # NoProfile => profile[u].id \in Ids /\ profile[u].id # Nobody
         /\ profile[u] = NoProfile => profile[u].id = Nobody
  BY ProfilesAssumption DEF Base, TypeOK, NoProfile, Nobody

LEMMA OwnershipInit == Init => OwnershipInv
<1>. SUFFICES ASSUME Init PROVE OwnershipInv
  OBVIOUS
<1>1. \A p \in Users : NoCall(p).user = p
  BY DEF NoCall, Refresh
<1>. QED BY BaseInit, <1>1
        DEF Init, OwnershipInv, IdsAreUnique, WorkIsOwn, ConnectedIsProven, OwnershipIsProven,
            Procs, User

\* A step that leaves the tables and Clerk alone keeps the invariant if it
\* keeps what the process holds, or drops it.
LEMMA QuietStep ==
  ASSUME OwnershipInv, Base', NEW p \in Procs,
         UNCHANGED <<connected, proven, profile, owner>>,
         \A q \in Procs \ {p} : /\ pc'[q] = pc[q] /\ call'[q] = call[q]
                                /\ got'[q] = got[q] /\ held'[q] = held[q],
         call'[p].user = call[p].user \/ (p \notin Users /\ got'[p] = {} /\ held'[p] = Nobody),
         p \in Users => call'[p].user = p,
         got'[p] \subseteq proven[User(p)],
         held'[p] = Nobody \/ held'[p] = held[p] \/ held'[p] = profile[User(p)].id,
         pc'[p] = "idle" => held'[p] = Nobody /\ got'[p] = {}
  PROVE  OwnershipInv'
<1>1. IdsAreUnique' /\ ConnectedIsProven' /\ OwnershipIsProven'
  BY DEF OwnershipInv, IdsAreUnique, ConnectedIsProven, OwnershipIsProven, Owns
<1>2. WorkIsOwn'
  <2>. SUFFICES ASSUME NEW q \in Procs
                PROVE  /\ q \in Users => call'[q].user = q
                       /\ pc'[q] = "idle" => held'[q] = Nobody /\ got'[q] = {}
                       /\ got'[q] \subseteq proven[call'[q].user]
                       /\ held'[q] # Nobody =>
                            \A v \in Users : profile[v].id = held'[q] => v = call'[q].user
    BY DEF WorkIsOwn, User
  <2>1. CASE q # p
    BY <2>1 DEF OwnershipInv, WorkIsOwn, User
  <2>2. CASE q = p
    <3>1. \A v \in Users : held'[p] # Nobody /\ profile[v].id = held'[p] => v = User(p)
      <4>1. CASE held'[p] = profile[User(p)].id
        BY <4>1, IdType, UserType DEF OwnershipInv, IdsAreUnique
      <4>. QED BY <4>1 DEF OwnershipInv, WorkIsOwn
    <3>2. got'[p] \subseteq proven[call'[p].user]
      BY DEF User
    <3>. QED BY <2>2, <3>1, <3>2 DEF User
  <2>. QED BY <2>1, <2>2
<1>. QED BY <1>1, <1>2 DEF OwnershipInv

LEMMA ReturnIsQuiet ==
  ASSUME OwnershipInv, Base', NEW p \in Procs, Return(p) \/ Ensured(p),
         UNCHANGED <<connected, proven, profile, owner>>
  PROVE  OwnershipInv'
<1>1. CASE Return(p)
  <2>1. /\ call'[p] = NoCall(p) /\ got'[p] = {} /\ held'[p] = Nobody
        /\ \A q \in Procs \ {p} : /\ pc'[q] = pc[q] /\ call'[q] = call[q]
                               /\ got'[q] = got[q] /\ held'[q] = held[q]
    BY <1>1 DEF Return, OwnershipInv, Base, TypeOK
  <2>2. p \in Users => call'[p].user = p
    BY <2>1 DEF NoCall, Refresh
  <2>3. p \in Users => User(p) = p
    BY DEF OwnershipInv, WorkIsOwn
  <2>. QED BY <2>1, <2>2, <2>3, QuietStep DEF User
<1>2. CASE call[p].kind = "claim" /\ Ensured(p)
  <2>1. /\ UNCHANGED call /\ got'[p] = {} /\ held'[p] = Nobody /\ pc'[p] = "set"
        /\ \A q \in Procs \ {p} : pc'[q] = pc[q] /\ got'[q] = got[q] /\ held'[q] = held[q]
    BY <1>2 DEF Ensured, Goto, OwnershipInv, Base, TypeOK
  <2>2. p \in Users => call[p].user = p
    BY DEF OwnershipInv, WorkIsOwn, User
  <2>. QED BY <2>1, <2>2, QuietStep
<1>. QED BY <1>1, <1>2 DEF Ensured

LEMMA OwnershipQuiet ==
  ASSUME OwnershipInv, Base', NEW p \in Procs,
         \/ p \in Requests /\ (Arrivals(p) \/ GetByClerkUserID(p) \/ ReadAccounts(p)
                               \/ PickDefaultUsername(p) \/ Reread(p) \/ GetProfileToDelete(p))
         \/ p \in Users /\ (StartRefresh(p) \/ FindProfile(p) \/ TaskLeft(p))
         \/ OwnershipSynced(p) \/ Fails(p)
  PROVE  OwnershipInv'
<1>. DEFINE Others == \A q \in Procs \ {p} : /\ pc'[q] = pc[q] /\ call'[q] = call[q]
                                            /\ got'[q] = got[q] /\ held'[q] = held[q]
            Same == UNCHANGED <<connected, proven, profile, owner>>
<1>1. p \in Users => call[p].user = p
  BY DEF OwnershipInv, WorkIsOwn, User
<1>2. got[p] \subseteq proven[User(p)]
  BY DEF OwnershipInv, WorkIsOwn
<1>3. connected[User(p)] \subseteq proven[User(p)]
  BY UserType DEF OwnershipInv, ConnectedIsProven
<1>. USE DEF OwnershipInv, Base, TypeOK, Goto, outerVars, tables
<1>4. CASE p \in Requests /\ Arrivals(p)
  <2>1. pc[p] = "idle" /\ pc'[p] = "get" /\ UNCHANGED <<got, held>> /\ Same
        /\ \A q \in Procs \ {p} : pc'[q] = pc[q] /\ call'[q] = call[q]
    BY <1>4 DEF Arrivals, Arrive
  <2>2. got[p] = {} /\ held[p] = Nobody
    BY <2>1 DEF WorkIsOwn
  <2>3. p \notin Users
    BY <1>4, ProfilesAssumption
  <2>. QED BY <1>2, <2>1, <2>2, <2>3, QuietStep
<1>5. CASE pc[p] # "idle" /\ Same /\ Others /\ UNCHANGED <<call, got, held>> /\ pc'[p] # "idle"
  BY <1>1, <1>2, <1>5, QuietStep
<1>6. CASE (Return(p) \/ Ensured(p)) /\ Same
  BY <1>6, ReturnIsQuiet
<1>7. CASE p \in Requests /\ ReadAccounts(p)
  <2>1. Same /\ Others /\ UNCHANGED <<call, held>> /\ pc'[p] # "idle" /\ got'[p] = connected[User(p)]
    BY <1>7 DEF ReadAccounts
  <2>. QED BY <1>1, <1>3, <2>1, QuietStep
<1>8. CASE p \in Users /\ StartRefresh(p)
  <2>1. Same /\ Others /\ UNCHANGED <<call, held>> /\ pc'[p] # "idle" /\ got'[p] = connected[p]
    BY <1>8 DEF StartRefresh
  <2>. QED BY <1>1, <1>3, <1>8, <2>1, QuietStep DEF User
<1>9. CASE /\ pc'[p] # "idle" /\ Same /\ Others /\ UNCHANGED <<call, got>>
           /\ held'[p] = profile[User(p)].id
  BY <1>1, <1>2, <1>9, QuietStep
<1>10. CASE \/ p \in Requests /\ (GetByClerkUserID(p) \/ PickDefaultUsername(p) \/ Reread(p))
            \/ OwnershipSynced(p)
  BY <1>5, <1>6, <1>10 DEF GetByClerkUserID, PickDefaultUsername, Reread, OwnershipSynced
<1>11. CASE p \in Requests /\ GetProfileToDelete(p)
  BY <1>5, <1>9, <1>11 DEF GetProfileToDelete, Mine
<1>12. CASE p \in Users /\ FindProfile(p)
  BY <1>1, <1>6, <1>9, <1>12 DEF FindProfile, User
<1>13. CASE Fails(p)
  <2>1. CASE \E a \in got[p] : got' = [got EXCEPT ![p] = @ \ {a}] /\ UNCHANGED <<pc, call, held>>
    BY <1>1, <1>2, <1>13, <2>1, QuietStep DEF Fails
  <2>2. CASE Goto(p, "delete") /\ UNCHANGED <<call, got, held>>
    BY <1>5, <1>13, <2>2 DEF Fails
  <2>. QED BY <1>6, <1>13, <2>1, <2>2 DEF Fails, LoggedFailure
<1>14. CASE p \in Users /\ TaskLeft(p)
  BY <1>6, <1>14 DEF TaskLeft
<1>. QED BY <1>4, <1>7, <1>8, <1>10, <1>11, <1>12, <1>13, <1>14

LEMMA OwnershipClerk ==
  ASSUME OwnershipInv, Base', NEW u \in Users, NEW a \in Accounts, Switch(u, a) \/ Crawl(a)
  PROVE  OwnershipInv'
<1>. USE DEF OwnershipInv, Base, TypeOK, outerVars, tables, localVars
<1>1. \A v \in Users : proven[v] \subseteq proven'[v]
  <2>1. CASE UNCHANGED proven
    BY <2>1
  <2>2. CASE proven' = [proven EXCEPT ![u] = @ \cup {a}]
    BY <2>2
  <2>. QED BY <2>1, <2>2 DEF Switch, Crawl
<1>2. UNCHANGED <<profile, owner, localVars>>
  BY DEF Switch, Crawl
<1>3. ConnectedIsProven'
  <2>1. CASE UNCHANGED <<connected, proven>>
    BY <2>1 DEF ConnectedIsProven
  <2>2. CASE /\ connected' = [connected EXCEPT ![u] = @ \cup {a}]
             /\ proven' = [proven EXCEPT ![u] = @ \cup {a}]
    BY <2>2 DEF ConnectedIsProven
  <2>3. CASE connected' = [connected EXCEPT ![u] = @ \ {a}] /\ UNCHANGED proven
    BY <2>3 DEF ConnectedIsProven
  <2>. QED BY <2>1, <2>2, <2>3 DEF Switch, Crawl
<1>4. IdsAreUnique'
  BY <1>2 DEF IdsAreUnique
<1>5. WorkIsOwn'
  BY <1>1, <1>2, UserType DEF WorkIsOwn, User
<1>6. OwnershipIsProven'
  BY <1>1, <1>2 DEF OwnershipIsProven, Owns
<1>. QED BY <1>3, <1>4, <1>5, <1>6

LEMMA OwnershipWrite ==
  ASSUME OwnershipInv, Base', NEW p \in Procs,
         ClearProfile(p) \/ \E a \in Accounts : SetProfile(p, a)
  PROVE  OwnershipInv'
<1>. USE DEF OwnershipInv, Base, TypeOK, outerVars
<1>1. UNCHANGED <<connected, proven, profile, call, held>>
  BY DEF ClearProfile, SetProfile
<1>2. IdsAreUnique' /\ ConnectedIsProven'
  BY <1>1 DEF IdsAreUnique, ConnectedIsProven
<1>3. CASE ClearProfile(p)
  <2>1. WorkIsOwn'
    BY <1>3 DEF ClearProfile, AfterClear, Goto, WorkIsOwn, User
  <2>2. OwnershipIsProven'
    BY <1>1, <1>3 DEF ClearProfile, OwnershipIsProven, Owns
  <2>. QED BY <1>2, <2>1, <2>2
<1>4. ASSUME NEW a \in Accounts, SetProfile(p, a)
      PROVE  OwnershipInv'
  <2>1. WorkIsOwn'
    BY <1>4 DEF SetProfile, WorkIsOwn, User
  <2>2. ASSUME NEW b \in Accounts, owner'[b] # Nobody
        PROVE  \E u \in Users : Owns(u, b)' /\ b \in proven'[u]
    <3>1. CASE owner'[b] = owner[b]
      BY <1>1, <2>2, <3>1 DEF OwnershipIsProven, Owns
    <3>2. CASE b = a /\ owner'[b] = held[p] /\ Live(held[p])
      <4>1. PICK v \in Users : profile[v].id = held[p] /\ held[p] # Nobody
        BY <3>2 DEF Live
      <4>2. v = User(p) /\ a \in proven[v]
        BY <1>4, <4>1 DEF WorkIsOwn, SetProfile
      <4>3. profile[v] # NoProfile
        BY <4>1 DEF NoProfile
      <4>. QED BY <1>1, <3>2, <4>1, <4>2, <4>3 DEF Owns
    <3>. QED BY <1>4, <3>1, <3>2 DEF SetProfile
  <2>3. OwnershipIsProven'
    BY <2>2 DEF OwnershipIsProven
  <2>. QED BY <1>2, <2>1, <2>3
<1>. QED BY <1>3, <1>4

LEMMA OwnershipDelete ==
  ASSUME OwnershipInv, Base', NEW p \in Requests, DeleteByClerkUserID(p)
  PROVE  OwnershipInv'
<1>. USE DEF OwnershipInv, Base, TypeOK
<1>0. p \in Procs /\ p \notin Users /\ User(p) \in Users
  BY UserType, ProfilesAssumption DEF Procs
<1>1. /\ profile' = [profile EXCEPT ![User(p)] = NoProfile]
      /\ owner' = [a \in Accounts |-> IF owner[a] = Mine(p).id THEN Nobody ELSE owner[a]]
      /\ Return(p) /\ UNCHANGED <<connected, proven>>
  BY DEF DeleteByClerkUserID, outerVars
<1>2. IdsAreUnique' /\ ConnectedIsProven'
  <2>1. IdsAreUnique'
    BY <1>0, <1>1, IdType DEF IdsAreUnique, NoProfile
  <2>. QED BY <1>1, <2>1 DEF ConnectedIsProven
<1>3. WorkIsOwn'
  <2>1. \A q \in Procs \ {p} : pc'[q] = pc[q] /\ call'[q] = call[q] /\ got'[q] = got[q] /\ held'[q] = held[q]
    BY <1>0, <1>1 DEF Return
  <2>2. held'[p] = Nobody /\ got'[p] = {}
    BY <1>0, <1>1 DEF Return
  <2>3. \A v \in Users : profile'[v].id # Nobody => profile'[v] = profile[v]
    BY <1>0, <1>1 DEF NoProfile
  <2>. SUFFICES ASSUME NEW q \in Procs
                PROVE  /\ q \in Users => call'[q].user = q
                       /\ pc'[q] = "idle" => held'[q] = Nobody /\ got'[q] = {}
                       /\ got'[q] \subseteq proven[call'[q].user]
                       /\ held'[q] # Nobody =>
                            \A v \in Users : profile'[v].id = held'[q] => v = call'[q].user
    BY <1>1 DEF WorkIsOwn, User
  <2>4. CASE q = p
    BY <1>0, <2>2, <2>4
  <2>5. CASE q # p
    BY <2>1, <2>3, <2>5 DEF WorkIsOwn, User
  <2>. QED BY <2>4, <2>5
<1>4. OwnershipIsProven'
  <2>. SUFFICES ASSUME NEW a \in Accounts, owner'[a] # Nobody
                PROVE  \E u \in Users : Owns(u, a)' /\ a \in proven[u]
    BY <1>1 DEF OwnershipIsProven
  <2>1. owner'[a] = owner[a] /\ owner[a] # Mine(p).id
    BY <1>1
  <2>2. PICK u \in Users : Owns(u, a) /\ a \in proven[u]
    BY <2>1 DEF OwnershipIsProven
  <2>3. u # User(p)
    BY <2>1, <2>2 DEF Owns, Mine
  <2>. QED BY <1>0, <1>1, <2>1, <2>2, <2>3 DEF Owns
<1>. QED BY <1>2, <1>3, <1>4

LEMMA OwnershipInsert ==
  ASSUME OwnershipInv, Base', NEW p \in Requests, InsertProfile(p) \/ SetUsername(p)
  PROVE  OwnershipInv'
<1>. USE DEF OwnershipInv, Base, TypeOK
<1>0. p \in Procs /\ p \notin Users /\ User(p) \in Users
  BY UserType, ProfilesAssumption DEF Procs
<1>1. CASE UNCHANGED profile /\ InsertProfile(p)
  <2>1. CASE Goto(p, "reread") /\ UNCHANGED <<profile, held, names>>
    <3>1. /\ pc'[p] # "idle" /\ UNCHANGED <<connected, proven, profile, owner, call, got, held>>
          /\ \A q \in Procs \ {p} : pc'[q] = pc[q]
      BY <1>0, <1>1, <2>1 DEF InsertProfile, Goto, outerVars
    <3>. QED BY <1>0, <3>1, QuietStep DEF WorkIsOwn
  <2>2. CASE NewProfile(p)
    <3>1. \E i \in FreshIds : profile'[User(p)].id = i /\ i # profile[User(p)].id
      BY <1>0, <2>2 DEF NewProfile, FreshIds
    <3>. QED BY <1>1, <3>1
  <2>. QED BY <1>1, <2>1, <2>2 DEF InsertProfile
<1>2. CASE UNCHANGED profile /\ SetUsername(p)
  BY <1>0, <1>2, ReturnIsQuiet DEF SetUsername, outerVars
<1>3. CASE ~UNCHANGED profile
  <2>1. PICK n \in Names, i \in Ids :
          /\ profile' = [profile EXCEPT ![User(p)] = [id |-> i, name |-> n]]
          /\ \/ Mine(p) = NoProfile /\ i \in FreshIds
             \/ i = Mine(p).id
    BY <1>3, WritersEffect
  <2>2. i # Nobody
    BY ProfilesAssumption DEF Nobody
  <2>3. UNCHANGED <<connected, proven, owner>>
    BY DEF InsertProfile, SetUsername, outerVars
  <2>4. /\ profile'[User(p)].id = i
        /\ \A v \in Users \ {User(p)} : profile'[v] = profile[v] /\ profile[v].id # i
    <3>1. \A v \in Users \ {User(p)} : profile[v].id # i
      BY <1>0, <2>1, <2>2, IdType DEF FreshIds, IdsAreUnique, Mine
    <3>. QED BY <1>0, <2>1, <3>1
  <2>5. IdsAreUnique' /\ ConnectedIsProven'
    <3>1. IdsAreUnique'
      BY <1>0, <2>4 DEF IdsAreUnique
    <3>. QED BY <2>3, <3>1 DEF ConnectedIsProven
  <2>6. OwnershipIsProven'
    <3>. SUFFICES ASSUME NEW a \in Accounts, owner[a] # Nobody
                  PROVE  \E u \in Users : Owns(u, a)' /\ a \in proven[u]
      BY <2>3 DEF OwnershipIsProven
    <3>1. PICK u \in Users : Owns(u, a) /\ a \in proven[u]
      BY DEF OwnershipIsProven
    <3>2. profile'[u].id = profile[u].id
      BY <1>0, <2>1, <2>4, <3>1 DEF Owns, Mine
    <3>3. profile'[u] # NoProfile
      BY <2>2, <2>4, <3>1, <3>2, IdType DEF Owns, NoProfile
    <3>. QED BY <2>3, <3>1, <3>2, <3>3 DEF Owns
  <2>7. /\ \A q \in Procs \ {p} : /\ pc'[q] = pc[q] /\ call'[q] = call[q]
                                /\ got'[q] = got[q] /\ held'[q] = held[q]
        /\ \/ held'[p] = i /\ pc'[p] # "idle" /\ UNCHANGED <<call, got>>
           \/ held'[p] = Nobody /\ got'[p] = {}
    <3>1. CASE InsertProfile(p)
      <4>1. PICK j \in FreshIds :
              /\ profile' = [profile EXCEPT ![User(p)] = [id |-> j, name |-> Head(names[p])]]
              /\ held' = [held EXCEPT ![p] = j]
              /\ Goto(p, "clear") /\ UNCHANGED <<call, got>>
        BY <1>3, <3>1 DEF InsertProfile, NewProfile
      <4>2. j = i
        BY <1>0, <2>4, <4>1
      <4>3. \A q \in Procs \ {p} : pc'[q] = pc[q] /\ held'[q] = held[q]
        BY <4>1 DEF Goto
      <4>4. held'[p] = i /\ pc'[p] = "clear"
        BY <1>0, <4>1, <4>2 DEF Goto
      <4>. QED BY <4>1, <4>3, <4>4
    <3>2. CASE SetUsername(p)
      BY <1>0, <3>2 DEF SetUsername, Return
    <3>. QED BY <3>1, <3>2
  <2>8. WorkIsOwn'
    <3>. SUFFICES ASSUME NEW q \in Procs
                  PROVE  /\ q \in Users => call'[q].user = q
                         /\ pc'[q] = "idle" => held'[q] = Nobody /\ got'[q] = {}
                         /\ got'[q] \subseteq proven[call'[q].user]
                         /\ held'[q] # Nobody =>
                              \A v \in Users : profile'[v].id = held'[q] => v = call'[q].user
      BY <2>3 DEF WorkIsOwn, User
    <3>1. CASE q = p
      BY <1>0, <2>4, <2>7, <3>1 DEF WorkIsOwn, User
    <3>2. CASE q # p
      <4>1. Mine(p) = NoProfile => held[q] # i
        BY <2>1, <2>2, <3>2 DEF FreshIds, Mine, NoProfile
      <4>2. \A v \in Users : held[q] # Nobody /\ profile'[v].id = held[q] => profile[v].id = held[q]
        BY <1>0, <2>1, <2>4, <4>1 DEF Mine
      <4>. QED BY <2>7, <3>2, <4>2 DEF WorkIsOwn, User
    <3>. QED BY <3>1, <3>2
  <2>. QED BY <2>5, <2>6, <2>8
<1>. QED BY <1>1, <1>2, <1>3

LEMMA OwnershipStepKeeps == OwnershipInv /\ [Next]_vars => OwnershipInv'
<1>. SUFFICES ASSUME OwnershipInv, [Next]_vars PROVE OwnershipInv'
  OBVIOUS
<1>0. Base'
  BY BaseStep DEF OwnershipInv
<1>1. CASE UNCHANGED vars
  BY <1>0, <1>1 DEF OwnershipInv, IdsAreUnique, WorkIsOwn, ConnectedIsProven, OwnershipIsProven,
                    Owns, User, vars, outerVars, tables, localVars
<1>2. CASE \E a \in Accounts : Crawl(a)
  BY <1>0, <1>2, OwnershipClerk, ProfilesAssumption
<1>3. CASE Next /\ ~\E a \in Accounts : Crawl(a)
  BY <1>0, <1>3, OwnershipQuiet, OwnershipClerk, OwnershipWrite, OwnershipDelete, OwnershipInsert
     DEF Next, Request, RefreshJob, OwnershipStep, Procs
<1>. QED BY <1>1, <1>2, <1>3

\* No interleaving of rebuilds, disconnections, deletions and new profiles
\* attributes a source to someone who never connected its account.
THEOREM OwnershipCorrect == Spec => []OwnershipIsProven
<1>1. Spec => []OwnershipInv
  BY OwnershipInit, OwnershipStepKeeps, PTL DEF Spec
<1>. QED BY <1>1, PTL DEF OwnershipInv
-----------------------------------------------------------------------------
(* Refinement of Registry.  Accounts are owned through ids, so what is     *)
(* given to one user could be seen at another one with the same id; that   *)
(* the ids of live profiles differ, and that no source keeps the id of a   *)
(* profile that is gone, is what OwnershipInv adds to the statements.      *)

LEMMA RegistryStutters ==
  ASSUME UNCHANGED <<profile, owner, proven>>
  PROVE  UNCHANGED Reg!rvars
  BY DEF Reg!rvars, Owns

LEMMA MapsToTake ==
  ASSUME OwnershipInv, NEW p \in Requests, NEW w \in Users, w = User(p),
         InsertProfile(p) \/ SetUsername(p), ~UNCHANGED profile
  PROVE  \E n \in Names : Reg!Take(w, n)
<1>. USE DEF OwnershipInv, Base, TypeOK
<1>1. PICK n \in Names, i \in Ids :
        /\ ~HeldByOther(w, n)
        /\ profile' = [profile EXCEPT ![w] = [id |-> i, name |-> n]]
        /\ \/ Mine(p) = NoProfile /\ i \in FreshIds
           \/ i = Mine(p).id
  BY WritersEffect
<1>2. UNCHANGED <<owner, proven>>
  BY DEF InsertProfile, SetUsername, outerVars
<1>3. i # Nobody
  BY ProfilesAssumption DEF Nobody
<1>4. profile'[w] = [id |-> i, name |-> n] /\ \A v \in Users \ {w} : profile'[v] = profile[v]
  BY <1>1
<1>5. ASSUME NEW u \in Users, NEW a \in Accounts PROVE Owns(u, a)' <=> Owns(u, a)
  <2>1. CASE u # w
    BY <1>2, <1>4, <2>1 DEF Owns
  <2>2. CASE u = w /\ i = Mine(p).id
    BY <1>2, <1>3, <1>4, <2>2 DEF Owns, Mine, NoProfile
  <2>3. CASE u = w /\ Mine(p) = NoProfile /\ i \in FreshIds
    <3>1. owner[a] # i
      BY <1>3, <2>3 DEF OwnershipIsProven, Owns, FreshIds
    <3>. QED BY <1>2, <1>4, <2>3, <3>1 DEF Owns, Mine
  <2>. QED BY <1>1, <2>1, <2>2, <2>3
<1>6. \A v \in Users \ {w} : profile[v].name # n
  BY <1>1 DEF HeldByOther
<1>7. /\ \A v \in Users \ {w} : [u \in Users |-> profile[u].name][v] # n
      /\ [u \in Users |-> profile'[u].name] = [[u \in Users |-> profile[u].name] EXCEPT ![w] = n]
  <2>1. \A u \in Users : profile'[u].name = IF u = w THEN n ELSE profile[u].name
    BY <1>4
  <2>. HIDE DEF OwnershipInv, Base, TypeOK
  <2>2. [u \in Users |-> profile'[u].name] = [[u \in Users |-> profile[u].name] EXCEPT ![w] = n]
    BY <2>1, Zenon
  <2>. QED BY <1>6, <2>2
<1>8. [u \in Users |-> {a \in Accounts : Owns(u, a)}]' = [u \in Users |-> {a \in Accounts : Owns(u, a)}]
  BY <1>5
<1>. QED BY <1>2, <1>7, <1>8 DEF Reg!Take

LEMMA MapsToLeave ==
  ASSUME OwnershipInv, NEW p \in Requests, NEW w \in Users, w = User(p),
         DeleteByClerkUserID(p)
  PROVE  Reg!Leave(w)
<1>. USE DEF OwnershipInv, Base, TypeOK
<1>1. /\ profile'[w] = NoProfile
      /\ \A v \in Users \ {w} : profile'[v] = profile[v]
      /\ owner' = [a \in Accounts |-> IF owner[a] = Mine(p).id THEN Nobody ELSE owner[a]]
      /\ UNCHANGED proven
  BY DEF DeleteByClerkUserID, outerVars
<1>2. \A a \in Accounts : ~Owns(w, a)'
  BY <1>1 DEF Owns
<1>3. ASSUME NEW v \in Users \ {w}, NEW a \in Accounts PROVE Owns(v, a)' <=> Owns(v, a)
  <2>1. profile[v] # NoProfile => profile[v].id # Mine(p).id /\ profile[v].id # Nobody
    BY IdType DEF IdsAreUnique, Mine
  <2>. QED BY <1>1, <2>1 DEF Owns
<1>4. \A u \in Users : profile'[u].name = IF u = w THEN NoName ELSE profile[u].name
  <2>1. NoProfile.name = NoName
    BY DEF NoProfile
  <2>. QED BY <1>1, <2>1
<1>5. [u \in Users |-> profile'[u].name] = [[u \in Users |-> profile[u].name] EXCEPT ![w] = NoName]
  BY <1>4, Zenon
<1>6. [u \in Users |-> {a \in Accounts : Owns(u, a)}]'
        = [[u \in Users |-> {a \in Accounts : Owns(u, a)}] EXCEPT ![w] = {}]
  BY <1>2, <1>3
<1>. QED BY <1>1, <1>5, <1>6 DEF Reg!Leave

LEMMA MapsToWithdraw ==
  ASSUME OwnershipInv, NEW p \in Procs, NEW w \in Users, w = User(p), ClearProfile(p)
  PROVE  Reg!Withdraw(w) \/ UNCHANGED Reg!rvars
<1>. USE DEF OwnershipInv, Base, TypeOK
<1>1. /\ owner' = [a \in Accounts |-> IF owner[a] = held[p] THEN Nobody ELSE owner[a]]
      /\ UNCHANGED <<profile, proven>>
  BY DEF ClearProfile, outerVars
<1>2. CASE held[p] = Nobody \/ held[p] # profile[w].id
  <2>1. ASSUME NEW u \in Users, NEW a \in Accounts PROVE Owns(u, a)' <=> Owns(u, a)
    <3>1. profile[u] # NoProfile => profile[u].id # held[p] /\ profile[u].id # Nobody
      BY <1>2, IdType DEF WorkIsOwn
    <3>. QED BY <1>1, <3>1 DEF Owns
  <2>. QED BY <1>1, <2>1 DEF Reg!rvars
<1>3. CASE held[p] # Nobody /\ held[p] = profile[w].id
  <2>1. ASSUME NEW a \in Accounts PROVE ~Owns(w, a)'
    BY <1>1, <1>3 DEF Owns
  <2>2. ASSUME NEW v \in Users \ {w}, NEW a \in Accounts PROVE Owns(v, a)' <=> Owns(v, a)
    <3>1. profile[v].id # held[p] /\ (profile[v] # NoProfile => profile[v].id # Nobody)
      BY <1>3, IdType DEF WorkIsOwn
    <3>. QED BY <1>1, <3>1 DEF Owns
  <2>. QED BY <1>1, <2>1, <2>2 DEF Reg!Withdraw
<1>. QED BY <1>2, <1>3

LEMMA MapsToAttribute ==
  ASSUME OwnershipInv, NEW p \in Procs, NEW w \in Users, w = User(p),
         NEW a \in Accounts, SetProfile(p, a)
  PROVE  Reg!Attribute(w, a) \/ UNCHANGED Reg!rvars
<1>. USE DEF OwnershipInv, Base, TypeOK
<1>1. UNCHANGED <<profile, proven>>
  BY DEF SetProfile, outerVars
<1>2. CASE UNCHANGED owner
  BY <1>1, <1>2, RegistryStutters
<1>3. CASE ~UNCHANGED owner
  <2>1. owner' = [owner EXCEPT ![a] = held[p]] /\ Live(held[p]) /\ a \in got[p]
    BY <1>3 DEF SetProfile
  <2>2. held[p] # Nobody /\ held[p] = profile[w].id /\ a \in proven[w]
    BY <2>1 DEF Live, WorkIsOwn
  <2>3. profile[w] # NoProfile
    BY <2>2 DEF NoProfile
  <2>4. profile[w].name # NoName
    BY <2>3, ProfilesAssumption
  <2>5. \A b \in Accounts : Owns(w, b)' <=> Owns(w, b) \/ b = a
    BY <1>1, <2>1, <2>2, <2>3 DEF Owns
  <2>6. \A v \in Users \ {w}, b \in Accounts : Owns(v, b)' <=> Owns(v, b) /\ b # a
    BY <1>1, <2>1, <2>2 DEF Owns, WorkIsOwn
  <2>. QED BY <1>1, <2>2, <2>4, <2>5, <2>6 DEF Reg!Attribute
<1>. QED BY <1>2, <1>3

LEMMA MapsToProve ==
  ASSUME NEW u \in Users, NEW a \in Accounts, Switch(u, a)
  PROVE  Reg!Prove(u, a) \/ UNCHANGED Reg!rvars
  BY RegistryStutters DEF Switch, tables, Reg!Prove, Owns

\* The other statements touch neither the profiles nor the owners.
LEMMA OthersStutter ==
  ASSUME Next,
         ~\E u \in Users, a \in Accounts : Switch(u, a),
         ~\E p \in Procs : ClearProfile(p) \/ \E a \in Accounts : SetProfile(p, a),
         ~\E p \in Requests : InsertProfile(p) \/ SetUsername(p) \/ DeleteByClerkUserID(p)
  PROVE  UNCHANGED <<profile, owner, proven>>
<1>1. ASSUME NEW u \in Users, StartRefresh(u) \/ FindProfile(u) \/ TaskLeft(u)
      PROVE  UNCHANGED <<profile, owner, proven>>
  BY <1>1 DEF StartRefresh, FindProfile, TaskLeft, outerVars, tables
<1>2. ASSUME NEW a \in Accounts, Crawl(a)
      PROVE  UNCHANGED <<profile, owner, proven>>
  BY <1>2 DEF Crawl, outerVars
<1>3. ASSUME NEW p \in Procs, OwnershipSynced(p) \/ Fails(p)
      PROVE  UNCHANGED <<profile, owner, proven>>
  BY <1>3 DEF OwnershipSynced, Fails, outerVars, tables
<1>4. ASSUME NEW r \in Requests,
             \/ Arrivals(r) \/ GetByClerkUserID(r) \/ ReadAccounts(r)
             \/ PickDefaultUsername(r) \/ Reread(r) \/ GetProfileToDelete(r)
      PROVE  UNCHANGED <<profile, owner, proven>>
  BY <1>4 DEF Arrivals, Arrive, GetByClerkUserID, ReadAccounts, PickDefaultUsername, Reread,
              GetProfileToDelete, outerVars, tables
<1>. QED
  BY <1>1, <1>2, <1>3, <1>4 DEF Next, Request, RefreshJob, OwnershipStep, Procs

LEMMA RegistrySimulation ==
  ASSUME OwnershipInv, [Next]_vars
  PROVE  [Reg!RegistryNext]_(Reg!rvars)
<1>1. CASE UNCHANGED vars
  BY <1>1, RegistryStutters DEF vars, outerVars, tables
<1>2. ASSUME NEW u \in Users, NEW a \in Accounts, Switch(u, a)
      PROVE  [Reg!RegistryNext]_(Reg!rvars)
  BY <1>2, MapsToProve DEF Reg!RegistryNext
<1>3. ASSUME NEW p \in Procs, ClearProfile(p) \/ \E a \in Accounts : SetProfile(p, a)
      PROVE  [Reg!RegistryNext]_(Reg!rvars)
  <2>1. User(p) \in Users
    BY UserType DEF OwnershipInv
  <2>. QED BY <1>3, <2>1, MapsToWithdraw, MapsToAttribute DEF Reg!RegistryNext
<1>4. ASSUME NEW p \in Requests, InsertProfile(p) \/ SetUsername(p) \/ DeleteByClerkUserID(p)
      PROVE  [Reg!RegistryNext]_(Reg!rvars)
  <2>1. User(p) \in Users
    BY UserType DEF OwnershipInv, Procs
  <2>2. CASE DeleteByClerkUserID(p)
    BY <2>1, <2>2, MapsToLeave DEF Reg!RegistryNext
  <2>3. CASE (InsertProfile(p) \/ SetUsername(p)) /\ ~UNCHANGED profile
    BY <2>1, <2>3, MapsToTake DEF Reg!RegistryNext
  <2>4. CASE (InsertProfile(p) \/ SetUsername(p)) /\ UNCHANGED profile
    BY <2>4, RegistryStutters DEF InsertProfile, SetUsername, outerVars
  <2>. QED BY <1>4, <2>2, <2>3, <2>4
<1>5. CASE /\ Next
           /\ ~\E u \in Users, a \in Accounts : Switch(u, a)
           /\ ~\E p \in Procs : ClearProfile(p) \/ \E a \in Accounts : SetProfile(p, a)
           /\ ~\E p \in Requests : InsertProfile(p) \/ SetUsername(p) \/ DeleteByClerkUserID(p)
  BY <1>5, OthersStutter, RegistryStutters
<1>. QED BY <1>1, <1>2, <1>3, <1>4, <1>5

\* Statement by statement and in any interleaving, the tables behave as the
\* registry does: names are exclusive, deletion gives everything back at once,
\* and a new profile, whatever its id, inherits nothing.
THEOREM RegistryRefined == Spec => ImplementsRegistry
<1>1. Init => Reg!RegistryInit
  BY DEF Init, Reg!RegistryInit, Owns, NoProfile
<1>2. OwnershipInv /\ [Next]_vars => [Reg!RegistryNext]_(Reg!rvars)
  BY RegistrySimulation
<1>. QED
  BY <1>1, <1>2, OwnershipInit, OwnershipStepKeeps, PTL
     DEF Spec, ImplementsRegistry, Reg!RegistrySpec
===============================================================================
