--------------------------- MODULE KeySyncProofs ---------------------------
(***************************************************************************)
(* Theorems about KeySync for any number of keys, syncs and revocations.   *)
(* The argument for SteadyKeyKeepsItsRow: when a listing fits its page,    *)
(* whatever was published all along is in every listing that a sync still  *)
(* works with, so no sync finds its row stale; and a revocation reaches    *)
(* the local row only after the key has left the provider.                 *)
(***************************************************************************)
EXTENDS KeySync, FiniteSetTheorems, TLAPS

\* Rows are there or not, with their id and payload together.
RowsAreWhole(rows) == \A k \in Keys : rows[k].id = 0 <=> rows[k].ver = 0

\* A sync that has come to its search knows that the source exists, and works
\* with rows as they were and with keys it has fetched.
SyncInv(s) ==
  /\ pc[s] \in {"search", "store"} => source = "present"
  /\ RowsAreWhole(snap[s])
  /\ todo[s] \subseteq {k \in Keys : got[s][k] # 0}
  /\ pc[s] # "store" => todo[s] = {}

\* A revocation has a key from when it is asked for, and says nothing before.
RevokeInv(r) ==
  /\ rpc[r] = "unasked" => said[r] = "nothing"
  /\ rpc[r] # "unasked" => target[r].key \in Keys /\ target[r].id # 0

Base ==
  /\ TypeOK
  /\ \A s \in Syncs : SyncInv(s)
  /\ \A r \in Revokes : RevokeInv(r)

-----------------------------------------------------------------------------
(* Fresh ids.  Every sync and every revocation refers to at most one id of *)
(* a key, and so does the table; there are more ids than that.             *)

LEMMA MaxIdIsNat ==
  /\ MaxId \in Nat \ {0}
  /\ Cardinality(Syncs) \in Nat /\ Cardinality(Revokes) \in Nat
  BY SyncBounds, FS_CardinalityType DEF MaxId

LEMMA ImageIsSmall ==
  ASSUME NEW S, IsFiniteSet(S), NEW f, f = [s \in S |-> f[s]]
  PROVE  /\ IsFiniteSet({f[s] : s \in S})
         /\ Cardinality({f[s] : s \in S}) <= Cardinality(S)
<1>. DEFINE T == {f[s] : s \in S}
<1>1. f \in Surjection(S, T)
  BY DEF Surjection
<1>. QED BY <1>1, FS_Surjection

LEMMA FreshIdIsFresh ==
  ASSUME Base, NEW k \in Keys
  PROVE  FreshId(k) \in 1..MaxId
<1>. DEFINE
  f == [s \in Syncs |-> snap[s][k].id]
  g == [r \in Revokes |-> target[r].id]
  A == {f[s] : s \in Syncs}
  B == {g[r] : r \in Revokes}
  Used == A \cup B \cup {db[k].id}
<1>1. IsFiniteSet(A) /\ Cardinality(A) <= Cardinality(Syncs)
  <2>1. f = [s \in Syncs |-> f[s]]
    OBVIOUS
  <2>. HIDE DEF f
  <2>. QED BY <2>1, ImageIsSmall, SyncBounds
<1>2. IsFiniteSet(B) /\ Cardinality(B) <= Cardinality(Revokes)
  <2>1. g = [r \in Revokes |-> g[r]]
    OBVIOUS
  <2>. HIDE DEF g
  <2>. QED BY <2>1, ImageIsSmall, SyncBounds
<1>3. IsFiniteSet(Used) /\ Cardinality(Used) < MaxId
  <2>. HIDE DEF A, B
  <2>1. /\ IsFiniteSet(A \cup B)
        /\ Cardinality(A \cup B) = Cardinality(A) + Cardinality(B) - Cardinality(A \cap B)
    BY <1>1, <1>2, FS_Union
  <2>2. IsFiniteSet(A \cap B)
    BY <1>1, FS_Subset
  <2>3. Cardinality(A \cap B) \in Nat /\ Cardinality(A) \in Nat /\ Cardinality(B) \in Nat
    BY <1>1, <1>2, <2>2, FS_CardinalityType
  <2>4. /\ IsFiniteSet(Used)
        /\ Cardinality(Used) <= Cardinality(A \cup B) + 1
    <3>1. Cardinality(A \cup B) \in Nat
      BY <2>1, FS_CardinalityType
    <3>2. /\ IsFiniteSet((A \cup B) \cup {db[k].id})
          /\ Cardinality((A \cup B) \cup {db[k].id})
               = IF db[k].id \in A \cup B THEN Cardinality(A \cup B) ELSE Cardinality(A \cup B) + 1
      <4>. DEFINE C == A \cup B
                  x == db[k].id
      <4>1. IsFiniteSet(C)
        BY <2>1
      <4>. HIDE DEF C, x
      <4>2. /\ IsFiniteSet(C \cup {x})
            /\ Cardinality(C \cup {x}) = IF x \in C THEN Cardinality(C) ELSE Cardinality(C) + 1
        BY <4>1, FS_AddElement
      <4>. QED BY <4>2 DEF C, x
    <3>. QED BY <3>1, <3>2
  <2>5. Cardinality(A \cup B) <= Cardinality(Syncs) + Cardinality(Revokes)
    BY <1>1, <1>2, <2>1, <2>3, MaxIdIsNat
  <2>6. Cardinality(A \cup B) \in Nat /\ Cardinality(Used) \in Nat
    BY <2>1, <2>4, FS_CardinalityType
  <2>. HIDE DEF Used
  <2>. QED BY <2>4, <2>5, <2>6, MaxIdIsNat DEF MaxId
<1>4. \E i \in 1..MaxId : i \notin Used
  <2>1. IsFiniteSet(1..MaxId) /\ Cardinality(1..MaxId) = MaxId
    <3>1. MaxId \in Int /\ 1 \in Int /\ ~(1 > MaxId) /\ MaxId - 1 + 1 = MaxId
      BY MaxIdIsNat
    <3>. HIDE DEF MaxId
    <3>. QED BY <3>1, FS_Interval
  <2>2. SUFFICES ASSUME 1..MaxId \subseteq Used PROVE FALSE
    OBVIOUS
  <2>3. Cardinality(1..MaxId) <= Cardinality(Used)
    <3>. HIDE DEF Used
    <3>. QED BY <1>3, <2>2, FS_Subset
  <2>4. Cardinality(Used) \in Nat
    BY <1>3, FS_CardinalityType
  <2>. QED BY <1>3, <2>1, <2>3, <2>4, MaxIdIsNat
<1>5. PICK i \in 1..MaxId : i \notin Used
  BY <1>4
<1>6. /\ i # db[k].id
      /\ \A t \in Syncs : snap[t][k].id # i
      /\ \A r \in Revokes : target[r] # [key |-> k, id |-> i]
  BY <1>5
<1>. QED BY <1>6 DEF FreshId

-----------------------------------------------------------------------------
(* Types.                                                                  *)

LEMMA BaseInit == Init => Base
  BY SyncBounds, MaxIdIsNat
     DEF Init, Base, TypeOK, SyncInv, RevokeInv, RowsAreWhole, NoRows, NoRow, NothingGot, Rows

LEMMA IdleTypes ==
  ASSUME Base, NEW s \in Syncs, Idle(s)
  PROVE  /\ pc' \in [Syncs -> {"idle", "lookup", "create", "search", "store"}]
         /\ got' \in [Syncs -> [Keys -> 0..MaxVersion]]
         /\ snap' \in [Syncs -> [Keys -> Rows]]
         /\ todo' \in [Syncs -> SUBSET Keys]
         /\ calm' \subseteq Syncs
  BY SyncBounds, MaxIdIsNat DEF Base, TypeOK, Idle, NothingGot, NoRows, NoRow, Rows

LEMMA ListingType ==
  ASSUME TypeOK
  PROVE  Listing \in [Keys -> 0..MaxVersion]
  BY SyncBounds DEF TypeOK, Listing

\* The slots of a sync are all that it changes, and the table.
LEMMA TypeSync ==
  ASSUME Base, NEW s \in Syncs, Sync(s)
  PROVE  TypeOK'
<1>. USE SyncBounds, MaxIdIsNat DEF Base, TypeOK, SyncInv, RevokeInv, RowsAreWhole, Rows
<1>1. CASE FetchUserKeys(s)
  <2>1. calm' \subseteq Syncs
    BY <1>1 DEF FetchUserKeys
  <2>. HIDE DEF Rows
  <2>. QED BY <1>1, <2>1, ListingType DEF FetchUserKeys, providerVars, revokeVars
<1>2. CASE GetSource(s)
  BY <1>2 DEF GetSource, upstreamVars, providerVars, revokeVars
<1>3. CASE CreateSource(s)
  <2>1. CASE source = "absent"
    BY <1>3, <2>1 DEF CreateSource, upstreamVars, providerVars, revokeVars
  <2>2. CASE source # "absent"
    BY <1>3, <2>2, IdleTypes DEF CreateSource, upstreamVars, providerVars, revokeVars
  <2>. QED BY <2>1, <2>2
<1>4. CASE SearchKeys(s)
  BY <1>4 DEF SearchKeys, upstreamVars, providerVars, revokeVars
<1>5. ASSUME NEW k \in Keys, StoreKey(s, k) PROVE TypeOK'
  <2>1. FreshId(k) \in 1..MaxId
    BY FreshIdIsFresh
  <2>2. source = "present" /\ got[s][k] \in 1..MaxVersion
    BY <1>5 DEF StoreKey
  <2>3. ASSUME NEW row \in Rows, row.id # 0, row.ver # 0, db' = [db EXCEPT ![k] = row]
        PROVE  /\ db' \in [Keys -> Rows]
               /\ \A j \in Keys : db'[j].id = 0 <=> db'[j].ver = 0
    <3>. HIDE DEF Rows
    <3>. QED BY <2>3
  <2>4. /\ db' \in [Keys -> Rows]
        /\ \A j \in Keys : db'[j].id = 0 <=> db'[j].ver = 0
    <3>1. CASE UNCHANGED db
      BY <3>1
    <3>2. CASE snap[s][k] # NoRow /\ ~UNCHANGED db
      <4>1. snap[s][k].id # 0
        BY <3>2 DEF NoRow
      <4>2. db' = [db EXCEPT ![k].ver = got[s][k]] /\ db[k].id = snap[s][k].id
        BY <1>5, <3>2 DEF StoreKey, updateExistingKey
      <4>3. db' = [db EXCEPT ![k] = [id |-> db[k].id, ver |-> got[s][k]]]
        <5>1. db[k] = [id |-> db[k].id, ver |-> db[k].ver]
          OBVIOUS
        <5>2. [db[k] EXCEPT !.ver = got[s][k]] = [id |-> db[k].id, ver |-> got[s][k]]
          BY <5>1
        <5>3. db' = [db EXCEPT ![k] = [db[k] EXCEPT !.ver = got[s][k]]]
          BY <4>2
        <5>. QED BY <5>2, <5>3
      <4>. QED BY <2>2, <2>3, <4>1, <4>2, <4>3
    <3>3. CASE snap[s][k] = NoRow /\ ~UNCHANGED db
      <4>1. db' = [db EXCEPT ![k] = [id |-> FreshId(k), ver |-> got[s][k]]]
        BY <1>5, <3>3 DEF StoreKey, createNewKey
      <4>. QED BY <2>1, <2>2, <2>3, <4>1
    <3>. QED BY <3>1, <3>2, <3>3
  <2>. QED BY <1>5, <2>2, <2>4 DEF StoreKey, upstreamVars, providerVars, revokeVars
<1>6. ASSUME NEW k \in Keys, PruneKey(s, k) PROVE TypeOK'
  BY <1>6 DEF PruneKey, NoRows, NoRow, upstreamVars, providerVars, revokeVars
<1>7. CASE FinishSync(s)
  BY <1>7, IdleTypes DEF FinishSync, upstreamVars, providerVars, revokeVars
<1>. QED BY <1>1, <1>2, <1>3, <1>4, <1>5, <1>6, <1>7 DEF Sync

\* No step of one sync touches what another one has read.
LEMMA SlotsSync ==
  ASSUME Base, NEW s \in Syncs, Sync(s)
  PROVE  /\ \A t \in Syncs : SyncInv(t)'
         /\ \A r \in Revokes : RevokeInv(r)'
<1>1. UNCHANGED revokeVars
  BY DEF Sync, FetchUserKeys, GetSource, CreateSource, SearchKeys, StoreKey, PruneKey, FinishSync
<1>2. \A r \in Revokes : RevokeInv(r)'
  BY <1>1 DEF Base, RevokeInv, revokeVars
<1>3. source = "present" => source' = "present"
  BY DEF Sync, FetchUserKeys, GetSource, CreateSource, SearchKeys, StoreKey, PruneKey, FinishSync
<1>4. ASSUME NEW t \in Syncs, t # s PROVE SyncInv(t)'
  <2>1. pc'[t] = pc[t] /\ got'[t] = got[t] /\ snap'[t] = snap[t] /\ todo'[t] = todo[t]
    BY <1>4 DEF Base, TypeOK, Sync, FetchUserKeys, GetSource, CreateSource, Idle, SearchKeys,
                StoreKey, PruneKey, FinishSync
  <2>. QED BY <1>3, <2>1 DEF Base, SyncInv, RowsAreWhole
<1>5. SyncInv(s)'
  <2>. USE DEF Base, TypeOK, SyncInv, RowsAreWhole
  <2>1. CASE FetchUserKeys(s)
    BY <2>1 DEF FetchUserKeys
  <2>2. CASE GetSource(s)
    BY <2>2 DEF GetSource
  <2>3. ASSUME Idle(s) PROVE SyncInv(s)'
    BY <2>3 DEF Idle, NoRows, NoRow
  <2>4. CASE CreateSource(s)
    BY <2>3, <2>4 DEF CreateSource
  <2>5. CASE SearchKeys(s)
    BY <2>5 DEF SearchKeys
  <2>6. ASSUME NEW k \in Keys, StoreKey(s, k) PROVE SyncInv(s)'
    BY <2>6 DEF StoreKey
  <2>7. ASSUME NEW k \in Keys, PruneKey(s, k) PROVE SyncInv(s)'
    BY <2>7 DEF PruneKey, NoRow
  <2>8. CASE FinishSync(s)
    BY <2>3, <2>8 DEF FinishSync
  <2>. QED BY <2>1, <2>2, <2>4, <2>5, <2>6, <2>7, <2>8 DEF Sync
<1>. QED BY <1>2, <1>4, <1>5

LEMMA BaseFailures ==
  ASSUME Base, NEW s \in Syncs, SyncAborted(s) \/ \E k \in Keys : StatementFails(s, k)
  PROVE  Base'
<1>1. CASE SyncAborted(s)
  <2>1. TypeOK'
    BY <1>1, IdleTypes, SyncBounds DEF Base, TypeOK, SyncAborted, providerVars, revokeVars
  <2>2. \A t \in Syncs : SyncInv(t)'
    BY <1>1 DEF Base, TypeOK, SyncInv, RowsAreWhole, SyncAborted, Idle, NoRows, NoRow
  <2>. QED BY <1>1, <2>1, <2>2 DEF Base, RevokeInv, SyncAborted, revokeVars
<1>2. ASSUME NEW k \in Keys, StatementFails(s, k) PROVE Base'
  <2>1. CASE k \in todo[s] /\ todo' = [todo EXCEPT ![s] = @ \ {k}] /\ UNCHANGED snap
    <3>1. TypeOK'
      BY <1>2, <2>1, SyncBounds DEF Base, TypeOK, StatementFails, providerVars, revokeVars
    <3>2. \A t \in Syncs : SyncInv(t)'
      BY <1>2, <2>1 DEF Base, TypeOK, SyncInv, RowsAreWhole, StatementFails
    <3>. QED BY <1>2, <3>1, <3>2 DEF Base, RevokeInv, StatementFails, revokeVars
  <2>2. CASE snap' = [snap EXCEPT ![s][k] = NoRow] /\ UNCHANGED todo
    <3>1. NoRow \in Rows
      BY SyncBounds, MaxIdIsNat DEF NoRow, Rows
    <3>2. TypeOK'
      BY <1>2, <2>2, <3>1, SyncBounds
         DEF Base, TypeOK, StatementFails, upstreamVars, providerVars, revokeVars
    <3>3. \A t \in Syncs : RowsAreWhole(snap[t])'
      BY <2>2 DEF Base, TypeOK, SyncInv, RowsAreWhole, NoRow
    <3>4. \A t \in Syncs : SyncInv(t)'
      BY <1>2, <2>2, <3>3 DEF Base, TypeOK, SyncInv, StatementFails
    <3>. QED BY <1>2, <3>2, <3>4 DEF Base, RevokeInv, StatementFails, revokeVars
  <2>. QED BY <1>2, <2>1, <2>2 DEF StatementFails
<1>. QED BY <1>1, <1>2

LEMMA BaseRevoke ==
  ASSUME Base, NEW r \in Revokes,
         Revoke(r) \/ RevokeRetried(r) \/ \E k \in Keys : RevokeKey(r, k)
  PROVE  Base'
<1>. USE SyncBounds, MaxIdIsNat DEF Base, TypeOK, RevokeInv
<1>1. \A s \in Syncs : SyncInv(s)'
  BY DEF SyncInv, Revoke, GetKey, resolveProviderKeyID, DeleteAtProvider, DeleteLocal,
         RevokeRetried, RevokeKey, syncVars
<1>2. ASSUME NEW k \in Keys, RevokeKey(r, k) PROVE TypeOK' /\ \A q \in Revokes : RevokeInv(q)'
  <2>1. db[k].id \in 0..MaxId /\ db[k].id # 0
    <3>1. db[k] \in Rows
      OBVIOUS
    <3>2. db[k] = [id |-> db[k].id, ver |-> db[k].ver]
      BY <3>1 DEF Rows
    <3>. QED BY <1>2, <3>1, <3>2 DEF Rows, RevokeKey, NoRow
  <2>2. k \in 0..N
    BY DEF Keys
  <2>3. target' \in [Revokes -> [key : 0..N, id : 0..MaxId]]
    <3>. HIDE DEF MaxId
    <3>. QED BY <1>2, <2>1, <2>2 DEF RevokeKey
  <2>. QED BY <1>2, <2>1, <2>3 DEF RevokeKey, upstreamVars, providerVars, syncVars
<1>3. CASE GetKey(r)
  BY <1>1, <1>3 DEF GetKey, upstreamVars, providerVars, syncVars
<1>4. CASE resolveProviderKeyID(r)
  BY <1>1, <1>4 DEF resolveProviderKeyID, upstreamVars, providerVars, syncVars
<1>5. CASE DeleteAtProvider(r)
  BY <1>1, <1>5 DEF DeleteAtProvider, syncVars
<1>6. CASE DeleteLocal(r)
  <2>1. NoRow \in Rows
    BY DEF NoRow, Rows
  <2>2. /\ db' \in [Keys -> Rows]
        /\ \A k \in Keys : db'[k].id = 0 <=> db'[k].ver = 0
    BY <1>6, <2>1 DEF DeleteLocal, NoRow
  <2>3. source = "absent" => db' = NoRows
    BY <1>6 DEF DeleteLocal, NoRows
  <2>. QED BY <1>1, <1>6, <2>2, <2>3 DEF DeleteLocal, upstreamVars, providerVars, syncVars
<1>7. CASE RevokeRetried(r)
  BY <1>1, <1>7 DEF RevokeRetried, upstreamVars, providerVars, syncVars
<1>. QED BY <1>1, <1>2, <1>3, <1>4, <1>5, <1>6, <1>7 DEF Revoke

LEMMA BaseChange ==
  ASSUME Base, NEW k \in Keys, UserChanges(k)
  PROVE  Base'
  BY SyncBounds DEF Base, TypeOK, SyncInv, RevokeInv, UserChanges, syncVars, revokeVars

LEMMA BaseStep == Base /\ [Next]_vars => Base'
<1>. SUFFICES ASSUME Base, [Next]_vars PROVE Base'
  OBVIOUS
<1>1. ASSUME NEW s \in Syncs, Sync(s) PROVE Base'
  BY <1>1, TypeSync, SlotsSync DEF Base
<1>2. CASE UNCHANGED vars
  BY <1>2 DEF Base, TypeOK, SyncInv, RevokeInv, vars, upstreamVars, providerVars, syncVars,
              revokeVars
<1>. QED BY <1>1, <1>2, BaseFailures, BaseRevoke, BaseChange DEF Next

\* Rows, listings, results and revocations keep their types; a row has its id
\* and its payload together, and no row is without its source.
THEOREM TypeCorrect == Spec => []TypeOK
<1>1. Base => TypeOK
  BY DEF Base
<1>. QED BY <1>1, BaseInit, BaseStep, PTL DEF Spec

-----------------------------------------------------------------------------
(* Steady keys.  Providers whose listing fits a page and is not hidden     *)
(* list whatever was published all along.                                  *)

ListsAll == N <= PageSize /\ ~HidesKeys

SteadyInv ==
  /\ \A s \in Syncs : pc[s] # "idle" => \A k \in steady : got[s][k] # 0
  /\ \A r \in Revokes :
       rpc[r] = "local" \/ said[r] = "already_gone" => target[r].key \notin steady

LEMMA ListedIsPaged ==
  ASSUME ListsAll, Base, NEW k \in steady
  PROVE  k \in Page
<1>. DEFINE Before == {j \in Published : j < k}
<1>1. k \in 1..N /\ k \in Published /\ N \in Nat /\ PageSize \in Nat
  BY SyncBounds DEF Base, TypeOK, Published, Keys
<1>2. Before \subseteq 1..(k - 1)
  BY <1>1 DEF Published, Keys
<1>3. IsFiniteSet(1..(k - 1)) /\ Cardinality(1..(k - 1)) = k - 1
  BY <1>1, FS_Interval
<1>4. IsFiniteSet(Before) /\ Cardinality(Before) <= k - 1
  <2>. HIDE DEF Before
  <2>. QED BY <1>2, <1>3, FS_Subset
<1>5. Cardinality(Before) \in Nat
  BY <1>4, FS_CardinalityType
<1>6. Cardinality(Before) < PageSize
  <2>. HIDE DEF Before
  <2>. QED BY <1>1, <1>4, <1>5 DEF ListsAll
<1>. QED BY <1>1, <1>6 DEF Page

LEMMA SteadyInit == Init => SteadyInv
  BY DEF Init, SteadyInv

LEMMA SteadyStep ==
  ASSUME ListsAll
  PROVE  Base /\ SteadyInv /\ [Next]_vars => SteadyInv'
<1>. SUFFICES ASSUME Base, SteadyInv, [Next]_vars PROVE SteadyInv'
  OBVIOUS
<1>. USE DEF Base, TypeOK, SteadyInv
<1>1. ASSUME NEW s \in Syncs, Sync(s) PROVE SteadyInv'
  <2>1. CASE FetchUserKeys(s)
    <3>1. \A k \in steady : k \in Page /\ k \in Keys /\ up[k] # 0
      BY ListedIsPaged
    <3>2. \A k \in steady : Listing[k] # 0
      BY <3>1 DEF Listing
    <3>. QED BY <2>1, <3>2 DEF FetchUserKeys, providerVars, revokeVars
  <2>2. CASE ~FetchUserKeys(s)
    <3>1. UNCHANGED <<providerVars, revokeVars>>
      BY <1>1, <2>2
         DEF Sync, GetSource, CreateSource, SearchKeys, StoreKey, PruneKey, FinishSync, upstreamVars
    <3>2. \A t \in Syncs : pc'[t] # "idle" => pc[t] # "idle" /\ got'[t] = got[t]
      BY <1>1, <2>2 DEF Sync, GetSource, CreateSource, Idle, SearchKeys, StoreKey, PruneKey, FinishSync
    <3>. QED BY <3>1, <3>2 DEF upstreamVars, providerVars, revokeVars
  <2>. QED BY <2>1, <2>2
<1>2. ASSUME NEW s \in Syncs, SyncAborted(s) \/ \E k \in Keys : StatementFails(s, k)
      PROVE  SteadyInv'
  <2>1. UNCHANGED <<providerVars, revokeVars>>
    BY <1>2 DEF SyncAborted, StatementFails
  <2>2. \A t \in Syncs : pc'[t] # "idle" => pc[t] # "idle" /\ got'[t] = got[t]
    BY <1>2 DEF SyncAborted, StatementFails, Idle
  <2>. QED BY <2>1, <2>2 DEF upstreamVars, providerVars, revokeVars
<1>3. ASSUME NEW r \in Revokes, Revoke(r) PROVE SteadyInv'
  <2>1. CASE GetKey(r)
    BY <2>1 DEF GetKey, upstreamVars, providerVars, syncVars
  <2>2. CASE resolveProviderKeyID(r)
    BY <2>2, ListedIsPaged DEF ListsAll, resolveProviderKeyID, upstreamVars, providerVars, syncVars
  <2>3. CASE DeleteAtProvider(r)
    BY <2>3 DEF DeleteAtProvider, syncVars
  <2>4. CASE DeleteLocal(r)
    BY <2>4 DEF DeleteLocal, upstreamVars, providerVars, syncVars
  <2>. QED BY <1>3, <2>1, <2>2, <2>3, <2>4 DEF Revoke
<1>4. ASSUME NEW r \in Revokes, RevokeRetried(r) \/ \E k \in Keys : RevokeKey(r, k)
      PROVE  SteadyInv'
  <2>1. CASE RevokeRetried(r)
    BY <2>1 DEF RevokeRetried, upstreamVars, providerVars, syncVars
  <2>2. ASSUME NEW k \in Keys, RevokeKey(r, k) PROVE SteadyInv'
    BY <2>2 DEF RevokeInv, RevokeKey, upstreamVars, providerVars, syncVars
  <2>. QED BY <1>4, <2>1, <2>2
<1>5. ASSUME NEW k \in Keys, UserChanges(k) PROVE SteadyInv'
  BY <1>5 DEF UserChanges, syncVars, revokeVars
<1>6. CASE UNCHANGED vars
  BY <1>6 DEF vars, upstreamVars, providerVars, syncVars, revokeVars
<1>. QED BY <1>1, <1>2, <1>3, <1>4, <1>5, <1>6 DEF Next

\* No revocation says that a key was already gone which was there all the
\* time, unless its listing was hidden or too long for a page.
THEOREM GoneIsGone == ASSUME ListsAll PROVE Spec => []AlreadyGoneIsGone
<1>1. SteadyInv => AlreadyGoneIsGone
  BY DEF SteadyInv, AlreadyGoneIsGone
<1>. QED BY <1>1, BaseInit, BaseStep, SteadyInit, SteadyStep, PTL DEF Spec

LEMMA RowsAreKept ==
  ASSUME Base, SteadyInv, [Next]_vars, NEW k \in steady', db[k] # NoRow
  PROVE  db'[k].id = db[k].id
<1>. USE DEF Base, TypeOK, SteadyInv
<1>1. k \in steady /\ k \in Keys
  BY DEF Next, UserChanges, Sync, FetchUserKeys, GetSource, CreateSource, SearchKeys, StoreKey,
         PruneKey, FinishSync, SyncAborted, StatementFails, Revoke, GetKey, resolveProviderKeyID,
         DeleteAtProvider, DeleteLocal, RevokeRetried, RevokeKey, vars, upstreamVars, providerVars
<1>2. ASSUME NEW s \in Syncs, NEW j \in Keys, StoreKey(s, j) PROVE db'[k].id = db[k].id
  <2>1. CASE UNCHANGED db
    BY <2>1
  <2>2. CASE db' = [db EXCEPT ![j].ver = got[s][j]]
    <3>1. db[k] = [id |-> db[k].id, ver |-> db[k].ver]
      BY <1>1 DEF Rows
    <3>2. db'[k] = IF k = j THEN [db[k] EXCEPT !.ver = got[s][j]] ELSE db[k]
      BY <1>1, <2>2
    <3>. QED BY <3>1, <3>2
  <2>3. CASE db[j] = NoRow /\ db' = [db EXCEPT ![j] = [id |-> FreshId(j), ver |-> got[s][j]]]
    BY <1>1, <2>3
  <2>. QED BY <1>2, <2>1, <2>2, <2>3 DEF StoreKey, updateExistingKey, createNewKey
<1>3. ASSUME NEW s \in Syncs, NEW j \in Keys, PruneKey(s, j) PROVE db'[k].id = db[k].id
  <2>1. got[s][j] = 0 /\ pc[s] # "idle"
    BY <1>3 DEF PruneKey, Stale
  <2>2. j # k
    BY <1>1, <2>1
  <2>. QED BY <1>1, <1>3, <2>2 DEF PruneKey
<1>4. ASSUME NEW r \in Revokes, DeleteLocal(r) PROVE db'[k].id = db[k].id
  BY <1>1, <1>4 DEF DeleteLocal, RevokeInv
<1>5. CASE UNCHANGED db
  BY <1>5
<1>. QED
  BY <1>2, <1>3, <1>4, <1>5
     DEF Next, UserChanges, Sync, FetchUserKeys, GetSource, CreateSource, SearchKeys, FinishSync,
         SyncAborted, StatementFails, Revoke, GetKey, resolveProviderKeyID, DeleteAtProvider,
         RevokeRetried, RevokeKey, vars

\* Whatever syncs, failures and revocations of other keys go on, a key that
\* was published all along keeps its row and the row's id.
THEOREM RowsOfSteadyKeys == ASSUME ListsAll PROVE Spec => SteadyKeyKeepsItsRow
<1>1. Base /\ SteadyInv /\ [Next]_vars => [\A k \in steady' : db[k] # NoRow => db'[k].id = db[k].id]_vars
  BY RowsAreKept
<1>. QED
  BY <1>1, BaseInit, BaseStep, SteadyInit, SteadyStep, PTL DEF Spec, SteadyKeyKeepsItsRow
-----------------------------------------------------------------------------
(* Undisturbed syncs.  While a sync is calm, everybody under way works     *)
(* with the listing that is still current, so each of them writes what it  *)
(* would have written itself.                                              *)

\* What a calm sync may find of a key: nothing, the row it wants, or the row
\* it found.  A listed key it found stays, and one it is done with is right.
RowIsCalm(s, k) ==
  /\ db[k] = NoRow \/ db[k].ver = got[s][k] \/ db[k] = snap[s][k]
  /\ got[s][k] # 0 /\ snap[s][k] # NoRow => db[k].id = snap[s][k].id
  /\ got[s][k] # 0 /\ k \notin todo[s] => db[k].ver = got[s][k]

CalmInv ==
  /\ \A s \in calm : pc[s] # "idle"
  /\ calm # {} => NobodyIsBehind
  /\ \A s \in calm : pc[s] = "store" => \A k \in Keys : RowIsCalm(s, k)

LEMMA CalmInit == Init => CalmInv
  BY DEF Init, CalmInv

\* A step that moves no sync and no listing, and takes no listed row.
LEMMA CalmStays ==
  ASSUME Base, CalmInv, UNCHANGED <<up, syncVars>>, calm' \subseteq calm,
         calm' # {} => \A k \in Keys : db'[k] = db[k] \/ (db'[k] = NoRow /\ Listing[k] = 0)
  PROVE  CalmInv'
<1>1. Listing' = Listing
  BY DEF Listing, Page, Published
<1>2. calm' # {} => NobodyIsBehind'
  BY <1>1 DEF CalmInv, NobodyIsBehind, syncVars
<1>3. ASSUME NEW s \in calm', pc'[s] = "store", NEW k \in Keys PROVE RowIsCalm(s, k)'
  <2>1. s \in Syncs /\ RowIsCalm(s, k) /\ got[s] = Listing
    BY <1>3 DEF Base, TypeOK, CalmInv, NobodyIsBehind, syncVars
  <2>. QED BY <1>3, <2>1 DEF RowIsCalm, NoRow, syncVars
<1>. QED BY <1>2, <1>3 DEF CalmInv, syncVars

\* What is known of one sync when another one moves.
LEMMA CalmSyncs ==
  ASSUME Base, CalmInv, NEW t \in Syncs, UNCHANGED up, calm' \subseteq calm,
         t \in calm' => pc'[t] # "idle",
         pc'[t] = "idle" \/ (pc[t] # "idle" /\ got'[t] = got[t]),
         \A s \in Syncs \ {t} : pc'[s] = pc[s] /\ got'[s] = got[s],
         \A s \in calm' : pc'[s] = "store" => \A k \in Keys : RowIsCalm(s, k)'
  PROVE  CalmInv'
<1>1. Listing' = Listing
  BY DEF Listing, Page, Published
<1>. QED BY <1>1 DEF Base, TypeOK, CalmInv, NobodyIsBehind

LEMMA StoreEffect ==
  ASSUME Base, NEW t \in Syncs, NEW j \in Keys, StoreKey(t, j)
  PROVE  /\ \A k \in Keys \ {j} : db'[k] = db[k]
         /\ \/ /\ db'[j] = db[j]
               /\ \/ snap[t][j] = NoRow /\ db[j] # NoRow
                  \/ snap[t][j] # NoRow /\ snap[t][j].ver = got[t][j]
                  \/ snap[t][j] # NoRow /\ db[j].id # snap[t][j].id
            \/ /\ db'[j].ver = got[t][j]
               /\ db[j] = NoRow \/ db'[j].id = db[j].id
<1>. USE DEF Base, TypeOK
<1>1. CASE UNCHANGED db
  <2>1. CASE snap[t][j] = NoRow
    <3>1. CASE db[j] # NoRow
      BY <1>1, <2>1, <3>1
    <3>2. CASE db[j] = NoRow
      <4>1. db' = [db EXCEPT ![j] = [id |-> FreshId(j), ver |-> got[t][j]]]
        BY <2>1, <3>2 DEF StoreKey, createNewKey
      <4>. QED BY <3>2, <4>1
    <3>. QED BY <3>1, <3>2
  <2>2. CASE snap[t][j] # NoRow
    <3>1. CASE keyNeedsUpdate(t, j) /\ db[j].id = snap[t][j].id
      <4>1. db' = [db EXCEPT ![j].ver = got[t][j]]
        BY <2>2, <3>1 DEF StoreKey, updateExistingKey
      <4>2. db'[j].ver = got[t][j]
        BY <4>1 DEF Rows
      <4>. QED BY <1>1, <4>2
    <3>. QED BY <1>1, <2>2, <3>1 DEF keyNeedsUpdate
  <2>. QED BY <2>1, <2>2
<1>2. CASE snap[t][j] # NoRow /\ ~UNCHANGED db
  <2>1. db' = [db EXCEPT ![j].ver = got[t][j]]
    BY <1>2 DEF StoreKey, updateExistingKey
  <2>2. db'[j] = [db[j] EXCEPT !.ver = got[t][j]] /\ \A k \in Keys \ {j} : db'[k] = db[k]
    BY <2>1
  <2>. QED BY <2>2 DEF Rows
<1>3. CASE snap[t][j] = NoRow /\ ~UNCHANGED db
  <2>1. db[j] = NoRow /\ db' = [db EXCEPT ![j] = [id |-> FreshId(j), ver |-> got[t][j]]]
    BY <1>3 DEF StoreKey, createNewKey
  <2>. QED BY <2>1
<1>. QED BY <1>1, <1>2, <1>3

LEMMA CalmStore ==
  ASSUME Base, CalmInv, NEW t \in Syncs, NEW j \in Keys, StoreKey(t, j)
  PROVE  CalmInv'
<1>. USE DEF Base, TypeOK
<1>1. UNCHANGED <<up, calm, pc, got, snap>> /\ todo' = [todo EXCEPT ![t] = @ \ {j}]
  BY DEF StoreKey, upstreamVars, providerVars
<1>2. pc[t] = "store" /\ j \in todo[t] /\ got[t][j] # 0
  BY DEF StoreKey, SyncInv
<1>3. ASSUME NEW s \in calm, pc[s] = "store", NEW k \in Keys PROVE RowIsCalm(s, k)'
  <2>1. RowIsCalm(s, k) /\ s \in Syncs /\ got[s] = Listing /\ got[t] = Listing
    BY <1>2, <1>3 DEF CalmInv, NobodyIsBehind
  <2>2. CASE k # j
    BY <1>1, <2>1, <2>2, StoreEffect DEF RowIsCalm
  <2>3. CASE k = j
    <3>1. got[s][j] = got[t][j] /\ got[s][j] # 0
      BY <1>2, <2>1
    <3>2. /\ snap[s][j] # NoRow => snap[s][j].id # 0
          /\ db[j] = NoRow => db[j].id = 0 /\ db[j].ver = 0
      <4>1. snap[s][j] \in Rows /\ (snap[s][j].id = 0 <=> snap[s][j].ver = 0)
        BY <2>1 DEF SyncInv, RowsAreWhole
      <4>. QED BY <4>1 DEF Rows, NoRow
    <3>3. CASE db'[j] = db[j] /\ s # t
      BY <1>1, <2>1, <2>3, <3>3 DEF RowIsCalm
    <3>4. CASE db'[j] = db[j] /\ s = t
      <4>1. db[j].ver = got[s][j]
        <5>1. CASE snap[t][j] = NoRow /\ db[j] # NoRow
          BY <2>1, <2>3, <3>4, <5>1 DEF RowIsCalm
        <5>2. CASE snap[t][j] # NoRow
          <6>1. db[j].id = snap[t][j].id /\ db[j] # NoRow
            BY <2>1, <2>3, <3>1, <3>2, <3>4, <5>2 DEF RowIsCalm
          <6>2. snap[t][j].ver = got[t][j] \/ db'[j].ver = got[t][j]
            BY <5>2, <6>1, StoreEffect
          <6>. QED BY <2>1, <2>3, <3>4, <6>1, <6>2 DEF RowIsCalm
        <5>3. CASE db'[j].ver = got[t][j]
          BY <3>4, <5>3
        <5>. QED BY <5>1, <5>2, <5>3, StoreEffect
      <4>. QED BY <1>1, <2>1, <2>3, <3>4, <4>1 DEF RowIsCalm
    <3>5. CASE db'[j].ver = got[t][j] /\ (db[j] = NoRow \/ db'[j].id = db[j].id)
      BY <1>1, <2>1, <2>3, <3>1, <3>2, <3>5 DEF RowIsCalm
    <3>. QED BY <3>3, <3>4, <3>5, StoreEffect
  <2>. QED BY <2>2, <2>3
<1>. QED BY <1>1, <1>2, <1>3, CalmSyncs DEF CalmInv

LEMMA CalmPrune ==
  ASSUME Base, CalmInv, NEW t \in Syncs, NEW j \in Keys, PruneKey(t, j)
  PROVE  CalmInv'
<1>. USE DEF Base, TypeOK
<1>1. UNCHANGED <<up, calm, pc, got, todo>> /\ snap' = [snap EXCEPT ![t][j] = NoRow]
  BY DEF PruneKey, upstreamVars, providerVars
<1>2. pc[t] = "store" /\ got[t][j] = 0
  BY DEF PruneKey, Stale
<1>3. /\ \A k \in Keys \ {j} : db'[k] = db[k]
      /\ db'[j] = NoRow \/ (db'[j] = db[j] /\ db[j].id # snap[t][j].id)
  BY DEF PruneKey
<1>4. ASSUME NEW s \in calm, pc[s] = "store", NEW k \in Keys PROVE RowIsCalm(s, k)'
  <2>1. RowIsCalm(s, k) /\ s \in Syncs /\ got[s] = Listing /\ got[t] = Listing
    BY <1>2, <1>4 DEF CalmInv, NobodyIsBehind
  <2>2. snap'[s][k] = IF s = t /\ k = j THEN NoRow ELSE snap[s][k]
    BY <1>1, <2>1
  <2>3. CASE k # j
    BY <1>1, <1>3, <2>1, <2>2, <2>3 DEF RowIsCalm
  <2>4. CASE k = j
    BY <1>1, <1>2, <1>3, <2>1, <2>2, <2>4 DEF RowIsCalm
  <2>. QED BY <2>3, <2>4
<1>. QED BY <1>1, <1>2, <1>4, CalmSyncs DEF CalmInv

LEMMA CalmSync ==
  ASSUME Base, CalmInv, NEW t \in Syncs,
         Sync(t) \/ SyncAborted(t) \/ \E k \in Keys : StatementFails(t, k)
  PROVE  CalmInv'
<1>. USE DEF Base, TypeOK
<1>1. CASE FetchUserKeys(t)
  <2>1. Listing' = Listing
    BY <1>1 DEF FetchUserKeys, providerVars, Listing, Page, Published
  <2>2. /\ calm' \subseteq calm \cup {t}
        /\ calm' # {} => NobodyIsBehind
        /\ \A s \in Syncs \ {t} : pc'[s] = pc[s] /\ got'[s] = got[s]
        /\ pc'[t] = "lookup" /\ got'[t] = Listing /\ UNCHANGED <<db, snap, todo>>
    BY <1>1 DEF FetchUserKeys, CalmInv
  <2>3. calm' # {} => NobodyIsBehind'
    BY <2>1, <2>2 DEF NobodyIsBehind
  <2>4. ASSUME NEW s \in calm', pc'[s] = "store", NEW k \in Keys PROVE RowIsCalm(s, k)'
    <3>1. s # t /\ s \in calm /\ s \in Syncs
      BY <2>2, <2>4
    <3>. QED BY <2>2, <2>4, <3>1 DEF CalmInv, RowIsCalm
  <2>. QED BY <2>2, <2>3, <2>4 DEF CalmInv
<1>2. ASSUME UNCHANGED <<up, db>>, Idle(t) PROVE CalmInv'
  <2>1. \A s \in calm' : s # t /\ s \in Syncs /\ pc'[s] = pc[s] /\ got'[s] = got[s]
                          /\ snap'[s] = snap[s] /\ todo'[s] = todo[s]
    BY <1>2 DEF Idle
  <2>2. \A s \in calm' : pc'[s] = "store" => \A k \in Keys : RowIsCalm(s, k)'
    BY <1>2, <2>1 DEF Idle, CalmInv, RowIsCalm
  <2>. QED BY <1>2, <2>2, CalmSyncs DEF Idle
<1>3. CASE FinishSync(t) \/ SyncAborted(t)
  BY <1>2, <1>3 DEF FinishSync, SyncAborted, providerVars
<1>4. CASE GetSource(t) \/ (CreateSource(t) /\ source = "absent")
  <2>1. /\ UNCHANGED <<up, db, got, snap, todo, calm>>
        /\ pc[t] # "idle" /\ pc'[t] \notin {"idle", "store"}
        /\ \A s \in Syncs \ {t} : pc'[s] = pc[s]
    BY <1>4 DEF GetSource, CreateSource, upstreamVars, providerVars
  <2>2. \A s \in calm' : pc'[s] = "store" => \A k \in Keys : RowIsCalm(s, k)'
    BY <2>1 DEF CalmInv, RowIsCalm
  <2>. QED BY <2>1, <2>2, CalmSyncs
<1>5. CASE CreateSource(t) /\ source # "absent"
  BY <1>2, <1>5 DEF CreateSource, providerVars
<1>6. CASE SearchKeys(t)
  <2>1. /\ UNCHANGED <<up, db, got, calm>>
        /\ pc[t] # "idle" /\ pc'[t] = "store"
        /\ snap'[t] = db /\ todo'[t] = {k \in Keys : got[t][k] # 0}
        /\ \A s \in Syncs \ {t} : pc'[s] = pc[s] /\ snap'[s] = snap[s] /\ todo'[s] = todo[s]
    BY <1>6 DEF SearchKeys, upstreamVars, providerVars
  <2>2. \A s \in calm' : pc'[s] = "store" => \A k \in Keys : RowIsCalm(s, k)'
    BY <2>1 DEF CalmInv, RowIsCalm
  <2>. QED BY <2>1, <2>2, CalmSyncs
<1>7. ASSUME NEW k \in Keys, StatementFails(t, k) PROVE CalmInv'
  <2>1. /\ UNCHANGED <<up, db, pc, got>> /\ calm' = calm \ {t}
        /\ \A s \in Syncs \ {t} : snap'[s] = snap[s] /\ todo'[s] = todo[s]
    BY <1>7 DEF StatementFails, providerVars
  <2>2. \A s \in calm' : pc'[s] = "store" => \A j \in Keys : RowIsCalm(s, j)'
    BY <2>1 DEF CalmInv, RowIsCalm
  <2>3. pc[t] # "idle"
    BY <1>7 DEF StatementFails
  <2>. QED BY <2>1, <2>2, <2>3, CalmSyncs
<1>. QED
  BY <1>1, <1>3, <1>4, <1>5, <1>6, <1>7, CalmStore, CalmPrune DEF Sync

LEMMA CalmRevoke ==
  ASSUME Base, CalmInv, NEW r \in Revokes,
         Revoke(r) \/ RevokeRetried(r) \/ \E k \in Keys : RevokeKey(r, k)
  PROVE  CalmInv'
<1>1. CASE DeleteAtProvider(r)
  BY <1>1 DEF DeleteAtProvider, CalmInv
<1>2. CASE DeleteLocal(r)
  BY <1>2, CalmStays DEF Base, TypeOK, DeleteLocal, providerVars, syncVars
<1>3. CASE \/ GetKey(r) \/ resolveProviderKeyID(r) \/ RevokeRetried(r)
           \/ \E k \in Keys : RevokeKey(r, k)
  BY <1>3, CalmStays
     DEF GetKey, resolveProviderKeyID, RevokeRetried, RevokeKey, upstreamVars, providerVars
<1>. QED BY <1>1, <1>2, <1>3 DEF Revoke

LEMMA CalmStep == Base /\ CalmInv /\ [Next]_vars => CalmInv'
<1>1. ASSUME NEW k \in Keys, UserChanges(k) PROVE CalmInv'
  BY <1>1 DEF UserChanges, CalmInv
<1>2. ASSUME Base, CalmInv, UNCHANGED vars PROVE CalmInv'
  BY <1>2, CalmStays DEF vars, upstreamVars, providerVars
<1>. QED BY <1>1, <1>2, CalmSync, CalmRevoke DEF Next

\* Whatever the size of the account, of its page and of the table, and however
\* many syncs meet, one that nothing disturbs ends with the index equal to the
\* listing: what it did not write itself, a sync with the same listing wrote.
THEOREM FreshMirrors == Spec => FreshSyncsMirror
<1>1. ASSUME Base, CalmInv, NEW s \in calm, FinishSync(s), NEW k \in Keys
      PROVE  db[k].ver = Listing[k]
  <2>1. s \in Syncs /\ RowIsCalm(s, k) /\ got[s] = Listing
    BY <1>1 DEF Base, TypeOK, CalmInv, NobodyIsBehind, FinishSync
  <2>. QED BY <1>1, <2>1 DEF RowIsCalm, FinishSync, Stale, NoRow
<1>2. Base /\ CalmInv =>
        [\A s \in calm : FinishSync(s) => \A k \in Keys : db[k].ver = Listing[k]]_vars
  BY <1>1
<1>. QED
  BY <1>2, BaseInit, BaseStep, CalmInit, CalmStep, PTL DEF Spec, FreshSyncsMirror
=============================================================================
