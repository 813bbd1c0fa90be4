------------------------------ MODULE KeySync ------------------------------
(***************************************************************************)
(* One account of a provider, the keys it publishes, and the copies that   *)
(* sshark keeps of them.  Syncs are executions of processUser              *)
(* (internal/infra/scraper/service.go) for that account: the crawler's and *)
(* those of refresh jobs, which run in different processes and share only  *)
(* the database.  Revokes are revocation jobs (internal/app/keyops).       *)
(*                                                                         *)
(* The two key types are synchronised one after the other by the same      *)
(* procedure on disjoint rows, so one type is modelled.  A key's           *)
(* fingerprint is its place in the provider's listing; what keyNeedsUpdate *)
(* compares of it (key data, algorithm, comment or expiry) is a version    *)
(* number.  What it does not compare (the provider's id of the key among   *)
(* it) is left out: a revocation falls back on that id only for a key whose*)
(* fingerprint is not listed, and then it is not listed either.            *)
(***************************************************************************)
EXTENDS Naturals, FiniteSets

CONSTANTS
  N,            \* keys the account ever had
  MaxVersion,   \* payloads a key can have
  PageSize,     \* keys in the one page of a listing that is read
  HidesKeys,    \* whether the provider answers 404 to a listing it will not show
  Syncs,        \* executions of processUser that may run at the same time
  Revokes,      \* revocation jobs
  MaxChanges,   \* bound on what the user changes at the provider
  MaxMishaps    \* bound on failing statements and dying processes

ASSUME SyncBounds ==
  /\ N \in Nat /\ MaxVersion \in Nat \ {0} /\ PageSize \in Nat \ {0}
  /\ MaxChanges \in Nat /\ MaxMishaps \in Nat /\ HidesKeys \in BOOLEAN
  /\ IsFiniteSet(Syncs) /\ IsFiniteSet(Revokes)

Keys == 1..N
\* Row ids are told apart only by those who hold on to one.
MaxId == Cardinality(Syncs) + Cardinality(Revokes) + 2
NoRow == [id |-> 0, ver |-> 0]
NothingGot == [k \in Keys |-> 0]
NoRows == [k \in Keys |-> NoRow]
Rows == [id : 0..MaxId, ver : 0..MaxVersion]

VARIABLES
  up,       \* payload the provider publishes for each key; 0 for none
  steady,   \* keys published without interruption since the beginning
  calm,     \* syncs that nothing has disturbed since they fetched
  source,   \* whether the account has a row in sources
  db,       \* the row of each fingerprint in public_keys
  pc,       \* the statement each sync is about to run
  got,      \* what it fetched
  snap,     \* the rows it found in the database
  todo,     \* fetched keys it has still to store
  rpc,      \* the step each revocation is about to run
  target,   \* the row it was asked to revoke, and its key
  said,     \* whether it found the key already gone
  changes, mishaps

providerVars == <<up, steady, changes>>
upstreamVars == <<providerVars, calm>>
syncVars == <<pc, got, snap, todo>>
revokeVars == <<rpc, target, said>>
vars == <<upstreamVars, source, db, syncVars, revokeVars, mishaps>>

TypeOK ==
  /\ up \in [Keys -> 0..MaxVersion]
  /\ steady \subseteq {k \in Keys : up[k] # 0}
  /\ calm \subseteq Syncs
  /\ source \in {"absent", "present"}
  /\ db \in [Keys -> Rows] /\ \A k \in Keys : db[k].id = 0 <=> db[k].ver = 0
  /\ source = "absent" => db = NoRows
  /\ pc \in [Syncs -> {"idle", "lookup", "create", "search", "store"}]
  /\ got \in [Syncs -> [Keys -> 0..MaxVersion]]
  /\ snap \in [Syncs -> [Keys -> Rows]]
  /\ todo \in [Syncs -> SUBSET Keys]
  /\ rpc \in [Revokes -> {"unasked", "get", "list", "delete", "local", "done", "not_found"}]
  /\ target \in [Revokes -> [key : 0..N, id : 0..MaxId]]
  /\ said \in [Revokes -> {"nothing", "deleted", "already_gone"}]
  /\ changes \in 0..MaxChanges
  /\ mishaps \in 0..MaxMishaps

Init ==
  /\ up \in [Keys -> 0..1]
  /\ steady = {k \in Keys : up[k] # 0}
  /\ calm = {}
  /\ source = "absent" /\ db = NoRows
  /\ pc = [s \in Syncs |-> "idle"]
  /\ got = [s \in Syncs |-> NothingGot]
  /\ snap = [s \in Syncs |-> NoRows]
  /\ todo = [s \in Syncs |-> {}]
  /\ rpc = [r \in Revokes |-> "unasked"]
  /\ target = [r \in Revokes |-> [key |-> 0, id |-> 0]]
  /\ said = [r \in Revokes |-> "nothing"]
  /\ changes = 0 /\ mishaps = 0

-----------------------------------------------------------------------------
(* The provider.  A listing is its first page; nobody asks for the second. *)

Published == {k \in Keys : up[k] # 0}
Page == {k \in Published : Cardinality({j \in Published : j < k}) < PageSize}
Listing == [k \in Keys |-> IF k \in Page THEN up[k] ELSE 0]

\* The account's owner adds, edits or removes a key there.
UserChanges(k) ==
  /\ changes < MaxChanges
  /\ changes' = changes + 1
  /\ \E v \in 0..MaxVersion \ {up[k]} : up' = [up EXCEPT ![k] = v]
  /\ steady' = {j \in steady : up'[j] # 0}
  /\ calm' = {}
  /\ UNCHANGED <<source, db, syncVars, revokeVars, mishaps>>

-----------------------------------------------------------------------------
(* processUser: fetch, find or create the source, and sync the keys of the *)
(* type, unless there are none.  A fetch that fails changes nothing.       *)

\* No sync under way works with an older listing.
NobodyIsBehind == \A t \in Syncs : pc[t] = "idle" \/ got[t] = Listing

FetchUserKeys(s) ==
  /\ pc[s] = "idle"
  /\ Page # {}
  /\ got' = [got EXCEPT ![s] = Listing]
  /\ pc' = [pc EXCEPT ![s] = "lookup"]
  /\ calm' = IF NobodyIsBehind THEN calm \cup {s} ELSE calm
  /\ UNCHANGED <<providerVars, source, db, snap, todo, revokeVars, mishaps>>

GetSource(s) ==
  /\ pc[s] = "lookup"
  /\ pc' = [pc EXCEPT ![s] = IF source = "present" THEN "search" ELSE "create"]
  /\ UNCHANGED <<upstreamVars, source, db, got, snap, todo, revokeVars, mishaps>>

Idle(s) ==
  /\ pc' = [pc EXCEPT ![s] = "idle"]
  /\ got' = [got EXCEPT ![s] = NothingGot]
  /\ snap' = [snap EXCEPT ![s] = NoRows]
  /\ todo' = [todo EXCEPT ![s] = {}]
  /\ calm' = calm \ {s}

\* UNIQUE (provider, user_id) refuses the slower of two syncs, which gives up.
CreateSource(s) ==
  /\ pc[s] = "create"
  /\ source' = "present"
  /\ IF source = "absent"
       THEN pc' = [pc EXCEPT ![s] = "search"] /\ UNCHANGED <<got, snap, todo, calm>>
       ELSE Idle(s)
  /\ UNCHANGED <<providerVars, db, revokeVars, mishaps>>

\* Slip: keys without a payload are not skipped.
SearchKeysAll(s) ==
  /\ pc[s] = "search"
  /\ pc' = [pc EXCEPT ![s] = "store"]
  /\ snap' = [snap EXCEPT ![s] = db]
  /\ todo' = [todo EXCEPT ![s] = Keys]
  /\ UNCHANGED <<upstreamVars, source, db, got, revokeVars, mishaps>>

SearchKeys(s) ==
  /\ pc[s] = "search"
  /\ pc' = [pc EXCEPT ![s] = "store"]
  /\ snap' = [snap EXCEPT ![s] = db]
  /\ todo' = [todo EXCEPT ![s] = {k \in Keys : got[s][k] # 0}]
  /\ UNCHANGED <<upstreamVars, source, db, got, revokeVars, mishaps>>

\* Slip: a payload that differs is not noticed.
NeverNeedsUpdate(s, k) == FALSE
keyNeedsUpdate(s, k) == snap[s][k].ver # got[s][k]

\* uuid.New: an id that no row, search result or revocation refers to.
FreshId(k) ==
  CHOOSE i \in 1..MaxId :
    /\ i # db[k].id
    /\ \A t \in Syncs : snap[t][k].id # i
    /\ \A r \in Revokes : target[r] # [key |-> k, id |-> i]

\* Slip: a changed key is deleted and stored again, under a new id.
ReplaceExistingKey(s, k) ==
  IF keyNeedsUpdate(s, k) /\ db[k].id = snap[s][k].id
    THEN db' = [db EXCEPT ![k] = [id |-> FreshId(k), ver |-> got[s][k]]]
    ELSE UNCHANGED db

\* The row is compared as it was found, and updated by id: a row deleted in
\* the meantime stays deleted (ErrKeyNotFound).
updateExistingKey(s, k) ==
  IF keyNeedsUpdate(s, k) /\ db[k].id = snap[s][k].id
    THEN db' = [db EXCEPT ![k].ver = got[s][k]]
    ELSE UNCHANGED db

\* UNIQUE (source_id, fingerprint) refuses a row that somebody else stored.
createNewKey(s, k) ==
  IF db[k] = NoRow
    THEN db' = [db EXCEPT ![k] = [id |-> FreshId(k), ver |-> got[s][k]]]
    ELSE UNCHANGED db

StoreKey(s, k) ==
  /\ pc[s] = "store" /\ k \in todo[s]
  /\ IF snap[s][k] # NoRow THEN updateExistingKey(s, k) ELSE createNewKey(s, k)
  /\ todo' = [todo EXCEPT ![s] = @ \ {k}]
  /\ UNCHANGED <<upstreamVars, source, pc, got, snap, revokeVars, mishaps>>

\* Rows found that the provider did not list.
Stale(s) == {k \in Keys : snap[s][k] # NoRow /\ got[s][k] = 0}

\* The row is deleted by id; snap forgets it, so that it is handled once.
PruneKey(s, k) ==
  /\ pc[s] = "store" /\ todo[s] = {} /\ k \in Stale(s)
  /\ db' = IF db[k].id = snap[s][k].id THEN [db EXCEPT ![k] = NoRow] ELSE db
  /\ snap' = [snap EXCEPT ![s][k] = NoRow]
  /\ UNCHANGED <<upstreamVars, source, pc, got, todo, revokeVars, mishaps>>

FinishSync(s) ==
  /\ pc[s] = "store" /\ todo[s] = {} /\ Stale(s) = {}
  /\ Idle(s)
  /\ UNCHANGED <<providerVars, source, db, revokeVars, mishaps>>

Sync(s) ==
  \/ FetchUserKeys(s) \/ GetSource(s) \/ CreateSource(s) \/ SearchKeys(s)
  \/ \E k \in Keys : StoreKey(s, k) \/ PruneKey(s, k)
  \/ FinishSync(s)

\* Storing or deleting one key fails and is logged; the loop goes on.
StatementFails(s, k) ==
  /\ mishaps < MaxMishaps
  /\ mishaps' = mishaps + 1
  /\ pc[s] = "store" /\ k \in Keys
  /\ \/ k \in todo[s] /\ todo' = [todo EXCEPT ![s] = @ \ {k}] /\ UNCHANGED snap
     \/ todo[s] = {} /\ k \in Stale(s) /\ snap' = [snap EXCEPT ![s][k] = NoRow] /\ UNCHANGED todo
  /\ calm' = calm \ {s}
  /\ UNCHANGED <<providerVars, source, db, pc, got, revokeVars>>

\* Any other statement fails, or the process dies: the sync is over.
SyncAborted(s) ==
  /\ mishaps < MaxMishaps
  /\ mishaps' = mishaps + 1
  /\ pc[s] # "idle"
  /\ Idle(s)
  /\ UNCHANGED <<providerVars, source, db, revokeVars>>

-----------------------------------------------------------------------------
(* Revoke: load the row, delete the key at the provider, delete the row.   *)
(* The target is a row's id, so a key stored again is another target.      *)

RevokeKey(r, k) ==
  /\ rpc[r] = "unasked"
  /\ db[k] # NoRow
  /\ rpc' = [rpc EXCEPT ![r] = "get"]
  /\ target' = [target EXCEPT ![r] = [key |-> k, id |-> db[k].id]]
  /\ UNCHANGED <<upstreamVars, source, db, syncVars, said, mishaps>>

TargetStored(r) == db[target[r].key].id = target[r].id

GetKey(r) ==
  /\ rpc[r] = "get"
  /\ rpc' = [rpc EXCEPT ![r] = IF TargetStored(r) THEN "list" ELSE "not_found"]
  /\ UNCHANGED <<upstreamVars, source, db, syncVars, target, said, mishaps>>

\* Slip: an identifier that could not be resolved for any reason counts as a
\* key that is gone.
ResolveAnyErrorIsGone(r) ==
  /\ rpc[r] = "list"
  /\ rpc' = [rpc EXCEPT ![r] = "local"]
  /\ said' = [said EXCEPT ![r] = "already_gone"]
  /\ UNCHANGED <<upstreamVars, source, db, syncVars, target, mishaps>>

\* A key that is not on the page counts as gone, and so does every key when
\* the listing itself is answered with 404 (ErrKeyGone).
resolveProviderKeyID(r) ==
  /\ rpc[r] = "list"
  /\ \/ /\ target[r].key \in Page
        /\ rpc' = [rpc EXCEPT ![r] = "delete"] /\ UNCHANGED said
     \/ /\ target[r].key \notin Page \/ HidesKeys
        /\ rpc' = [rpc EXCEPT ![r] = "local"]
        /\ said' = [said EXCEPT ![r] = "already_gone"]
  /\ UNCHANGED <<upstreamVars, source, db, syncVars, target, mishaps>>

DeleteAtProvider(r) ==
  /\ rpc[r] = "delete"
  /\ rpc' = [rpc EXCEPT ![r] = "local"]
  /\ said' = [said EXCEPT ![r] = IF up[target[r].key] = 0 THEN "already_gone" ELSE "deleted"]
  /\ up' = [up EXCEPT ![target[r].key] = 0]
  /\ steady' = steady \ {target[r].key}
  /\ calm' = {}
  /\ UNCHANGED <<changes, source, db, syncVars, target, mishaps>>

\* ErrKeyNotFound is ignored here.
DeleteLocal(r) ==
  /\ rpc[r] = "local"
  /\ rpc' = [rpc EXCEPT ![r] = "done"]
  /\ db' = IF TargetStored(r) THEN [db EXCEPT ![target[r].key] = NoRow] ELSE db
  /\ calm' = IF TargetStored(r) /\ Listing[target[r].key] # 0 THEN {} ELSE calm
  /\ UNCHANGED <<providerVars, source, syncVars, target, said, mishaps>>

Revoke(r) ==
  GetKey(r) \/ resolveProviderKeyID(r) \/ DeleteAtProvider(r) \/ DeleteLocal(r)

\* The attempt fails, is cancelled or dies.  River starts the next one from
\* the beginning, or gives up when it was the last.
RevokeRetried(r) ==
  /\ mishaps < MaxMishaps
  /\ mishaps' = mishaps + 1
  /\ rpc[r] \in {"list", "delete", "local"}
  /\ \E next \in {"get", "done"} : rpc' = [rpc EXCEPT ![r] = next]
  /\ said' = [said EXCEPT ![r] = "nothing"]
  /\ UNCHANGED <<upstreamVars, source, db, syncVars, target>>

-----------------------------------------------------------------------------
Next ==
  \/ \E k \in Keys : UserChanges(k)
  \/ \E s \in Syncs : Sync(s) \/ SyncAborted(s) \/ \E k \in Keys : StatementFails(s, k)
  \/ \E r \in Revokes :
       Revoke(r) \/ RevokeRetried(r) \/ \E k \in Keys : RevokeKey(r, k)

Spec == Init /\ [][Next]_vars

\* The crawler comes round to the account again and again, refreshes run
\* daily, and both run to their end; so do revocations once they are asked for.
FairSpec ==
  /\ Spec
  /\ \A s \in Syncs : WF_vars(Sync(s))
  /\ \A r \in Revokes : WF_vars(Revoke(r))

-----------------------------------------------------------------------------
(* Properties.                                                             *)

\* A key that has been published all along is never dropped once it is
\* indexed, nor given another id, under which a revocation in flight or a
\* link to it would miss it.
SteadyKeyKeepsItsRow ==
  [][\A k \in steady' : db[k] # NoRow => db'[k].id = db[k].id]_vars

\* "AlreadyGone records that the provider no longer had the key"
\* (keyops/service.go): no revocation says so of a key that was there all the
\* time.
AlreadyGoneIsGone ==
  \A r \in Revokes : said[r] = "already_gone" => target[r].key \notin steady

\* A sync that reaches its end undisturbed (nothing changed at the provider,
\* no statement of its own failed, nobody worked with an older listing and no
\* revocation took a row that is still listed) leaves the index exactly as
\* the provider lists the keys, whatever the table held before, and however
\* it interleaved with other syncs.
FreshSyncsMirror ==
  [][\A s \in calm : FinishSync(s) => \A k \in Keys : db[k].ver = Listing[k]]_vars

\* Once the account is left alone with at least one key on it, syncs bring
\* the index to exactly what is published and keep it there, whatever stale
\* syncs, failures and revocations came before.
EventuallyMirrors ==
  <>[](Published # {}) => <>[](\A k \in Keys : db[k].ver = up[k])
=============================================================================
