------------------------------- MODULE Profiles -------------------------------
(***************************************************************************)
(* The profiles table, and the ownership of sources that hangs on it.      *)
(* Requests of signed-in users create, rename and delete their profile     *)
(* (api/authenticated/v1/profile.go and me.go), and refresh jobs rebuild   *)
(* which sources a profile owns (keyops/service.go, syncOwnership).  All   *)
(* of them are sequences of single statements without a transaction, so    *)
(* they interleave between any two.  What a request answers is left out.   *)
(*                                                                         *)
(* A provider account and the source crawled from it are one value: the    *)
(* code matches them by provider and login.  That is right as long as no   *)
(* login changes hands; Revocation shows the same lookup when one does.    *)
(***************************************************************************)
EXTENDS Naturals, Sequences, FiniteSets

CONSTANTS
  Users,        \* signed-in users; also names the one refresh job of each
  Accounts,     \* provider accounts they connect
  Names,        \* sshark usernames
  Claims,       \* those of them that users ask for
  Ids,          \* ids of profile rows, random and ordered as numbers
  Variants,     \* the names tried for a login: itself, then numbered; <<>> if unusable
  Fallback,     \* the names tried for a user without a usable login
  Requests,     \* handlers that may run at the same time
  MaxArrivals,  \* bound on the requests that arrive
  MaxMishaps    \* bound on switched accounts, failing statements and dying processes

NoName == "none"

ASSUME ProfilesAssumption ==
  /\ Variants \in [Accounts -> Seq(Names)] /\ Fallback \in [Users -> Seq(Names)]
  /\ Users # {} /\ Requests \cap Users = {}
  /\ NoName \notin Names /\ Claims \subseteq Names /\ Ids \subseteq Nat \ {0}
  /\ MaxArrivals \in Nat /\ MaxMishaps \in Nat

\* What executes statements: request handlers and, as the task queue runs one
\* refresh per user at a time, one job for each user.
Procs == Requests \cup Users
Nobody == 0
NoProfile == [id |-> Nobody, name |-> NoName]

VARIABLES
  connected,  \* accounts each user has connected and verified, as Clerk knows
  proven,     \* accounts each user had connected at some time
  crawled,    \* accounts with a row in sources
  profile,    \* the row of each user in profiles
  owner,      \* profile_id of each source
  stuck,      \* users with a refresh task that nobody will settle
  pc,         \* the statement each process is about to run
  call,       \* which handler it executes, for whom, and the name it claims
  got,        \* the accounts it read and has yet to mark as owned
  names,      \* the default names it has yet to try
  held,       \* the id of the profile it works on
  arrivals, mishaps

outerVars == <<connected, proven, stuck>>
tables == <<crawled, profile, owner>>
localVars == <<pc, call, got, names, held>>
vars == <<outerVars, tables, localVars, arrivals, mishaps>>

Calls == [kind : {"me", "claim", "delete", "refresh"}, user : Users, name : Names \cup {NoName}]
Refresh(u) == [kind |-> "refresh", user |-> u, name |-> NoName]
NoCall(p) == IF p \in Users THEN Refresh(p)
             ELSE [kind |-> "me", user |-> CHOOSE u \in Users : TRUE, name |-> NoName]

TypeOK ==
  /\ connected \in [Users -> SUBSET Accounts]
  /\ proven \in [Users -> SUBSET Accounts]
  /\ crawled \subseteq Accounts
  /\ profile \in [Users -> {NoProfile} \cup [id : Ids, name : Names]]
  /\ owner \in [Accounts -> Ids \cup {Nobody}]
  /\ stuck \subseteq Users
  /\ pc \in [Procs -> {"idle", "get", "accounts", "pick", "insert", "reread",
                       "set", "find", "clear", "own", "delete"}]
  /\ call \in [Procs -> Calls]
  /\ got \in [Procs -> SUBSET Accounts]
  /\ names \in [Procs -> Seq(Names)]
  /\ held \in [Procs -> Ids \cup {Nobody}]
  /\ arrivals \in 0..MaxArrivals
  /\ mishaps \in 0..MaxMishaps

Init ==
  /\ connected \in [Users -> SUBSET Accounts]
  /\ \A u, v \in Users : u # v => connected[u] \cap connected[v] = {}
  /\ proven = connected
  /\ crawled = {}
  /\ profile = [u \in Users |-> NoProfile]
  /\ owner = [a \in Accounts |-> Nobody]
  /\ stuck = {}
  /\ pc = [p \in Procs |-> "idle"]
  /\ call = [p \in Procs |-> NoCall(p)]
  /\ got = [p \in Procs |-> {}]
  /\ names = [p \in Procs |-> <<>>]
  /\ held = [p \in Procs |-> Nobody]
  /\ arrivals = 0 /\ mishaps = 0

-----------------------------------------------------------------------------
(* The world around: Clerk's users and the crawler.                        *)

\* Clerk lets one user at a time have an account connected.
Switch(u, a) ==
  /\ mishaps < MaxMishaps
  /\ mishaps' = mishaps + 1
  /\ \/ /\ \A v \in Users : a \notin connected[v]
        /\ connected' = [connected EXCEPT ![u] = @ \cup {a}]
        /\ proven' = [proven EXCEPT ![u] = @ \cup {a}]
     \/ /\ a \in connected[u]
        /\ connected' = [connected EXCEPT ![u] = @ \ {a}]
        /\ UNCHANGED proven
  /\ UNCHANGED <<stuck, tables, localVars, arrivals>>

\* KeySync's getOrCreateSource; nothing deletes a source.
Crawl(a) ==
  /\ a \notin crawled
  /\ crawled' = crawled \cup {a}
  /\ UNCHANGED <<outerVars, profile, owner, localVars, arrivals, mishaps>>

-----------------------------------------------------------------------------
(* Steps shared by the handlers.  Each is one statement or call to Clerk.  *)

Goto(p, step) == pc' = [pc EXCEPT ![p] = step]

Return(p) ==
  /\ pc' = [pc EXCEPT ![p] = "idle"]
  /\ call' = [call EXCEPT ![p] = NoCall(p)]
  /\ got' = [got EXCEPT ![p] = {}]
  /\ names' = [names EXCEPT ![p] = <<>>]
  /\ held' = [held EXCEPT ![p] = Nobody]

\* ensureProfile returned a profile: SetMyUsername goes on, Me answers.
Ensured(p) ==
  IF call[p].kind # "claim" THEN Return(p)
  ELSE /\ Goto(p, "set")
       /\ got' = [got EXCEPT ![p] = {}]
       /\ names' = [names EXCEPT ![p] = <<>>]
       /\ held' = [held EXCEPT ![p] = Nobody]
       /\ UNCHANGED call

User(p) == call[p].user
Mine(p) == profile[User(p)]

Arrive(r, c) ==
  /\ arrivals < MaxArrivals
  /\ arrivals' = arrivals + 1
  /\ pc[r] = "idle"
  /\ Goto(r, "get")
  /\ call' = [call EXCEPT ![r] = c]
  /\ UNCHANGED <<outerVars, tables, got, names, held, mishaps>>

-----------------------------------------------------------------------------
(* ensureProfile.                                                          *)

GetByClerkUserID(p) ==
  /\ pc[p] = "get" /\ call[p].kind \in {"me", "claim"}
  /\ IF Mine(p) # NoProfile THEN Ensured(p)
     ELSE Goto(p, "accounts") /\ UNCHANGED <<call, got, names, held>>
  /\ UNCHANGED <<outerVars, tables, arrivals, mishaps>>

\* The first usable login, in Clerk's order, or the user's fallback name.
DefaultNames(u) ==
  LET usable == {a \in connected[u] : Variants[a] # <<>>}
  IN IF usable = {} THEN {Fallback[u]} ELSE {Variants[a] : a \in usable}

ReadAccounts(p) ==
  /\ pc[p] = "accounts"
  /\ Goto(p, "pick")
  /\ got' = [got EXCEPT ![p] = connected[User(p)]]
  /\ \E ns \in DefaultNames(User(p)) : names' = [names EXCEPT ![p] = ns]
  /\ UNCHANGED <<outerVars, tables, call, held, arrivals, mishaps>>

HeldByOther(u, n) == \E v \in Users \ {u} : profile[v].name = n

\* One round of the loop over the variants; the last one gives up.
PickDefaultUsername(p) ==
  /\ pc[p] = "pick"
  /\ \/ names[p] = <<>> /\ Return(p)
     \/ /\ names[p] # <<>>
        /\ IF HeldByOther(User(p), Head(names[p]))
             THEN names' = [names EXCEPT ![p] = Tail(@)] /\ UNCHANGED pc
             ELSE Goto(p, "insert") /\ UNCHANGED names
        /\ UNCHANGED <<call, got, held>>
  /\ UNCHANGED <<outerVars, tables, arrivals, mishaps>>

\* uuid.New: an id that no row or process refers to.  Those are the only ones
\* who could tell it from another, so a bounded set of ids is enough.
FreshIds == {i \in Ids : /\ \A u \in Users : profile[u].id # i
                         /\ \A p \in Procs : held[p] # i}

NewProfile(p) ==
  \E i \in FreshIds :
    /\ profile' = [profile EXCEPT ![User(p)] = [id |-> i, name |-> Head(names[p])]]
    /\ held' = [held EXCEPT ![p] = i]
    /\ Goto(p, "clear")
    /\ names' = [names EXCEPT ![p] = <<>>]

\* Slip: the name that was found free is taken to be free still.
InsertUnchecked(p) ==
  /\ pc[p] = "insert"
  /\ NewProfile(p)
  /\ UNCHANGED <<outerVars, crawled, owner, call, got, arrivals, mishaps>>

\* Slip: the insert became an upsert on clerk_user_id that renews the id.
InsertUpserts(p) ==
  /\ pc[p] = "insert"
  /\ IF HeldByOther(User(p), Head(names[p]))
       THEN Goto(p, "reread") /\ UNCHANGED <<profile, held, names>>
       ELSE NewProfile(p)
  /\ UNCHANGED <<outerVars, crawled, owner, call, got, arrivals, mishaps>>

\* UNIQUE (username) and UNIQUE (clerk_user_id) raise the same error.
InsertProfile(p) ==
  /\ pc[p] = "insert"
  /\ IF HeldByOther(User(p), Head(names[p])) \/ Mine(p) # NoProfile
       THEN Goto(p, "reread") /\ UNCHANGED <<profile, held, names>>
       ELSE NewProfile(p)
  /\ UNCHANGED <<outerVars, crawled, owner, call, got, arrivals, mishaps>>

Reread(p) ==
  /\ pc[p] = "reread"
  /\ IF Mine(p) # NoProfile THEN Ensured(p) ELSE Return(p)
  /\ UNCHANGED <<outerVars, tables, arrivals, mishaps>>

-----------------------------------------------------------------------------
(* SetMyUsername, after ensureProfile.                                     *)

\* An update of no row (ErrProfileNotFound) and one refused by UNIQUE
\* (username) are told apart only in the answer.
SetUsername(p) ==
  /\ pc[p] = "set"
  /\ profile' = IF Mine(p) = NoProfile \/ HeldByOther(User(p), call[p].name) THEN profile
                ELSE [profile EXCEPT ![User(p)].name = call[p].name]
  /\ Return(p)
  /\ UNCHANGED <<outerVars, crawled, owner, arrivals, mishaps>>

-----------------------------------------------------------------------------
(* The refresh job, its scraping left out: read the accounts, find the     *)
(* profile, rebuild what it owns.  Without accounts, and without a profile,*)
(* it ends before that.                                                    *)

\* The index on active tasks refuses another task for the user while one is
\* left pending or running.
StartRefresh(u) ==
  /\ pc[u] = "idle" /\ u \notin stuck
  /\ connected[u] # {}
  /\ Goto(u, "find")
  /\ got' = [got EXCEPT ![u] = connected[u]]
  /\ UNCHANGED <<outerVars, tables, call, names, held, arrivals, mishaps>>

FindProfile(u) ==
  /\ pc[u] = "find"
  /\ IF profile[u] = NoProfile THEN Return(u)
     ELSE /\ Goto(u, "clear")
          /\ held' = [held EXCEPT ![u] = profile[u].id]
          /\ UNCHANGED <<call, got, names>>
  /\ UNCHANGED <<outerVars, tables, arrivals, mishaps>>

-----------------------------------------------------------------------------
(* syncOwnership, in ensureProfile and in the refresh job, and the release *)
(* of the sources that precedes the deletion of a profile.                 *)

AfterClear(p) == Goto(p, IF call[p].kind = "delete" THEN "delete" ELSE "own")

\* Slip: what the profile owned is not released first.
ClearNothing(p) ==
  /\ pc[p] = "clear"
  /\ AfterClear(p)
  /\ UNCHANGED <<outerVars, tables, call, got, names, held, arrivals, mishaps>>

\* Slip: only the sources of accounts still connected are released.
ClearListedOnly(p) ==
  /\ pc[p] = "clear"
  /\ owner' = [a \in Accounts |-> IF owner[a] = held[p] /\ a \in got[p] THEN Nobody ELSE owner[a]]
  /\ AfterClear(p)
  /\ UNCHANGED <<outerVars, crawled, profile, call, got, names, held, arrivals, mishaps>>

ClearProfile(p) ==
  /\ pc[p] = "clear"
  /\ owner' = [a \in Accounts |-> IF owner[a] = held[p] THEN Nobody ELSE owner[a]]
  /\ AfterClear(p)
  /\ UNCHANGED <<outerVars, crawled, profile, call, got, names, held, arrivals, mishaps>>

Live(id) == \E u \in Users : profile[u].id = id /\ id # Nobody

\* An account that is not crawled has no source to mark, and the foreign key
\* refuses the id of a profile deleted in the meantime.
SetProfile(p, a) ==
  /\ pc[p] = "own" /\ a \in got[p]
  /\ owner' = IF a \in crawled /\ Live(held[p]) THEN [owner EXCEPT ![a] = held[p]] ELSE owner
  /\ got' = [got EXCEPT ![p] = @ \ {a}]
  /\ UNCHANGED <<outerVars, crawled, profile, pc, call, names, held, arrivals, mishaps>>

OwnershipSynced(p) ==
  /\ pc[p] = "own" /\ got[p] = {}
  /\ Ensured(p)
  /\ UNCHANGED <<outerVars, tables, arrivals, mishaps>>

-----------------------------------------------------------------------------
(* DeleteMyProfile.                                                        *)

GetProfileToDelete(r) ==
  /\ pc[r] = "get" /\ call[r].kind = "delete"
  /\ IF Mine(r) = NoProfile THEN Goto(r, "delete") /\ UNCHANGED held
     ELSE Goto(r, "clear") /\ held' = [held EXCEPT ![r] = Mine(r).id]
  /\ UNCHANGED <<outerVars, tables, call, got, names, arrivals, mishaps>>

\* Slip: sources keep the id of the deleted profile (no ON DELETE SET NULL).
DeleteLeavesOwner(r) ==
  /\ pc[r] = "delete"
  /\ profile' = [profile EXCEPT ![User(r)] = NoProfile]
  /\ Return(r)
  /\ UNCHANGED <<outerVars, crawled, owner, arrivals, mishaps>>

\* ON DELETE SET NULL releases what was marked after the release before.
DeleteByClerkUserID(r) ==
  /\ pc[r] = "delete"
  /\ profile' = [profile EXCEPT ![User(r)] = NoProfile]
  /\ owner' = [a \in Accounts |-> IF owner[a] = Mine(r).id THEN Nobody ELSE owner[a]]
  /\ Return(r)
  /\ UNCHANGED <<outerVars, crawled, arrivals, mishaps>>

-----------------------------------------------------------------------------
(* Failures.  The failures that are logged let the handler go on; every    *)
(* other one, a cancelled context and a dying process end it.  A refresh   *)
(* that failed has its task settled, or is attempted again, and a refresh  *)
(* may start anew.                                                         *)

LoggedFailure(p) ==
  \/ pc[p] = "get" /\ call[p].kind = "delete" /\ Goto(p, "delete") /\ UNCHANGED <<call, got, names, held>>
  \/ pc[p] = "clear" /\ call[p].kind = "delete" /\ Goto(p, "delete") /\ UNCHANGED <<call, got, names, held>>
  \/ pc[p] = "clear" /\ call[p].kind \in {"me", "claim"} /\ Ensured(p)
  \/ /\ pc[p] = "own" /\ call[p].kind \in {"me", "claim"}
     /\ \E a \in got[p] : got' = [got EXCEPT ![p] = @ \ {a}]
     /\ UNCHANGED <<pc, call, names, held>>

Fails(p) ==
  /\ mishaps < MaxMishaps
  /\ mishaps' = mishaps + 1
  /\ pc[p] # "idle"
  /\ LoggedFailure(p) \/ Return(p)
  /\ UNCHANGED <<outerVars, tables, arrivals>>

\* A refresh task stays active for good.  Either the job's context ended, its
\* Finish failed under it, which is only logged, and no attempt is left or the
\* job counts as done; or the task was created and its job was not.
TaskLeft(u) ==
  /\ mishaps < MaxMishaps
  /\ mishaps' = mishaps + 1
  /\ u \notin stuck
  /\ stuck' = stuck \cup {u}
  /\ Return(u)
  /\ UNCHANGED <<connected, proven, tables, arrivals>>

-----------------------------------------------------------------------------
OwnershipStep(p) ==
  ClearProfile(p) \/ OwnershipSynced(p) \/ \E a \in Accounts : SetProfile(p, a)

Request(r) ==
  \/ GetByClerkUserID(r) \/ ReadAccounts(r) \/ PickDefaultUsername(r)
  \/ InsertProfile(r) \/ Reread(r) \/ SetUsername(r)
  \/ GetProfileToDelete(r) \/ DeleteByClerkUserID(r) \/ OwnershipStep(r)

RefreshJob(u) == FindProfile(u) \/ OwnershipStep(u)

Arrivals(r) ==
  \E u \in Users :
    \/ \E k \in {"me", "delete"} : Arrive(r, [kind |-> k, user |-> u, name |-> NoName])
    \/ \E n \in Claims : Arrive(r, [kind |-> "claim", user |-> u, name |-> n])

Next ==
  \/ \E u \in Users : StartRefresh(u) \/ RefreshJob(u) \/ TaskLeft(u)
  \/ \E a \in Accounts : Crawl(a) \/ \E u \in Users : Switch(u, a)
  \/ \E r \in Requests : Arrivals(r) \/ Request(r)
  \/ \E p \in Procs : Fails(p)

Spec == Init /\ [][Next]_vars

\* Handlers and jobs run to their end.  The daily pass asks for a refresh of
\* every profile (jobs/periodic.go), which starts one unless a task is left.
FairSpec ==
  /\ Spec
  /\ \A r \in Requests : WF_vars(Request(r))
  /\ \A u \in Users : WF_vars(RefreshJob(u)) /\ WF_vars(profile[u] # NoProfile /\ StartRefresh(u))

-----------------------------------------------------------------------------
(* Properties.                                                             *)

Owns(u, a) == profile[u] # NoProfile /\ owner[a] = profile[u].id

\* Of any number of users who claim or default to a name at the same time,
\* whatever each of them read before, one holds it.
OneHolderPerName ==
  \A u, v \in Users :
    u # v /\ profile[u] # NoProfile /\ profile[v] # NoProfile => profile[u].name # profile[v].name

\* Two first visits of a user at the same time, or a rename during one, do
\* not replace the profile: while it exists it keeps its id.
ProfileKeepsItsId ==
  [][\A u \in Users : profile[u] # NoProfile /\ profile'[u] # NoProfile
                          => profile'[u].id = profile[u].id]_vars

\* "Ownership is proven by connecting the provider account": a source is
\* marked as owned only by an existing profile whose user had the account
\* connected, even when accounts were switched and profiles deleted while
\* ownership was being rebuilt.
OwnershipIsProven ==
  \A a \in Accounts : owner[a] # Nobody => \E u \in Users : Owns(u, a) /\ a \in proven[u]

\* The tables implement the registry they stand for: see Registry.
Reg == INSTANCE Registry WITH
  name <- [u \in Users |-> profile[u].name],
  owned <- [u \in Users |-> {a \in Accounts : Owns(u, a)}]

\* Inserts, renames, rebuilds and deletions, statement by statement and in any
\* order, go through the states of the registry: a rebuild withdraws all that
\* the user owned and attributes proven accounts one by one, deletion frees
\* name and sources at once, and a new profile inherits no source.
ImplementsRegistry == Reg!RegistrySpec

\* Once a user's profile and connected accounts stay as they are, with at
\* least one account, their sources come to be exactly the crawled ones among
\* the accounts, whatever stale rebuilds and failures came before and whatever
\* becomes of other users' tasks.  It takes that no refresh task of the user
\* was left active: nothing in the code frees them from one.
EventuallyOwned ==
  \A u \in Users :
    <>[](profile[u] # NoProfile /\ connected[u] # {} /\ u \notin stuck)
      => []<>(\A a \in crawled : Owns(u, a) <=> a \in connected[u])

\* "a key is attributed to them only while they still hold the account that
\* publishes it" (keyops/service.go, syncOwnership): an account that stays
\* disconnected does not stay attributed.
DisconnectingReleases ==
  \A u \in Users, a \in Accounts : <>[](a \notin connected[u]) => []<>~Owns(u, a)
=============================================================================
