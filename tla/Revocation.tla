----------------------------- MODULE Revocation -----------------------------
(***************************************************************************)
(* Who may revoke a key, and with whose credential.  A revocation reads    *)
(* the owner of a key in three places that change independently: sshark's  *)
(* source, under the name the account had when it was last crawled; Clerk, *)
(* which keeps the name and the token of the account a user connected; and *)
(* the provider, where accounts are renamed and names are taken over.      *)
(* River runs the job again when an attempt fails or dies, with nothing    *)
(* remembered of the attempts before; while it waits the user may ask for  *)
(* the same key again, and the two jobs get in each other's way.           *)
(*                                                                         *)
(* One provider is modelled.  KeySync has the interleaving of a revocation *)
(* with the statements of a sync; here a crawl of an account is one step.  *)
(* Names are equal when they differ in case only (strings.EqualFold).      *)
(***************************************************************************)
EXTENDS Naturals, FiniteSets

CONSTANTS
  Provider,     \* "github" or "gitlab"
  Users,        \* users of sshark
  Accounts,     \* accounts at the provider
  Logins,       \* names an account can have there
  LoginOf,      \* the name each account has at first
  Keys,         \* keys that were ever published
  OwnerOf,      \* the account that publishes each key
  TypeOf,       \* "ssh" or "gpg", for each key
  Grants,       \* sets of scopes users may grant
  Jobs,         \* revocation jobs
  MaxAttempts,  \* attempts River makes of a job
  Wanted,       \* keys that users ask to revoke
  MaxMoves,     \* bound on what users do at the provider and at Clerk
  MaxMishaps    \* bound on failing calls and dying processes

ASSUME RevocationBounds ==
  /\ Provider \in {"github", "gitlab"}
  /\ LoginOf \in [Accounts -> Logins] /\ \A a, b \in Accounts : LoginOf[a] = LoginOf[b] => a = b
  /\ OwnerOf \in [Keys -> Accounts] /\ TypeOf \in [Keys -> {"ssh", "gpg"}]
  /\ Grants \subseteq SUBSET {"admin:public_key", "admin:gpg_key", "api"}
  /\ Wanted \subseteq Keys
  /\ MaxAttempts \in Nat \ {0} /\ MaxMoves \in Nat /\ MaxMishaps \in Nat

(* Scopes (keyops/service.go).  An empty list of scopes is one that the    *)
(* provider did not report.                                                *)
ScopeFor == [type \in {"ssh", "gpg"} |->
  IF type = "gpg" THEN "admin:gpg_key" ELSE "admin:public_key"]
RequiredScope == [type \in {"ssh", "gpg"} |->
  IF Provider = "github" THEN ScopeFor[type] ELSE "api"]
Scopes == {"admin:public_key", "admin:gpg_key", "api"}

Usable(scopes, scope) == scopes = {} \/ scope \in scopes

\* Slip: only what SSH keys need is asked for.
RevocationScopesOfSSH == {RequiredScope["ssh"]}
RevocationScopes ==
  IF Provider = "github" THEN {ScopeFor["ssh"], ScopeFor["gpg"]} ELSE {"api"}

None == [account |-> {}]  \* not connected
Credentials ==
  [account : {{a} : a \in Accounts}, login : Logins, granted : SUBSET Scopes, scopes : SUBSET Scopes]

VARIABLES
  login,      \* the name of each account at the provider
  published,  \* keys that are there now
  steady,     \* keys that have been there since the beginning
  link,       \* the account each user connected, as Clerk keeps it
  source,     \* the names of the accounts that sshark indexed; {} for none
  rows,       \* keys stored in public_keys
  offer,      \* keys that each user was shown as theirs to revoke
  job,        \* the jobs: step, attempts, user, key, what the attempt has read
  active,     \* jobs whose task is pending or running
  held,       \* jobs whose row is still the one they were asked to delete
  kept,       \* jobs asked for from an offer since when nobody moved
  moves, mishaps

vars == <<login, published, steady, link, source, rows, offer, job, active, held, kept, moves, mishaps>>
world == <<login, published, steady, link, source, offer, kept, moves>>

Steps == {"unasked", "queued", "get", "source", "account", "token", "list",
          "delete", "local", "finish", "over"}
Errors == {"", "key_not_found", "not_owned", "forbidden", "busy", "error"}
Names == {{}} \cup {{l} : l \in Logins}
Job ==
  [step : Steps, tries : 0..MaxAttempts, user : {{}} \cup {{u} : u \in Users},
   key : {{}} \cup {{k} : k \in Keys}, name : Names,
   token : Credentials \cup {None}, error : Errors]
Unasked ==
  [step |-> "unasked", tries |-> 0, user |-> {}, key |-> {}, name |-> {},
   token |-> None, error |-> ""]

TypeOK ==
  /\ login \in [Accounts -> Logins]
  /\ \A a, b \in Accounts : login[a] = login[b] => a = b
  /\ steady \subseteq published /\ published \subseteq Keys
  /\ link \in [Users -> Credentials \cup {None}]
  /\ source \in [Accounts -> Names]
  /\ rows \subseteq {k \in Keys : source[OwnerOf[k]] # {}}
  /\ offer \in [Users -> SUBSET Keys]
  /\ job \in [Jobs -> Job]
  /\ active \subseteq Jobs
  /\ held \subseteq {j \in Jobs : job[j].key # {} /\ job[j].key \subseteq rows}
  /\ kept \subseteq Jobs
  /\ moves \in 0..MaxMoves
  /\ mishaps \in 0..MaxMishaps

\* Nothing is connected or crawled yet.
Init ==
  /\ login = LoginOf
  /\ published = Keys /\ steady = Keys
  /\ link = [u \in Users |-> None]
  /\ source = [a \in Accounts |-> {}] /\ rows = {}
  /\ offer = [u \in Users |-> {}]
  /\ job = [j \in Jobs |-> Unasked] /\ active = {} /\ held = {} /\ kept = {}
  /\ moves = 0 /\ mishaps = 0

-----------------------------------------------------------------------------
(* The provider, Clerk and the crawler.  Whoever moves makes the offers    *)
(* that were shown before void, and so does a crawl that finds a new name. *)

OffersVoid == offer' = [u \in Users |-> {}] /\ kept' = {}

Moves ==
  /\ moves < MaxMoves /\ moves' = moves + 1
  /\ OffersVoid
  /\ UNCHANGED <<job, active, mishaps>>

Rename(a, l) ==
  /\ Moves
  /\ \A b \in Accounts : login[b] # l
  /\ login' = [login EXCEPT ![a] = l]
  /\ UNCHANGED <<published, steady, link, source, rows, held>>

\* The owner removes a key by hand, or publishes it again.
ChangeKey(k) ==
  /\ Moves
  /\ published' = IF k \in published THEN published \ {k} ELSE published \cup {k}
  /\ steady' = steady \ {k}
  /\ UNCHANGED <<login, link, source, rows, held>>

\* Clerk notes the name the account has now, and what it was granted.  An
\* account is connected by one user at a time.
Connect(u, a) ==
  /\ Moves
  /\ \A v \in Users \ {u} : link[v].account # {a}
  /\ \E granted \in Grants :
       \E scopes \in {granted} \cup {{}} :
         link' = [link EXCEPT ![u] =
                   [account |-> {a}, login |-> login[a], granted |-> granted, scopes |-> scopes]]
  /\ UNCHANGED <<login, published, steady, source, rows, held>>

Disconnect(u) ==
  /\ Moves
  /\ link[u] # None
  /\ link' = [link EXCEPT ![u] = None]
  /\ UNCHANGED <<login, published, steady, source, rows, held>>

\* ScrapeUser: an account without keys is left alone, and of the others the
\* keys of a type without any; the source takes the account's present name; a
\* row stored anew has a new id.
ScrapeUser(a) ==
  LET listed == {k \in published : OwnerOf[k] = a}
      synced == {k \in Keys : OwnerOf[k] = a /\ \E l \in listed : TypeOf[l] = TypeOf[k]}
  IN /\ listed # {}
     /\ source' = [source EXCEPT ![a] = {login[a]}]
     /\ rows' = (rows \ synced) \cup listed
     /\ held' = {j \in held : job[j].key \subseteq rows'}
     /\ IF source' = source THEN UNCHANGED <<offer, kept>> ELSE OffersVoid
     /\ UNCHANGED <<login, published, steady, link, job, active, moves, mishaps>>

-----------------------------------------------------------------------------
(* The handlers of api/authenticated/v1/keys.go.                           *)

\* describeAccount: whether the revoke button works, as far as scopes go.
CanRevoke(u) == \A scope \in RevocationScopes : Usable(link[u].scopes, scope)

\* Names are not unique among sources: any one that bears it is found.
ListMyKeys(u) ==
  /\ link[u] # None
  /\ \E a \in Accounts :
       /\ source[a] = {link[u].login}
       /\ offer' = [offer EXCEPT ![u] =
                     IF CanRevoke(u) THEN {k \in rows : OwnerOf[k] = a} ELSE {}]
  /\ UNCHANGED <<login, published, steady, link, source, rows, job, active, held, kept, moves, mishaps>>

\* The tasks that the partial unique index compares with one of u for k: a
\* failed one that waits for its retry is not among them.
ActiveFor(u, k) == {i \in active : job[i].user = {u} /\ job[i].key = {k}}

Asked(u, k, j, step, error) ==
  /\ job[j] = Unasked
  /\ k \in rows \cap Wanted
  /\ ActiveFor(u, k) = {}
  /\ job' = [job EXCEPT ![j].step = step, ![j].user = {u}, ![j].key = {k}, ![j].error = error]
  /\ active' = active \cup {j}
  /\ UNCHANGED <<login, published, steady, link, source, rows, offer, moves>>

\* EnqueueRevoke returns the task that is active instead of another one.
\* Anybody may ask for any key; the job finds out whether it is theirs.
RevokeMyKey(u, k, j) ==
  /\ Asked(u, k, j, "queued", "")
  /\ held' = held \cup {j}
  /\ kept' = IF k \in offer[u] THEN kept \cup {j} ELSE kept
  /\ UNCHANGED mishaps

Mishap == mishaps < MaxMishaps /\ mishaps' = mishaps + 1

\* The request's context ends: Insert fails, and so does settling the task,
\* which stays pending without a job.
RequestAbandoned(u, k, j) ==
  /\ Mishap
  /\ Asked(u, k, j, "over", "error")
  /\ UNCHANGED <<held, kept>>

-----------------------------------------------------------------------------
(* Revoke (keyops/service.go), as run by the job's attempts.               *)

KeyOf(j) == CHOOSE k \in Keys : job[j].key = {k}
LinkOf(j) == link[CHOOSE u \in Users : job[j].user = {u}]

Goes(j, from, to) ==
  /\ job[j].step = from
  /\ job' = [job EXCEPT ![j].step = to]

\* The operation returns an error, and what it has read is forgotten.
Stops(j, from, error) ==
  /\ job[j].step = from
  /\ job' = [job EXCEPT ![j].step = "finish", ![j].name = {}, ![j].token = None, ![j].error = error]

Same == UNCHANGED <<world, rows, active, held, mishaps>>

\* Other requests of the same user for the same key.
Siblings(j) == {i \in Jobs \ {j} : job[i].user = job[j].user /\ job[i].key = job[j].key}

MarkRunning(j) ==
  /\ job[j].step = "queued"
  /\ Siblings(j) \cap active = {}
  /\ job' = [job EXCEPT ![j].step = "get", ![j].tries = @ + 1, ![j].error = ""]
  /\ active' = active \cup {j}
  /\ UNCHANGED <<world, rows, held, mishaps>>

\* The attempt is used up before it reads anything.
NotMarked(j, error) ==
  /\ job[j].step = "queued"
  /\ job' = [job EXCEPT ![j].step = IF job[j].tries + 1 < MaxAttempts THEN "queued" ELSE "over",
                        ![j].tries = @ + 1, ![j].error = error]

\* The unique index refuses a retry while another task has the work.
MarkRefused(j) ==
  /\ Siblings(j) \cap active # {}
  /\ NotMarked(j, "busy")
  /\ Same

GetKey(j) ==
  /\ IF j \in held THEN Goes(j, "get", "source") ELSE Stops(j, "get", "key_not_found")
  /\ Same

\* The row of a key is deleted with its source, never without.
GetSource(j) ==
  /\ job[j].step = "source"
  /\ job' = [job EXCEPT ![j].step = "account", ![j].name = source[OwnerOf[KeyOf(j)]]]
  /\ Same

Account(j) ==
  /\ job[j].step = "account"
  /\ IF LinkOf(j) # None /\ job[j].name = {LinkOf(j).login}
       THEN job' = [job EXCEPT ![j].step = "token", ![j].name = {}]
       ELSE Stops(j, "account", "not_owned")
  /\ Same

\* Slip: whether the scopes suffice is left to the provider.
TokenUnchecked(j) ==
  /\ job[j].step = "token"
  /\ \/ LinkOf(j) = None /\ Stops(j, "token", "not_owned")
     \/ LinkOf(j) # None /\ job' = [job EXCEPT ![j].step = "list", ![j].token = LinkOf(j)]
  /\ Same

\* The token is asked for in a second call, of whatever is connected then.
Token(j) ==
  /\ job[j].step = "token"
  /\ \/ LinkOf(j) = None /\ Stops(j, "token", "not_owned")
     \/ /\ LinkOf(j) # None
        /\ IF Usable(LinkOf(j).scopes, RequiredScope[TypeOf[KeyOf(j)]])
             THEN job' = [job EXCEPT ![j].step = "list", ![j].token = LinkOf(j)]
             ELSE Stops(j, "token", "forbidden")
  /\ Same

Listed(j) == KeyOf(j) \in published /\ job[j].token.account = {OwnerOf[KeyOf(j)]}

\* The provider refuses a token that was not granted the scope.
Granted(j) == RequiredScope[TypeOf[KeyOf(j)]] \in job[j].token.granted

\* Slip: a key that is not listed is an error, as it is for the provider.
ResolveOrFail(j) ==
  /\ job[j].step = "list"
  /\ \/ Granted(j) /\ Listed(j) /\ Goes(j, "list", "delete")
     \/ Granted(j) /\ ~Listed(j) /\ Stops(j, "list", "error")
     \/ ~Granted(j) /\ Stops(j, "list", "forbidden")
  /\ Same

\* A key that the token's account does not list counts as gone, and so does
\* one whose listing, or deletion, the provider refuses with 404 instead of 401
\* or 403.
resolveProviderKeyID(j) ==
  /\ job[j].step = "list"
  /\ \/ Granted(j) /\ Listed(j) /\ Goes(j, "list", "delete")
     \/ ~(Granted(j) /\ Listed(j)) /\ Goes(j, "list", "local")
     \/ ~Granted(j) /\ Stops(j, "list", "forbidden")
  /\ Same

DeleteKey(j) ==
  /\ Goes(j, "delete", "local")
  /\ published' = published \ job[j].key
  /\ steady' = steady \ job[j].key
  /\ UNCHANGED <<login, link, source, rows, offer, active, held, kept, moves, mishaps>>

\* ErrKeyNotFound is ignored; the rows of other revocations go as well.
DeleteLocal(j) ==
  /\ Goes(j, "local", "finish")
  /\ rows' = IF j \in held THEN rows \ job[j].key ELSE rows
  /\ held' = {i \in held : job[i].key \subseteq rows'}
  /\ UNCHANGED <<world, active, mishaps>>

\* Slip: the attempts are not counted.
ReturnsUncounted(j) == Goes(j, "finish", IF job[j].error # "" THEN "queued" ELSE "over")

\* River tries again unless it was the last attempt.
Returns(j) ==
  Goes(j, "finish", IF job[j].error # "" /\ job[j].tries < MaxAttempts THEN "queued" ELSE "over")

Finish(j) ==
  /\ Returns(j)
  /\ active' = active \ {j}
  /\ UNCHANGED <<world, rows, held, mishaps>>

Attempt(j) ==
  \/ MarkRunning(j) \/ MarkRefused(j) \/ GetKey(j) \/ GetSource(j) \/ Account(j) \/ Token(j)
  \/ resolveProviderKeyID(j) \/ DeleteKey(j) \/ DeleteLocal(j) \/ Finish(j)

\* A call or statement of the operation fails.
CallFails(j) ==
  /\ Mishap
  /\ \E from \in {"get", "source", "account", "token", "list", "delete", "local"} :
       Stops(j, from, "error")
  /\ UNCHANGED <<world, rows, active, held>>

\* With or without its effect.
MarkFails(j) ==
  /\ Mishap
  /\ NotMarked(j, "error")
  /\ \/ UNCHANGED active
     \/ Siblings(j) \cap active = {} /\ active' = active \cup {j}
  /\ UNCHANGED <<world, rows, held>>

\* Only logged.
FinishFails(j) ==
  /\ Mishap
  /\ Returns(j)
  /\ UNCHANGED <<world, rows, active, held>>

DeleteReplyLost(j) ==
  /\ Mishap
  /\ Stops(j, "delete", "error")
  /\ published' = published \ job[j].key
  /\ steady' = steady \ job[j].key
  /\ UNCHANGED <<login, link, source, rows, offer, active, held, kept, moves>>

\* The process dies, and River's rescuer runs the job again or discards it; or
\* the job's context ends, and with it the attempt.  The task stays running.
Crash(j) ==
  /\ Mishap
  /\ job[j].step \notin {"unasked", "queued", "over"}
  /\ job' = [job EXCEPT ![j].step = IF job[j].tries < MaxAttempts THEN "queued" ELSE "over",
                        ![j].name = {}, ![j].token = None, ![j].error = "error"]
  /\ UNCHANGED <<world, rows, active, held>>

-----------------------------------------------------------------------------
Next ==
  \/ \E a \in Accounts : ScrapeUser(a) \/ \E l \in Logins : Rename(a, l)
  \/ \E k \in Keys : ChangeKey(k)
  \/ \E u \in Users :
       \/ Disconnect(u) \/ ListMyKeys(u)
       \/ \E a \in Accounts : Connect(u, a)
       \/ \E k \in Keys, j \in Jobs : RevokeMyKey(u, k, j) \/ RequestAbandoned(u, k, j)
  \/ \E j \in Jobs :
       Attempt(j) \/ CallFails(j) \/ MarkFails(j) \/ FinishFails(j) \/ DeleteReplyLost(j) \/ Crash(j)

Spec == Init /\ [][Next]_vars

\* River runs every job it holds to its end.
FairSpec == Spec /\ \A j \in Jobs : WF_vars(Attempt(j))

-----------------------------------------------------------------------------
(* Properties.                                                             *)

\* Asked for from an offer since when nobody moved and no crawl found a new
\* name; and the provider reported the scopes.
Promised(j) == j \in kept /\ LinkOf(j).scopes # {}

\* describeAccount "reports whether sshark can actually act on the account,
\* so the UI can explain an unusable connection instead of failing at revoke
\* time" (api/authenticated/v1/keys.go): no attempt of a promised revocation
\* is refused for its owner or its scopes.
OffersAreGood ==
  \A j \in Jobs : Promised(j) => job[j].error \notin {"not_owned", "forbidden"}

\* A revocation that ended without an error has removed its row; and its key
\* has not been at the provider all the time, when the token was that of the
\* account that publishes it and its scopes were reported: a refusal that
\* looks like an absent key is then anticipated.
SuccessIsTruthful ==
  \A j \in Jobs : job[j].step = "over" /\ job[j].error = "" =>
    /\ j \notin held
    /\ \A k \in steady :
         job[j].key = {k} /\ job[j].token.account = {OwnerOf[k]} => job[j].token.scopes = {}

\* Every attempt may have failed.  Or the user asked for the key again, when
\* retries of one request use up attempts of the other: that takes a second
\* mishap, or a request that was made for an earlier row of the key.
MayBeLost(j) ==
  \/ mishaps >= MaxAttempts
  \/ \E i \in Siblings(j) : mishaps >= 2 \/ (mishaps >= 1 /\ i \notin held)

\* A promised revocation is given up, its row still there, only after as many
\* things went wrong as River makes attempts: no attempt is lost to anything
\* that the offer could have told, nor to what earlier attempts left behind.
\* Where the user asked again, because something had gone wrong, it may also
\* give way to a request that goes on; and fewer mishaps may end them all.
OnlyFailuresBreakPromises ==
  \A j \in Jobs : Promised(j) /\ job[j].step = "over" /\ j \in held =>
    MayBeLost(j) \/ (mishaps >= 1 /\ \E i \in Siblings(j) : job[i].step # "over")

\* What was promised happens, whatever fails on the way, unless every attempt
\* may have been lost: a second attempt finds what the first one deleted at the
\* provider gone, and removes the row all the same; and an attempt refused for
\* another request of the same user and key leaves it to that one.
OfferedIsRevoked ==
  \A j \in Jobs : Promised(j) ~> ~Promised(j) \/ j \notin held \/ MayBeLost(j)
=============================================================================
