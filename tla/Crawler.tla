------------------------------- MODULE Crawler -------------------------------
(***************************************************************************)
(* The crawler of one provider (scraper.Service.Run, the command scrape),  *)
(* calling through Fetcher, beside refresh jobs of another process that    *)
(* use up the same quota.  It walks all users by id in batches, saves its  *)
(* cursor after each, and starts over at the end.  It may be told to stop, *)
(* and may die, at any point; a new one resumes from the saved cursor.     *)
(* What processing a user does to the keys is KeySync's.                   *)
(***************************************************************************)
EXTENDS Fetcher, FiniteSets

CONSTANTS
  crawler,     \* the goroutine of Run
  MaxUser,     \* user ids the provider may assign
  FirstUsers,  \* sets of users it may have when the crawler starts
  BatchSize,
  MaxChurn,    \* bound on users who join or leave the provider
  MaxJobs      \* bound on calls made by refresh jobs

ASSUME CrawlerAssumption ==
  /\ crawler \in Callers
  /\ \A c \in Callers \ {crawler} : ProcessOf[c] # ProcessOf[crawler]
  /\ {MaxUser, BatchSize} \subseteq Nat \ {0}
  /\ {MaxChurn, MaxJobs} \subseteq Nat
  /\ FirstUsers \subseteq SUBSET (1..MaxUser)

Users == 1..MaxUser
Nothing == 0  \* the empty cursor, and no user

VARIABLES
  pc,        \* where Run is
  cursor,    \* its cursor
  next,      \* NextCursor of the page in hand
  batch,     \* users of that page still to be processed
  user,      \* the one it is processing
  saved,     \* last_cursor in scrape_progress
  users,     \* users the provider has
  present,   \* those who were there since the walk began or was resumed
  tried,     \* users it has processed since then, its context being alive
  churn, jobs

\* All of Fetcher but at.
othersVars == <<rateVars, answer, result, live, mishaps>>
runVars == <<pc, cursor, next, batch, user, saved>>
worldVars == <<users, churn, jobs>>
walkVars == <<present, tried>>
vars == <<fetchVars, runVars, worldVars, walkVars>>

Ended == {"stopped", "dead"}

TypeOK ==
  /\ FetcherTypeOK
  /\ pc \in {"load", "top", "list", "user", "ssh", "gpg", "save", "pause"} \cup Ended
  /\ {cursor, next, user, saved} \subseteq Users \cup {Nothing}
  /\ user # Nothing <=> pc \in {"ssh", "gpg"}
  /\ batch \subseteq Users
  /\ users \subseteq Users /\ present \subseteq users /\ tried \subseteq Users
  /\ churn \in 0..MaxChurn /\ jobs \in 0..MaxJobs

Init ==
  /\ FetcherInit
  /\ pc = "load" /\ batch = {}
  /\ cursor = Nothing /\ next = Nothing /\ user = Nothing /\ saved = Nothing
  /\ users \in FirstUsers /\ present = users /\ tried = {}
  /\ churn = 0 /\ jobs = 0

Mishap == mishaps < MaxMishaps /\ mishaps' = mishaps + 1

-----------------------------------------------------------------------------
(* Run                                                                     *)

\* History: a walk begins, from wherever the cursor is.
WalkBegins == present' = users /\ tried' = {}

GetProgress ==
  /\ pc = "load" /\ live[crawler]
  /\ cursor' = saved
  /\ pc' = "top"
  /\ WalkBegins
  /\ UNCHANGED <<fetchVars, next, batch, user, saved, worldVars>>

\* "cannot load progress data": Run returns, and with it the command.
GetProgressFails ==
  /\ pc = "load"
  /\ IF live[crawler] THEN Mishap ELSE UNCHANGED mishaps
  /\ pc' = "stopped"
  /\ UNCHANGED <<rateVars, callVars, live, cursor, next, batch, user, saved, worldVars, walkVars>>

\* Slip: the loop does not look at its context.
TopUnchecked ==
  /\ pc = "top"
  /\ Ask(crawler) /\ pc' = "list"
  /\ UNCHANGED <<othersVars, cursor, next, batch, user, saved, worldVars, walkVars>>

Top ==
  /\ pc = "top"
  /\ IF live[crawler] THEN Ask(crawler) /\ pc' = "list"
                      ELSE UNCHANGED at /\ pc' = "stopped"
  /\ UNCHANGED <<othersVars, cursor, next, batch, user, saved, worldVars, walkVars>>

\* The crawler takes the result of its call and goes on.
Takes == at[crawler] = "back" /\ at' = [at EXCEPT ![crawler] = "away"]

\* The provider orders users by id and lists those behind the cursor.
Behind == {u \in users : u > cursor}
Page == {u \in Behind : Cardinality({v \in Behind : v < u}) < BatchSize}

\* Slip: the cursor is the id after the last one listed.
ListUsersOnePast ==
  /\ pc = "list" /\ Takes /\ result[crawler] = "ok" /\ Page # {}
  /\ batch' = Page
  /\ \E last \in Page : /\ \A u \in Page : u <= last
                       /\ next' = last + 1
  /\ pc' = "user"
  /\ UNCHANGED <<othersVars, cursor, user, saved, worldVars, walkVars>>

ListUsers ==
  /\ pc = "list" /\ Takes /\ result[crawler] = "ok" /\ Page # {}
  /\ batch' = Page
  /\ next' \in Page /\ \A u \in Page : u <= next'
  /\ pc' = "user"
  /\ UNCHANGED <<othersVars, cursor, user, saved, worldVars, walkVars>>

\* Slip: the end of the list does not send the cursor back to its beginning.
NoUsersLeftKeepsCursor ==
  /\ pc = "list" /\ Takes /\ result[crawler] = "ok" /\ Page = {}
  /\ pc' = "pause"
  /\ WalkBegins
  /\ UNCHANGED <<othersVars, cursor, next, batch, user, saved, worldVars>>

\* Start over; the reset is not saved.
NoUsersLeft ==
  /\ pc = "list" /\ Takes /\ result[crawler] = "ok" /\ Page = {}
  /\ cursor' = Nothing
  /\ pc' = "pause"
  /\ WalkBegins
  /\ UNCHANGED <<othersVars, next, batch, user, saved, worldVars>>

\* ErrRateLimited or another error: the same page again, after a while.
ListUsersFails ==
  /\ pc = "list" /\ Takes /\ result[crawler] # "ok"
  /\ pc' = "pause"
  /\ UNCHANGED <<othersVars, cursor, next, batch, user, saved, worldVars, walkVars>>

\* The next one of the page.
ProcessUser ==
  /\ pc = "user"
  /\ user' \in batch /\ \A u \in batch : user' <= u
  /\ batch' = batch \ {user'}
  /\ Ask(crawler) /\ pc' = "ssh"
  /\ UNCHANGED <<othersVars, cursor, next, saved, worldVars, walkVars>>

\* processUser returns, and its errors are dropped.  After a cancellation none
\* of its calls and statements succeeds.
UserDone ==
  /\ user' = Nothing
  /\ tried' = IF live[crawler] THEN tried \cup {user} ELSE tried
  /\ pc' = IF batch = {} THEN "save" ELSE "user"

\* Only ErrRateLimited ends it early.
KeysRefused ==
  /\ pc = "ssh" /\ Takes /\ result[crawler] = "rate_limited"
  /\ UserDone
  /\ UNCHANGED <<othersVars, cursor, next, batch, saved, worldVars, present>>

FetchUserGPGKeys ==
  /\ pc = "ssh" /\ at[crawler] = "back" /\ result[crawler] # "rate_limited"
  /\ Ask(crawler) /\ pc' = "gpg"
  /\ UNCHANGED <<othersVars, cursor, next, batch, user, saved, worldVars, walkVars>>

StoreKeys ==
  /\ pc = "gpg" /\ Takes
  /\ UserDone
  /\ UNCHANGED <<othersVars, cursor, next, batch, saved, worldVars, present>>

\* Slip: the cursor is saved under a context that cannot be cancelled.
SaveDetached ==
  /\ pc = "save"
  /\ cursor' = next /\ saved' = next
  /\ pc' = "pause"
  /\ UNCHANGED <<fetchVars, next, batch, user, worldVars, walkVars>>

SaveProgress ==
  /\ pc = "save" /\ live[crawler]
  /\ cursor' = next /\ saved' = next
  /\ pc' = "pause"
  /\ UNCHANGED <<fetchVars, next, batch, user, worldVars, walkVars>>

\* The error is logged, and the walk goes on from the new cursor.
SaveProgressFails ==
  /\ pc = "save"
  /\ IF live[crawler] THEN Mishap ELSE UNCHANGED mishaps
  /\ cursor' = next
  /\ pc' = "pause"
  /\ UNCHANGED <<rateVars, callVars, live, next, batch, user, saved, worldVars, walkVars>>

Sleep ==
  /\ pc = "pause"
  /\ pc' = "top"
  /\ UNCHANGED <<fetchVars, cursor, next, batch, user, saved, worldVars, walkVars>>

Run ==
  \/ GetProgress \/ (~live[crawler] /\ GetProgressFails) \/ Top
  \/ ListUsers \/ NoUsersLeft \/ ListUsersFails
  \/ ProcessUser \/ KeysRefused \/ FetchUserGPGKeys \/ StoreKeys
  \/ SaveProgress \/ (~live[crawler] /\ SaveProgressFails) \/ Sleep

-----------------------------------------------------------------------------
(* The process, the provider's users, and the refresh jobs                 *)

\* SIGINT or SIGTERM.
Signal ==
  /\ pc \notin Ended /\ live[crawler]
  /\ Mishap
  /\ live' = [live EXCEPT ![crawler] = FALSE]
  /\ UNCHANGED <<rateVars, callVars, runVars, worldVars, walkVars>>

Crash ==
  /\ pc \notin Ended
  /\ Mishap
  /\ pc' = "dead" /\ user' = Nothing
  /\ at' = [at EXCEPT ![crawler] = "away"]
  /\ answer' = [answer EXCEPT ![crawler] = NoAnswer]
  /\ UNCHANGED <<rateVars, result, live, cursor, next, batch, saved, worldVars, walkVars>>

\* A new process knows what is in the database.
Restart ==
  /\ pc \in Ended
  /\ pc' = "load" /\ cursor' = Nothing /\ next' = Nothing /\ batch' = {} /\ user' = Nothing
  /\ live' = [live EXCEPT ![crawler] = TRUE]
  /\ left' = [left EXCEPT ![ProcessOf[crawler]] = Quota]
  /\ ahead' = [ahead EXCEPT ![ProcessOf[crawler]] = FALSE]
  /\ result' = [result EXCEPT ![crawler] = "none"]
  /\ UNCHANGED <<quota, at, answer, mishaps, saved, worldVars, walkVars>>

Join(u) ==
  /\ churn < MaxChurn /\ churn' = churn + 1
  /\ u \notin users /\ users' = users \cup {u}
  /\ UNCHANGED <<fetchVars, runVars, walkVars, jobs>>

Leave(u) ==
  /\ churn < MaxChurn /\ churn' = churn + 1
  /\ u \in users /\ users' = users \ {u}
  /\ present' = present \ {u}
  /\ UNCHANGED <<fetchVars, runVars, tried, jobs>>

\* A refresh calls the API: FetchUser, then the two listings of keys.
ScrapeUserCalls(c) ==
  /\ at[c] \in {"away", "back"}
  /\ jobs < MaxJobs /\ jobs' = jobs + 1
  /\ Ask(c)
  /\ UNCHANGED <<othersVars, runVars, users, churn, walkVars>>

Calls(c) == CallStep(c) /\ UNCHANGED <<runVars, worldVars, walkVars>>

World ==
  \/ Signal \/ Crash \/ Restart
  \/ \E u \in Users : Join(u) \/ Leave(u)
  \/ \E c \in Callers \ {crawler} : ScrapeUserCalls(c)
  \/ (live[crawler] /\ (GetProgressFails \/ SaveProgressFails))
  \/ \E c \in Callers : CallFails(c) /\ UNCHANGED <<runVars, worldVars, walkVars>>

Next ==
  \/ Run
  \/ \E c \in Callers : Calls(c)
  \/ WindowEnds /\ UNCHANGED <<runVars, worldVars, walkVars>>
  \/ World

Spec == Init /\ [][Next]_vars

\* The loop and the calls go on, and windows end.  Whether a crawler that has
\* ended is started again is up to its operator.
FairSpec ==
  /\ Spec
  /\ WF_vars(Run)
  /\ \A c \in Callers : WF_vars(Calls(c))
  /\ WF_vars(WindowEnds /\ UNCHANGED <<runVars, worldVars, walkVars>>)

-----------------------------------------------------------------------------
\* The cursor in the database never passes a user who was there all the while
\* and has not been processed, whatever was cancelled, failed or died since:
\* whoever resumes from it leaves nobody out.
NobodyIsPassedBy ==
  [][saved' > saved => {u \in present : saved < u /\ u <= saved'} \subseteq tried]_vars

\* The walk comes to everybody again and again: a crawler that is not stopped
\* gets to every user who does not leave, through errors, an exhausted quota,
\* users who come and go, and an end of the list that is saved nowhere.
Visits(u) == pc \in {"ssh", "gpg"} /\ u = user
EveryoneIsVisited ==
  \A u \in Users :
    (pc \notin Ended /\ u \in users) ~> (Visits(u) \/ pc \in Ended \/ u \notin users)

\* "It will run until the context is cancelled": then it returns, from whatever
\* it was waiting for.
StopsWhenCancelled == ~live[crawler] ~> pc \in Ended
=============================================================================
