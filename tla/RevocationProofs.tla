-------------------------- MODULE RevocationProofs --------------------------
(***************************************************************************)
(* Theorems about Revocation for any users, accounts, keys and jobs.  The  *)
(* argument for OffersAreGood: an offer says that the key's source bears   *)
(* the name Clerk has for the user's account, and whatever could make that *)
(* untrue makes the offer void; so every attempt of a revocation asked for *)
(* from an offer reads the same name and the same credential.  So does     *)
(* every attempt that another request of the same user and key makes since *)
(* then, for the unique index keeps it from running when the offer is      *)
(* taken.  The argument for OnlyFailuresBreakPromises counts: a promised   *)
(* revocation has lost no more attempts than things went wrong, unless     *)
(* retries were refused; and those give way, after the first mishap, to    *)
(* requests that cannot fail before the second.                            *)
(***************************************************************************)
EXTENDS Revocation, TLAPS

Clean(j) == job[j].error = ""

Executing(j) == job[j].step \notin {"unasked", "queued", "over"}

\* The key is not where a token that can see it would have looked.
Gone(j) ==
  \A k \in steady :
    job[j].key = {k} /\ job[j].token.account = {OwnerOf[k]} => job[j].token.scopes = {}

\* The token passed the check of its scopes.
Checked(j) ==
  /\ \A k \in Keys : job[j].key = {k} => Usable(job[j].token.scopes, RequiredScope[TypeOf[k]])
  /\ job[j].token.scopes \in {{}, job[j].token.granted}

\* What the steps of an attempt know, and what is left of it at the end.
JobInv(j) ==
  /\ job[j].step = "unasked" => job[j] = Unasked
  /\ job[j].step # "unasked" => job[j].user # {} /\ job[j].key # {}
  /\ job[j].step = "queued" => job[j].tries < MaxAttempts
  /\ j \in held \cup kept \cup active => job[j].step # "unasked"
  /\ Executing(j) => j \in active
  /\ job[j].step = "queued" /\ Clean(j) => job[j].tries = 0 /\ j \in active
  /\ job[j].step = "list" => Checked(j)
  /\ job[j].step = "local" => Gone(j)
  /\ job[j].step \in {"finish", "over"} /\ Clean(j) => j \notin held /\ Gone(j)

\* What the unique index grants.
AloneInv == \A j \in active : Siblings(j) \cap active = {}

\* Asked for from an offer, or an attempt since a sibling was.
Offered(j) == j \in kept \/ (Executing(j) /\ Siblings(j) \cap kept # {})

\* What an offer of key k to user u says.
Shown(u, k) == link[u] # None /\ source[OwnerOf[k]] = {link[u].login} /\ CanRevoke(u)

KeptInv(j, u, k) ==
  /\ Shown(u, k)
  /\ job[j].step = "account" => job[j].name = {link[u].login}
  /\ job[j].step = "list" => job[j].token = link[u]
  /\ link[u].scopes # {} => job[j].error \notin {"not_owned", "forbidden"}

LinkInv == \A u \in Users : link[u] # None => link[u].scopes \in {{}, link[u].granted}

Inv ==
  /\ TypeOK
  /\ \A j \in Jobs : JobInv(j)
  /\ AloneInv
  /\ LinkInv
  /\ \A u \in Users : \A k \in offer[u] : Shown(u, k)
  /\ \A j \in Jobs, u \in Users, k \in Keys :
       Offered(j) /\ job[j].user = {u} /\ job[j].key = {k} => KeptInv(j, u, k)

LEMMA ScopesAsked == \A type \in {"ssh", "gpg"} : RequiredScope[type] \in RevocationScopes
BY RevocationBounds DEF RequiredScope, RevocationScopes, ScopeFor

LEMMA KeyOfJob ==
  ASSUME NEW j \in Jobs, NEW k \in Keys, job[j].key = {k}
  PROVE  KeyOf(j) = k
BY DEF KeyOf

LEMMA LinkOfJob ==
  ASSUME NEW j \in Jobs, NEW u \in Users, job[j].user = {u}
  PROVE  LinkOf(j) = link[u]
<1>1. (CHOOSE v \in Users : job[j].user = {v}) = u
  OBVIOUS
<1> QED BY <1>1 DEF LinkOf

\* A job that was asked for has one user and one key.
LEMMA JobIsAsked ==
  ASSUME Inv, NEW j \in Jobs, job[j].step # "unasked"
  PROVE  \E u \in Users, k \in Keys : job[j].user = {u} /\ job[j].key = {k}
<1>1. job[j] \in Job
  BY DEF Inv, TypeOK
<1>2. job[j].user # {} /\ job[j].key # {}
  BY DEF Inv, JobInv
<1> QED BY <1>1, <1>2 DEF Job

-----------------------------------------------------------------------------
(* Steps of a job change that job only, and neither its user nor its key.  *)

OnlyJob(j) ==
  /\ job' \in [Jobs -> Job]
  /\ \A i \in Jobs \ {j} : job'[i] = job[i]
  /\ job'[j].user = job[j].user /\ job'[j].key = job[j].key
  /\ job[j].step # "unasked" /\ job'[j].step # "unasked"

JobStep(j) ==
  Attempt(j) \/ CallFails(j) \/ MarkFails(j) \/ FinishFails(j) \/ DeleteReplyLost(j) \/ Crash(j)

LEMMA SiblingsStay ==
  ASSUME NEW j \in Jobs, OnlyJob(j)
  PROVE  \A i \in Jobs : Siblings(i)' = Siblings(i)
<1>1. \A i \in Jobs : job'[i].user = job[i].user /\ job'[i].key = job[i].key
  BY DEF OnlyJob
<1> QED BY <1>1 DEF Siblings

LEMMA GoesOnlyJob ==
  ASSUME Inv, NEW j \in Jobs, NEW from \in Steps \ {"unasked"}, NEW to \in Steps \ {"unasked"},
         Goes(j, from, to)
  PROVE  /\ OnlyJob(j)
         /\ job'[j].step = to /\ job'[j].name = job[j].name
         /\ job'[j].token = job[j].token /\ job'[j].error = job[j].error
         /\ job'[j].tries = job[j].tries
<1>1. job \in [Jobs -> Job]
  BY DEF Inv, TypeOK
<1> QED BY <1>1 DEF Goes, OnlyJob, Job

LEMMA StopsOnlyJob ==
  ASSUME Inv, NEW j \in Jobs, NEW from \in Steps \ {"unasked"}, NEW error \in Errors,
         Stops(j, from, error)
  PROVE  /\ OnlyJob(j)
         /\ job'[j].step = "finish" /\ job'[j].error = error
         /\ job'[j].tries = job[j].tries
<1>1. job \in [Jobs -> Job]
  BY DEF Inv, TypeOK
<1>2. "finish" \in Steps /\ {} \in Names /\ None \in Credentials \cup {None}
  BY DEF Steps, Names
<1>3. [job[j] EXCEPT !.step = "finish", !.name = {}, !.token = None, !.error = error] \in Job
  BY <1>1, <1>2 DEF Job
<1>4. job' = [job EXCEPT ![j] =
                [job[j] EXCEPT !.step = "finish", !.name = {}, !.token = None, !.error = error]]
  BY DEF Stops
<1>5. job[j].step # "unasked" /\ job[j] \in Job
  BY <1>1 DEF Stops
<1>6. job' \in [Jobs -> Job] /\ \A i \in Jobs \ {j} : job'[i] = job[i]
  BY <1>1, <1>3, <1>4
<1>7. job'[j] = [job[j] EXCEPT !.step = "finish", !.name = {}, !.token = None, !.error = error]
  BY <1>1, <1>4
<1>8. /\ job'[j].step = "finish" /\ job'[j].error = error /\ job'[j].tries = job[j].tries
      /\ job'[j].user = job[j].user /\ job'[j].key = job[j].key
  BY <1>5, <1>7 DEF Job
<1> QED BY <1>5, <1>6, <1>8 DEF OnlyJob

\* A job that is queued has an attempt left.
LEMMA AttemptLeft ==
  ASSUME Inv, NEW j \in Jobs, job[j].step = "queued"
  PROVE  job[j].tries + 1 \in 0..MaxAttempts /\ job[j].tries \in Nat
<1>1. job[j].tries \in 0..MaxAttempts /\ job[j].tries < MaxAttempts
  BY DEF Inv, TypeOK, JobInv, Job
<1> QED BY <1>1, RevocationBounds

LEMMA MarkOnlyJob ==
  ASSUME Inv, NEW j \in Jobs, MarkRunning(j)
  PROVE  OnlyJob(j) /\ job'[j].step = "get" /\ job'[j].error = "" /\ job'[j].tries = job[j].tries + 1
<1>1. job \in [Jobs -> Job]
  BY DEF Inv, TypeOK
<1>2. job[j].tries + 1 \in 0..MaxAttempts
  BY AttemptLeft DEF MarkRunning
<1>3. "get" \in Steps /\ "" \in Errors
  BY DEF Steps, Errors
<1> QED BY <1>1, <1>2, <1>3 DEF MarkRunning, OnlyJob, Job

LEMMA NotMarkedOnlyJob ==
  ASSUME Inv, NEW j \in Jobs, NEW error \in Errors, NotMarked(j, error)
  PROVE  /\ OnlyJob(j) /\ job'[j].step \in {"queued", "over"} /\ job'[j].error = error
         /\ job'[j].step = "queued" => job'[j].tries < MaxAttempts
         /\ job'[j].step = "over" => job'[j].tries = MaxAttempts
         /\ job'[j].tries = job[j].tries + 1
<1>1. job \in [Jobs -> Job]
  BY DEF Inv, TypeOK
<1>2. job[j].tries + 1 \in 0..MaxAttempts
  BY AttemptLeft DEF NotMarked
<1>3. "queued" \in Steps /\ "over" \in Steps
  BY DEF Steps
<1>4. /\ OnlyJob(j) /\ job'[j].tries = job[j].tries + 1 /\ job'[j].error = error
      /\ job'[j].step = IF job[j].tries + 1 < MaxAttempts THEN "queued" ELSE "over"
  BY <1>1, <1>2, <1>3 DEF NotMarked, OnlyJob, Job
<1> QED BY <1>2, <1>4, RevocationBounds

LEMMA AccountOnlyJob ==
  ASSUME Inv, NEW j \in Jobs, job[j].step = "account",
         job' = [job EXCEPT ![j].step = "token", ![j].name = {}]
  PROVE  OnlyJob(j) /\ job'[j].step = "token" /\ job'[j].error = job[j].error
         /\ job'[j].tries = job[j].tries
<1>1. job \in [Jobs -> Job]
  BY DEF Inv, TypeOK
<1>2. "token" \in Steps /\ {} \in Names
  BY DEF Steps, Names
<1> QED BY <1>1, <1>2 DEF OnlyJob, Job

LEMMA ReadsOnlyJob ==
  ASSUME Inv, NEW j \in Jobs, GetSource(j)
  PROVE  /\ OnlyJob(j)
         /\ job'[j].step = "account" /\ job'[j].error = job[j].error
         /\ job'[j].tries = job[j].tries
         /\ \A k \in Keys : job[j].key = {k} => job'[j].name = source[OwnerOf[k]]
<1>1. job \in [Jobs -> Job] /\ job[j].step = "source"
  BY DEF Inv, TypeOK, GetSource
<1>2. PICK k \in Keys : job[j].key = {k}
  BY <1>1, JobIsAsked
<1>3. KeyOf(j) = k
  BY <1>2, KeyOfJob
<1>4. source[OwnerOf[k]] \in Names
  BY RevocationBounds DEF Inv, TypeOK
<1>5. "account" \in Steps
  BY DEF Steps
<1>6. job' = [job EXCEPT ![j].step = "account", ![j].name = source[OwnerOf[k]]]
  BY <1>3 DEF GetSource
<1> QED BY <1>1, <1>2, <1>4, <1>5, <1>6 DEF OnlyJob, Job

LEMMA TokenOnlyJob ==
  ASSUME Inv, NEW j \in Jobs, Token(j)
  PROVE  /\ OnlyJob(j) /\ job'[j].tries = job[j].tries
         /\ \/ /\ job'[j].step = "finish"
               /\ \/ job'[j].error = "not_owned" /\ LinkOf(j) = None
                  \/ /\ job'[j].error = "forbidden"
                     /\ ~Usable(LinkOf(j).scopes, RequiredScope[TypeOf[KeyOf(j)]])
            \/ /\ job'[j].step = "list" /\ job'[j].error = job[j].error
               /\ job'[j].token = LinkOf(j) /\ LinkOf(j) # None
               /\ Usable(LinkOf(j).scopes, RequiredScope[TypeOf[KeyOf(j)]])
<1>1. job \in [Jobs -> Job] /\ job[j].step = "token"
  BY DEF Inv, TypeOK, Token
<1>2. PICK u \in Users : job[j].user = {u}
  BY <1>1, JobIsAsked
<1>3. LinkOf(j) \in Credentials \cup {None}
  BY <1>2, LinkOfJob DEF Inv, TypeOK
<1>4. "token" \in Steps /\ "list" \in Steps /\ "not_owned" \in Errors /\ "forbidden" \in Errors
  BY DEF Steps, Errors
<1>5. CASE Stops(j, "token", "not_owned") /\ LinkOf(j) = None
  BY <1>4, <1>5, StopsOnlyJob
<1>6. CASE /\ Stops(j, "token", "forbidden")
           /\ ~Usable(LinkOf(j).scopes, RequiredScope[TypeOf[KeyOf(j)]])
  BY <1>4, <1>6, StopsOnlyJob
<1>7. CASE /\ job' = [job EXCEPT ![j].step = "list", ![j].token = LinkOf(j)]
           /\ LinkOf(j) # None /\ Usable(LinkOf(j).scopes, RequiredScope[TypeOf[KeyOf(j)]])
  BY <1>1, <1>3, <1>4, <1>7 DEF OnlyJob, Job
<1> QED BY <1>5, <1>6, <1>7 DEF Token

LEMMA CrashOnlyJob ==
  ASSUME Inv, NEW j \in Jobs, Crash(j)
  PROVE  /\ OnlyJob(j) /\ job'[j].step \in {"queued", "over"} /\ job'[j].error = "error"
         /\ job'[j].step = "queued" => job'[j].tries < MaxAttempts
         /\ job'[j].step = "over" => job'[j].tries = MaxAttempts
         /\ job'[j].tries = job[j].tries
<1>1. job \in [Jobs -> Job]
  BY DEF Inv, TypeOK
<1>2. /\ "queued" \in Steps /\ "over" \in Steps /\ "error" \in Errors
      /\ {} \in Names /\ None \in Credentials \cup {None}
  BY DEF Steps, Errors, Names
<1>3. /\ OnlyJob(j) /\ job'[j].tries = job[j].tries
      /\ job'[j].step = IF job[j].tries < MaxAttempts THEN "queued" ELSE "over"
      /\ job'[j].error = "error"
  <2> DEFINE step == IF job[j].tries < MaxAttempts THEN "queued" ELSE "over"
             now == [job[j] EXCEPT !.step = step, !.name = {}, !.token = None, !.error = "error"]
  <2>1. job' = [job EXCEPT ![j] = now]
    BY DEF Crash
  <2>2. job[j].step # "unasked" /\ job[j] \in Job /\ step \in {"queued", "over"}
    BY <1>1 DEF Crash
  <2> HIDE DEF step
  <2>3. now \in Job
    BY <1>2, <2>2 DEF Job
  <2>4. /\ now.step = step /\ now.error = "error" /\ now.tries = job[j].tries
        /\ now.user = job[j].user /\ now.key = job[j].key
    BY <2>2 DEF Job
  <2> HIDE DEF now
  <2>5. job' \in [Jobs -> Job] /\ job'[j] = now /\ \A i \in Jobs \ {j} : job'[i] = job[i]
    BY <1>1, <2>1, <2>3
  <2> QED BY <2>2, <2>4, <2>5 DEF OnlyJob, step
<1>4. job[j].tries \in 0..MaxAttempts
  BY <1>1 DEF Job
<1> QED BY <1>3, <1>4, RevocationBounds

LEMMA ReturnsOnlyJob ==
  ASSUME Inv, NEW j \in Jobs, Returns(j)
  PROVE  /\ OnlyJob(j) /\ job'[j].step \in {"queued", "over"}
         /\ job'[j].step = "queued" => job'[j].tries < MaxAttempts
         /\ job'[j].step = "over" /\ ~Clean(j)' => job'[j].tries = MaxAttempts
         /\ job'[j].step = "queued" => ~Clean(j)'
         /\ job'[j].tries = job[j].tries
         /\ job'[j].token = job[j].token /\ job'[j].error = job[j].error
<1>1. job \in [Jobs -> Job]
  BY DEF Inv, TypeOK
<1>2. "queued" \in Steps /\ "over" \in Steps
  BY DEF Steps
<1>3. /\ OnlyJob(j) /\ job'[j].tries = job[j].tries
      /\ job'[j].step = IF ~Clean(j) /\ job[j].tries < MaxAttempts THEN "queued" ELSE "over"
      /\ job'[j].token = job[j].token /\ job'[j].error = job[j].error
  BY <1>1, <1>2 DEF Returns, Goes, OnlyJob, Job, Clean
<1>3a. Clean(j)' <=> Clean(j)
  BY <1>3 DEF Clean
<1>4. job[j].tries \in 0..MaxAttempts
  BY <1>1 DEF Job
<1> QED BY <1>3, <1>3a, <1>4, RevocationBounds

-----------------------------------------------------------------------------
(* What is left to show for a step of a job.                               *)

Frame(j) ==
  /\ UNCHANGED <<login, link, source, offer, kept, moves>>
  /\ published' \subseteq published /\ steady' \subseteq steady /\ steady' \subseteq published'
  /\ rows' \subseteq rows /\ held' \subseteq held
  /\ \A i \in held' : job[i].key \subseteq rows'
  /\ active' \subseteq Jobs /\ \A i \in Jobs \ {j} : i \in active' <=> i \in active
  /\ j \in active' => j \in active \/ Siblings(j) \cap active = {}
  /\ mishaps' \in 0..MaxMishaps

KeepsPromise(j) ==
  \A u \in Users, k \in Keys :
    Offered(j)' /\ job[j].user = {u} /\ job[j].key = {k} => KeptInv(j, u, k)'

LEMMA JobStepKeepsInv ==
  ASSUME Inv, NEW j \in Jobs, OnlyJob(j), Frame(j), JobInv(j)', KeepsPromise(j)
  PROVE  Inv'
<1>1. TypeOK'
  BY DEF Inv, TypeOK, OnlyJob, Frame
<1>2. ASSUME NEW i \in Jobs PROVE JobInv(i)'
  <2>1. CASE i = j
    BY <2>1
  <2>2. CASE i # j
    <3>1. JobInv(i) /\ job'[i] = job[i]
      BY <2>2 DEF Inv, OnlyJob
    <3>2. (i \in active' <=> i \in active) /\ (i \in held' => i \in held) /\ kept' = kept
      BY <2>2 DEF Frame
    <3>3. (Clean(i)' <=> Clean(i)) /\ (Executing(i)' <=> Executing(i)) /\ (Checked(i)' <=> Checked(i))
      BY <3>1 DEF Clean, Executing, Checked
    <3>4. Gone(i) => Gone(i)'
      BY <3>1 DEF Gone, Frame
    <3> QED BY <3>1, <3>2, <3>3, <3>4 DEF JobInv
  <2> QED BY <2>1, <2>2
<1>3. LinkInv'
  BY DEF Inv, LinkInv, Frame
<1>4. ASSUME NEW u \in Users, NEW k \in offer'[u] PROVE Shown(u, k)'
  BY <1>4 DEF Inv, Shown, CanRevoke, Frame
<1>5. ASSUME NEW i \in Jobs, NEW u \in Users, NEW k \in Keys, Offered(i)',
             job'[i].user = {u}, job'[i].key = {k}
      PROVE  KeptInv(i, u, k)'
  <2>1. CASE i = j
    BY <1>5, <2>1 DEF KeepsPromise, OnlyJob
  <2>2. CASE i # j
    <3>1. job'[i] = job[i]
      BY <2>2 DEF OnlyJob
    <3>2. Offered(i)
      BY <1>5, <3>1, SiblingsStay DEF Offered, Executing, Frame
    <3>3. KeptInv(i, u, k)
      BY <1>5, <3>1, <3>2 DEF Inv
    <3> QED BY <3>1, <3>3 DEF KeptInv, Shown, CanRevoke, Frame
  <2> QED BY <2>1, <2>2
<1>6. AloneInv'
  <2> SUFFICES ASSUME NEW i \in active', NEW l \in Siblings(i)', l \in active' PROVE FALSE
    BY DEF AloneInv
  <2>1. i \in Jobs /\ l \in Siblings(i) /\ l \in Jobs /\ i # l /\ i \in Siblings(l)
    BY SiblingsStay DEF Frame, Siblings
  <2>2. CASE i # j /\ l # j
    BY <2>1, <2>2 DEF Inv, AloneInv, Frame
  <2>3. CASE i = j
    BY <2>1, <2>3 DEF Inv, AloneInv, Frame
  <2>4. CASE l = j
    BY <2>1, <2>4 DEF Inv, AloneInv, Frame
  <2> QED BY <2>2, <2>3, <2>4
<1> QED BY <1>1, <1>2, <1>3, <1>4, <1>5, <1>6 DEF Inv

\* An attempt is offered after a step only if it was before.
LEMMA OfferedBefore ==
  ASSUME NEW j \in Jobs, OnlyJob(j), Frame(j), Executing(j) \/ ~Executing(j)', Offered(j)'
  PROVE  Offered(j)
BY SiblingsStay DEF Offered, Frame

\* A promised job knows what its offer said.
LEMMA KeptJob ==
  ASSUME Inv, NEW j \in Jobs, NEW u \in Users, NEW k \in Keys,
         Offered(j), job[j].user = {u}, job[j].key = {k}
  PROVE  KeptInv(j, u, k) /\ LinkOf(j) = link[u] /\ KeyOf(j) = k /\ link[u] \in Credentials
<1>1. KeptInv(j, u, k)
  BY DEF Inv
<1>2. link[u] \in Credentials
  BY <1>1 DEF KeptInv, Shown, Inv, TypeOK
<1> QED BY <1>1, <1>2, LinkOfJob, KeyOfJob

LEMMA SameFrame == ASSUME Inv, NEW j \in Jobs, Same PROVE Frame(j)
BY DEF Same, world, Frame, Inv, TypeOK

LEMMA MishapFrame ==
  ASSUME Inv, NEW j \in Jobs, Mishap, UNCHANGED <<world, rows, active, held>> PROVE Frame(j)
<1>1. mishaps' \in 0..MaxMishaps
  BY RevocationBounds DEF Mishap, Inv, TypeOK
<1> QED BY <1>1 DEF world, Frame, Inv, TypeOK

\* What a step that goes on leaves of the promise.
LEMMA GoesOnKeepsPromise ==
  ASSUME Inv, NEW j \in Jobs, OnlyJob(j), Frame(j), Executing(j) \/ ~Executing(j)',
         job'[j].step \notin {"account", "list"}, job'[j].error = job[j].error
  PROVE  KeepsPromise(j)
<1> SUFFICES ASSUME NEW u \in Users, NEW k \in Keys, Offered(j)',
                    job[j].user = {u}, job[j].key = {k}
             PROVE  KeptInv(j, u, k)'
  BY DEF KeepsPromise
<1>1. KeptInv(j, u, k)
  BY OfferedBefore, KeptJob
<1> QED BY <1>1 DEF KeptInv, Shown, CanRevoke, Frame

\* A step that leaves the error alone and goes to neither of the steps that
\* mean something.
LEMMA PlainStep ==
  ASSUME Inv, NEW j \in Jobs, OnlyJob(j), Frame(j), Executing(j), j \in active',
         job'[j].step \notin {"queued", "account", "list", "local", "finish", "over"},
         job'[j].error = job[j].error
  PROVE  Inv'
<1>1. JobInv(j)'
  <2>1. job'[j].user # {} /\ job'[j].key # {}
    BY DEF Inv, JobInv, OnlyJob
  <2> QED BY <2>1 DEF JobInv, OnlyJob
<1> QED BY <1>1, GoesOnKeepsPromise, JobStepKeepsInv

\* A step that stops the attempt with an error other than a broken promise.
LEMMA StoppingStep ==
  ASSUME Inv, NEW j \in Jobs, OnlyJob(j), Frame(j),
         job'[j].step \in {"queued", "finish", "over"},
         job'[j].step = "queued" => job'[j].tries < MaxAttempts,
         job'[j].step = "finish" => Executing(j) /\ active' = active,
         job'[j].error # "",
         Offered(j) => job'[j].error \in {job[j].error, "error", "busy", "key_not_found"}
                       \/ \A u \in Users : job[j].user = {u} => link[u].scopes = {}
  PROVE  Inv'
<1>1. JobInv(j)'
  <2>1. job'[j].user # {} /\ job'[j].key # {} /\ job'[j].step # "unasked" /\ ~Clean(j)'
    BY DEF Inv, JobInv, OnlyJob, Clean
  <2>2. Executing(j)' => j \in active'
    BY DEF Executing, Inv, JobInv
  <2> QED BY <2>1, <2>2 DEF JobInv
<1>2. Executing(j) \/ ~Executing(j)'
  BY DEF Executing
<1>3. KeepsPromise(j)
  <2> SUFFICES ASSUME NEW u \in Users, NEW k \in Keys, Offered(j)',
                      job[j].user = {u}, job[j].key = {k}
               PROVE  KeptInv(j, u, k)'
    BY DEF KeepsPromise
  <2>1. KeptInv(j, u, k) /\ Offered(j)
    BY <1>2, OfferedBefore, KeptJob
  <2> QED BY <2>1 DEF KeptInv, Shown, CanRevoke, Frame
<1> QED BY <1>1, <1>3, JobStepKeepsInv

-----------------------------------------------------------------------------
(* The steps of an attempt.                                                *)

\* An attempt begins: what the offer of a sibling said is still so.
LEMMA MarkRunningKeepsInv == ASSUME Inv, NEW j \in Jobs, MarkRunning(j) PROVE Inv'
<1>1. Frame(j)
  BY DEF MarkRunning, world, Frame, Inv, TypeOK
<1>2. OnlyJob(j) /\ job'[j].step = "get" /\ job'[j].error = ""
  BY MarkOnlyJob
<1>3. JobInv(j)'
  <2>1. job'[j].user # {} /\ job'[j].key # {}
    BY <1>2 DEF Inv, JobInv, OnlyJob
  <2>2. j \in active'
    BY DEF MarkRunning
  <2> QED BY <1>2, <2>1, <2>2 DEF JobInv, Executing
<1>4. KeepsPromise(j)
  <2> SUFFICES ASSUME NEW u \in Users, NEW k \in Keys, Offered(j)',
                      job[j].user = {u}, job[j].key = {k}
               PROVE  KeptInv(j, u, k)'
    BY DEF KeepsPromise
  <2>1. PICK i \in Jobs : i \in kept /\ job[i].user = {u} /\ job[i].key = {k}
    <3>1. Offered(j) \/ Siblings(j) \cap kept # {}
      BY <1>1, <1>2, SiblingsStay DEF Offered, Frame
    <3>2. j \in kept \/ \E i \in Siblings(j) : i \in kept
      BY <3>1 DEF Offered
    <3> QED BY <3>2 DEF Siblings
  <2>2. Shown(u, k)
    BY <2>1 DEF Inv, Offered, KeptInv
  <2> QED BY <1>1, <1>2, <2>2 DEF KeptInv, Shown, CanRevoke, Frame
<1> QED BY <1>1, <1>2, <1>3, <1>4, JobStepKeepsInv

LEMMA MarkRefusedKeepsInv == ASSUME Inv, NEW j \in Jobs, MarkRefused(j) PROVE Inv'
<1>1. Frame(j)
  BY SameFrame DEF MarkRefused
<1>2. /\ OnlyJob(j) /\ job'[j].step \in {"queued", "over"} /\ job'[j].error = "busy"
      /\ job'[j].step = "queued" => job'[j].tries < MaxAttempts
  BY NotMarkedOnlyJob DEF MarkRefused, Errors
<1> QED BY <1>1, <1>2, StoppingStep

LEMMA GetKeyKeepsInv == ASSUME Inv, NEW j \in Jobs, GetKey(j) PROVE Inv'
<1>1. Frame(j) /\ active' = active /\ Executing(j)
  BY SameFrame DEF GetKey, Same, Goes, Stops, Executing
<1>2. CASE Goes(j, "get", "source")
  <2>1. OnlyJob(j) /\ job'[j].step = "source" /\ job'[j].error = job[j].error
    BY <1>2, GoesOnlyJob DEF Steps
  <2>2. j \in active'
    BY <1>1 DEF Inv, JobInv
  <2> QED BY <1>1, <2>1, <2>2, PlainStep
<1>3. CASE Stops(j, "get", "key_not_found")
  <2>1. OnlyJob(j) /\ job'[j].step = "finish" /\ job'[j].error = "key_not_found"
    BY <1>3, StopsOnlyJob DEF Steps, Errors
  <2> QED BY <1>1, <2>1, StoppingStep
<1> QED BY <1>2, <1>3 DEF GetKey

LEMMA GetSourceKeepsInv == ASSUME Inv, NEW j \in Jobs, GetSource(j) PROVE Inv'
<1>1. /\ Frame(j) /\ OnlyJob(j) /\ job'[j].step = "account" /\ job'[j].error = job[j].error
      /\ active' = active /\ Executing(j)
  BY SameFrame, ReadsOnlyJob DEF GetSource, Same, Executing
<1>2. JobInv(j)'
  <2>1. job'[j].user # {} /\ job'[j].key # {} /\ j \in active'
    BY <1>1 DEF Inv, JobInv, OnlyJob
  <2> QED BY <1>1, <2>1 DEF JobInv
<1>3. KeepsPromise(j)
  <2> SUFFICES ASSUME NEW u \in Users, NEW k \in Keys, Offered(j)',
                      job[j].user = {u}, job[j].key = {k}
               PROVE  KeptInv(j, u, k)'
    BY DEF KeepsPromise
  <2>1. KeptInv(j, u, k)
    BY <1>1, OfferedBefore, KeptJob
  <2>2. job'[j].name = source[OwnerOf[k]]
    BY ReadsOnlyJob
  <2> QED BY <1>1, <2>1, <2>2 DEF KeptInv, Shown, CanRevoke, Frame
<1> QED BY <1>1, <1>2, <1>3, JobStepKeepsInv

LEMMA AccountKeepsInv == ASSUME Inv, NEW j \in Jobs, Account(j) PROVE Inv'
<1>1. Frame(j) /\ active' = active /\ job[j].step = "account" /\ Executing(j)
  BY SameFrame DEF Account, Same, Executing
<1>2. CASE job' = [job EXCEPT ![j].step = "token", ![j].name = {}]
  <2>1. OnlyJob(j) /\ job'[j].step = "token" /\ job'[j].error = job[j].error
    BY <1>1, <1>2, AccountOnlyJob
  <2>2. j \in active'
    BY <1>1 DEF Inv, JobInv
  <2> QED BY <1>1, <2>1, <2>2, PlainStep
<1>3. CASE /\ Stops(j, "account", "not_owned")
           /\ ~(LinkOf(j) # None /\ job[j].name = {LinkOf(j).login})
  <2>1. OnlyJob(j) /\ job'[j].step = "finish" /\ job'[j].error = "not_owned"
    BY <1>3, StopsOnlyJob DEF Steps, Errors
  <2>2. ~Offered(j)
    <3> SUFFICES ASSUME Offered(j) PROVE FALSE
      OBVIOUS
    <3>1. PICK u \in Users, k \in Keys : job[j].user = {u} /\ job[j].key = {k}
      BY <1>1, JobIsAsked
    <3>2. KeptInv(j, u, k) /\ LinkOf(j) = link[u]
      BY <3>1, KeptJob
    <3> QED BY <1>1, <1>3, <3>2 DEF KeptInv, Shown
  <2> QED BY <1>1, <2>1, <2>2, StoppingStep
<1> QED BY <1>2, <1>3 DEF Account

LEMMA TokenKeepsInv == ASSUME Inv, NEW j \in Jobs, Token(j) PROVE Inv'
<1>1. /\ Frame(j) /\ OnlyJob(j) /\ job[j].step = "token"
      /\ active' = active /\ Executing(j) /\ j \in active'
  <2>1. Frame(j) /\ OnlyJob(j) /\ job[j].step = "token" /\ active' = active
    BY SameFrame, TokenOnlyJob DEF Token, Same
  <2> QED BY <2>1 DEF Executing, Inv, JobInv
<1>2. PICK u \in Users, k \in Keys : job[j].user = {u} /\ job[j].key = {k}
  BY <1>1, JobIsAsked
<1>3. LinkOf(j) = link[u] /\ KeyOf(j) = k
  BY <1>2, LinkOfJob, KeyOfJob
<1>4. CASE job'[j].step = "finish" /\ job'[j].error \in {"not_owned", "forbidden"}
  <2>1. ~Offered(j)
    <3> SUFFICES ASSUME Offered(j) PROVE FALSE
      OBVIOUS
    <3>1. KeptInv(j, u, k)
      BY <1>2, KeptJob
    <3>2. RequiredScope[TypeOf[k]] \in RevocationScopes
      BY ScopesAsked, RevocationBounds
    <3>3. link[u] # None /\ Usable(link[u].scopes, RequiredScope[TypeOf[k]])
      BY <3>1, <3>2 DEF KeptInv, Shown, CanRevoke
    <3> QED BY <1>3, <1>4, <3>3, TokenOnlyJob
  <2> QED BY <1>1, <1>4, <2>1, StoppingStep
<1>5. CASE /\ job'[j].step = "list" /\ job'[j].error = job[j].error /\ job'[j].token = link[u]
           /\ link[u] # None /\ Usable(link[u].scopes, RequiredScope[TypeOf[k]])
  <2>1. JobInv(j)'
    <3>1. job'[j].user # {} /\ job'[j].key # {}
      BY <1>1 DEF Inv, JobInv, OnlyJob
    <3>2. Checked(j)'
      <4>1. \A l \in Keys : job'[j].key = {l} => l = k
        BY <1>1, <1>2 DEF OnlyJob
      <4>2. link[u].scopes \in {{}, link[u].granted}
        BY <1>5 DEF Inv, LinkInv
      <4> QED BY <1>5, <4>1, <4>2 DEF Checked
    <3> QED BY <1>1, <1>5, <3>1, <3>2 DEF JobInv
  <2>2. KeepsPromise(j)
    <3> SUFFICES ASSUME NEW v \in Users, NEW l \in Keys, Offered(j)',
                        job[j].user = {v}, job[j].key = {l}
                 PROVE  KeptInv(j, v, l)'
      BY DEF KeepsPromise
    <3>1. KeptInv(j, v, l) /\ u = v
      BY <1>1, <1>2, OfferedBefore, KeptJob
    <3> QED BY <1>1, <1>5, <3>1 DEF KeptInv, Shown, CanRevoke, Frame
  <2> QED BY <1>1, <2>1, <2>2, JobStepKeepsInv
<1> QED BY <1>3, <1>4, <1>5, TokenOnlyJob

\* A key that counts as gone is gone from the token's account, or the token
\* was refused in spite of the check of its scopes.
LEMMA ResolveKeepsInv == ASSUME Inv, NEW j \in Jobs, resolveProviderKeyID(j) PROVE Inv'
<1>1. /\ Frame(j) /\ job[j].step = "list"
      /\ active' = active /\ Executing(j) /\ j \in active'
  <2>1. Frame(j) /\ job[j].step = "list" /\ active' = active
    BY SameFrame DEF resolveProviderKeyID, Same
  <2> QED BY <2>1 DEF Executing, Inv, JobInv
<1>2. PICK u \in Users, k \in Keys : job[j].user = {u} /\ job[j].key = {k}
  BY <1>1, JobIsAsked
<1>3. KeyOf(j) = k
  BY <1>2, KeyOfJob
<1>4. CASE Goes(j, "list", "delete")
  <2>1. OnlyJob(j) /\ job'[j].step = "delete" /\ job'[j].error = job[j].error
    BY <1>4, GoesOnlyJob DEF Steps
  <2> QED BY <1>1, <2>1, PlainStep
<1>5. CASE ~(Granted(j) /\ Listed(j)) /\ Goes(j, "list", "local")
  <2>1. /\ OnlyJob(j) /\ job'[j].step = "local"
        /\ job'[j].token = job[j].token /\ job'[j].error = job[j].error
    BY <1>5, GoesOnlyJob DEF Steps
  <2>2. Gone(j)'
    <3>1. CASE ~Listed(j)
      <4>1. k \notin steady \/ job[j].token.account # {OwnerOf[k]}
        BY <1>3, <3>1 DEF Listed, Inv, TypeOK
      <4> QED BY <1>1, <1>2, <2>1, <4>1 DEF Gone, Frame, OnlyJob
    <3>2. CASE ~Granted(j)
      <4>1. Checked(j)
        BY <1>1 DEF Inv, JobInv
      <4>2. job[j].token.scopes = {}
        BY <1>2, <1>3, <3>2, <4>1 DEF Checked, Granted, Usable
      <4> QED BY <2>1, <4>2 DEF Gone
    <3> QED BY <1>5, <3>1, <3>2
  <2>3. JobInv(j)'
    <3>1. job'[j].user # {} /\ job'[j].key # {}
      BY <2>1 DEF Inv, JobInv, OnlyJob
    <3> QED BY <1>1, <2>1, <2>2, <3>1 DEF JobInv
  <2> QED BY <1>1, <2>1, <2>3, GoesOnKeepsPromise, JobStepKeepsInv
<1>6. CASE ~Granted(j) /\ Stops(j, "list", "forbidden")
  <2>1. OnlyJob(j) /\ job'[j].step = "finish" /\ job'[j].error = "forbidden"
    BY <1>6, StopsOnlyJob DEF Steps, Errors
  <2>2. ASSUME Offered(j), NEW v \in Users, job[j].user = {v} PROVE link[v].scopes = {}
    <3>1. KeptInv(j, v, k)
      BY <1>2, <2>2, KeptJob
    <3>2. job[j].token = link[v]
      BY <1>1, <3>1 DEF KeptInv
    <3>3. Checked(j)
      BY <1>1 DEF Inv, JobInv
    <3> QED BY <1>2, <1>3, <1>6, <3>2, <3>3 DEF Checked, Granted, Usable
  <2> QED BY <1>1, <2>1, <2>2, StoppingStep
<1> QED BY <1>4, <1>5, <1>6 DEF resolveProviderKeyID

\* The key leaves the provider and is steady no more.
LEMMA DeletedFrame ==
  ASSUME NEW S, Inv, NEW j \in Jobs, published' = published \ S, steady' = steady \ S,
         UNCHANGED <<login, link, source, rows, offer, active, held, kept, moves>>,
         mishaps' \in 0..MaxMishaps
  PROVE  Frame(j)
BY DEF Frame, Inv, TypeOK

LEMMA DeleteKeyKeepsInv == ASSUME Inv, NEW j \in Jobs, DeleteKey(j) PROVE Inv'
<1>1. Frame(j)
  <2>1. mishaps' \in 0..MaxMishaps
    BY DEF DeleteKey, Inv, TypeOK
  <2> QED BY <2>1, DeletedFrame DEF DeleteKey
<1>2. /\ OnlyJob(j) /\ job'[j].step = "local"
      /\ job'[j].token = job[j].token /\ job'[j].error = job[j].error
  <2>1. Goes(j, "delete", "local")
    BY DEF DeleteKey
  <2> QED BY <2>1, GoesOnlyJob DEF Steps
<1>3. Gone(j)'
  BY <1>2 DEF Gone, DeleteKey, OnlyJob
<1>4. Executing(j) /\ j \in active'
  BY DEF DeleteKey, Goes, Executing, Inv, JobInv
<1>5. JobInv(j)'
  <2>1. job'[j].user # {} /\ job'[j].key # {}
    BY <1>2 DEF Inv, JobInv, OnlyJob
  <2> QED BY <1>2, <1>3, <1>4, <2>1 DEF JobInv
<1> QED BY <1>1, <1>2, <1>4, <1>5, GoesOnKeepsPromise, JobStepKeepsInv

LEMMA DeleteLocalKeepsInv == ASSUME Inv, NEW j \in Jobs, DeleteLocal(j) PROVE Inv'
<1>1. Frame(j)
  BY DEF DeleteLocal, world, Frame, Inv, TypeOK
<1>2. /\ OnlyJob(j) /\ job'[j].step = "finish"
      /\ job'[j].token = job[j].token /\ job'[j].error = job[j].error
  <2>1. Goes(j, "local", "finish")
    BY DEF DeleteLocal
  <2> QED BY <2>1, GoesOnlyJob DEF Steps
<1>3. PICK u \in Users, k \in Keys : job[j].user = {u} /\ job[j].key = {k}
  BY <1>2, JobIsAsked DEF OnlyJob
<1>4. j \notin held'
  BY <1>3 DEF DeleteLocal
<1>5. Gone(j)'
  <2>1. Gone(j)
    BY DEF Inv, JobInv, DeleteLocal, Goes
  <2> QED BY <1>1, <1>2, <2>1 DEF Gone, Frame, OnlyJob
<1>6. Executing(j) /\ j \in active'
  BY DEF DeleteLocal, Goes, Executing, Inv, JobInv
<1>7. JobInv(j)'
  <2>1. job'[j].user # {} /\ job'[j].key # {}
    BY <1>2 DEF Inv, JobInv, OnlyJob
  <2> QED BY <1>2, <1>4, <1>5, <1>6, <2>1 DEF JobInv
<1> QED BY <1>1, <1>2, <1>6, <1>7, GoesOnKeepsPromise, JobStepKeepsInv

\* Whether or not the task is settled.
LEMMA ReturnsKeepsInv == ASSUME Inv, NEW j \in Jobs, Returns(j), Frame(j) PROVE Inv'
<1>1. /\ OnlyJob(j) /\ job'[j].step \in {"queued", "over"}
      /\ job'[j].step = "queued" => job'[j].tries < MaxAttempts
      /\ job'[j].step = "queued" => ~Clean(j)'
      /\ job'[j].token = job[j].token /\ job'[j].error = job[j].error
  BY ReturnsOnlyJob
<1>2. JobInv(j)'
  <2>1. job'[j].user # {} /\ job'[j].key # {} /\ job'[j].step # "unasked"
    BY <1>1 DEF Inv, JobInv, OnlyJob
  <2>2. Clean(j)' => j \notin held' /\ Gone(j)'
    <3>1. JobInv(j) /\ job[j].step = "finish"
      BY DEF Inv, Returns, Goes
    <3>2. Clean(j)' => Clean(j)
      BY <1>1 DEF Clean
    <3> QED BY <1>1, <3>1, <3>2 DEF JobInv, Gone, Frame, OnlyJob
  <2>3. ~Executing(j)'
    BY <1>1 DEF Executing
  <2> QED BY <1>1, <2>1, <2>2, <2>3 DEF JobInv
<1>3. Executing(j)
  BY DEF Returns, Goes, Executing
<1> QED BY <1>1, <1>2, <1>3, GoesOnKeepsPromise, JobStepKeepsInv

LEMMA FinishKeepsInv == ASSUME Inv, NEW j \in Jobs, Finish(j) PROVE Inv'
<1>1. Frame(j)
  BY DEF Finish, world, Frame, Inv, TypeOK
<1> QED BY <1>1, ReturnsKeepsInv DEF Finish

\* The task of an attempt that was not marked may be marked all the same.
LEMMA MarkFailsOnlyJob ==
  ASSUME Inv, NEW j \in Jobs, MarkFails(j)
  PROVE  Frame(j) /\ NotMarked(j, "error") /\ mishaps' = mishaps + 1
<1>1. mishaps' \in 0..MaxMishaps
  BY RevocationBounds DEF MarkFails, Mishap, Inv, TypeOK
<1> QED BY <1>1 DEF MarkFails, Mishap, world, Frame, Inv, TypeOK

LEMMA FailureKeepsInv ==
  ASSUME Inv, NEW j \in Jobs,
         CallFails(j) \/ MarkFails(j) \/ FinishFails(j) \/ DeleteReplyLost(j) \/ Crash(j)
  PROVE  Inv'
<1>1. CASE CallFails(j)
  <2>1. Frame(j)
    BY <1>1, MishapFrame DEF CallFails
  <2>2. PICK from \in {"get", "source", "account", "token", "list", "delete", "local"} :
          Stops(j, from, "error")
    BY <1>1 DEF CallFails
  <2>3. OnlyJob(j) /\ job'[j].step = "finish" /\ job'[j].error = "error"
    BY <2>2, StopsOnlyJob DEF Steps, Errors
  <2>4. Executing(j) /\ active' = active
    BY <1>1, <2>2 DEF CallFails, Stops, Executing
  <2> QED BY <2>1, <2>3, <2>4, StoppingStep
<1>2. CASE DeleteReplyLost(j)
  <2>1. Frame(j)
    <3>1. mishaps' \in 0..MaxMishaps
      BY <1>2, RevocationBounds DEF DeleteReplyLost, Mishap, Inv, TypeOK
    <3> QED BY <1>2, <3>1, DeletedFrame DEF DeleteReplyLost
  <2>2. OnlyJob(j) /\ job'[j].step = "finish" /\ job'[j].error = "error"
    <3>1. Stops(j, "delete", "error")
      BY <1>2 DEF DeleteReplyLost
    <3> QED BY <3>1, StopsOnlyJob DEF Steps, Errors
  <2>3. Executing(j) /\ active' = active
    BY <1>2 DEF DeleteReplyLost, Stops, Executing
  <2> QED BY <2>1, <2>2, <2>3, StoppingStep
<1>3. CASE Crash(j)
  <2>1. Frame(j)
    BY <1>3, MishapFrame DEF Crash
  <2>2. /\ OnlyJob(j) /\ job'[j].step \in {"queued", "over"} /\ job'[j].error = "error"
        /\ job'[j].step = "queued" => job'[j].tries < MaxAttempts
    BY <1>3, CrashOnlyJob
  <2> QED BY <2>1, <2>2, StoppingStep
<1>4. CASE MarkFails(j)
  <2>1. Frame(j) /\ NotMarked(j, "error")
    BY <1>4, MarkFailsOnlyJob
  <2>2. /\ OnlyJob(j) /\ job'[j].step \in {"queued", "over"} /\ job'[j].error = "error"
        /\ job'[j].step = "queued" => job'[j].tries < MaxAttempts
    BY <2>1, NotMarkedOnlyJob DEF Errors
  <2> QED BY <2>1, <2>2, StoppingStep
<1>5. CASE FinishFails(j)
  <2>1. Frame(j)
    BY <1>5, MishapFrame DEF FinishFails
  <2> QED BY <1>5, <2>1, ReturnsKeepsInv DEF FinishFails
<1> QED BY <1>1, <1>2, <1>3, <1>4, <1>5

-----------------------------------------------------------------------------
(* The provider, Clerk, the crawler and the handlers.                      *)

\* Steps of the others leave the jobs and their tasks alone.
LEMMA JobsStay ==
  ASSUME Inv, UNCHANGED <<job, active>>, steady' \subseteq steady, held' \subseteq held,
         kept' \subseteq kept
  PROVE  AloneInv' /\ \A j \in Jobs : JobInv(j)'
<1>1. AloneInv'
  BY DEF Inv, AloneInv, Siblings
<1>2. ASSUME NEW j \in Jobs PROVE JobInv(j)'
  <2>1. JobInv(j)
    BY DEF Inv
  <2>2. /\ Clean(j)' <=> Clean(j)
        /\ Executing(j)' <=> Executing(j)
        /\ Checked(j)' <=> Checked(j)
        /\ Gone(j) => Gone(j)'
    BY DEF Clean, Executing, Checked, Gone
  <2> QED BY <2>1, <2>2 DEF JobInv
<1> QED BY <1>1, <1>2

\* Whoever moves voids every offer.
LEMMA MovesKeepInv ==
  ASSUME Inv, Moves, TypeOK', LinkInv', steady' \subseteq steady, UNCHANGED held
  PROVE  Inv'
<1>1. kept' = {} /\ \A u \in Users : offer'[u] = {}
  BY DEF Moves, OffersVoid
<1>2. AloneInv' /\ \A j \in Jobs : JobInv(j)'
  BY <1>1, JobsStay DEF Moves
<1> QED BY <1>1, <1>2 DEF Inv, Offered

LEMMA MovesTypes ==
  ASSUME Inv, Moves
  PROVE  /\ moves' \in 0..MaxMoves /\ offer' \in [Users -> SUBSET Keys] /\ kept' = {}
         /\ job' = job /\ active' = active /\ mishaps' = mishaps
<1>1. moves' \in 0..MaxMoves
  BY RevocationBounds DEF Moves, Inv, TypeOK
<1> QED BY <1>1 DEF Moves, OffersVoid

LEMMA MovingKeepsInv ==
  ASSUME Inv,
         \/ \E a \in Accounts, l \in Logins : Rename(a, l)
         \/ \E k \in Keys : ChangeKey(k)
         \/ \E u \in Users : Disconnect(u)
         \/ \E u \in Users, a \in Accounts : Connect(u, a)
  PROVE  Inv'
<1>1. CASE \E a \in Accounts, l \in Logins : Rename(a, l)
  <2>1. PICK a \in Accounts, l \in Logins : Rename(a, l)
    BY <1>1
  <2>2. login' \in [Accounts -> Logins] /\ \A b, c \in Accounts : login'[b] = login'[c] => b = c
    BY <2>1 DEF Rename, Inv, TypeOK
  <2>3. TypeOK'
    BY <2>1, <2>2, MovesTypes DEF Rename, Inv, TypeOK
  <2> QED BY <2>1, <2>3, MovesKeepInv DEF Rename, Inv, LinkInv
<1>2. CASE \E k \in Keys : ChangeKey(k)
  <2>1. PICK k \in Keys : ChangeKey(k)
    BY <1>2
  <2>2. steady' \subseteq published' /\ published' \subseteq Keys /\ steady' \subseteq steady
    BY <2>1 DEF ChangeKey, Inv, TypeOK
  <2>3. TypeOK'
    BY <2>1, <2>2, MovesTypes DEF ChangeKey, Inv, TypeOK
  <2> QED BY <2>1, <2>2, <2>3, MovesKeepInv DEF ChangeKey, Inv, LinkInv
<1>3. CASE \E u \in Users : Disconnect(u)
  <2>1. PICK u \in Users : Disconnect(u)
    BY <1>3
  <2>2. link' \in [Users -> Credentials \cup {None}] /\ LinkInv'
    BY <2>1 DEF Disconnect, Inv, TypeOK, LinkInv
  <2>3. TypeOK'
    BY <2>1, <2>2, MovesTypes DEF Disconnect, Inv, TypeOK
  <2> QED BY <2>1, <2>2, <2>3, MovesKeepInv DEF Disconnect
<1>4. CASE \E u \in Users, a \in Accounts : Connect(u, a)
  <2>1. PICK u \in Users, a \in Accounts : Connect(u, a)
    BY <1>4
  <2>1a. PICK granted \in Grants : \E scopes \in {granted} \cup {{}} :
           link' = [link EXCEPT ![u] =
             [account |-> {a}, login |-> login[a], granted |-> granted, scopes |-> scopes]]
    BY <2>1 DEF Connect
  <2>2. PICK scopes \in {granted} \cup {{}} :
          link' = [link EXCEPT ![u] =
            [account |-> {a}, login |-> login[a], granted |-> granted, scopes |-> scopes]]
    BY <2>1a
  <2>3. granted \in SUBSET Scopes /\ scopes \in SUBSET Scopes /\ login[a] \in Logins
    BY RevocationBounds DEF Scopes, Inv, TypeOK
  <2>4. link' \in [Users -> Credentials \cup {None}]
    BY <2>2, <2>3 DEF Inv, TypeOK, Credentials
  <2>5. LinkInv'
    BY <2>2 DEF Inv, LinkInv, TypeOK
  <2>6. TypeOK'
    BY <2>1, <2>4, MovesTypes DEF Connect, Inv, TypeOK
  <2> QED BY <2>1, <2>5, <2>6, MovesKeepInv DEF Connect
<1> QED BY <1>1, <1>2, <1>3, <1>4

LEMMA ScrapeUserKeepsInv == ASSUME Inv, NEW a \in Accounts, ScrapeUser(a) PROVE Inv'
<1>1. source' = [source EXCEPT ![a] = {login[a]}] /\ source' \in [Accounts -> Names]
  <2>1. {login[a]} \in Names
    BY DEF Inv, TypeOK, Names
  <2> QED BY <2>1 DEF ScrapeUser, Inv, TypeOK
<1>2. /\ UNCHANGED <<login, published, steady, link, job, active, moves, mishaps>>
      /\ held' = {j \in held : job[j].key \subseteq rows'}
      /\ (source' = source /\ UNCHANGED <<offer, kept>>) \/ OffersVoid
  BY DEF ScrapeUser
<1>3. rows' \subseteq {k \in Keys : source'[OwnerOf[k]] # {}}
  <2>1. ASSUME NEW k \in rows' PROVE k \in Keys /\ source'[OwnerOf[k]] # {}
    <3>1. k \in Keys /\ (k \in rows \/ OwnerOf[k] = a)
      BY DEF ScrapeUser, Inv, TypeOK
    <3>2. OwnerOf[k] \in Accounts
      BY <3>1, RevocationBounds
    <3> QED BY <1>1, <3>1, <3>2 DEF Inv, TypeOK
  <2> QED BY <2>1
<1>4. offer' \in [Users -> SUBSET Keys] /\ kept' \subseteq kept
  BY <1>2 DEF OffersVoid, Inv, TypeOK
<1>5. TypeOK'
  BY <1>1, <1>2, <1>3, <1>4 DEF Inv, TypeOK
<1>6. AloneInv' /\ \A j \in Jobs : JobInv(j)'
  BY <1>2, <1>4, JobsStay
<1>7. LinkInv'
  BY <1>2 DEF Inv, LinkInv
<1>8. CASE OffersVoid
  BY <1>5, <1>6, <1>7, <1>8 DEF Inv, OffersVoid, Offered
<1>9. CASE source' = source /\ UNCHANGED <<offer, kept>>
  <2>1. ASSUME NEW u \in Users, NEW k \in offer'[u] PROVE Shown(u, k)'
    BY <1>2, <1>9, <2>1 DEF Inv, Shown, CanRevoke
  <2>2. ASSUME NEW j \in Jobs, NEW u \in Users, NEW k \in Keys, Offered(j)',
               job'[j].user = {u}, job'[j].key = {k}
        PROVE  KeptInv(j, u, k)'
    <3>1. KeptInv(j, u, k)
      BY <1>2, <1>9, <2>2 DEF Inv, Offered, Executing, Siblings
    <3> QED BY <1>2, <1>9, <3>1 DEF KeptInv, Shown, CanRevoke
  <2> QED BY <1>5, <1>6, <1>7, <2>1, <2>2 DEF Inv
<1> QED BY <1>2, <1>8, <1>9

LEMMA ListMyKeysKeepsInv == ASSUME Inv, NEW u \in Users, ListMyKeys(u) PROVE Inv'
<1>1. PICK a \in Accounts :
        /\ source[a] = {link[u].login}
        /\ offer' = [offer EXCEPT ![u] =
                      IF CanRevoke(u) THEN {k \in rows : OwnerOf[k] = a} ELSE {}]
  BY DEF ListMyKeys
<1>2. UNCHANGED <<login, published, steady, link, source, rows, job, active, held, kept, moves, mishaps>>
  BY DEF ListMyKeys
<1>3. TypeOK'
  <2>1. {k \in rows : OwnerOf[k] = a} \subseteq Keys
    BY DEF Inv, TypeOK
  <2>2. offer' \in [Users -> SUBSET Keys]
    BY <1>1, <2>1 DEF Inv, TypeOK
  <2> QED BY <1>2, <2>2 DEF Inv, TypeOK
<1>4. ASSUME NEW v \in Users, NEW k \in offer'[v] PROVE Shown(v, k)'
  <2>1. CASE v = u
    <3>1. CanRevoke(u) /\ OwnerOf[k] = a
      BY <1>1, <1>4, <2>1 DEF Inv, TypeOK
    <3> QED BY <1>1, <1>2, <2>1, <3>1 DEF Shown, CanRevoke, ListMyKeys
  <2>2. CASE v # u
    <3>1. k \in offer[v]
      BY <1>1, <1>4, <2>2 DEF Inv, TypeOK
    <3> QED BY <1>2, <3>1 DEF Inv, Shown, CanRevoke
  <2> QED BY <2>1, <2>2
<1>5. AloneInv' /\ \A j \in Jobs : JobInv(j)'
  BY <1>2, JobsStay
<1>6. ASSUME NEW j \in Jobs, NEW v \in Users, NEW k \in Keys, Offered(j)',
             job'[j].user = {v}, job'[j].key = {k}
      PROVE  KeptInv(j, v, k)'
  <2>1. KeptInv(j, v, k)
    BY <1>2, <1>6 DEF Inv, Offered, Executing, Siblings
  <2> QED BY <1>2, <2>1 DEF KeptInv, Shown, CanRevoke
<1> QED BY <1>2, <1>3, <1>4, <1>5, <1>6 DEF Inv, LinkInv

LEMMA SomeAttempt == 0 < MaxAttempts
BY RevocationBounds

LEMMA AskedOnlyJob ==
  ASSUME Inv, NEW u \in Users, NEW k \in Keys, NEW j \in Jobs,
         NEW step \in Steps, NEW error \in Errors, Asked(u, k, j, step, error)
  PROVE  /\ job' \in [Jobs -> Job] /\ \A i \in Jobs \ {j} : job'[i] = job[i]
         /\ job'[j].step = step /\ job'[j].user = {u} /\ job'[j].key = {k}
         /\ job'[j].tries = 0 /\ job'[j].error = error
         /\ job[j].step = "unasked" /\ j \notin held /\ j \notin kept /\ j \notin active
<1>1. job \in [Jobs -> Job]
  BY DEF Inv, TypeOK
<1>2. job[j].step = "unasked" /\ job[j].tries = 0
  <2>1. job[j] = Unasked
    BY DEF Asked
  <2>2. Unasked.step = "unasked" /\ Unasked.tries = 0
    BY DEF Unasked
  <2> QED BY <2>1, <2>2
<1> DEFINE now == [job[j] EXCEPT !.step = step, !.user = {u}, !.key = {k}, !.error = error]
<1>3. job' = [job EXCEPT ![j] = now]
  BY DEF Asked
<1>4. now \in Job
  BY <1>1 DEF Job
<1>5. /\ now.step = step /\ now.user = {u} /\ now.key = {k} /\ now.error = error
      /\ now.tries = job[j].tries
  BY <1>1 DEF Job
<1> HIDE DEF now
<1>6. job' \in [Jobs -> Job] /\ job'[j] = now /\ \A i \in Jobs \ {j} : job'[i] = job[i]
  BY <1>1, <1>3, <1>4
<1> QED BY <1>2, <1>5, <1>6 DEF Inv, JobInv

\* A task is made only where the work is nobody's, so no attempt at it runs.
LEMMA AskedKeepsInv ==
  ASSUME Inv, NEW u \in Users, NEW k \in Keys, NEW j \in Jobs,
         NEW step \in {"queued", "over"}, NEW error \in Errors, Asked(u, k, j, step, error),
         step = "queued" => error = "", step = "over" => error = "error" /\ kept' = kept,
         held' \in {held, held \cup {j}},
         kept' = kept \/ (kept' = kept \cup {j} /\ k \in offer[u] /\ error = ""),
         mishaps' \in 0..MaxMishaps
  PROVE  Inv'
<1>1. /\ UNCHANGED <<login, published, steady, link, source, rows, offer, moves>>
      /\ active' = active \cup {j} /\ k \in rows
      /\ \A i \in active : ~(job[i].user = {u} /\ job[i].key = {k})
  BY DEF Asked, ActiveFor
<1>2. step \in Steps
  BY DEF Steps
<1>3. /\ job' \in [Jobs -> Job] /\ \A i \in Jobs \ {j} : job'[i] = job[i]
      /\ job'[j].step = step /\ job'[j].user = {u} /\ job'[j].key = {k}
      /\ job'[j].tries = 0 /\ job'[j].error = error
      /\ job[j].step = "unasked" /\ j \notin held /\ j \notin kept /\ j \notin active
  BY <1>2, AskedOnlyJob
<1>4. TypeOK'
  <2>1. ASSUME NEW i \in held' PROVE i \in Jobs /\ job'[i].key # {} /\ job'[i].key \subseteq rows'
    <3>1. CASE i = j
      BY <1>1, <1>3, <3>1
    <3>2. CASE i # j
      <4>1. i \in held
        BY <2>1, <3>2
      <4>2. i \in Jobs /\ job[i].key # {} /\ job[i].key \subseteq rows
        BY <4>1 DEF Inv, TypeOK
      <4> QED BY <1>1, <1>3, <3>2, <4>2
    <3> QED BY <3>1, <3>2
  <2>2. held' \subseteq {i \in Jobs : job'[i].key # {} /\ job'[i].key \subseteq rows'}
    BY <2>1
  <2>3. kept' \subseteq Jobs /\ active' \subseteq Jobs
    BY <1>1 DEF Inv, TypeOK
  <2> QED BY <1>1, <1>3, <2>2, <2>3 DEF Inv, TypeOK
<1>5. ASSUME NEW i \in Jobs PROVE JobInv(i)'
  <2>1. CASE i = j
    <3>1. 0 < MaxAttempts
      BY SomeAttempt
    <3>2. /\ job'[i].step \in {"queued", "over"} /\ job'[i].user # {} /\ job'[i].key # {}
          /\ job'[i].tries = 0 /\ i \in active'
      BY <1>1, <1>3, <2>1
    <3>3. ~Executing(i)' /\ (job'[i].step = "over" => ~Clean(i)')
      BY <1>3, <2>1 DEF Executing, Clean
    <3> QED BY <3>1, <3>2, <3>3 DEF JobInv
  <2>2. CASE i # j
    <3>1. /\ JobInv(i) /\ job'[i] = job[i] /\ (i \in held' => i \in held)
          /\ (i \in kept' => i \in kept) /\ (i \in active' <=> i \in active)
      BY <1>1, <1>3, <2>2 DEF Inv
    <3>2. /\ Clean(i)' <=> Clean(i)
          /\ Executing(i)' <=> Executing(i)
          /\ Checked(i)' <=> Checked(i)
          /\ Gone(i)' <=> Gone(i)
      BY <1>1, <3>1 DEF Clean, Executing, Checked, Gone
    <3> QED BY <3>1, <3>2 DEF JobInv
  <2> QED BY <2>1, <2>2
<1>6. ASSUME NEW i \in Jobs, NEW v \in Users, NEW l \in Keys, Offered(i)',
             job'[i].user = {v}, job'[i].key = {l}
      PROVE  KeptInv(i, v, l)'
  <2>1. CASE i = j
    <3>1. v = u /\ l = k
      BY <1>3, <1>6, <2>1
    <3>2. ~Executing(j)'
      BY <1>3 DEF Executing
    <3>3. k \in offer[u] /\ error = ""
      BY <1>3, <1>6, <2>1, <3>2 DEF Offered
    <3>4. Shown(u, k)
      BY <3>3 DEF Inv
    <3> QED BY <1>1, <1>3, <2>1, <3>1, <3>3, <3>4 DEF KeptInv, Shown, CanRevoke
  <2>2. CASE i # j
    <3>1. job'[i] = job[i] /\ (Executing(i)' <=> Executing(i))
      BY <1>3, <2>2 DEF Executing
    <3>2. j \in Siblings(i)' => ~Executing(i)
      <4>1. j \in Siblings(i)' => job[i].user = {u} /\ job[i].key = {k}
        BY <1>3, <3>1 DEF Siblings
      <4>2. Executing(i) => i \in active
        BY DEF Inv, JobInv
      <4> QED BY <1>1, <4>1, <4>2
    <3>3. \A o \in Siblings(i)' \ {j} : o \in Siblings(i) /\ (o \in kept' => o \in kept)
      BY <1>3, <2>2, <3>1 DEF Siblings
    <3>4. Offered(i)
      BY <1>6, <2>2, <3>1, <3>2, <3>3 DEF Offered
    <3>5. KeptInv(i, v, l)
      BY <1>6, <3>1, <3>4 DEF Inv
    <3> QED BY <1>1, <3>1, <3>5 DEF KeptInv, Shown, CanRevoke
  <2> QED BY <2>1, <2>2
<1>7. AloneInv'
  <2> SUFFICES ASSUME NEW i \in active', NEW o \in Siblings(i)', o \in active' PROVE FALSE
    BY DEF AloneInv
  <2>1. i \in Jobs /\ o \in Jobs /\ i # o /\ job'[i].user = job'[o].user /\ job'[i].key = job'[o].key
    BY <1>1 DEF Siblings, Inv, TypeOK
  <2>2. CASE i # j /\ o # j
    <3>1. i \in active /\ o \in active /\ o \in Siblings(i)
      BY <1>1, <1>3, <2>1, <2>2 DEF Siblings
    <3> QED BY <3>1 DEF Inv, AloneInv
  <2>3. CASE i = j
    BY <1>1, <1>3, <2>1, <2>3
  <2>4. CASE o = j
    BY <1>1, <1>3, <2>1, <2>4
  <2> QED BY <2>2, <2>3, <2>4
<1>8. LinkInv' /\ \A v \in Users : \A l \in offer'[v] : Shown(v, l)'
  BY <1>1 DEF Inv, LinkInv, Shown, CanRevoke
<1> QED BY <1>4, <1>5, <1>6, <1>7, <1>8 DEF Inv

LEMMA RequestKeepsInv ==
  ASSUME Inv, NEW u \in Users, NEW k \in Keys, NEW j \in Jobs,
         RevokeMyKey(u, k, j) \/ RequestAbandoned(u, k, j)
  PROVE  Inv'
<1>1. "" \in Errors /\ "error" \in Errors
  BY DEF Errors
<1>2. CASE RevokeMyKey(u, k, j)
  <2>1. mishaps' \in 0..MaxMishaps
    BY <1>2 DEF RevokeMyKey, Inv, TypeOK
  <2> QED BY <1>1, <1>2, <2>1, AskedKeepsInv DEF RevokeMyKey
<1>3. CASE RequestAbandoned(u, k, j)
  <2>1. mishaps' \in 0..MaxMishaps
    BY <1>3, RevocationBounds DEF RequestAbandoned, Mishap, Inv, TypeOK
  <2> QED BY <1>1, <1>3, <2>1, AskedKeepsInv DEF RequestAbandoned
<1> QED BY <1>2, <1>3

-----------------------------------------------------------------------------
(* The theorems.                                                           *)

LEMMA InitInv == Init => Inv
<1> SUFFICES ASSUME Init PROVE Inv
  OBVIOUS
<1>1. Unasked \in Job
  BY RevocationBounds DEF Unasked, Job, Steps, Names, Errors
<1>2. TypeOK
  BY <1>1, RevocationBounds DEF Init, TypeOK, Names
<1>3. ASSUME NEW j \in Jobs PROVE JobInv(j)
  BY DEF Init, JobInv, Unasked, Executing
<1>4. LinkInv
  BY DEF Init, LinkInv
<1> QED BY <1>2, <1>3, <1>4 DEF Init, Inv, AloneInv, Offered

LEMMA NextInv == Inv /\ [Next]_vars => Inv'
<1> SUFFICES ASSUME Inv, [Next]_vars PROVE Inv'
  OBVIOUS
<1>1. CASE UNCHANGED vars
  <2>1. TypeOK'
    BY <1>1 DEF Inv, TypeOK, vars
  <2>2. AloneInv' /\ \A j \in Jobs : JobInv(j)'
    BY <1>1, JobsStay DEF vars
  <2>3. \A j \in Jobs : Offered(j)' <=> Offered(j)
    BY <1>1 DEF Offered, Executing, Siblings, vars
  <2> QED BY <1>1, <2>1, <2>2, <2>3 DEF Inv, LinkInv, KeptInv, Shown, CanRevoke, vars
<1>2. CASE \E j \in Jobs : JobStep(j)
  BY <1>2, MarkRunningKeepsInv, MarkRefusedKeepsInv, GetKeyKeepsInv, GetSourceKeepsInv, AccountKeepsInv,
     TokenKeepsInv, ResolveKeepsInv, DeleteKeyKeepsInv, DeleteLocalKeepsInv,
     FinishKeepsInv, FailureKeepsInv DEF JobStep, Attempt
<1>3. CASE \E a \in Accounts : ScrapeUser(a)
  BY <1>3, ScrapeUserKeepsInv
<1>4. CASE \E u \in Users : ListMyKeys(u) \/ \E k \in Keys, j \in Jobs :
            RevokeMyKey(u, k, j) \/ RequestAbandoned(u, k, j)
  BY <1>4, ListMyKeysKeepsInv, RequestKeepsInv
<1>5. CASE \/ \E a \in Accounts, l \in Logins : Rename(a, l)
           \/ \E k \in Keys : ChangeKey(k)
           \/ \E u \in Users : Disconnect(u)
           \/ \E u \in Users, a \in Accounts : Connect(u, a)
  BY <1>5, MovingKeepsInv
<1> QED BY <1>1, <1>2, <1>3, <1>4, <1>5 DEF Next, JobStep

\* Offers, what attempts have read and how jobs end go together in every state.
THEOREM Invariance == Spec => []Inv
BY InitInv, NextInv, PTL DEF Spec

\* What users, jobs and the database hold keeps its type; River makes no more
\* than MaxAttempts attempts, and a job whose row is still there has its key
\* stored.
THEOREM TypeCorrect == Spec => []TypeOK
<1>1. Inv => TypeOK
  BY DEF Inv
<1> QED BY <1>1, Invariance, PTL

\* A revocation that ends well has removed its row; and its key was not at the
\* provider all the time, unless the token was that of another account, or one
\* whose scopes were not reported: the refusal of its listing may have looked
\* like an absent key.
THEOREM SuccessCorrect == Spec => []SuccessIsTruthful
<1>1. Inv => SuccessIsTruthful
  BY DEF Inv, SuccessIsTruthful, JobInv, Gone, Clean
<1> QED BY <1>1, Invariance, PTL

LEMMA RefusedIsBroken == Inv => OffersAreGood
<1> SUFFICES ASSUME Inv PROVE OffersAreGood
  OBVIOUS
<1> SUFFICES ASSUME NEW j \in Jobs, Promised(j)
             PROVE  job[j].error \notin {"not_owned", "forbidden"}
  BY DEF OffersAreGood
<1>1. job[j].step # "unasked"
  BY DEF Promised, Inv, JobInv
<1>2. PICK u \in Users, k \in Keys : job[j].user = {u} /\ job[j].key = {k}
  BY <1>1, JobIsAsked
<1>3. KeptInv(j, u, k) /\ LinkOf(j) = link[u]
  BY <1>2, KeptJob DEF Promised, Offered
<1> QED BY <1>3 DEF KeptInv, Promised

\* No attempt of a promised revocation is refused for its owner or its scopes.
THEOREM OffersKept == Spec => []OffersAreGood
BY RefusedIsBroken, Invariance, PTL

-----------------------------------------------------------------------------
(* Promises and attempts.                                                  *)

\* A promised revocation whose row is still there.
Due(j) == Promised(j) /\ j \in held

\* The attempts that ended without the job being done: the one that runs
\* counts as soon as it has an error.
Lost(j) == IF Clean(j) /\ job[j].tries > 0 THEN job[j].tries - 1 ELSE job[j].tries

\* A job that holds others up and will be done, unless something goes wrong;
\* or one that is about an earlier row.
Good(j) == j \notin held \/ (j \in active /\ Clean(j) /\ job[j].step # "over")

OverInv(j) == job[j].step = "over" /\ ~Clean(j) /\ j \in held => job[j].tries = MaxAttempts
CountInv(j) == Due(j) /\ Siblings(j) = {} => Lost(j) <= mishaps
FirstInv(j) == Due(j) /\ mishaps = 0 => Clean(j) /\ job[j].tries <= 1

\* The job that the only mishap has hit gives way to jobs that are good.
WayInv(j) ==
  Due(j) /\ mishaps = 1 /\ MaxAttempts > 1 /\ ~Clean(j) =>
    /\ \A i \in Siblings(j) \cap active : Good(i)
    /\ Executing(j) => job[j].tries <= 1
    /\ job[j].step = "over" => \E i \in Siblings(j) : Good(i)

LostInv(j) == OverInv(j) /\ CountInv(j) /\ FirstInv(j) /\ WayInv(j)
AllLostInv == \A j \in Jobs : LostInv(j)

LEMMA Counters ==
  ASSUME Inv PROVE mishaps \in Nat /\ MaxAttempts \in Nat /\ \A j \in Jobs : job[j].tries \in Nat
<1>1. MaxAttempts \in Nat /\ mishaps \in Nat
  BY RevocationBounds DEF Inv, TypeOK
<1>2. \A j \in Jobs : job[j].tries \in 0..MaxAttempts
  BY DEF Inv, TypeOK, Job
<1> QED BY <1>1, <1>2

\* A job is due after a step only if it was before.
LEMMA DueFrame ==
  ASSUME NEW j \in Jobs, OnlyJob(j), Frame(j), NEW i \in Jobs, Due(i)'
  PROVE  Due(i)
<1>1. job'[i].user = job[i].user
  BY DEF OnlyJob
<1> QED BY <1>1 DEF Due, Promised, LinkOf, Frame

LEMMA OthersStayGood ==
  ASSUME NEW j \in Jobs, OnlyJob(j), Frame(j), NEW i \in Jobs \ {j}, Good(i)
  PROVE  Good(i)'
BY DEF Good, OnlyJob, Frame, Clean

\* What the others may rely on.
GoodStays(j) ==
  \A i \in Siblings(j) :
    Due(i)' /\ mishaps' = mishaps /\ (Good(j) \/ j \in active' \ active) => Good(j)'

LEMMA OthersAreCounted ==
  ASSUME Inv, AllLostInv, NEW j \in Jobs, OnlyJob(j), Frame(j),
         mishaps' \in {mishaps, mishaps + 1}, GoodStays(j), LostInv(j)'
  PROVE  AllLostInv'
<1> SUFFICES ASSUME NEW i \in Jobs, i # j PROVE LostInv(i)'
  BY DEF AllLostInv
<1>1. job'[i] = job[i] /\ LostInv(i) /\ Siblings(i)' = Siblings(i)
  BY SiblingsStay DEF OnlyJob, AllLostInv
<1>2. job[i].tries \in Nat /\ mishaps \in Nat
  BY Counters
<1>3. Due(i)' => Due(i)
  BY DueFrame
<1>4. (Clean(i)' <=> Clean(i)) /\ (Executing(i)' <=> Executing(i))
  BY <1>1 DEF Clean, Executing
<1>5. OverInv(i)'
  <2>1. i \in held' => i \in held
    BY DEF Frame
  <2> QED BY <1>1, <1>4, <2>1 DEF LostInv, OverInv
<1>6. CountInv(i)'
  <2>1. Lost(i)' = Lost(i) /\ Lost(i) \in Nat
    BY <1>1, <1>2, <1>4 DEF Lost
  <2>2. Due(i)' /\ Siblings(i)' = {} => Lost(i) <= mishaps
    BY <1>1, <1>3 DEF LostInv, CountInv
  <2> QED BY <1>2, <2>1, <2>2 DEF CountInv
<1>7. mishaps' = 0 => mishaps = 0
  BY <1>2
<1>8. FirstInv(i)'
  BY <1>1, <1>3, <1>4, <1>7 DEF LostInv, FirstInv
<1>9. WayInv(i)'
  <2> SUFFICES ASSUME Due(i)', mishaps' = 1, MaxAttempts > 1, ~Clean(i)'
               PROVE  /\ \A l \in Siblings(i) \cap active' : Good(l)'
                      /\ Executing(i)' => job'[i].tries <= 1
                      /\ job'[i].step = "over" => \E l \in Siblings(i) : Good(l)'
    BY <1>1 DEF WayInv
  <2>1. mishaps' = mishaps
    <3>1. mishaps # 0
      BY <1>1, <1>3, <1>4 DEF LostInv, FirstInv
    <3> QED BY <1>2, <3>1
  <2>2. /\ \A l \in Siblings(i) \cap active : Good(l)
        /\ Executing(i) => job[i].tries <= 1
        /\ job[i].step = "over" => \E l \in Siblings(i) : Good(l)
    BY <1>1, <1>3, <1>4, <2>1 DEF LostInv, WayInv
  <2>3. ASSUME NEW l \in Siblings(i), Good(l) \/ l \in active' \ active PROVE Good(l)'
    <3>1. CASE l = j
      <4>1. i \in Siblings(j)
        BY <3>1 DEF Siblings
      <4> QED BY <2>1, <2>3, <3>1, <4>1 DEF GoodStays
    <3>2. CASE l # j
      <4>1. l \in Jobs \ {j} /\ Good(l)
        BY <2>3, <3>2 DEF Siblings, Frame
      <4> QED BY <4>1, OthersStayGood
    <3> QED BY <3>1, <3>2
  <2> QED BY <1>1, <1>4, <2>2, <2>3
<1> QED BY <1>5, <1>6, <1>8, <1>9 DEF LostInv

\* An attempt that a promise vouches for is not refused.
NoneRefused ==
  \A i, j \in Jobs :
    Due(i) /\ (j = i \/ (j \in Siblings(i) /\ Executing(j))) =>
      job[j].error \notin {"not_owned", "forbidden"}

LEMMA NotRefused == Inv => NoneRefused
<1> SUFFICES ASSUME Inv, NEW i \in Jobs, Due(i), NEW j \in Jobs,
                    j = i \/ (j \in Siblings(i) /\ Executing(j))
             PROVE  job[j].error \notin {"not_owned", "forbidden"}
  BY DEF NoneRefused
<1>1. i \in kept /\ LinkOf(i).scopes # {} /\ job[i].step # "unasked"
  BY DEF Due, Promised, Inv, JobInv
<1>2. PICK u \in Users, k \in Keys : job[i].user = {u} /\ job[i].key = {k}
  BY <1>1, JobIsAsked
<1>3. job[j].user = {u} /\ job[j].key = {k} /\ Offered(j)
  BY <1>1, <1>2 DEF Offered, Siblings
<1>4. KeptInv(j, u, k)
  BY <1>3, KeptJob
<1>5. LinkOf(i) = link[u]
  BY <1>2, LinkOfJob
<1> QED BY <1>1, <1>4, <1>5 DEF KeptInv

-----------------------------------------------------------------------------
(* The steps of a job, as far as promises go.                              *)

GoesOn(j) ==
  /\ OnlyJob(j) /\ Frame(j) /\ Executing(j) /\ Executing(j)'
  /\ active' = active /\ mishaps' = mishaps /\ job'[j].tries = job[j].tries
  /\ \/ job'[j].error = job[j].error
     \/ j \notin held
     \/ job'[j].error \in {"not_owned", "forbidden"}

\* The error of an attempt that a promise vouches for stays as it was.
LEMMA GoesOnUnchanged ==
  ASSUME Inv', NEW j \in Jobs, GoesOn(j), j \in held, NEW i \in Jobs, Due(i)',
         j = i \/ j \in Siblings(i)
  PROVE  Clean(j)' <=> Clean(j)
<1>1. j = i \/ j \in Siblings(i)'
  BY SiblingsStay DEF GoesOn
<1>2. job'[j].error \notin {"not_owned", "forbidden"}
  <2>1. NoneRefused'
    BY NotRefused, PTL
  <2> QED BY <1>1, <2>1 DEF NoneRefused, GoesOn
<1> QED BY <1>2 DEF GoesOn, Clean

LEMMA GoesOnIsCounted ==
  ASSUME Inv, Inv', AllLostInv, NEW j \in Jobs, GoesOn(j)
  PROVE  AllLostInv'
<1>1. OnlyJob(j) /\ Frame(j) /\ mishaps' = mishaps /\ active' = active /\ LostInv(j)
  BY DEF GoesOn, AllLostInv
<1>2. job[j].tries \in Nat /\ mishaps \in Nat /\ job'[j].tries = job[j].tries
  BY Counters DEF GoesOn
<1>3. Siblings(j)' = Siblings(j) /\ (Due(j)' => Due(j) /\ (Clean(j)' <=> Clean(j)))
  BY <1>1, SiblingsStay, DueFrame, GoesOnUnchanged DEF Due
<1>4. job'[j].step # "over" /\ Executing(j) /\ Executing(j)'
  BY DEF GoesOn, Executing
<1>5. CountInv(j)'
  <2>1. Due(j)' => Lost(j)' = Lost(j)
    BY <1>2, <1>3 DEF Lost
  <2> QED BY <1>1, <1>3, <2>1 DEF LostInv, CountInv
<1>6. WayInv(j)'
  <2>1. ASSUME NEW i \in Siblings(j), Good(i) PROVE Good(i)'
    BY <1>1, <2>1, OthersStayGood DEF Siblings
  <2> QED BY <1>1, <1>2, <1>3, <1>4, <2>1 DEF LostInv, WayInv
<1>7. LostInv(j)'
  BY <1>1, <1>2, <1>3, <1>4, <1>5, <1>6 DEF LostInv, OverInv, FirstInv
<1>8. GoodStays(j)
  <2> SUFFICES ASSUME NEW i \in Siblings(j), Due(i)', Good(j), j \in held PROVE Good(j)'
    BY <1>1 DEF GoodStays, Good, Frame
  <2>1. Clean(j)' <=> Clean(j)
    <3>1. i \in Jobs /\ j \in Siblings(i)
      BY DEF Siblings
    <3> QED BY <3>1, GoesOnUnchanged
  <2> QED BY <1>1, <1>4, <2>1 DEF Good
<1> QED BY <1>1, <1>7, <1>8, OthersAreCounted

LEMMA MarkRunningIsCounted ==
  ASSUME Inv, Inv', AllLostInv, NEW j \in Jobs, MarkRunning(j)
  PROVE  AllLostInv'
<1>1. Frame(j) /\ mishaps' = mishaps /\ j \in active' /\ job[j].step = "queued"
  BY DEF MarkRunning, world, Frame, Inv, TypeOK
<1>2. OnlyJob(j) /\ job'[j].step = "get" /\ job'[j].error = "" /\ job'[j].tries = job[j].tries + 1
  BY MarkOnlyJob
<1>3. Clean(j)' /\ job'[j].step # "over" /\ (Clean(j) => job[j].tries = 0)
  BY <1>1, <1>2 DEF Clean, Inv, JobInv
<1>4. job[j].tries \in Nat /\ job'[j].tries = job[j].tries + 1
  BY <1>2, Counters
<1>5. Siblings(j)' = Siblings(j) /\ (Due(j)' => Due(j)) /\ LostInv(j)
  BY <1>1, <1>2, SiblingsStay, DueFrame DEF AllLostInv
<1>6. Lost(j)' = Lost(j)
  <2>1. Lost(j)' = job[j].tries
    BY <1>3, <1>4 DEF Lost
  <2>2. Lost(j) = job[j].tries
    BY <1>3, <1>4 DEF Lost
  <2> QED BY <2>1, <2>2
<1>7. LostInv(j)'
  <2>1. CountInv(j)'
    BY <1>1, <1>5, <1>6 DEF LostInv, CountInv
  <2>2. FirstInv(j)'
    BY <1>1, <1>3, <1>4, <1>5 DEF LostInv, FirstInv
  <2> QED BY <1>3, <2>1, <2>2 DEF LostInv, OverInv, WayInv
<1>8. GoodStays(j)
  BY <1>1, <1>3 DEF GoodStays, Good
<1> QED BY <1>1, <1>2, <1>7, <1>8, OthersAreCounted

\* Who is refused has failed before, and others that will be done go on.
LEMMA MarkRefusedIsCounted ==
  ASSUME Inv, Inv', AllLostInv, NEW j \in Jobs, MarkRefused(j)
  PROVE  AllLostInv'
<1>1. /\ Frame(j) /\ mishaps' = mishaps /\ active' = active
      /\ job[j].step = "queued" /\ Siblings(j) \cap active # {}
  BY SameFrame DEF MarkRefused, Same, NotMarked
<1>2. /\ OnlyJob(j) /\ job'[j].step \in {"queued", "over"} /\ job'[j].error = "busy"
      /\ job'[j].step = "over" => job'[j].tries = MaxAttempts
  BY NotMarkedOnlyJob DEF MarkRefused, Errors
<1>3. ~Clean(j)' /\ ~Executing(j)'
  BY <1>2 DEF Clean, Executing
<1>4. ~Clean(j)
  BY <1>1 DEF Inv, JobInv, AloneInv
<1>5. Siblings(j)' = Siblings(j) /\ (Due(j)' => Due(j)) /\ LostInv(j)
  BY <1>1, <1>2, SiblingsStay, DueFrame DEF AllLostInv
<1>6. LostInv(j)'
  <2>1. OverInv(j)' /\ CountInv(j)'
    BY <1>1, <1>2, <1>5 DEF OverInv, CountInv
  <2>2. FirstInv(j)'
    BY <1>1, <1>4, <1>5 DEF LostInv, FirstInv
  <2>3. WayInv(j)'
    <3>1. ASSUME NEW i \in Siblings(j), Good(i) PROVE Good(i)'
      BY <1>1, <1>2, <3>1, OthersStayGood DEF Siblings
    <3>2. PICK i \in Siblings(j) : i \in active
      BY <1>1
    <3> QED BY <1>1, <1>3, <1>4, <1>5, <3>1, <3>2 DEF LostInv, WayInv
  <2> QED BY <2>1, <2>2, <2>3 DEF LostInv
<1>7. GoodStays(j)
  BY <1>1, <1>4 DEF GoodStays, Good, Frame
<1> QED BY <1>1, <1>2, <1>6, <1>7, OthersAreCounted

LEMMA FinishIsCounted ==
  ASSUME Inv, Inv', AllLostInv, NEW j \in Jobs, Finish(j)
  PROVE  AllLostInv'
<1>1. Frame(j) /\ mishaps' = mishaps /\ active' = active \ {j} /\ job[j].step = "finish"
  BY DEF Finish, Returns, Goes, world, Frame, Inv, TypeOK
<1>2. /\ OnlyJob(j) /\ job'[j].step \in {"queued", "over"}
      /\ job'[j].step = "over" /\ ~Clean(j)' => job'[j].tries = MaxAttempts
      /\ job'[j].tries = job[j].tries /\ job'[j].error = job[j].error
  BY ReturnsOnlyJob DEF Finish
<1>3. (Clean(j)' <=> Clean(j)) /\ ~Executing(j)' /\ Executing(j)
  BY <1>1, <1>2 DEF Clean, Executing
<1>4. Clean(j) => j \notin held
  BY <1>1 DEF Inv, JobInv
<1>5. Siblings(j)' = Siblings(j) /\ (Due(j)' => Due(j)) /\ LostInv(j)
  BY <1>1, <1>2, SiblingsStay, DueFrame DEF AllLostInv
<1>6. job[j].tries \in Nat /\ mishaps \in Nat /\ MaxAttempts \in Nat
  BY Counters
<1>7. LostInv(j)'
  <2>1. OverInv(j)'
    BY <1>2 DEF OverInv
  <2>2. CountInv(j)'
    <3>1. Lost(j)' = Lost(j)
      BY <1>2, <1>3 DEF Lost
    <3> QED BY <1>1, <1>5, <3>1 DEF LostInv, CountInv
  <2>3. FirstInv(j)'
    BY <1>1, <1>2, <1>3, <1>5 DEF LostInv, FirstInv
  <2>4. WayInv(j)'
    <3> SUFFICES ASSUME Due(j)', mishaps = 1, MaxAttempts > 1, ~Clean(j)'
                 PROVE  /\ \A i \in Siblings(j) \cap active' : Good(i)'
                        /\ job'[j].step # "over"
      BY <1>1, <1>3, <1>5 DEF WayInv
    <3>1. job[j].tries <= 1 /\ \A i \in Siblings(j) \cap active : Good(i)
      BY <1>3, <1>5 DEF LostInv, WayInv
    <3>2. job'[j].step # "over"
      BY <1>2, <1>6, <3>1
    <3>3. ASSUME NEW i \in Siblings(j) \cap active' PROVE Good(i)'
      BY <1>1, <1>2, <3>1, <3>3, OthersStayGood DEF Siblings
    <3> QED BY <3>2, <3>3
  <2> QED BY <2>1, <2>2, <2>3, <2>4 DEF LostInv
<1>8. GoodStays(j)
  BY <1>1, <1>4 DEF GoodStays, Good, Frame
<1> QED BY <1>1, <1>2, <1>7, <1>8, OthersAreCounted

Fails(j) ==
  /\ OnlyJob(j) /\ Frame(j) /\ mishaps' = mishaps + 1
  /\ \/ job'[j].tries = job[j].tries
     \/ job'[j].tries = job[j].tries + 1 /\ job[j].step = "queued"
  /\ Clean(j)' => j \notin held
  /\ job'[j].step = "over" /\ ~Clean(j)' => job'[j].tries = MaxAttempts

\* What the first mishap hits has the work to itself and attempts left.
LEMMA FailureCounts ==
  ASSUME Inv, Inv', AllLostInv, NEW j \in Jobs, Fails(j)
  PROVE  AllLostInv'
<1>1. OnlyJob(j) /\ Frame(j) /\ mishaps' = mishaps + 1
  BY DEF Fails
<1>2. /\ job[j].tries \in Nat /\ mishaps \in Nat /\ MaxAttempts \in Nat
      /\ job'[j].tries \in {job[j].tries, job[j].tries + 1}
  BY Counters DEF Fails
<1>3. Siblings(j)' = Siblings(j) /\ (Due(j)' => Due(j)) /\ LostInv(j)
  BY <1>1, SiblingsStay, DueFrame DEF AllLostInv
<1>4. Due(j)' => ~Clean(j)' /\ j \in held
  BY <1>3 DEF Fails, Due
<1>5. OverInv(j)'
  BY DEF Fails, OverInv
<1>6. CountInv(j)'
  <2> SUFFICES ASSUME Due(j)', Siblings(j) = {} PROVE Lost(j)' <= mishaps'
    BY <1>3 DEF CountInv
  <2>1. Lost(j) <= mishaps
    BY <1>3 DEF LostInv, CountInv
  <2>2. Lost(j)' = job'[j].tries
    BY <1>4 DEF Lost
  <2>3. job'[j].tries <= Lost(j) + 1
    <3>1. CASE job'[j].tries = job[j].tries
      BY <1>2, <3>1 DEF Lost
    <3>2. CASE job'[j].tries = job[j].tries + 1 /\ job[j].step = "queued"
      <4>1. Clean(j) => job[j].tries = 0
        BY <3>2 DEF Inv, JobInv
      <4> QED BY <1>2, <3>2, <4>1 DEF Lost
    <3> QED BY <3>1, <3>2 DEF Fails
  <2>4. Lost(j) \in Nat
    BY <1>2 DEF Lost
  <2> QED BY <1>1, <1>2, <2>1, <2>2, <2>3, <2>4
<1>7. FirstInv(j)'
  BY <1>1, <1>2 DEF FirstInv
<1>8. WayInv(j)'
  <2> SUFFICES ASSUME Due(j)', mishaps = 0, MaxAttempts > 1
               PROVE  /\ Siblings(j) \cap active' = {}
                      /\ job'[j].tries <= 1 /\ job'[j].step # "over"
    BY <1>1, <1>2, <1>3 DEF WayInv
  <2>1. Clean(j) /\ job[j].tries <= 1
    BY <1>3 DEF LostInv, FirstInv
  <2>2. j \in active
    <3>1. job[j].step # "over" /\ job[j].step # "unasked"
      BY <1>4, <2>1 DEF Inv, JobInv
    <3> QED BY <2>1, <3>1 DEF Executing, Inv, JobInv
  <2>3. Siblings(j) \cap active' = {}
    BY <1>1, <2>2 DEF Inv, AloneInv, Frame, Siblings
  <2>4. job'[j].tries <= 1
    <3>1. CASE job'[j].tries = job[j].tries
      BY <2>1, <3>1
    <3>2. CASE job'[j].tries = job[j].tries + 1 /\ job[j].step = "queued"
      <4>1. job[j].tries = 0
        BY <2>1, <3>2 DEF Inv, JobInv
      <4> QED BY <3>2, <4>1
    <3> QED BY <3>1, <3>2 DEF Fails
  <2>5. job'[j].step # "over"
    <3>1. job'[j].step = "over" => job'[j].tries = MaxAttempts
      BY <1>4 DEF Fails
    <3> QED BY <1>2, <2>4, <3>1
  <2> QED BY <2>3, <2>4, <2>5
<1>9. LostInv(j)'
  BY <1>5, <1>6, <1>7, <1>8 DEF LostInv
<1>10. GoodStays(j)
  BY <1>1, <1>2 DEF GoodStays
<1> QED BY <1>1, <1>9, <1>10, OthersAreCounted

LEMMA GoesGoesOn ==
  ASSUME Inv, NEW j \in Jobs, NEW from \in Steps \ {"unasked", "queued", "over"},
         NEW to \in Steps \ {"unasked", "queued", "over"}, Goes(j, from, to),
         Frame(j), active' = active, mishaps' = mishaps
  PROVE  GoesOn(j)
<1>1. /\ OnlyJob(j) /\ job'[j].step = to /\ job'[j].error = job[j].error
      /\ job'[j].tries = job[j].tries
  BY GoesOnlyJob
<1>2. Executing(j) /\ Executing(j)'
  BY <1>1 DEF Goes, Executing
<1> QED BY <1>1, <1>2 DEF GoesOn

LEMMA StopsGoesOn ==
  ASSUME Inv, NEW j \in Jobs, NEW from \in Steps \ {"unasked", "queued", "over"},
         NEW error \in Errors, Stops(j, from, error),
         Frame(j), active' = active, mishaps' = mishaps,
         j \notin held \/ error \in {"not_owned", "forbidden"}
  PROVE  GoesOn(j)
<1>1. OnlyJob(j) /\ job'[j].step = "finish" /\ job'[j].error = error /\ job'[j].tries = job[j].tries
  BY StopsOnlyJob
<1>2. Executing(j) /\ Executing(j)'
  BY <1>1 DEF Stops, Executing
<1> QED BY <1>1, <1>2 DEF GoesOn

\* Every step of an attempt between its first and its last.
LEMMA AttemptGoesOn ==
  ASSUME Inv, NEW j \in Jobs,
         \/ GetKey(j) \/ GetSource(j) \/ Account(j) \/ Token(j)
         \/ resolveProviderKeyID(j) \/ DeleteKey(j) \/ DeleteLocal(j)
  PROVE  GoesOn(j)
<1>1. CASE GetKey(j)
  <2>1. Frame(j) /\ active' = active /\ mishaps' = mishaps
    BY <1>1, SameFrame DEF GetKey, Same
  <2>2. CASE Goes(j, "get", "source")
    BY <2>1, <2>2, GoesGoesOn DEF Steps
  <2>3. CASE j \notin held /\ Stops(j, "get", "key_not_found")
    BY <2>1, <2>3, StopsGoesOn DEF Steps, Errors
  <2> QED BY <1>1, <2>2, <2>3 DEF GetKey
<1>2. CASE GetSource(j)
  <2>1. Frame(j) /\ active' = active /\ mishaps' = mishaps
    BY <1>2, SameFrame DEF GetSource, Same
  <2>2. /\ OnlyJob(j) /\ job'[j].step = "account" /\ job'[j].error = job[j].error
        /\ job'[j].tries = job[j].tries
    BY <1>2, ReadsOnlyJob
  <2>3. Executing(j) /\ Executing(j)'
    BY <1>2, <2>2 DEF GetSource, Executing
  <2> QED BY <2>1, <2>2, <2>3 DEF GoesOn
<1>3. CASE Account(j)
  <2>1. Frame(j) /\ active' = active /\ mishaps' = mishaps /\ job[j].step = "account"
    BY <1>3, SameFrame DEF Account, Same
  <2>2. CASE job' = [job EXCEPT ![j].step = "token", ![j].name = {}]
    <3>1. /\ OnlyJob(j) /\ job'[j].step = "token" /\ job'[j].error = job[j].error
          /\ job'[j].tries = job[j].tries
      BY <2>1, <2>2, AccountOnlyJob
    <3>2. Executing(j) /\ Executing(j)'
      BY <2>1, <3>1 DEF Executing
    <3> QED BY <2>1, <3>1, <3>2 DEF GoesOn
  <2>3. CASE Stops(j, "account", "not_owned")
    BY <2>1, <2>3, StopsGoesOn DEF Steps, Errors
  <2> QED BY <1>3, <2>2, <2>3 DEF Account
<1>4. CASE Token(j)
  <2>1. Frame(j) /\ active' = active /\ mishaps' = mishaps /\ job[j].step = "token"
    BY <1>4, SameFrame DEF Token, Same
  <2>2. /\ OnlyJob(j) /\ job'[j].tries = job[j].tries /\ job'[j].step \in {"finish", "list"}
        /\ job'[j].error = job[j].error \/ job'[j].error \in {"not_owned", "forbidden"}
    BY <1>4, TokenOnlyJob
  <2>3. Executing(j) /\ Executing(j)'
    BY <2>1, <2>2 DEF Executing
  <2> QED BY <2>1, <2>2, <2>3 DEF GoesOn
<1>5. CASE resolveProviderKeyID(j)
  <2>1. Frame(j) /\ active' = active /\ mishaps' = mishaps
    BY <1>5, SameFrame DEF resolveProviderKeyID, Same
  <2>2. CASE Goes(j, "list", "delete")
    BY <2>1, <2>2, GoesGoesOn DEF Steps
  <2>3. CASE Goes(j, "list", "local")
    BY <2>1, <2>3, GoesGoesOn DEF Steps
  <2>4. CASE Stops(j, "list", "forbidden")
    BY <2>1, <2>4, StopsGoesOn DEF Steps, Errors
  <2> QED BY <1>5, <2>2, <2>3, <2>4 DEF resolveProviderKeyID
<1>6. CASE DeleteKey(j)
  <2>1. mishaps' = mishaps /\ active' = active /\ Goes(j, "delete", "local")
    BY <1>6 DEF DeleteKey
  <2>2. Frame(j)
    <3>1. mishaps' \in 0..MaxMishaps
      BY <2>1 DEF Inv, TypeOK
    <3> QED BY <1>6, <3>1, DeletedFrame DEF DeleteKey
  <2> QED BY <2>1, <2>2, GoesGoesOn DEF Steps
<1>7. CASE DeleteLocal(j)
  <2>1. mishaps' = mishaps /\ active' = active /\ Goes(j, "local", "finish")
    BY <1>7 DEF DeleteLocal
  <2>2. Frame(j)
    BY <1>7 DEF DeleteLocal, world, Frame, Inv, TypeOK
  <2> QED BY <2>1, <2>2, GoesGoesOn DEF Steps
<1> QED BY <1>1, <1>2, <1>3, <1>4, <1>5, <1>6, <1>7

LEMMA FailureFails ==
  ASSUME Inv, NEW j \in Jobs,
         CallFails(j) \/ MarkFails(j) \/ FinishFails(j) \/ DeleteReplyLost(j) \/ Crash(j)
  PROVE  Fails(j)
<1>1. mishaps' = mishaps + 1
  BY DEF CallFails, MarkFails, FinishFails, DeleteReplyLost, Crash, Mishap
<1>2. CASE CallFails(j)
  <2>1. Frame(j)
    BY <1>2, MishapFrame DEF CallFails
  <2>2. PICK from \in {"get", "source", "account", "token", "list", "delete", "local"} :
          Stops(j, from, "error")
    BY <1>2 DEF CallFails
  <2> QED BY <1>1, <2>1, <2>2, StopsOnlyJob DEF Fails, Steps, Errors, Clean
<1>3. CASE DeleteReplyLost(j)
  <2>1. Frame(j)
    <3>1. mishaps' \in 0..MaxMishaps
      BY <1>3, RevocationBounds DEF DeleteReplyLost, Mishap, Inv, TypeOK
    <3> QED BY <1>3, <3>1, DeletedFrame DEF DeleteReplyLost
  <2>2. Stops(j, "delete", "error")
    BY <1>3 DEF DeleteReplyLost
  <2> QED BY <1>1, <2>1, <2>2, StopsOnlyJob DEF Fails, Steps, Errors, Clean
<1>4. CASE Crash(j)
  <2>1. Frame(j)
    BY <1>4, MishapFrame DEF Crash
  <2> QED BY <1>1, <1>4, <2>1, CrashOnlyJob DEF Fails, Clean
<1>5. CASE MarkFails(j)
  <2>1. Frame(j) /\ NotMarked(j, "error") /\ job[j].step = "queued"
    BY <1>5, MarkFailsOnlyJob DEF NotMarked
  <2>2. /\ OnlyJob(j) /\ job'[j].error = "error" /\ job'[j].tries = job[j].tries + 1
        /\ job'[j].step = "over" => job'[j].tries = MaxAttempts
    BY <2>1, NotMarkedOnlyJob DEF Errors
  <2>3. ~Clean(j)'
    BY <2>2 DEF Clean
  <2> QED BY <1>1, <2>1, <2>2, <2>3 DEF Fails
<1>6. CASE FinishFails(j)
  <2>1. Frame(j) /\ Returns(j) /\ job[j].step = "finish"
    BY <1>6, MishapFrame DEF FinishFails, Returns, Goes
  <2>2. /\ OnlyJob(j) /\ job'[j].tries = job[j].tries /\ job'[j].error = job[j].error
        /\ job'[j].step = "over" /\ ~Clean(j)' => job'[j].tries = MaxAttempts
    BY <2>1, ReturnsOnlyJob
  <2>3. Clean(j)' => j \notin held
    BY <2>1, <2>2 DEF Clean, Inv, JobInv
  <2> QED BY <1>1, <2>1, <2>2, <2>3 DEF Fails
<1> QED BY <1>2, <1>3, <1>4, <1>5, <1>6

\* Steps of the others: none makes a promise of a job that was asked for.
LEMMA OtherStepIsCounted ==
  ASSUME AllLostInv, UNCHANGED <<job, active, mishaps>>, held' \subseteq held,
         kept' = {} \/ (kept' \subseteq kept /\ link' = link)
  PROVE  AllLostInv'
<1> SUFFICES ASSUME NEW j \in Jobs PROVE LostInv(j)'
  BY DEF AllLostInv
<1>1. LostInv(j)
  BY DEF AllLostInv
<1>2. Due(j)' => Due(j)
  BY DEF Due, Promised, LinkOf
<1>3. /\ Clean(j)' <=> Clean(j)
      /\ Executing(j)' <=> Executing(j)
      /\ Siblings(j)' = Siblings(j)
  BY DEF Clean, Executing, Siblings
<1>4. \A i \in Siblings(j) : Good(i) => Good(i)'
  BY DEF Good, Clean
<1>5. OverInv(j)' /\ FirstInv(j)'
  BY <1>1, <1>2, <1>3 DEF LostInv, OverInv, FirstInv
<1>6. CountInv(j)'
  <2>1. Lost(j)' = Lost(j)
    BY <1>3 DEF Lost
  <2> QED BY <1>1, <1>2, <1>3, <2>1 DEF LostInv, CountInv
<1>7. WayInv(j)'
  BY <1>1, <1>2, <1>3, <1>4 DEF LostInv, WayInv
<1> QED BY <1>5, <1>6, <1>7 DEF LostInv

\* A request that is made is good; one that is abandoned is a mishap, and finds
\* no job unclean when it is the first.
LEMMA RequestIsCounted ==
  ASSUME Inv, AllLostInv, NEW u \in Users, NEW k \in Keys, NEW j \in Jobs,
         RevokeMyKey(u, k, j) \/ RequestAbandoned(u, k, j)
  PROVE  AllLostInv'
<1> DEFINE made == RevokeMyKey(u, k, j)
<1>0. PICK step \in Steps : \E error \in Errors :
        /\ Asked(u, k, j, step, error)
        /\ made => step = "queued" /\ error = ""
        /\ ~made => step = "over" /\ error = "error"
  <2>1. "" \in Errors /\ "error" \in Errors /\ "queued" \in Steps /\ "over" \in Steps
    BY DEF Errors, Steps
  <2> QED BY <2>1 DEF RevokeMyKey, RequestAbandoned
<1>0a. PICK error \in Errors :
        /\ Asked(u, k, j, step, error)
        /\ made => step = "queued" /\ error = ""
        /\ ~made => step = "over" /\ error = "error"
  BY <1>0
<1>1. /\ \A i \in Jobs \ {j} : job'[i] = job[i]
      /\ job'[j].user = {u} /\ job'[j].key = {k} /\ job'[j].tries = 0
      /\ j \notin held /\ j \notin kept /\ j \notin active
      /\ job'[j].step = step /\ job'[j].error = error
  <2>1. Asked(u, k, j, step, error)
    BY <1>0a
  <2> HIDE DEF made
  <2> QED BY <2>1, AskedOnlyJob
<1>1a. /\ made => job'[j].step = "queued" /\ Clean(j)'
       /\ ~made => job'[j].step = "over" /\ ~Clean(j)'
  <2> HIDE DEF made
  <2> QED BY <1>0a, <1>1 DEF Clean
<1>1b. job[j].user = {}
  <2>1. job[j] = Unasked
    BY <1>0a DEF Asked
  <2>2. Unasked.user = {}
    BY DEF Unasked
  <2> QED BY <2>1, <2>2
<1>2. /\ active' = active \cup {j} /\ link' = link
      /\ held' \subseteq held \cup {j} /\ kept' \subseteq kept \cup {j}
      /\ made => mishaps' = mishaps
      /\ ~made => mishaps' = mishaps + 1 /\ held' = held
  BY DEF RevokeMyKey, RequestAbandoned, Asked, Mishap
<1>3. mishaps \in Nat /\ MaxAttempts \in Nat
  BY Counters
<1> HIDE DEF made
<1>4. LostInv(j)'
  <2>1. CASE made
    <3>1. Clean(j)' /\ job'[j].step # "over" /\ job'[j].tries = 0
      BY <1>1, <1>1a, <2>1
    <3>2. Lost(j)' = 0 /\ mishaps' \in Nat
      BY <1>2, <1>3, <2>1, <3>1 DEF Lost
    <3>3. OverInv(j)' /\ CountInv(j)' /\ FirstInv(j)' /\ WayInv(j)'
      BY <3>1, <3>2 DEF OverInv, CountInv, FirstInv, WayInv
    <3> QED BY <3>3 DEF LostInv
  <2>2. CASE ~made
    BY <1>1, <1>2, <2>2 DEF LostInv, OverInv, CountInv, FirstInv, WayInv, Due
  <2> QED BY <2>1, <2>2
<1>5. ASSUME NEW i \in Jobs \ {j} PROVE LostInv(i)'
  <2>1. job'[i] = job[i] /\ LostInv(i)
    BY <1>1 DEF AllLostInv
  <2>2. (i \in held' => i \in held) /\ (Due(i)' => Due(i))
    BY <1>2, <2>1 DEF Due, Promised, LinkOf
  <2>3. (Clean(i)' <=> Clean(i)) /\ (Executing(i)' <=> Executing(i)) /\ job[i].tries \in Nat
    BY <2>1, Counters DEF Clean, Executing
  <2>4. Due(i) => job[i].user # {}
    BY DEF Due, Promised, Inv, JobInv
  <2>5. Due(i) => Siblings(i)' \in {Siblings(i), Siblings(i) \cup {j}}
    <3>1. Due(i) => j \notin Siblings(i)
      BY <1>1b, <2>4 DEF Siblings
    <3> QED BY <1>1, <2>1, <3>1 DEF Siblings
  <2>6. OverInv(i)'
    BY <2>1, <2>2, <2>3 DEF LostInv, OverInv
  <2>7. CountInv(i)'
    <3>1. Lost(i)' = Lost(i) /\ Lost(i) \in Nat
      BY <2>1, <2>3 DEF Lost
    <3>2. Due(i)' /\ Siblings(i)' = {} => Lost(i) <= mishaps
      BY <2>1, <2>2, <2>5 DEF LostInv, CountInv
    <3>3. mishaps' \in {mishaps, mishaps + 1}
      BY <1>2
    <3> QED BY <1>3, <3>1, <3>2, <3>3 DEF CountInv
  <2>8. FirstInv(i)'
    <3>1. mishaps' = 0 => mishaps = 0
      BY <1>2, <1>3
    <3> QED BY <2>1, <2>2, <2>3, <3>1 DEF LostInv, FirstInv
  <2>9. WayInv(i)'
    <3> SUFFICES ASSUME Due(i)', mishaps' = 1, MaxAttempts > 1, ~Clean(i)'
                 PROVE  /\ \A l \in Siblings(i)' \cap active' : Good(l)'
                        /\ Executing(i)' => job'[i].tries <= 1
                        /\ job'[i].step = "over" => \E l \in Siblings(i)' : Good(l)'
      BY DEF WayInv
    <3>1. mishaps # 0
      BY <2>1, <2>2, <2>3 DEF LostInv, FirstInv
    <3>2. made /\ mishaps = 1
      BY <1>2, <1>3, <3>1
    <3>3. /\ \A l \in Siblings(i) \cap active : Good(l)
          /\ Executing(i) => job[i].tries <= 1
          /\ job[i].step = "over" => \E l \in Siblings(i) : Good(l)
      BY <2>1, <2>2, <2>3, <3>2 DEF LostInv, WayInv
    <3>4. Good(j)'
      BY <1>1a, <1>2, <3>2 DEF Good
    <3>5. ASSUME NEW l \in Siblings(i), l # j, Good(l) PROVE Good(l)'
      <4>1. job'[l] = job[l] /\ (l \in held' => l \in held) /\ (l \in active => l \in active')
        BY <1>1, <1>2, <3>5 DEF Siblings
      <4> QED BY <3>5, <4>1 DEF Good, Clean
    <3>6. \A l \in Siblings(i)' : l = j \/ l \in Siblings(i)
      BY <2>2, <2>5
    <3>7. \A l \in Siblings(i) : l # j /\ l \in Siblings(i)'
      BY <1>1b, <2>2, <2>4, <2>5 DEF Siblings
    <3> QED BY <1>2, <2>1, <2>3, <3>3, <3>4, <3>5, <3>6, <3>7
  <2> QED BY <2>6, <2>7, <2>8, <2>9 DEF LostInv
<1> QED BY <1>4, <1>5 DEF AllLostInv

LEMMA LostNext == Inv /\ Inv' /\ AllLostInv /\ [Next]_vars => AllLostInv'
<1> SUFFICES ASSUME Inv, Inv', AllLostInv, [Next]_vars PROVE AllLostInv'
  OBVIOUS
<1>1. ASSUME NEW j \in Jobs, Attempt(j) PROVE AllLostInv'
  BY <1>1, MarkRunningIsCounted, MarkRefusedIsCounted, FinishIsCounted,
     AttemptGoesOn, GoesOnIsCounted DEF Attempt
<1>2. ASSUME NEW j \in Jobs, JobStep(j) PROVE AllLostInv'
  BY <1>1, <1>2, FailureFails, FailureCounts DEF JobStep
<1>3. ASSUME NEW a \in Accounts, ScrapeUser(a) PROVE AllLostInv'
  <2>1. UNCHANGED <<job, active, link, mishaps>> /\ held' \subseteq held
    BY <1>3 DEF ScrapeUser
  <2>2. kept' \subseteq kept
    BY <1>3 DEF ScrapeUser, OffersVoid
  <2> QED BY <2>1, <2>2, OtherStepIsCounted
<1>4. ASSUME NEW u \in Users, ListMyKeys(u) PROVE AllLostInv'
  BY <1>4, OtherStepIsCounted DEF ListMyKeys
<1>5. CASE Moves /\ held' = held
  BY <1>5, OtherStepIsCounted DEF Moves, OffersVoid
<1>6. CASE UNCHANGED vars
  BY <1>6, OtherStepIsCounted DEF vars
<1> QED BY <1>2, <1>3, <1>4, <1>5, <1>6, RequestIsCounted
        DEF Next, JobStep, Rename, ChangeKey, Connect, Disconnect

\* For any number of jobs, attempts and failures: a promised revocation is
\* given up with its row still there only after a failure for every attempt;
\* or when the user asked again, because of a failure, and that request goes
\* on, is about an earlier row, or there was a second failure.
THEOREM PromisesAreKept == Spec => []OnlyFailuresBreakPromises
<1>1. Init => AllLostInv
  <2> SUFFICES ASSUME Init, NEW j \in Jobs PROVE LostInv(j)
    BY DEF AllLostInv
  <2>1. job[j] = Unasked /\ j \notin held
    BY DEF Init
  <2>2. Unasked.step = "unasked"
    BY DEF Unasked
  <2> QED BY <2>1, <2>2 DEF LostInv, OverInv, CountInv, FirstInv, WayInv, Due
<1>2. ASSUME Inv, AllLostInv PROVE OnlyFailuresBreakPromises
  <2> SUFFICES ASSUME NEW j \in Jobs, Promised(j), job[j].step = "over", j \in held
               PROVE  \/ MayBeLost(j)
                      \/ mishaps >= 1 /\ \E i \in Siblings(j) : job[i].step # "over"
    BY DEF OnlyFailuresBreakPromises
  <2>1. Due(j) /\ ~Clean(j) /\ LostInv(j)
    BY <1>2 DEF Inv, JobInv, Due, AllLostInv
  <2>2. job[j].tries = MaxAttempts /\ MaxAttempts > 0
    BY <2>1, SomeAttempt DEF LostInv, OverInv
  <2>3. mishaps \in Nat /\ MaxAttempts \in Nat
    BY <1>2, Counters
  <2>4. CASE Siblings(j) = {}
    BY <2>1, <2>2, <2>4 DEF LostInv, CountInv, Lost, MayBeLost
  <2>5. CASE Siblings(j) # {} /\ mishaps # 1
    <3>1. mishaps # 0
      BY <2>1 DEF LostInv, FirstInv
    <3>2. mishaps >= 2
      BY <2>3, <2>5, <3>1
    <3> QED BY <2>5, <3>2 DEF MayBeLost
  <2>6. CASE mishaps = 1 /\ MaxAttempts > 1
    <3>1. PICK i \in Siblings(j) : Good(i)
      BY <2>1, <2>6 DEF LostInv, WayInv
    <3>2. i \notin held \/ job[i].step # "over"
      BY <3>1 DEF Good
    <3> QED BY <2>6, <3>2 DEF MayBeLost
  <2>7. CASE mishaps = 1 /\ ~(MaxAttempts > 1)
    BY <2>2, <2>3, <2>7 DEF MayBeLost
  <2> QED BY <2>4, <2>5, <2>6, <2>7
<1> QED BY <1>1, <1>2, LostNext, Invariance, PTL DEF Spec
=============================================================================
