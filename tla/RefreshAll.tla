------------------------------ MODULE RefreshAll ------------------------------
(***************************************************************************)
(* The daily pass over all profiles (internal/infra/jobs/periodic.go),     *)
(* composed with the requests that create, rename and delete profiles      *)
(* while it runs.  The pass reads the table in batches ordered by id and   *)
(* queues one refresh for each row; what becomes of a refresh once it is   *)
(* queued is TaskQueue's.                                                  *)
(***************************************************************************)
EXTENDS Profiles

CONSTANT BatchSize  \* refreshBatchSize

ASSUME BatchSizeAssumption == BatchSize \in Nat \ {0}

VARIABLES
  step,     \* what the pass does next
  after,    \* the id it has come to
  batch,    \* ids of the rows it holds and has yet to queue
  asked,    \* how often it tried to queue a refresh for each row
  present   \* rows that exist since before the pass began

passVars == <<step, after, batch, asked>>
allVars == <<vars, passVars, present>>

Stored == {profile[u].id : u \in Users} \ {Nobody}

PassTypeOK ==
  /\ TypeOK
  /\ step \in {"idle", "list", "queue", "done"}
  /\ after \in Ids \cup {0}
  /\ batch \subseteq Ids /\ (batch # {} <=> step = "queue")
  /\ asked \in [Ids -> Nat]
  /\ present \subseteq Stored

PassInit ==
  /\ Init
  /\ step = "idle" /\ after = 0 /\ batch = {}
  /\ asked = [i \in Ids |-> 0]
  /\ present = {}

\* River inserts the job once for all instances; an attempt starts afresh.
StartPass ==
  /\ step \in {"idle", "done"}
  /\ step' = "list" /\ after' = 0
  /\ asked' = [i \in Ids |-> 0]
  /\ present' = Stored
  /\ UNCHANGED <<vars, batch>>

\* ORDER BY id LIMIT n: the beginning of the rows, all of them if they fit.
FirstRows(rows, n) ==
  {B \in SUBSET rows : /\ \A i \in B, j \in rows \ B : i < j
                       /\ Cardinality(B) <= n
                       /\ B = rows \/ Cardinality(B) = n}

\* Slip: an empty batch is queued like any other.
ReadWithoutBreak(rows) ==
  /\ step = "list"
  /\ batch' \in FirstRows(rows, BatchSize)
  /\ step' = "queue"
  /\ UNCHANGED <<vars, after, asked, present>>

\* Slip: an empty batch makes the loop try again instead of ending it.
ReadAgain(rows) ==
  /\ step = "list"
  /\ batch' \in FirstRows(rows, BatchSize)
  /\ step' = IF batch' = {} THEN "list" ELSE "queue"
  /\ UNCHANGED <<vars, after, asked, present>>

Read(rows) ==
  /\ step = "list"
  /\ batch' \in FirstRows(rows, BatchSize)
  /\ step' = IF batch' = {} THEN "done" ELSE "queue"
  /\ UNCHANGED <<vars, after, asked, present>>

\* Slip: rows are skipped by their number and not by id.
ListByOffset ==
  \E skipped \in FirstRows(Stored, Cardinality({i \in Ids : asked[i] > 0})) :
    Read(Stored \ skipped)

List == Read({i \in Stored : i > after})

\* One row, in order of id.  Enqueue's error is logged and costs only the row.
Enqueue(i) ==
  /\ step = "queue" /\ i \in batch /\ \A j \in batch : i <= j
  /\ after' = i
  /\ asked' = [asked EXCEPT ![i] = @ + 1]
  /\ batch' = batch \ {i}
  /\ step' = IF batch' = {} THEN "list" ELSE "queue"
  /\ UNCHANGED <<vars, present>>

\* List fails, or the worker dies: River will start another attempt.
PassFails ==
  /\ mishaps < MaxMishaps
  /\ mishaps' = mishaps + 1
  /\ step \in {"list", "queue"}
  /\ step' = "idle" /\ batch' = {}
  /\ UNCHANGED <<outerVars, tables, localVars, arrivals, after, asked, present>>

Requesting ==
  /\ Next
  /\ present' = present \cap Stored'
  /\ UNCHANGED passVars

Pass == List \/ \E i \in Ids : Enqueue(i)

PassNext == StartPass \/ Pass \/ PassFails \/ Requesting

PassSpec == PassInit /\ [][PassNext]_allVars
FairPassSpec == PassSpec /\ WF_allVars(Pass)

-----------------------------------------------------------------------------
\* "Walking by id rather than by offset keeps a long pass over every profile
\* stable while profiles are being created and deleted underneath it"
\* (domain/profiles/repository.go): a pass that ends has asked for a refresh of
\* every profile that was there all the time, and only once.
PassIsStable == step = "done" => \A i \in present : asked[i] = 1

\* A pass that is not interrupted ends, however many profiles are created
\* behind and ahead of it.
PassEnds == step = "list" ~> step \in {"idle", "done"}
=============================================================================
