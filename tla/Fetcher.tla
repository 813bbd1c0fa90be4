------------------------------- MODULE Fetcher -------------------------------
(***************************************************************************)
(* Calls to a provider's API under its rate limit                          *)
(* (internal/infra/fetchers/github and gitlab).  The provider grants Quota *)
(* requests per window; every answer says what is left and when the window *)
(* ends.  Each process keeps the last answer it processed in its Fetcher,  *)
(* which all its goroutines read before they call: nothing is reserved, so *)
(* several may pass on the same remainder, and answers are processed in    *)
(* any order.  Processes know nothing of each other but draw on the same   *)
(* quota.                                                                  *)
(*                                                                         *)
(* Time is the end of a window: a reset lies ahead until then and in the   *)
(* past ever after.                                                        *)
(***************************************************************************)
EXTENDS Naturals

CONSTANTS
  Callers,     \* goroutines that call the API
  Processes,   \* operating system processes, with a Fetcher each
  ProcessOf,   \* the process of each caller
  Quota,       \* requests granted per window
  MaxMishaps   \* bound on failing calls and statements, signals and crashes

ASSUME FetcherAssumption ==
  /\ ProcessOf \in [Callers -> Processes]
  /\ Quota \in Nat \ {0}
  /\ MaxMishaps \in Nat

VARIABLES
  quota,    \* what the provider still grants in this window
  left,     \* rateRemaining of each process
  ahead,    \* whether its rateLimitReset is in the future
  at,       \* where each caller is in its call
  answer,   \* the answer on its way to it
  result,   \* how its last call went
  live,     \* whether its context is alive
  mishaps

rateVars == <<quota, left, ahead>>
callVars == <<at, answer, result>>
fetchVars == <<rateVars, callVars, live, mishaps>>

Answers == [ok : BOOLEAN, left : 0..Quota, ahead : BOOLEAN]
NoAnswer == [ok |-> FALSE, left |-> 0, ahead |-> FALSE]

FetcherTypeOK ==
  /\ quota \in 0..Quota
  /\ left \in [Processes -> 0..Quota]
  /\ ahead \in [Processes -> BOOLEAN]
  /\ at \in [Callers -> {"away", "asked", "asleep", "cleared", "answered", "back"}]
  /\ answer \in [Callers -> Answers]
  /\ result \in [Callers -> {"none", "ok", "rate_limited", "failed"}]
  /\ live \in [Callers -> BOOLEAN]
  /\ mishaps \in 0..MaxMishaps

\* "Assume some capacity initially", and a reset in the year 1.
FetcherInit ==
  /\ quota = Quota
  /\ left = [p \in Processes |-> Quota]
  /\ ahead = [p \in Processes |-> FALSE]
  /\ at = [c \in Callers |-> "away"]
  /\ answer = [c \in Callers |-> NoAnswer]
  /\ result = [c \in Callers |-> "none"]
  /\ live = [c \in Callers |-> TRUE]
  /\ mishaps = 0

-----------------------------------------------------------------------------
(* One call, from waitForRateLimit to the handlers of its answer.          *)

\* Called by the steps of a caller's program.
Ask(c) == at' = [at EXCEPT ![c] = "asked"]

\* Slip: an empty budget is taken for one although its window has ended.
MaySendOnBudget(p) == left[p] > 0

\* Slip: zero remaining requests count as some.
MaySendAtZero(p) == left[p] >= 0

MaySend(p) == left[p] > 0 \/ ~ahead[p]

WaitForRateLimit(c) ==
  /\ at[c] = "asked"
  /\ at' = [at EXCEPT ![c] = IF MaySend(ProcessOf[c]) THEN "cleared" ELSE "asleep"]
  /\ UNCHANGED <<rateVars, answer, result, live, mishaps>>

\* The request reaches the provider, which counts it and answers 403 or 429
\* once nothing is left.
Serve(c) ==
  /\ at[c] = "cleared" /\ live[c]
  /\ at' = [at EXCEPT ![c] = "answered"]
  /\ quota' = IF quota > 0 THEN quota - 1 ELSE 0
  /\ answer' = [answer EXCEPT ![c] = [ok |-> quota > 0, left |-> quota', ahead |-> TRUE]]
  /\ UNCHANGED <<left, ahead, result, live, mishaps>>

Return(c, how) ==
  /\ at' = [at EXCEPT ![c] = "back"]
  /\ result' = [result EXCEPT ![c] = how]
  /\ answer' = [answer EXCEPT ![c] = NoAnswer]

\* The request or its answer is lost, times out, or has another bad status.
CallFails(c) ==
  /\ at[c] \in {"cleared", "answered"}
  /\ mishaps < MaxMishaps
  /\ mishaps' = mishaps + 1
  /\ Return(c, "failed")
  /\ UNCHANGED <<rateVars, live>>

\* Whoever is cancelled stops waiting, for the reset or for the answer.
Lapse(c) ==
  /\ at[c] \in {"asleep", "cleared", "answered"} /\ ~live[c]
  /\ Return(c, "failed")
  /\ UNCHANGED <<rateVars, live, mishaps>>

UpdateRateLimit(p, a) ==
  /\ left' = [left EXCEPT ![p] = a.left]
  /\ ahead' = [ahead EXCEPT ![p] = a.ahead]

\* The handlers of a good answer.
ReceivePage(c) ==
  /\ at[c] = "answered" /\ answer[c].ok
  /\ UpdateRateLimit(ProcessOf[c], answer[c])
  /\ Return(c, "ok")
  /\ UNCHANGED <<quota, live, mishaps>>

\* The handlers run in no particular order and end with the first that fails:
\* checkStatus, or the decoder that meets an error body.  So the limit may or
\* may not be noted, and the error may or may not be ErrRateLimited.
ReceiveRefusal(c) ==
  /\ at[c] = "answered" /\ ~answer[c].ok
  /\ \/ UpdateRateLimit(ProcessOf[c], answer[c])
     \/ UNCHANGED <<left, ahead>>
  /\ \E how \in {"rate_limited", "failed"} : Return(c, how)
  /\ UNCHANGED <<quota, live, mishaps>>

\* The window ends: the quota is renewed, known resets have passed, and those
\* who slept until then call without looking at the limit again.
WindowEnds ==
  /\ quota < Quota
  /\ quota' = Quota
  /\ ahead' = [p \in Processes |-> FALSE]
  /\ answer' = [c \in Callers |-> [answer[c] EXCEPT !.ahead = FALSE]]
  /\ at' = [c \in Callers |-> IF at[c] = "asleep" THEN "cleared" ELSE at[c]]
  /\ UNCHANGED <<left, result, live, mishaps>>

CallStep(c) ==
  \/ WaitForRateLimit(c) \/ Serve(c) \/ Lapse(c)
  \/ ReceivePage(c) \/ ReceiveRefusal(c)

-----------------------------------------------------------------------------
\* Nobody sleeps for the reset while the provider would still answer: what a
\* process takes for an empty budget is one, although its goroutines and other
\* processes overwrite and overtake each other's news of it.
NoNeedlessSleep == \A c \in Callers : at[c] = "asleep" => quota = 0

\* A process that knows the window to be used up, and has no call under way.
Quiet(p) ==
  /\ left[p] = 0 /\ ahead[p]
  /\ \A c \in Callers : ProcessOf[c] = p => at[c] \notin {"cleared", "answered"}

\* Such a process sends nothing until the window ends.
QuietUntilReset ==
  [][\A p \in Processes : Quiet(p) => Quiet(p)' \/ ~ahead'[p]]_fetchVars
=============================================================================
