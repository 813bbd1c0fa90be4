---------------------------- MODULE CrawlerProofs ----------------------------
(***************************************************************************)
(* Proofs about Crawler and the Fetcher below it, for any number of        *)
(* processes and goroutines, any quota, any users and any batch size.      *)
(***************************************************************************)
EXTENDS Crawler, FiniteSetTheorems, TLAPS

USE DEF Nothing

-----------------------------------------------------------------------------
(* Types *)

\* Takes and Ask only move the crawler.
LEMMA MovesAt ==
  ASSUME FetcherTypeOK, NEW c \in Callers,
         NEW a \in {"away", "asked", "asleep", "cleared", "answered", "back"},
         at' = [at EXCEPT ![c] = a],
         UNCHANGED othersVars
  PROVE  FetcherTypeOK'
  BY DEF othersVars, FetcherTypeOK, rateVars

LEMMA FetcherTypeCalls ==
  ASSUME FetcherTypeOK, NEW c \in Callers, CallStep(c)
  PROVE  FetcherTypeOK'
<1>. /\ ProcessOf \in [Callers -> Processes] /\ Quota \in Nat \ {0} /\ MaxMishaps \in Nat
     /\ answer[c] \in Answers /\ NoAnswer \in Answers
  BY FetcherAssumption DEF FetcherTypeOK, Answers, NoAnswer
<1>1. CASE WaitForRateLimit(c)
  BY <1>1 DEF WaitForRateLimit, FetcherTypeOK, rateVars
<1>2. CASE Serve(c)
  <2>1. quota' \in 0..Quota
    BY <1>2 DEF Serve, FetcherTypeOK
  <2>2. [ok |-> quota > 0, left |-> quota', ahead |-> TRUE] \in Answers
    BY <2>1 DEF Answers
  <2>. QED BY <1>2, <2>1, <2>2 DEF Serve, FetcherTypeOK
<1>3. CASE Lapse(c)
  BY <1>3 DEF Lapse, Return, FetcherTypeOK, rateVars
<1>a. /\ answer[c].left \in 0..Quota /\ answer[c].ahead \in BOOLEAN
      /\ ProcessOf[c] \in Processes
  BY DEF Answers
<1>b. UpdateRateLimit(ProcessOf[c], answer[c])
      => left' \in [Processes -> 0..Quota] /\ ahead' \in [Processes -> BOOLEAN]
  BY <1>a DEF UpdateRateLimit, FetcherTypeOK
<1>4. CASE ReceivePage(c)
  BY <1>4, <1>b DEF ReceivePage, Return, FetcherTypeOK
<1>5. CASE ReceiveRefusal(c)
  BY <1>5, <1>b DEF ReceiveRefusal, Return, FetcherTypeOK
<1>. QED BY <1>1, <1>2, <1>3, <1>4, <1>5 DEF CallStep

LEMMA FetcherTypeOthers ==
  ASSUME FetcherTypeOK, WindowEnds \/ \E c \in Callers : CallFails(c)
  PROVE  FetcherTypeOK'
<1>. Quota \in Nat \ {0} /\ MaxMishaps \in Nat /\ NoAnswer \in Answers
  BY FetcherAssumption DEF Answers, NoAnswer
<1>1. CASE WindowEnds
  <2>1. answer' \in [Callers -> Answers]
    BY <1>1 DEF WindowEnds, FetcherTypeOK, Answers
  <2>. QED BY <1>1, <2>1 DEF WindowEnds, FetcherTypeOK
<1>2. CASE \E c \in Callers : CallFails(c)
  BY <1>2 DEF CallFails, Return, FetcherTypeOK, rateVars
<1>. QED BY <1>1, <1>2

LEMMA TypeInit == Init => TypeOK
  BY FetcherAssumption, CrawlerAssumption
  DEF Init, FetcherInit, TypeOK, FetcherTypeOK, NoAnswer, Answers, Ended, Users

LEMMA TypeCalls ==
  ASSUME TypeOK,
         \/ \E c \in Callers : Calls(c)
         \/ WindowEnds /\ UNCHANGED <<runVars, worldVars, walkVars>>
         \/ \E c \in Callers : CallFails(c) /\ UNCHANGED <<runVars, worldVars, walkVars>>
  PROVE  TypeOK'
<1>1. FetcherTypeOK' /\ UNCHANGED <<runVars, worldVars, walkVars>>
  BY FetcherTypeCalls, FetcherTypeOthers DEF Calls, TypeOK
<1>. QED BY <1>1 DEF TypeOK, runVars, worldVars, walkVars

LEMMA TypeRun ==
  ASSUME TypeOK, Run
  PROVE  TypeOK'
<1>. /\ crawler \in Callers /\ MaxMishaps \in Nat /\ Users \subseteq Nat \ {0}
  BY FetcherAssumption, CrawlerAssumption DEF Users
<1>. USE DEF TypeOK
<1>1. CASE Top \/ ListUsersFails \/ FetchUserGPGKeys
  <2>1. FetcherTypeOK'
    BY <1>1, MovesAt
    DEF Top, ListUsersFails, FetchUserGPGKeys, Ask, Takes, othersVars, rateVars, FetcherTypeOK
  <2>. QED BY <1>1, <2>1
           DEF Top, ListUsersFails, FetchUserGPGKeys, worldVars, walkVars, Ended
<1>2. CASE ListUsers
  <2>1. FetcherTypeOK'
    BY <1>2, MovesAt DEF ListUsers, Takes
  <2>2. Page \subseteq Users
    BY DEF Page, Behind
  <2>. QED BY <1>2, <2>1, <2>2 DEF ListUsers, worldVars, walkVars, Ended
<1>3. CASE NoUsersLeft
  <2>1. FetcherTypeOK'
    BY <1>3, MovesAt DEF NoUsersLeft, Takes
  <2>. QED BY <1>3, <2>1 DEF NoUsersLeft, WalkBegins, worldVars
<1>4. CASE ProcessUser
  <2>1. FetcherTypeOK'
    BY <1>4, MovesAt DEF ProcessUser, Ask
  <2>. QED BY <1>4, <2>1 DEF ProcessUser, worldVars, walkVars
<1>5. CASE KeysRefused \/ StoreKeys
  <2>1. /\ FetcherTypeOK' /\ UserDone /\ pc \in {"ssh", "gpg"}
        /\ UNCHANGED <<cursor, next, batch, saved, worldVars, present>>
    BY <1>5, MovesAt DEF KeysRefused, StoreKeys, Takes
  <2>2. tried' \subseteq Users
    BY <2>1 DEF UserDone
  <2>. QED BY <2>1, <2>2 DEF UserDone, worldVars
<1>6. CASE GetProgress \/ SaveProgress \/ Sleep
  <2>1. FetcherTypeOK'
    BY <1>6 DEF GetProgress, SaveProgress, Sleep, fetchVars, rateVars, callVars, FetcherTypeOK
  <2>. QED BY <1>6, <2>1 DEF GetProgress, SaveProgress, Sleep, WalkBegins, worldVars, walkVars
<1>7. CASE GetProgressFails \/ SaveProgressFails
  <2>1. mishaps' \in 0..MaxMishaps
    BY <1>7 DEF GetProgressFails, SaveProgressFails, Mishap, FetcherTypeOK
  <2>2. FetcherTypeOK'
    BY <1>7, <2>1 DEF GetProgressFails, SaveProgressFails, rateVars, callVars, FetcherTypeOK
  <2>. QED BY <1>7, <2>2 DEF GetProgressFails, SaveProgressFails, worldVars, walkVars, Ended
<1>. QED BY <1>1, <1>2, <1>3, <1>4, <1>5, <1>6, <1>7 DEF Run

LEMMA TypeWorld ==
  ASSUME TypeOK, World \/ UNCHANGED vars
  PROVE  TypeOK'
<1>. /\ crawler \in Callers /\ MaxMishaps \in Nat /\ Quota \in Nat \ {0}
     /\ MaxChurn \in Nat /\ MaxJobs \in Nat /\ NoAnswer \in Answers
  BY FetcherAssumption, CrawlerAssumption DEF Answers, NoAnswer
<1>. USE DEF TypeOK
<1>1. CASE Signal \/ Crash \/ Restart \/ GetProgressFails \/ SaveProgressFails
  <2>1. mishaps' \in 0..MaxMishaps
    BY <1>1 DEF Signal, Crash, Restart, GetProgressFails, SaveProgressFails, Mishap,
                FetcherTypeOK
  <2>2. CASE Signal
    <3>1. FetcherTypeOK'
      BY <2>1, <2>2 DEF Signal, rateVars, callVars, FetcherTypeOK
    <3>. QED BY <2>2, <3>1 DEF Signal, runVars, worldVars, walkVars
  <2>3. CASE Crash
    <3>1. FetcherTypeOK'
      BY <2>1, <2>3 DEF Crash, rateVars, FetcherTypeOK
    <3>. QED BY <2>3, <3>1 DEF Crash, worldVars, walkVars, Ended
  <2>4. CASE Restart
    <3>a. left \in [Processes -> 0..Quota] /\ ahead \in [Processes -> BOOLEAN]
      BY DEF FetcherTypeOK
    <3>b. Quota \in 0..Quota
      OBVIOUS
    <3>1. left' \in [Processes -> 0..Quota] /\ ahead' \in [Processes -> BOOLEAN]
      BY <2>4, <3>a, <3>b DEF Restart
    <3>2. live' \in [Callers -> BOOLEAN] /\ UNCHANGED <<quota, at, answer, mishaps>>
      BY <2>4 DEF Restart, FetcherTypeOK
    <3>3. result' \in [Callers -> {"none", "ok", "rate_limited", "failed"}]
      BY <2>4 DEF Restart, FetcherTypeOK
    <3>4. FetcherTypeOK'
      BY <3>1, <3>2, <3>3 DEF FetcherTypeOK
    <3>. QED BY <2>4, <3>4 DEF Restart, worldVars, walkVars
  <2>5. CASE GetProgressFails \/ SaveProgressFails
    <3>1. FetcherTypeOK'
      BY <2>1, <2>5 DEF GetProgressFails, SaveProgressFails, rateVars, callVars, FetcherTypeOK
    <3>. QED BY <2>5, <3>1 DEF GetProgressFails, SaveProgressFails, worldVars, walkVars, Ended
  <2>. QED BY <1>1, <2>2, <2>3, <2>4, <2>5
<1>2. CASE \E u \in Users : Join(u) \/ Leave(u)
  <2>1. FetcherTypeOK'
    BY <1>2 DEF Join, Leave, fetchVars, rateVars, callVars, FetcherTypeOK
  <2>. QED BY <1>2, <2>1 DEF Join, Leave, runVars, walkVars
<1>3. CASE \E c \in Callers \ {crawler} : ScrapeUserCalls(c)
  <2>1. FetcherTypeOK'
    BY <1>3, MovesAt DEF ScrapeUserCalls, Ask
  <2>. QED BY <1>3, <2>1 DEF ScrapeUserCalls, runVars, walkVars
<1>4. CASE UNCHANGED vars
  BY <1>4 DEF vars, fetchVars, rateVars, callVars, runVars, worldVars, walkVars, FetcherTypeOK
<1>5. CASE \E c \in Callers : CallFails(c) /\ UNCHANGED <<runVars, worldVars, walkVars>>
  BY <1>5, TypeCalls
<1>. QED BY <1>1, <1>2, <1>3, <1>4, <1>5 DEF World

LEMMA TypeStep == TypeOK /\ [Next]_vars => TypeOK'
  BY TypeCalls, TypeRun, TypeWorld DEF Next

\* The crawler, the calls and the history keep their types.
THEOREM TypeCorrect == Spec => []TypeOK
  BY TypeInit, TypeStep, PTL DEF Spec

-----------------------------------------------------------------------------
(* The rate limit *)

\* An empty budget that a process knows, is being told or sleeps on is real.
BudgetInv ==
  /\ \A p \in Processes : left[p] = 0 /\ ahead[p] => quota = 0
  /\ \A c \in Callers :
       /\ at[c] = "answered" /\ answer[c].left = 0 /\ answer[c].ahead => quota = 0
       /\ at[c] = "asleep" => quota = 0

RateInv == FetcherTypeOK /\ BudgetInv

LEMMA BudgetCalls ==
  ASSUME RateInv, NEW c \in Callers, CallStep(c) \/ CallFails(c)
  PROVE  BudgetInv'
<1>. /\ ProcessOf \in [Callers -> Processes] /\ Quota \in Nat \ {0}
     /\ quota \in 0..Quota
  BY FetcherAssumption DEF RateInv, FetcherTypeOK
<1>. USE DEF RateInv, BudgetInv, FetcherTypeOK
<1>1. CASE WaitForRateLimit(c)
  BY <1>1 DEF WaitForRateLimit, MaySend, rateVars
<1>2. CASE Serve(c)
  <2>1. /\ quota = 0 => quota' = 0
        /\ answer'[c].left = quota'
        /\ \A d \in Callers \ {c} : answer'[d] = answer[d] /\ at'[d] = at[d]
        /\ at'[c] = "answered" /\ UNCHANGED <<left, ahead>>
    BY <1>2 DEF Serve
  <2>. QED BY <2>1
<1>3. CASE Lapse(c) \/ CallFails(c)
  BY <1>3 DEF Lapse, CallFails, Return, rateVars
<1>4. CASE ReceivePage(c) \/ ReceiveRefusal(c)
  <2>1. /\ at[c] = "answered" /\ at'[c] = "back" /\ quota' = quota
        /\ \A d \in Callers \ {c} : answer'[d] = answer[d] /\ at'[d] = at[d]
    BY <1>4 DEF ReceivePage, ReceiveRefusal, Return
  <2>2. \/ UNCHANGED <<left, ahead>>
        \/ /\ left'[ProcessOf[c]] = answer[c].left /\ ahead'[ProcessOf[c]] = answer[c].ahead
           /\ \A p \in Processes \ {ProcessOf[c]} : left'[p] = left[p] /\ ahead'[p] = ahead[p]
    BY <1>4 DEF ReceivePage, ReceiveRefusal, UpdateRateLimit
  <2>. QED BY <2>1, <2>2
<1>. QED BY <1>1, <1>2, <1>3, <1>4 DEF CallStep

\* What else there is to Fetcher.
Idles == /\ UNCHANGED <<quota, answer>>
         /\ \A p \in Processes : (left'[p] = left[p] /\ ahead'[p] = ahead[p]) \/ ~ahead'[p]
         /\ \A c \in Callers : at'[c] = at[c] \/ at'[c] \in {"away", "asked"}

LEMMA BudgetIdles == RateInv /\ Idles => BudgetInv'
  BY DEF RateInv, BudgetInv, Idles

LEMMA OthersIdle ==
  ASSUME TypeOK, Run \/ World \/ UNCHANGED vars,
         ~ \E c \in Callers : CallFails(c), ~Crash
  PROVE  Idles
<1>. crawler \in Callers
  BY CrawlerAssumption
<1>. USE DEF TypeOK, FetcherTypeOK
<1>1. CASE Restart
  BY <1>1, FetcherAssumption, CrawlerAssumption DEF Restart, Idles, TypeOK, FetcherTypeOK
<1>2. CASE GetProgress \/ GetProgressFails \/ SaveProgress \/ SaveProgressFails \/ Sleep
           \/ Signal \/ (\E u \in Users : Join(u) \/ Leave(u)) \/ UNCHANGED vars
  BY <1>2 DEF GetProgress, GetProgressFails, SaveProgress, SaveProgressFails, Sleep, Signal,
              Join, Leave, vars, fetchVars, rateVars, callVars, Idles
<1>3. CASE Top \/ ProcessUser \/ FetchUserGPGKeys
           \/ (\E c \in Callers \ {crawler} : ScrapeUserCalls(c))
  BY <1>3 DEF Top, ProcessUser, FetchUserGPGKeys, ScrapeUserCalls, Ask, othersVars, rateVars,
              Idles
<1>4. CASE ListUsers \/ NoUsersLeft \/ ListUsersFails \/ KeysRefused \/ StoreKeys
  BY <1>4 DEF ListUsers, NoUsersLeft, ListUsersFails, KeysRefused, StoreKeys, Takes,
              othersVars, rateVars, Idles
<1>. QED BY <1>1, <1>2, <1>3, <1>4 DEF Run, World

LEMMA BudgetStep == TypeOK /\ BudgetInv /\ [Next]_vars => BudgetInv'
<1>. SUFFICES ASSUME TypeOK, BudgetInv, [Next]_vars PROVE BudgetInv'
  OBVIOUS
<1>. RateInv /\ crawler \in Callers
  BY CrawlerAssumption DEF RateInv, TypeOK
<1>1. CASE \E c \in Callers : Calls(c) \/ CallFails(c)
  BY <1>1, BudgetCalls DEF Calls
<1>2. CASE WindowEnds
  BY <1>2 DEF WindowEnds, RateInv, FetcherTypeOK, BudgetInv, Answers
<1>3. CASE Crash
  BY <1>3 DEF Crash, RateInv, FetcherTypeOK, BudgetInv, rateVars
<1>. QED BY <1>1, <1>2, <1>3, OthersIdle, BudgetIdles DEF Next

\* No goroutine of any process sleeps while the provider would answer.
THEOREM SleepIsNeeded == Spec => []NoNeedlessSleep
<1>1. Init => BudgetInv
  BY FetcherAssumption DEF Init, FetcherInit, BudgetInv
<1>2. Spec => [](TypeOK /\ BudgetInv)
  BY TypeInit, TypeStep, <1>1, BudgetStep, PTL DEF Spec
<1>3. BudgetInv => NoNeedlessSleep
  BY DEF BudgetInv, NoNeedlessSleep
<1>. QED BY <1>2, <1>3, PTL

LEMMA QuietCalls ==
  ASSUME TypeOK, NEW c \in Callers, CallStep(c) \/ CallFails(c),
         NEW p \in Processes, Quiet(p)
  PROVE  Quiet(p)' \/ ~ahead'[p]
<1>. USE FetcherAssumption DEF TypeOK, FetcherTypeOK, Quiet
<1>1. CASE WaitForRateLimit(c)
  <2>1. at'[c] \in {"cleared", "asleep"} /\ (ProcessOf[c] = p => at'[c] = "asleep")
    BY <1>1 DEF WaitForRateLimit, MaySend
  <2>. QED BY <1>1, <2>1 DEF WaitForRateLimit, rateVars
<1>2. CASE Lapse(c) \/ CallFails(c)
  BY <1>2 DEF Lapse, CallFails, Return, rateVars
<1>3. CASE Serve(c)
  BY <1>3 DEF Serve
<1>4. CASE ReceivePage(c) \/ ReceiveRefusal(c)
  <2>1. ProcessOf[c] # p /\ left'[p] = left[p] /\ ahead'[p] = ahead[p]
    BY <1>4 DEF ReceivePage, ReceiveRefusal, UpdateRateLimit
  <2>2. \A d \in Callers \ {c} : at'[d] = at[d]
    BY <1>4 DEF ReceivePage, ReceiveRefusal, Return
  <2>. QED BY <2>1, <2>2
<1>. QED BY <1>1, <1>2, <1>3, <1>4 DEF CallStep

LEMMA QuietStep ==
  ASSUME TypeOK, [Next]_vars, NEW p \in Processes, Quiet(p)
  PROVE  Quiet(p)' \/ ~ahead'[p]
<1>1. CASE \E c \in Callers : Calls(c) \/ CallFails(c)
  BY <1>1, QuietCalls DEF Calls
<1>2. CASE WindowEnds
  BY <1>2 DEF WindowEnds
<1>3. CASE Crash
  BY <1>3 DEF Crash, rateVars, TypeOK, FetcherTypeOK, Quiet
<1>4. Idles => Quiet(p)' \/ ~ahead'[p]
  BY DEF Idles, Quiet
<1>. QED BY <1>1, <1>2, <1>3, <1>4, OthersIdle DEF Next

\* A process that knows the window to be used up calls nobody before its end.
THEOREM SilenceIsKept == Spec => QuietUntilReset
<1>1. TypeOK /\ [Next]_vars
      => [\A p \in Processes : Quiet(p) => Quiet(p)' \/ ~ahead'[p]]_fetchVars
  BY QuietStep
<1>2. Spec => []TypeOK
  BY TypeCorrect
<1>. QED BY <1>1, <1>2, PTL DEF Spec, QuietUntilReset

-----------------------------------------------------------------------------
(* The walk *)

\* Whoever lies between the saved cursor and the one in memory was processed,
\* and whoever lies between that one and the next is in hand or was processed.
\* Both may fail once the context is cancelled; then nothing is saved either.
WalkInv ==
  /\ live[crawler] =>
       \A u \in present :
         /\ saved < u /\ u <= cursor => u \in tried
         /\ pc \in {"user", "ssh", "gpg", "save"} /\ cursor < u /\ u <= next
              => u \in batch \cup {user} \cup tried
  /\ pc = "save" => batch = {}

LEMMA PageIsBeginning ==
  ASSUME TypeOK, NEW v \in Page, NEW u \in Behind, u <= v
  PROVE  u \in Page
<1>. DEFINE Before(w) == {b \in Behind : b < w}
<1>1. Behind \subseteq Users /\ Users \subseteq Nat /\ IsFiniteSet(Users)
  <2>1. MaxUser \in Nat /\ 1 \in Int /\ MaxUser \in Int
    BY CrawlerAssumption
  <2>2. IsFiniteSet(1..MaxUser)
    BY <2>1, FS_Interval
  <2>3. Behind \subseteq Users
    BY DEF Behind, TypeOK
  <2>4. Users \subseteq Nat
    BY DEF Users
  <2>. QED BY <2>2, <2>3, <2>4 DEF Users
<1>2. v \in Behind /\ Cardinality(Before(v)) < BatchSize
  BY DEF Page
<1>3. Before(u) \subseteq Before(v) /\ IsFiniteSet(Before(v))
  <2>1. Before(u) \subseteq Before(v)
    <3>. SUFFICES ASSUME NEW b \in Behind, b < u PROVE b < v
      OBVIOUS
    <3>. QED BY <1>1, <1>2
  <2>2. Before(v) \subseteq Users
    BY <1>1
  <2>. QED BY <2>1, <2>2, <1>1, FS_Subset
<1>4. /\ Cardinality(Before(u)) <= Cardinality(Before(v))
      /\ Cardinality(Before(u)) \in Nat /\ Cardinality(Before(v)) \in Nat
  BY <1>3, FS_Subset, FS_CardinalityType
<1>5. Cardinality(Before(u)) < BatchSize
  BY <1>2, <1>4, CrawlerAssumption
<1>. QED BY <1>5 DEF Page

LEMMA WalkRun ==
  ASSUME TypeOK, WalkInv, Run
  PROVE  WalkInv'
<1>. /\ Users \subseteq Nat \ {0} /\ cursor \in Nat /\ next \in Nat /\ saved \in Nat /\ present \subseteq Nat
     /\ present \subseteq users /\ users \subseteq Users /\ live \in [Callers -> BOOLEAN]
     /\ present \subseteq Users
  BY CrawlerAssumption DEF TypeOK, FetcherTypeOK, Users
<1>. USE DEF WalkInv
<1>1. CASE Top \/ ListUsersFails
  BY <1>1 DEF Top, ListUsersFails, othersVars, worldVars, walkVars
<1>2. CASE ListUsers
  <2>1. /\ batch' = Page /\ next' \in Page /\ pc' = "user"
        /\ UNCHANGED <<live, cursor, user, saved, users, present, tried>>
    BY <1>2 DEF ListUsers, othersVars, worldVars, walkVars
  <2>2. ASSUME NEW u \in present, cursor < u, u <= next'
        PROVE  u \in Page
    BY <2>1, <2>2, PageIsBeginning DEF Behind
  <2>. QED BY <2>1, <2>2
<1>3. CASE NoUsersLeft \/ GetProgress
  <2>1. /\ cursor' = 0 \/ cursor' = saved'
        /\ saved' = saved /\ pc' \in {"pause", "top"} /\ present' = users
    BY <1>3 DEF NoUsersLeft, GetProgress, WalkBegins
  <2>2. \A u \in users : u \in Nat /\ ~ u <= 0
    OBVIOUS
  <2>3. \A u \in present' : ~(saved' < u /\ u <= cursor')
    BY <2>1, <2>2
  <2>. QED BY <2>1, <2>3
<1>4. CASE ProcessUser
  <2>1. /\ pc = "user" /\ pc' = "ssh" /\ batch' = batch \ {user'}
        /\ UNCHANGED <<live, cursor, next, saved, present, tried>>
    BY <1>4 DEF ProcessUser, othersVars, worldVars, walkVars
  <2>2. user = 0
    BY <2>1 DEF TypeOK
  <2>. QED BY <2>1, <2>2
<1>5. CASE KeysRefused \/ StoreKeys
  <2>1. /\ pc \in {"ssh", "gpg"} /\ UserDone
        /\ UNCHANGED <<live, cursor, next, batch, saved, present>>
    BY <1>5 DEF KeysRefused, StoreKeys, othersVars, worldVars
  <2>. QED BY <2>1 DEF UserDone
<1>6. CASE FetchUserGPGKeys
  BY <1>6 DEF FetchUserGPGKeys, othersVars, worldVars, walkVars
<1>7. CASE Sleep
  BY <1>7 DEF Sleep, fetchVars, worldVars, walkVars
<1>9. CASE SaveProgress
  <2>1. /\ cursor' = next /\ saved' = next /\ pc' = "pause" /\ present' = present
    BY <1>9 DEF SaveProgress, walkVars
  <2>2. \A u \in present' : ~(saved' < u /\ u <= cursor')
    BY <2>1
  <2>. QED BY <2>1, <2>2
<1>8. CASE ~live[crawler] /\ (GetProgressFails \/ SaveProgressFails)
  BY <1>8 DEF GetProgressFails, SaveProgressFails, worldVars, walkVars
<1>. QED BY <1>1, <1>2, <1>3, <1>4, <1>5, <1>6, <1>7, <1>8, <1>9 DEF Run

LEMMA WalkWorld ==
  ASSUME TypeOK, WalkInv, World \/ UNCHANGED vars
  PROVE  WalkInv'
<1>. /\ Users \subseteq Nat \ {0} /\ cursor \in Nat /\ next \in Nat /\ saved \in Nat /\ present \subseteq Users
     /\ live \in [Callers -> BOOLEAN] /\ crawler \in Callers
  BY CrawlerAssumption DEF TypeOK, FetcherTypeOK, Users
<1>. USE DEF WalkInv
<1>1. CASE GetProgressFails
  BY <1>1 DEF GetProgressFails, worldVars, walkVars
<1>2. CASE SaveProgressFails
  <2>1. /\ pc = "save" /\ batch = {} /\ cursor' = next /\ pc' = "pause"
        /\ UNCHANGED <<live, batch, user, saved, present, tried>>
    BY <1>2 DEF SaveProgressFails, worldVars, walkVars
  <2>2. user = 0
    BY <2>1 DEF TypeOK
  <2>. QED BY <2>1, <2>2
<1>3. CASE Signal
  BY <1>3 DEF Signal, runVars, worldVars, walkVars
<1>4. CASE Crash
  BY <1>4 DEF Crash, worldVars, walkVars
<1>5. CASE Restart
  BY <1>5 DEF Restart, worldVars, walkVars
<1>6. CASE \E u \in Users : Join(u) \/ Leave(u)
  BY <1>6 DEF Join, Leave, fetchVars, runVars, walkVars
<1>7. CASE \E c \in Callers \ {crawler} : ScrapeUserCalls(c)
  BY <1>7 DEF ScrapeUserCalls, othersVars, runVars, walkVars
<1>8. CASE \/ UNCHANGED vars
           \/ \E c \in Callers : CallFails(c) /\ UNCHANGED <<runVars, worldVars, walkVars>>
  BY <1>8 DEF CallFails, vars, fetchVars, runVars, worldVars, walkVars
<1>. QED BY <1>1, <1>2, <1>3, <1>4, <1>5, <1>6, <1>7, <1>8 DEF World

LEMMA WalkStep == TypeOK /\ WalkInv /\ [Next]_vars => WalkInv'
<1>. SUFFICES ASSUME TypeOK, WalkInv, \/ \E c \in Callers : Calls(c)
                                      \/ WindowEnds /\ UNCHANGED <<runVars, worldVars, walkVars>>
              PROVE  WalkInv'
  BY WalkRun, WalkWorld DEF Next
<1>1. UNCHANGED <<live, pc, cursor, next, batch, user, saved, present, tried>>
  BY DEF Calls, CallStep, WaitForRateLimit, Serve, Lapse, ReceivePage, ReceiveRefusal,
         WindowEnds, runVars, walkVars
<1>. QED BY <1>1 DEF WalkInv

LEMMA OnlySaveMovesSaved ==
  ASSUME [Next]_vars, saved' # saved
  PROVE  SaveProgress
<1>. USE DEF othersVars, fetchVars, worldVars, walkVars
<1>1. ~Run \/ SaveProgress
  BY DEF Run, GetProgress, GetProgressFails, Top, ListUsers, NoUsersLeft, ListUsersFails,
         ProcessUser, KeysRefused, FetchUserGPGKeys, StoreKeys, SaveProgressFails, Sleep
<1>2. ~World
  BY DEF World, Signal, Crash, Restart, Join, Leave, ScrapeUserCalls, GetProgressFails,
         SaveProgressFails, runVars
<1>. QED BY <1>1, <1>2 DEF Next, Calls, vars, runVars

\* The saved cursor passes nobody who is there and was not processed.
THEOREM WalkIsComplete == Spec => NobodyIsPassedBy
<1>1. Init => WalkInv
  <2>1. present \subseteq users /\ users \subseteq Nat \ {0} => \A u \in present : ~ u <= 0
    OBVIOUS
  <2>. QED BY <2>1, CrawlerAssumption DEF Init, WalkInv
<1>2. ASSUME TypeOK, WalkInv, [Next]_vars
      PROVE  [saved' > saved => {u \in present : saved < u /\ u <= saved'} \subseteq tried]_vars
  <2>1. CASE saved' = saved
    <3>1. saved \in Nat
      BY <1>2, CrawlerAssumption DEF TypeOK, Users
    <3>. QED BY <2>1, <3>1
  <2>2. CASE SaveProgress
    <3>1. /\ live[crawler] /\ pc = "save" /\ saved' = next /\ user = 0 /\ batch = {}
          /\ cursor \in Nat /\ next \in Nat /\ saved \in Nat /\ present \subseteq Nat \ {0}
      BY <1>2, <2>2, CrawlerAssumption DEF SaveProgress, TypeOK, WalkInv, Users
    <3>2. \A u \in present : saved < u /\ u <= saved' => u \in tried
      BY <1>2, <3>1 DEF WalkInv
    <3>. QED BY <3>2
  <2>. QED BY <2>1, <2>2, <1>2, OnlySaveMovesSaved
<1>3. Spec => [](TypeOK /\ WalkInv)
  BY TypeInit, TypeStep, <1>1, WalkStep, PTL DEF Spec
<1>. QED BY <1>2, <1>3, PTL DEF Spec, NobodyIsPassedBy
=============================================================================
