--------------------------------- MODULE Api ---------------------------------
(***************************************************************************)
(* The handlers of the public API (api/public/v1) over the pool, the work  *)
(* that shares the pool with them, and the cache of the statistics, which  *)
(* is two package variables that no lock guards (api/public/v1/stats.go).  *)
(*                                                                         *)
(* Time is counted in ticks.  Only what the age of the statistics depends  *)
(* on is timed: the handlers' own steps take no time, and a request whose  *)
(* time is up is cancelled before time goes on.  Every other request may   *)
(* time out at any moment.                                                 *)
(***************************************************************************)
EXTENDS Pool

CONSTANTS KindsOf,      \* what each caller may be asked for
          MaxAccounts,  \* bound: accounts on a profile page
          Timeout,      \* ticks a request has (serve.go's --timeout, 5 s)
          TTL           \* ticks the statistics stay fresh (5 min)

Requests == {"search", "key", "sources", "source", "profile", "stats"}
Work     == {"refresh", "collect"}

ASSUME ApiAssumption ==
    /\ KindsOf \in [Callers -> SUBSET (Requests \cup Work)]
    /\ MaxAccounts \in 0 .. 2 /\ Timeout \in Nat /\ TTL \in Nat

VARIABLES cached,    \* there is a cache, ...
          dataAge,   \* ticks since the oldest query behind it, ...
          stampAge,  \* and since updateTime
          read       \* ticks since a caller found the cache stale

statsVars == <<cached, dataAge, stampAge, read>>
apiVars   == <<poolVars, statsVars>>

\* Ages from here on are not told apart; the zero updateTime is that old.
Ancient == TTL + Timeout + 1

ApiTypeOK ==
    /\ PoolTypeOK
    /\ cached \in BOOLEAN
    /\ dataAge \in 0 .. Ancient
    /\ stampAge \in 0 .. Ancient
    /\ read \in [Callers -> 0 .. Timeout]

ApiInit ==
    /\ PoolInit
    /\ cached = FALSE
    /\ dataAge = Ancient
    /\ stampAge = Ancient
    /\ read = [c \in Callers |-> 0]

-----------------------------------------------------------------------------
(* The calls of each handler. *)

\* The condition of Stats; the zero updateTime is not fresh.
Fresh == stampAge <= TTL /\ cached

\* A valid query; an invalid one is answered without a call.
SearchSSHKeys == SearchWithQuery \o <<"sources">>
SearchGPGKeys == SearchWithQuery \o <<"sources">>
GetKey        == Get
ListSources   == List

GetSourceByProviderAndUsername ==
    GetByProviderAndUsername \o ListBySourceID \o ListBySourceID

\* An account that was never crawled has no source: its lookup finds nothing,
\* and the page goes on.
addAccounts(n) ==
    IF n = 0 THEN {<<>>}
    ELSE LET account == {<<"one">>, <<"one">> \o Search \o Search}
         IN  IF n = 1 THEN account
             ELSE {a \o b : a \in account, b \in account}

GetUserProfile ==
    {GetByUsername \o accounts :
        accounts \in UNION {addAccounts(n) : n \in 0 .. MaxAccounts}}

\* processUser's database calls for one key type (storeKeys), under a job.
storeKeys == {Search \o write : write \in {Create, Update, Delete}}

\* JobQueueStatsCollector.collect: two counts, whose failures are logged.
collect == <<"try", "try">>

Plans(kind) ==
    CASE kind = "search"  -> {SearchSSHKeys, SearchGPGKeys}
      [] kind = "key"     -> {GetKey}
      [] kind = "sources" -> {ListSources}
      [] kind = "source"  -> {GetSourceByProviderAndUsername}
      [] kind = "profile" -> GetUserProfile
      [] kind = "stats"   -> {IF Fresh THEN <<"serve">> ELSE Append(GetStats, "keep")}
      [] kind = "refresh" -> storeKeys
      [] kind = "collect" -> {collect}

\* A slip the check must notice: updateTime is set before the query, and when
\* that fails the old statistics look fresh.
BeginStamped(c, kinds, context) ==
    /\ \E kind \in KindsOf[c] \cap kinds : \E plan \in Plans(kind) :
        /\ Begins(c, plan, context)
        /\ stampAge' = IF kind = "stats" /\ ~Fresh THEN 0 ELSE stampAge
    /\ read' = [read EXCEPT ![c] = 0]
    /\ UNCHANGED <<cached, dataAge>>

Begin(c, kinds, context) ==
    /\ \E kind \in KindsOf[c] \cap kinds :
            \E plan \in Plans(kind) : Begins(c, plan, context)
    /\ read' = [read EXCEPT ![c] = 0]
    /\ UNCHANGED <<cached, dataAge, stampAge>>

-----------------------------------------------------------------------------
(* Stats. *)

\* cache = stats
KeepStats(c) ==
    /\ At(c, {"keep"})
    /\ todo' = [todo EXCEPT ![c] = <<"stamp">>]
    /\ cached' = TRUE
    /\ dataAge' = read[c]
    /\ read' = [read EXCEPT ![c] = 0]
    /\ UNCHANGED <<out, left, found, ctx, mishaps, stampAge>>

\* updateTime = time.Now()
StampStats(c) ==
    /\ At(c, {"stamp"})
    /\ todo' = [todo EXCEPT ![c] = <<"serve">>]
    /\ stampAge' = 0
    /\ UNCHANGED <<out, left, found, ctx, mishaps, cached, dataAge, read>>

\* The answer is made of what cache points to by now.
ServeStats(c) ==
    /\ At(c, {"serve"})
    /\ Proceeds(c, <<>>, 0)
    /\ UNCHANGED <<out, mishaps, statsVars>>

Stats(c) == KeepStats(c) \/ StampStats(c) \/ ServeStats(c)

-----------------------------------------------------------------------------
\* Contexts that end by themselves; the collector's does with the process.
Timed == {"request", "job"}

\* A slip the check must notice: the handlers run on a context of their own.
TimeOutAlone(c) ==
    /\ Busy(c) /\ ctx[c] \in Timed
    /\ UNCHANGED apiVars

(* The timeout middleware gives up waiting for the handler: the request is *)
(* answered, which ends its context (net/http), while the handler runs on. *)
(* The queue sets no JobTimeout, and River ends a job's context after its  *)
(* own default of a minute.                                                *)
TimeOut(c) ==
    /\ Busy(c) /\ ctx[c] \in Timed
    /\ ctx' = [ctx EXCEPT ![c] = "done"]
    /\ UNCHANGED <<todo, out, left, found, mishaps, statsVars>>

Querying(c) == Busy(c) /\ todo[c][Len(todo[c])] = "keep"

Older(age) == IF age < Ancient THEN age + 1 ELSE Ancient

Tick ==
    /\ \A c \in Callers :
        /\ ~At(c, Local)
        /\ Querying(c) => ctx[c] # "done" /\ read[c] < Timeout
    /\ dataAge' = Older(dataAge)
    /\ stampAge' = Older(stampAge)
    /\ read' = [c \in Callers |-> IF Querying(c) THEN read[c] + 1 ELSE 0]
    /\ UNCHANGED <<poolVars, cached>>

\* What a call that was made comes to.
CallGoesOn(c) ==
    /\ \/ RowRead(c) \/ ResultEnds(c) \/ CallReturns(c) \/ NoSources(c)
       \/ ScanFails(c) \/ CallFails(c) \/ CallCancelled(c)
    /\ UNCHANGED statsVars

-----------------------------------------------------------------------------
(* Statistics that are served were true no longer ago than they stay fresh *)
(* plus the time of one request, although requests that found the cache    *)
(* stale together write it in any order, a slow one over a newer answer.   *)
(* (The condition and the two assignments of Stats.)                       *)
StatsAreRecent ==
    \A c \in Callers :
        At(c, {"serve"}) => cached /\ dataAge <= TTL + Timeout
==============================================================================
