-------------------------------- MODULE Serve --------------------------------
(***************************************************************************)
(* The life of the server process (cmd/sshark-api/commands/serve.go and    *)
(* globals/httpserver.go) around the handlers of Api: four goroutines of   *)
(* one errgroup, which the first error cancels; the HTTP server waits for  *)
(* its requests for a grace period, the queue for its jobs for 30 s; then  *)
(* Run's deferred calls stop the collectors and close the pool, and        *)
(* Close waits for every connection that is still out.                     *)
(***************************************************************************)
EXTENDS Api

VARIABLES phase,      \* of Run
          group,      \* the lasting goroutines of the errgroup that have not returned
          cancelled   \* their context

serveVars == <<phase, group, cancelled>>
vars      == <<apiVars, serveVars>>

\* Of the group; the signal's and the meter's return once the context is done.
Goroutines == {"queue", "http", "signal", "meter"}
Lasting    == {"queue", "http"}

TypeOK ==
    /\ ApiTypeOK
    /\ phase \in {"starting", "up", "closing", "gone"}
    /\ group \subseteq Lasting
    /\ cancelled \in BOOLEAN

\* The pool is connected, and the collectors run.
Init ==
    /\ ApiInit
    /\ phase = "starting"
    /\ group = {}
    /\ cancelled = FALSE

\* A call made on the pool after it was closed is refused.
Closed == phase \in {"closing", "gone"}

-----------------------------------------------------------------------------
(* Run. *)

Start ==
    /\ phase = "starting"
    /\ phase' = "up"
    /\ group' = Lasting
    /\ UNCHANGED <<apiVars, cancelled>>

\* The metrics or the queue cannot be built.
StartFails ==
    /\ phase = "starting"
    /\ phase' = "closing"
    /\ UNCHANGED <<apiVars, group, cancelled>>

\* A goroutine returns an error: a signal arrived, the address is taken, River
\* or the meter provider does not start.
GoroutineFails(g) ==
    /\ phase = "up" /\ ~cancelled
    /\ group' = group \ {g}
    /\ cancelled' = TRUE
    \* River's jobs run under the errgroup's context, the collectors do not.
    /\ ctx' = [c \in Callers |-> IF ctx[c] = "job" THEN "done" ELSE ctx[c]]
    /\ UNCHANGED <<todo, out, left, found, mishaps, statsVars, phase>>

\* queue.Stop: the jobs have ended, or 30 seconds passed.
QueueStops ==
    /\ cancelled /\ "queue" \in group
    /\ group' = group \ {"queue"}
    /\ UNCHANGED <<apiVars, phase, cancelled>>

\* server.Shutdown closes the listener and waits for the requests to be
\* answered, or for the grace period, which may pass at once.
HttpReturns ==
    /\ cancelled /\ "http" \in group
    /\ group' = group \ {"http"}
    /\ UNCHANGED <<apiVars, phase, cancelled>>

\* errs.Wait returns, the collectors are stopped and the pool is closed, ...
Close ==
    /\ phase = "up" /\ cancelled /\ group = {}
    /\ phase' = "closing"
    /\ UNCHANGED <<apiVars, group, cancelled>>

\* ... which waits for its connections; then the process ends.
Exit ==
    /\ phase = "closing" /\ out = {}
    /\ phase' = "gone"
    /\ UNCHANGED <<apiVars, group, cancelled>>

-----------------------------------------------------------------------------
(* The callers. *)

RequestArrives(c) ==
    /\ phase = "up" /\ "http" \in group
    /\ Begin(c, Requests, "request")
    /\ UNCHANGED serveVars

JobStarts(c) ==
    /\ phase = "up" /\ "queue" \in group /\ ~cancelled
    /\ Begin(c, {"refresh"}, "job")
    /\ UNCHANGED serveVars

Collects(c) == ~Closed /\ Begin(c, {"collect"}, "process") /\ UNCHANGED serveVars

Connects(c) ==
    /\ phase # "gone"
    /\ IF Closed THEN CallRefused(c) ELSE Acquire(c)
    /\ UNCHANGED <<statsVars, serveVars>>

GoesOn(c) ==
    /\ phase # "gone"
    /\ CallGoesOn(c) \/ Stats(c)
    /\ UNCHANGED serveVars

TimesOut(c) == phase # "gone" /\ TimeOut(c) /\ UNCHANGED serveVars

TimePasses == phase # "gone" /\ Tick /\ UNCHANGED serveVars

Arrives(c) == RequestArrives(c) \/ JobStarts(c) \/ Collects(c)
Returns == QueueStops \/ HttpReturns
Ends    == Start \/ StartFails \/ Close \/ Exit
Gone    == phase = "gone" /\ UNCHANGED vars

Next ==
    \/ \E c \in Callers : Arrives(c) \/ Connects(c) \/ GoesOn(c) \/ TimesOut(c)
    \/ \E g \in Goroutines : GoroutineFails(g)
    \/ Returns \/ Ends \/ TimePasses \/ Gone

Spec == Init /\ [][Next]_vars

(* The database answers, timers fire, and the goroutines are scheduled.    *)
(* The pool serves those who wait in their order, so one who waits again   *)
(* and again while connections come free gets one.                         *)
FairSpec ==
    /\ Spec
    /\ \A c \in Callers :
        /\ SF_vars(Connects(c)) /\ WF_vars(GoesOn(c)) /\ WF_vars(TimesOut(c))
    /\ WF_vars(Returns) /\ WF_vars(Ends)

-----------------------------------------------------------------------------
(* Every call to the pool comes back: whatever handlers wait for a second  *)
(* connection while they keep one, their requests time out before long and *)
(* their connections return, and so every handler, job and collector ends, *)
(* or the process does.  (scanPublicKeys under the timeout middleware.)    *)
EveryHandlerEnds ==
    \A c \in Callers : Busy(c) ~> (~Busy(c) \/ phase = "gone")

(* A server that was told to stop, or that failed, ends, though closing    *)
(* the pool waits for handlers that outlived the grace period.  (Run and   *)
(* its deferred pool.Close.)                                               *)
ShutdownEnds == (cancelled \/ phase = "closing") ~> phase = "gone"
==============================================================================
