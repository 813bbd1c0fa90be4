-------------------------------- MODULE Pool --------------------------------
(***************************************************************************)
(* The connection pool of the server and the calls the repositories make   *)
(* on it (internal/infra/publickeys/postgres/repository.go,                *)
(* internal/infra/sources/postgres/repository.go).                         *)
(*                                                                         *)
(* A handler is the sequence of calls it still has to make.  A single      *)
(* statement or a transaction takes one connection and gives it back.      *)
(* An open result keeps its connection until it is closed, and             *)
(* scanPublicKeys asks for a second one per row, to load its metadata,     *)
(* while it does: hold and wait.                                           *)
(*                                                                         *)
(* pgxpool is external: a call waits for a free connection, first come     *)
(* first served, until its context is done or the pool is closed.          *)
(***************************************************************************)
EXTENDS Sequences, FiniteSets, Integers

CONSTANTS Callers,     \* goroutines that use the pool at a time
          MaxConns,    \* its connections (POSTGRES_MAX_CONNS)
          MaxRows,     \* bound: rows of a page
          MaxMishaps   \* bound: statements that fail and results that break off

ASSUME PoolAssumption ==
    /\ IsFiniteSet(Callers)
    /\ MaxConns \in Nat \ {0} /\ MaxRows \in Nat /\ MaxMishaps \in Nat

\* "one": a statement or transaction, whose failure ends the handler; "look": a
\* lookup, which may find nothing; "try": a statement whose failure is only
\* logged; "sources": one per key found, skipping those that fail; "list": a
\* result read row by row; "keys": a result whose rows scanPublicKeys reads;
\* "narrow": one that it cannot read.
Singles == {"one", "look", "try", "sources"}
Results == {"list", "keys", "narrow"}
Local   == {"keep", "stamp", "serve"}
Calls   == Singles \cup Results
Steps   == Calls \cup Local

VARIABLES todo,     \* the steps each caller has ahead, the current one first
          out,      \* the connections that are out: to whom, and for what
          left,     \* the rows to come of a caller's open result
          found,    \* the keys a search has read
          ctx,      \* the context each runs under: a request's, a job's or the
                    \* process's, or one that is done
          mishaps

poolVars == <<todo, out, left, found, ctx, mishaps>>

-----------------------------------------------------------------------------
(* What the repositories' methods ask of the pool. *)

Get                      == <<"look", "one">>
Search                   == <<"one", "keys">>
SearchWithQuery          == <<"one", "keys">>
ListBySourceID           == <<"narrow">>
Create                   == <<"one">>
Update                   == <<"one">>
Delete                   == <<"one">>
GetByProviderAndUsername == <<"look">>
GetByUsername            == <<"look">>
List                     == <<"one", "list">>
GetStats                 == <<"list", "list", "one">>

-----------------------------------------------------------------------------
PoolTypeOK ==
    /\ todo \in [Callers -> Seq(Steps)]
    /\ out \subseteq Callers \X {"result", "call"}
    /\ left \in [Callers -> 0 .. MaxRows]
    /\ found \in [Callers -> 0 .. MaxRows]
    /\ \A c \in Callers : left[c] + found[c] <= MaxRows
    /\ ctx \in [Callers -> {"request", "job", "process", "done"}]
    /\ mishaps \in 0 .. MaxMishaps

PoolInit ==
    /\ todo = [c \in Callers |-> <<>>]
    /\ out = {}
    /\ left = [c \in Callers |-> 0]
    /\ found = [c \in Callers |-> 0]
    /\ ctx = [c \in Callers |-> "process"]
    /\ mishaps = 0

Busy(c)     == todo[c] # <<>>
At(c, S)    == Busy(c) /\ Head(todo[c]) \in S
Holds(c)    == {use \in {"result", "call"} : <<c, use>> \in out}
Free        == Cardinality(out) < MaxConns

\* The next connection the caller waits for: a result's first, then one for
\* the metadata of each of its rows.
Wants(c) ==
    IF At(c, Results) /\ "result" \notin Holds(c) THEN {"result"}
    ELSE IF /\ "call" \notin Holds(c)
            /\ \/ At(c, Singles \ {"sources"})
               \/ At(c, {"sources"}) /\ found[c] > 0
               \/ At(c, {"keys"}) /\ left[c] > 0
         THEN {"call"}
         ELSE {}

\* QueryRow's Scan and Commit or Rollback give back a call's connection,
\* rows.Close a result's.
Releases(c, uses) == out' = out \ ({c} \X uses)

\* The handler has this ahead of it now; when that is nothing it has answered.
Proceeds(c, rest, keys) ==
    /\ todo' = [todo EXCEPT ![c] = rest]
    /\ found' = [found EXCEPT ![c] = IF rest = <<>> THEN 0 ELSE keys]
    /\ left' = [left EXCEPT ![c] = 0]
    /\ ctx' = [ctx EXCEPT ![c] = IF rest = <<>> THEN "process" ELSE @]

Begins(c, plan, context) ==
    /\ ~Busy(c)
    /\ todo' = [todo EXCEPT ![c] = plan]
    /\ ctx' = [ctx EXCEPT ![c] = context]
    /\ UNCHANGED <<out, left, found, mishaps>>

Mishap ==
    /\ mishaps < MaxMishaps
    /\ mishaps' = mishaps + 1

\* The statement of a result runs as its connection is taken: this many rows.
Takes(c, rows) ==
    /\ ctx[c] # "done" /\ Free
    /\ \E use \in Wants(c) :
        /\ out' = out \cup {<<c, use>>}
        /\ IF use = "result"
           THEN /\ \E n \in rows : left' = [left EXCEPT ![c] = n]
                /\ found' = [found EXCEPT ![c] = 0]
           ELSE UNCHANGED <<left, found>>
    /\ UNCHANGED <<todo, ctx, mishaps>>

\* A slip the check must notice: a page is one row longer than its limit.
AcquireOnePast(c) == Takes(c, 0 .. MaxRows + 1)

Acquire(c) == Takes(c, 0 .. MaxRows)

\* scanPublicKeys: the metadata is loaded, the key appended.
RowRead(c) ==
    /\ At(c, {"keys"}) /\ "call" \in Holds(c) /\ left[c] > 0
    /\ Releases(c, {"call"})
    /\ left' = [left EXCEPT ![c] = @ - 1]
    /\ found' = [found EXCEPT ![c] = @ + 1]
    /\ UNCHANGED <<todo, ctx, mishaps>>

\* rows.Next is false: after the last row, or when the stream broke or the
\* context is done, which scanPublicKeys does not tell apart.
ResultEnds(c) ==
    /\ At(c, Results) /\ Holds(c) = {"result"}
    /\ \/ /\ left[c] = 0 \/ At(c, {"list"}) \/ ctx[c] = "done"
          /\ UNCHANGED mishaps
       \/ left[c] > 0 /\ Mishap
    /\ Releases(c, {"result"})
    /\ Proceeds(c, Tail(todo[c]), found[c])

\* A single call is over: the next key's source, or the next step.
NextStep(c) ==
    IF At(c, {"sources"}) /\ found[c] > 1
    THEN Proceeds(c, todo[c], found[c] - 1)
    ELSE Proceeds(c, Tail(todo[c]), 0)

CallReturns(c) ==
    /\ At(c, Singles) /\ "call" \in Holds(c)
    /\ At(c, {"sources"}) => found[c] > 0
    /\ Releases(c, {"call"})
    /\ NextStep(c)
    /\ UNCHANGED mishaps

\* A slip the check must notice: the error path of a scan without rows.Close.
FailsUnclosed(c) ==
    /\ Releases(c, {"call"})
    /\ IF At(c, {"try", "sources"}) THEN NextStep(c)
       ELSE Proceeds(c, <<>>, 0)

\* The call fails: the deferred rows.Close runs, and the handler answers,
\* unless it only logs the failure and goes on.
Fails(c) ==
    /\ Releases(c, {"result", "call"})
    /\ IF At(c, {"try", "sources"}) THEN NextStep(c)
       ELSE Proceeds(c, <<>>, 0)

\* scanPublicKeys reads eight columns and ListBySourceID selects seven.
ScanFails(c) ==
    /\ At(c, {"narrow"}) /\ "result" \in Holds(c) /\ left[c] > 0
    /\ Fails(c)
    /\ UNCHANGED mishaps

\* A statement fails, or a lookup finds nothing.
CallFails(c) ==
    /\ Holds(c) # {}
    /\ Mishap \/ (At(c, {"look"}) /\ UNCHANGED mishaps)
    /\ Fails(c)

\* The call, or the wait for a connection, ends with its context.
CallCancelled(c) ==
    /\ ctx[c] = "done" /\ Wants(c) \cup Holds(c) # {}
    /\ Fails(c)
    /\ UNCHANGED mishaps

\* A wait ends because the pool was closed, once a connection is given back.
CallRefused(c) ==
    /\ Wants(c) # {} /\ Free
    /\ Fails(c)
    /\ UNCHANGED mishaps

NoSources(c) ==
    /\ At(c, {"sources"}) /\ found[c] = 0 /\ Holds(c) = {}
    /\ Proceeds(c, Tail(todo[c]), 0)
    /\ UNCHANGED <<out, mishaps>>

-----------------------------------------------------------------------------
(* Every connection that is out is in use: the caller that has it is at    *)
(* the call it took it for.  An early return of a scan, a failing lookup   *)
(* or a transaction that is given up must not lose one: the pool never     *)
(* gets it back.  (The deferred rows.Close and Rollback.)                  *)
ConnectionsInUse ==
    /\ Cardinality(out) <= MaxConns
    /\ \A c \in Callers :
        /\ <<c, "result">> \in out => At(c, Results)
        /\ <<c, "call">> \in out => At(c, Singles \cup {"keys"})
=============================================================================
