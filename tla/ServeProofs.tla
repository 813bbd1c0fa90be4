----------------------------- MODULE ServeProofs -----------------------------
(***************************************************************************)
(* Proofs about Serve, and the Pool and Api below it: for any number of    *)
(* handlers, connections and rows, and any timeout and time to live.       *)
(***************************************************************************)
EXTENDS Serve, FiniteSetTheorems, TLAPS

\* A handler has calls ahead, perhaps with the statistics to keep after them,
\* or it is at one of the two steps that follow.
Shapes ==
    \A c \in Callers : \/ todo[c] \in Seq(Calls \cup {"keep"})
                       \/ todo[c] = <<"stamp">> \/ todo[c] = <<"serve">>

PoolInv == PoolTypeOK /\ Shapes /\ ConnectionsInUse

\* Nothing but Api's own steps brings a handler to its last two steps.
NoneComesToStats ==
    \A c \in Callers :
        /\ todo'[c] = <<"stamp">> => todo[c] = <<"stamp">>
        /\ todo'[c] = <<"serve">> => todo[c] = <<"serve">>

-----------------------------------------------------------------------------
(* The pool *)

LEMMA OutIsFinite ==
  ASSUME PoolInv
  PROVE  IsFiniteSet(out)
<1>1. IsFiniteSet({"result"}) /\ IsFiniteSet({"call"})
  BY FS_Singleton
<1>2. {"result", "call"} = {"result"} \cup {"call"}
  OBVIOUS
<1>3. IsFiniteSet({"result", "call"})
  BY <1>1, <1>2, FS_Union
<1>4. IsFiniteSet(Callers \X {"result", "call"})
  BY <1>3, PoolAssumption, FS_Product
<1>. QED BY <1>4, FS_Subset DEF PoolInv, PoolTypeOK

LEMMA FewerOut ==
  ASSUME PoolInv, out' \subseteq out
  PROVE  out' \subseteq Callers \X {"result", "call"} /\ Cardinality(out') <= MaxConns
<1>1. IsFiniteSet(out)
  BY OutIsFinite
<1>2. Cardinality(out') <= Cardinality(out) /\ IsFiniteSet(out')
  BY <1>1, FS_Subset
<1>3. Cardinality(out') \in Nat /\ Cardinality(out) \in Nat
  BY <1>1, <1>2, FS_CardinalityType
<1>. QED BY <1>2, <1>3, PoolAssumption DEF PoolInv, PoolTypeOK, ConnectionsInUse

\* A caller that gives back all it holds may go anywhere in its calls.
LEMMA ProceedsKeeps ==
  ASSUME PoolInv, NEW c \in Callers,
         NEW rest \in Seq(Calls \cup {"keep"}), NEW keys \in 0 .. MaxRows,
         Proceeds(c, rest, keys), mishaps' \in 0 .. MaxMishaps,
         out' \subseteq out, <<c, "result">> \notin out', <<c, "call">> \notin out'
  PROVE  PoolInv' /\ NoneComesToStats
<1>1. PoolTypeOK'
  <2>1. Seq(Calls \cup {"keep"}) \subseteq Seq(Steps)
    BY DEF Steps, Local
  <2>2. todo' \in [Callers -> Seq(Steps)]
    BY <2>1 DEF Proceeds, PoolInv, PoolTypeOK
  <2>3. /\ left' \in [Callers -> 0 .. MaxRows] /\ found' \in [Callers -> 0 .. MaxRows]
        /\ \A d \in Callers : left'[d] + found'[d] <= MaxRows
    BY PoolAssumption DEF Proceeds, PoolInv, PoolTypeOK
  <2>4. ctx' \in [Callers -> {"request", "job", "process", "done"}]
    BY DEF Proceeds, PoolInv, PoolTypeOK
  <2>. QED BY <2>2, <2>3, <2>4, FewerOut DEF PoolTypeOK
<1>2. Shapes'
  BY DEF Shapes, Proceeds, PoolInv, PoolTypeOK
<1>3. ConnectionsInUse'
  <2>1. \A d \in Callers : d # c => todo'[d] = todo[d]
    BY DEF Proceeds, PoolInv, PoolTypeOK
  <2>. QED BY <2>1, FewerOut DEF ConnectionsInUse, At, Busy, PoolInv
<1>4. NoneComesToStats
  <2>1. rest # <<"stamp">> /\ rest # <<"serve">>
    <3>1. rest # <<>> => rest[1] \in Calls \cup {"keep"}
      OBVIOUS
    <3>2. "stamp" \notin Calls \cup {"keep"} /\ "serve" \notin Calls \cup {"keep"}
      BY DEF Calls, Singles, Results
    <3>3. /\ <<"stamp">> # <<>> /\ <<"stamp">>[1] = "stamp"
          /\ <<"serve">> # <<>> /\ <<"serve">>[1] = "serve"
      OBVIOUS
    <3>. QED BY <3>1, <3>2, <3>3
  <2>. QED BY <2>1 DEF NoneComesToStats, Proceeds, PoolInv, PoolTypeOK
<1>. QED BY <1>1, <1>2, <1>3, <1>4 DEF PoolInv

\* The current call of a handler, and what comes after it.
LEMMA TailOfCalls ==
  ASSUME PoolInv, NEW c \in Callers, At(c, Calls)
  PROVE  Tail(todo[c]) \in Seq(Calls \cup {"keep"}) /\ todo[c] \in Seq(Calls \cup {"keep"})
<1>1. todo[c] # <<"stamp">> /\ todo[c] # <<"serve">>
  BY DEF At, Calls, Singles, Results
<1>2. todo[c] \in Seq(Calls \cup {"keep"}) /\ todo[c] # <<>>
  BY <1>1 DEF PoolInv, Shapes, At, Busy
<1>. QED BY <1>2

LEMMA HoldersAtCalls ==
  ASSUME PoolInv, NEW c \in Callers, Wants(c) \cup Holds(c) # {}
  PROVE  At(c, Calls)
  BY DEF PoolInv, ConnectionsInUse, Wants, Holds, At, Calls, Singles, Results

LEMMA NextStepKeeps ==
  ASSUME PoolInv, NEW c \in Callers, At(c, Calls), NextStep(c),
         mishaps' \in 0 .. MaxMishaps,
         out' \subseteq out, <<c, "result">> \notin out', <<c, "call">> \notin out'
  PROVE  PoolInv' /\ NoneComesToStats
<1>1. CASE At(c, {"sources"}) /\ found[c] > 1
  <2>1. found[c] - 1 \in 0 .. MaxRows
    BY <1>1, PoolAssumption DEF PoolInv, PoolTypeOK
  <2>2. Proceeds(c, todo[c], found[c] - 1)
    BY <1>1 DEF NextStep
  <2>3. todo[c] \in Seq(Calls \cup {"keep"})
    BY TailOfCalls
  <2>. QED BY <2>1, <2>2, <2>3, ProceedsKeeps
<1>2. CASE ~(At(c, {"sources"}) /\ found[c] > 1)
  <2>1. Proceeds(c, Tail(todo[c]), 0)
    BY <1>2 DEF NextStep
  <2>2. Tail(todo[c]) \in Seq(Calls \cup {"keep"})
    BY TailOfCalls
  <2>3. 0 \in 0 .. MaxRows
    BY PoolAssumption
  <2>. QED BY <2>1, <2>2, <2>3, ProceedsKeeps
<1>. QED BY <1>1, <1>2

LEMMA FailsKeeps ==
  ASSUME PoolInv, NEW c \in Callers, At(c, Calls), Fails(c), mishaps' \in 0 .. MaxMishaps
  PROVE  PoolInv' /\ NoneComesToStats
<1>1. out' \subseteq out /\ <<c, "result">> \notin out' /\ <<c, "call">> \notin out'
  BY DEF Fails, Releases
<1>2. CASE NextStep(c)
  BY <1>1, <1>2, NextStepKeeps
<1>3. CASE Proceeds(c, <<>>, 0)
  <2>1. <<>> \in Seq(Calls \cup {"keep"})
    OBVIOUS
  <2>2. 0 \in 0 .. MaxRows
    BY PoolAssumption
  <2>. QED BY <1>1, <1>3, <2>1, <2>2, ProceedsKeeps
<1>. QED BY <1>2, <1>3 DEF Fails

LEMMA AcquireKeeps ==
  ASSUME PoolInv, NEW c \in Callers, Acquire(c)
  PROVE  PoolInv' /\ NoneComesToStats
<1>1. PICK use \in Wants(c) :
        /\ out' = out \cup {<<c, use>>}
        /\ IF use = "result"
           THEN /\ \E n \in 0 .. MaxRows : left' = [left EXCEPT ![c] = n]
                /\ found' = [found EXCEPT ![c] = 0]
           ELSE UNCHANGED <<left, found>>
  BY DEF Acquire, Takes
<1>2. use \in {"result", "call"}
  BY DEF Wants
<1>3. UNCHANGED <<todo, ctx, mishaps>> /\ Cardinality(out) < MaxConns
  BY DEF Acquire, Takes, Free
<1>4. Cardinality(out') <= MaxConns
  <2>1. IsFiniteSet(out) /\ Cardinality(out) \in Nat
    BY OutIsFinite, FS_CardinalityType
  <2>2. Cardinality(out') = Cardinality(out) \/ Cardinality(out') = Cardinality(out) + 1
    BY <1>1, <2>1, FS_AddElement
  <2>. QED BY <1>3, <2>1, <2>2, PoolAssumption
<1>5. PoolTypeOK'
  <2>1. out' \subseteq Callers \X {"result", "call"}
    BY <1>1, <1>2 DEF PoolInv, PoolTypeOK
  <2>2. /\ left' \in [Callers -> 0 .. MaxRows] /\ found' \in [Callers -> 0 .. MaxRows]
        /\ \A d \in Callers : left'[d] + found'[d] <= MaxRows
    <3>1. CASE use = "result"
      <4>1. PICK n \in 0 .. MaxRows : left' = [left EXCEPT ![c] = n]
        BY <1>1, <3>1
      <4>2. found' = [found EXCEPT ![c] = 0]
        BY <1>1, <3>1
      <4>. QED BY <4>1, <4>2, PoolAssumption DEF PoolInv, PoolTypeOK
    <3>2. CASE use # "result"
      BY <1>1, <3>2 DEF PoolInv, PoolTypeOK
    <3>. QED BY <3>1, <3>2
  <2>. QED BY <1>3, <2>1, <2>2 DEF PoolInv, PoolTypeOK
<1>6. ConnectionsInUse'
  <2>1. use = "result" => At(c, Results)
    BY DEF Wants
  <2>2. use = "call" => At(c, Singles \cup {"keys"})
    BY DEF Wants, At, Singles
  <2>. QED BY <1>1, <1>2, <1>3, <1>4, <2>1, <2>2 DEF PoolInv, ConnectionsInUse, At, Busy
<1>. QED BY <1>3, <1>5, <1>6 DEF PoolInv, Shapes, NoneComesToStats

LEMMA PoolStepKeeps ==
  ASSUME PoolInv, NEW c \in Callers,
         \/ RowRead(c) \/ ResultEnds(c) \/ CallReturns(c) \/ NoSources(c)
         \/ ScanFails(c) \/ CallFails(c) \/ CallCancelled(c) \/ CallRefused(c)
  PROVE  PoolInv' /\ NoneComesToStats
<1>0. mishaps \in 0 .. MaxMishaps /\ (Mishap => mishaps' \in 0 .. MaxMishaps)
  BY PoolAssumption DEF PoolInv, PoolTypeOK, Mishap
<1>1. CASE RowRead(c)
  <2>1. out' \subseteq out /\ UNCHANGED <<todo, ctx, mishaps>>
    BY <1>1 DEF RowRead, Releases
  <2>2. /\ left' \in [Callers -> 0 .. MaxRows] /\ found' \in [Callers -> 0 .. MaxRows]
        /\ \A d \in Callers : left'[d] + found'[d] <= MaxRows
    BY <1>1, PoolAssumption DEF RowRead, PoolInv, PoolTypeOK
  <2>3. PoolTypeOK'
    BY <2>1, <2>2, FewerOut DEF PoolInv, PoolTypeOK
  <2>4. ConnectionsInUse'
    BY <2>1, FewerOut DEF PoolInv, ConnectionsInUse, At, Busy
  <2>. QED BY <2>1, <2>3, <2>4 DEF PoolInv, Shapes, NoneComesToStats
<1>2. CASE ResultEnds(c)
  <2>1. /\ At(c, Calls) /\ out' \subseteq out /\ Proceeds(c, Tail(todo[c]), found[c])
        /\ <<c, "result">> \notin out' /\ <<c, "call">> \notin out'
    BY <1>2 DEF ResultEnds, Releases, Holds, At, Calls
  <2>2. mishaps' \in 0 .. MaxMishaps
    BY <1>0, <1>2 DEF ResultEnds
  <2>3. found[c] \in 0 .. MaxRows
    BY DEF PoolInv, PoolTypeOK
  <2>. QED BY <2>1, <2>2, <2>3, TailOfCalls, ProceedsKeeps
<1>3. CASE CallReturns(c)
  <2>1. At(c, Calls) /\ out' \subseteq out /\ NextStep(c) /\ mishaps' = mishaps
    BY <1>3 DEF CallReturns, Releases, At, Calls
  <2>2. ~At(c, Results)
    BY <1>3 DEF CallReturns, At, Singles, Results
  <2>3. <<c, "result">> \notin out' /\ <<c, "call">> \notin out'
    BY <1>3, <2>2 DEF CallReturns, Releases, PoolInv, ConnectionsInUse
  <2>. QED BY <1>0, <2>1, <2>3, NextStepKeeps
<1>4. CASE NoSources(c)
  <2>1. /\ At(c, Calls) /\ out' = out /\ Proceeds(c, Tail(todo[c]), 0) /\ mishaps' = mishaps
        /\ <<c, "result">> \notin out' /\ <<c, "call">> \notin out'
    BY <1>4 DEF NoSources, Holds, At, Calls, Singles
  <2>2. Tail(todo[c]) \in Seq(Calls \cup {"keep"})
    BY <2>1, TailOfCalls
  <2>3. 0 \in 0 .. MaxRows
    BY PoolAssumption
  <2>. QED BY <1>0, <2>1, <2>2, <2>3, ProceedsKeeps
<1>5. CASE ScanFails(c)
  <2>1. At(c, Calls)
    BY <1>5 DEF ScanFails, At, Calls, Results
  <2>. QED BY <1>0, <1>5, <2>1, FailsKeeps DEF ScanFails
<1>6. CASE CallFails(c)
  <2>1. At(c, Calls)
    BY <1>6, HoldersAtCalls DEF CallFails
  <2>. QED BY <1>0, <1>6, <2>1, FailsKeeps DEF CallFails
<1>7. CASE CallCancelled(c)
  BY <1>0, <1>7, HoldersAtCalls, FailsKeeps DEF CallCancelled
<1>8. CASE CallRefused(c)
  BY <1>0, <1>8, HoldersAtCalls, FailsKeeps DEF CallRefused
<1>. QED BY <1>1, <1>2, <1>3, <1>4, <1>5, <1>6, <1>7, <1>8

-----------------------------------------------------------------------------
(* The handlers *)

LEMMA PlansAreCalls ==
  ASSUME NEW kind \in Requests \cup Work, NEW plan \in Plans(kind)
  PROVE  \/ plan \in Seq(Calls \cup {"keep"})
         \/ plan = <<"serve">> /\ Fresh
<1>. DEFINE S == Calls \cup {"keep"}
<1>1. /\ "one" \in S /\ "look" \in S /\ "try" \in S /\ "sources" \in S
      /\ "list" \in S /\ "keys" \in S /\ "narrow" \in S /\ "keep" \in S
  BY DEF Calls, Singles, Results
<1>2. \A a, b \in Seq(S) : a \o b \in Seq(S)
  OBVIOUS
<1>3. /\ <<>> \in Seq(S) /\ <<"one">> \in Seq(S) /\ <<"look">> \in Seq(S)
      /\ <<"sources">> \in Seq(S) /\ <<"narrow">> \in Seq(S) /\ <<"one", "keys">> \in Seq(S)
      /\ <<"look", "one">> \in Seq(S) /\ <<"one", "list">> \in Seq(S)
      /\ <<"try", "try">> \in Seq(S) /\ <<"list", "list", "one">> \in Seq(S)
  BY <1>1
<1>. HIDE DEF S
<1>4. CASE kind = "search"
  BY <1>2, <1>3, <1>4 DEF Plans, SearchSSHKeys, SearchGPGKeys, SearchWithQuery, S
<1>5. CASE kind = "key"
  BY <1>3, <1>5 DEF Plans, GetKey, Get, S
<1>6. CASE kind = "sources"
  BY <1>3, <1>6 DEF Plans, ListSources, List, S
<1>7. CASE kind = "source"
  <2>1. plan = (<<"look">> \o <<"narrow">>) \o <<"narrow">>
    BY <1>7 DEF Plans, GetSourceByProviderAndUsername, GetByProviderAndUsername, ListBySourceID
  <2>2. plan \in Seq(S)
    BY <1>2, <1>3, <2>1
  <2>. QED BY <2>2 DEF S
<1>8. CASE kind = "profile"
  <2>. DEFINE account == {<<"one">>, (<<"one">> \o Search) \o Search}
  <2>1. account \subseteq Seq(S)
    BY <1>2, <1>3 DEF Search
  <2>. HIDE DEF account
  <2>2. \A n \in 0 .. MaxAccounts : addAccounts(n) \subseteq Seq(S)
    <3>1. SUFFICES ASSUME NEW n \in 0 .. MaxAccounts, NEW x \in addAccounts(n)
                   PROVE  x \in Seq(S)
      OBVIOUS
    <3>2. addAccounts(n) = IF n = 0 THEN {<<>>} ELSE
                    IF n = 1 THEN account ELSE {a \o b : a \in account, b \in account}
      BY DEF addAccounts, account
    <3>3. CASE x \in {a \o b : a \in account, b \in account}
      <4>1. PICK a \in account, b \in account : x = a \o b
        BY <3>3
      <4>. QED BY <1>2, <2>1, <4>1
    <3>4. CASE x \in account \/ x = <<>>
      BY <1>3, <2>1, <3>4
    <3>. QED BY <3>1, <3>2, <3>3, <3>4
  <2>3. PICK accounts \in UNION {addAccounts(n) : n \in 0 .. MaxAccounts} :
            plan = <<"look">> \o accounts
    BY <1>8 DEF Plans, GetUserProfile, GetByUsername
  <2>4. plan \in Seq(S)
    BY <1>2, <1>3, <2>2, <2>3
  <2>. QED BY <2>4 DEF S
<1>9. CASE kind = "stats"
  <2>1. plan = IF Fresh THEN <<"serve">> ELSE Append(GetStats, "keep")
    BY <1>9 DEF Plans
  <2>2. Append(GetStats, "keep") \in Seq(S)
    BY <1>1, <1>3 DEF GetStats, S
  <2>. QED BY <2>1, <2>2 DEF S
<1>10. CASE kind = "refresh"
  <2>1. PICK write \in {Create, Update, Delete} : plan = Search \o write
    BY <1>10 DEF Plans, storeKeys
  <2>2. Search \in Seq(S) /\ write \in Seq(S)
    BY <1>3 DEF Search, Create, Update, Delete
  <2>. QED BY <1>2, <2>1, <2>2 DEF S
<1>11. CASE kind = "collect"
  BY <1>3, <1>11 DEF Plans, collect, S
<1>. QED
  BY <1>4, <1>5, <1>6, <1>7, <1>8, <1>9, <1>10, <1>11 DEF Requests, Work

\* The statistics are no older than their stamp and one request's time; and
\* what a handler is about to stamp, or serve, is recent.
StatsInv ==
    /\ dataAge <= stampAge + Timeout
    /\ \A c \in Callers :
        /\ todo[c] = <<"stamp">> => cached /\ dataAge <= Timeout
        /\ todo[c] = <<"serve">> => cached /\ dataAge <= TTL + Timeout

IInv == TypeOK /\ PoolInv /\ StatsInv

StatsTypeOK ==
    /\ cached \in BOOLEAN /\ dataAge \in 0 .. Ancient /\ stampAge \in 0 .. Ancient
    /\ read \in [Callers -> 0 .. Timeout]

LifeTypeOK ==
    /\ phase \in {"starting", "up", "closing", "gone"}
    /\ group \subseteq Lasting /\ cancelled \in BOOLEAN

LEMMA PartsOfIInv == IInv <=> PoolInv /\ StatsTypeOK /\ LifeTypeOK /\ StatsInv
  BY DEF IInv, TypeOK, ApiTypeOK, PoolInv, StatsTypeOK, LifeTypeOK

\* Steps of the pool leave the statistics alone.
LEMMA PoolStepOfServe ==
  ASSUME IInv, PoolInv', NoneComesToStats, LifeTypeOK', UNCHANGED statsVars
  PROVE  IInv'
<1>1. StatsTypeOK' /\ StatsInv'
  BY PartsOfIInv DEF statsVars, StatsTypeOK, StatsInv, NoneComesToStats
<1>. QED BY <1>1, PartsOfIInv DEF IInv, TypeOK, ApiTypeOK, PoolInv, StatsTypeOK, LifeTypeOK

LEMMA BeginKeeps ==
  ASSUME IInv, NEW c \in Callers, NEW kinds, NEW context \in {"request", "job", "process"},
         Begin(c, kinds, context), UNCHANGED serveVars
  PROVE  IInv'
<1>1. PICK kind \in KindsOf[c] \cap kinds : \E plan \in Plans(kind) : Begins(c, plan, context)
  BY DEF Begin
<1>2. PICK plan \in Plans(kind) : Begins(c, plan, context)
  BY <1>1
<1>3. kind \in Requests \cup Work
  BY <1>1, ApiAssumption
<1>4. plan \in Seq(Calls \cup {"keep"}) \/ (plan = <<"serve">> /\ Fresh)
  BY <1>2, <1>3, PlansAreCalls
<1>5. /\ todo' = [todo EXCEPT ![c] = plan] /\ ctx' = [ctx EXCEPT ![c] = context]
      /\ ~Busy(c) /\ UNCHANGED <<out, left, found, mishaps>>
  BY <1>2 DEF Begins
<1>6. plan # <<"stamp">>
  <2>1. plan \in Seq(Calls \cup {"keep"}) /\ plan # <<>> => plan[1] \in Calls \cup {"keep"}
    OBVIOUS
  <2>2. <<"stamp">> # <<>> /\ <<"stamp">>[1] = "stamp" /\ <<"stamp">> # <<"serve">>
    OBVIOUS
  <2>. QED BY <1>4, <2>1, <2>2 DEF Calls, Singles, Results
<1>7. plan = <<"serve">> => Fresh
  <2>1. plan \in Seq(Calls \cup {"keep"}) /\ plan # <<>> => plan[1] \in Calls \cup {"keep"}
    OBVIOUS
  <2>2. <<"serve">> # <<>> /\ <<"serve">>[1] = "serve"
    OBVIOUS
  <2>. QED BY <1>4, <2>1, <2>2 DEF Calls, Singles, Results
<1>8. plan \in Seq(Steps)
  <2>1. Seq(Calls \cup {"keep"}) \subseteq Seq(Steps)
    BY DEF Steps, Local
  <2>2. <<"serve">> \in Seq(Steps)
    BY DEF Steps, Local
  <2>. QED BY <1>4, <2>1, <2>2
<1>9. PoolTypeOK'
  BY <1>5, <1>8 DEF IInv, PoolInv, PoolTypeOK
<1>10. Shapes'
  BY <1>4, <1>5 DEF IInv, PoolInv, PoolTypeOK, Shapes
<1>11. ConnectionsInUse'
  <2>1. <<c, "result">> \notin out /\ <<c, "call">> \notin out
    BY <1>5 DEF IInv, PoolInv, ConnectionsInUse, At
  <2>2. \A d \in Callers : d # c => todo'[d] = todo[d]
    BY <1>5 DEF IInv, PoolInv, PoolTypeOK
  <2>. QED BY <1>5, <2>1, <2>2 DEF IInv, PoolInv, ConnectionsInUse, At, Busy
<1>12. StatsTypeOK' /\ LifeTypeOK'
  <2>1. UNCHANGED <<cached, dataAge, stampAge, serveVars>> /\ read' = [read EXCEPT ![c] = 0]
    BY DEF Begin
  <2>2. 0 \in 0 .. Timeout
    BY ApiAssumption
  <2>. QED BY <2>1, <2>2, PartsOfIInv DEF StatsTypeOK, LifeTypeOK, serveVars
<1>13. StatsInv'
  <2>1. UNCHANGED <<cached, dataAge, stampAge>>
    BY DEF Begin
  <2>2. Fresh => cached /\ dataAge <= TTL + Timeout
    BY PartsOfIInv, ApiAssumption DEF Fresh, StatsInv, StatsTypeOK, Ancient, IInv
  <2>3. \A d \in Callers : todo'[d] = IF d = c THEN plan ELSE todo[d]
    BY <1>5 DEF IInv, PoolInv, PoolTypeOK
  <2>. QED BY <1>6, <1>7, <2>1, <2>2, <2>3 DEF IInv, StatsInv
<1>. QED BY <1>9, <1>10, <1>11, <1>12, <1>13
         DEF IInv, TypeOK, ApiTypeOK, PoolInv, StatsTypeOK, LifeTypeOK

LEMMA StatsStepKeeps ==
  ASSUME IInv, NEW c \in Callers, Stats(c), UNCHANGED serveVars
  PROVE  IInv'
<1>1. CASE KeepStats(c)
  <2>1. /\ todo' = [todo EXCEPT ![c] = <<"stamp">>] /\ At(c, {"keep"})
        /\ cached' = TRUE /\ dataAge' = read[c] /\ read' = [read EXCEPT ![c] = 0]
        /\ UNCHANGED <<out, left, found, ctx, mishaps, stampAge>>
    BY <1>1 DEF KeepStats
  <2>2. <<"stamp">> \in Seq(Steps) /\ <<"stamp">> # <<"serve">>
    BY DEF Steps, Local
  <2>3. PoolTypeOK' /\ Shapes'
    BY <2>1, <2>2 DEF IInv, PoolInv, PoolTypeOK, Shapes
  <2>4. ConnectionsInUse'
    <3>1. <<c, "result">> \notin out /\ <<c, "call">> \notin out
      BY <2>1 DEF IInv, PoolInv, ConnectionsInUse, At, Singles, Results
    <3>2. \A d \in Callers : d # c => todo'[d] = todo[d]
      BY <2>1 DEF IInv, PoolInv, PoolTypeOK
    <3>. QED BY <2>1, <3>1, <3>2 DEF IInv, PoolInv, ConnectionsInUse, At, Busy
  <2>5. read[c] \in 0 .. Timeout /\ read[c] \in 0 .. Ancient /\ 0 \in 0 .. Timeout
    BY PartsOfIInv, ApiAssumption DEF StatsTypeOK, Ancient
  <2>6. StatsTypeOK' /\ LifeTypeOK'
    BY <2>1, <2>5, PartsOfIInv DEF StatsTypeOK, LifeTypeOK, serveVars
  <2>7. stampAge \in Nat /\ TTL \in Nat /\ Timeout \in Nat
    BY PartsOfIInv, ApiAssumption DEF StatsTypeOK, Ancient
  <2>8. StatsInv'
    BY <2>1, <2>5, <2>7 DEF StatsInv
  <2>. QED BY <2>3, <2>4, <2>6, <2>8
           DEF IInv, TypeOK, ApiTypeOK, PoolInv, StatsTypeOK, LifeTypeOK
<1>2. CASE StampStats(c)
  <2>1. /\ todo' = [todo EXCEPT ![c] = <<"serve">>] /\ At(c, {"stamp"}) /\ stampAge' = 0
        /\ UNCHANGED <<out, left, found, ctx, mishaps, cached, dataAge, read>>
    BY <1>2 DEF StampStats
  <2>2. <<"serve">> \in Seq(Steps) /\ <<"stamp">> # <<"serve">>
    BY DEF Steps, Local
  <2>3. PoolTypeOK' /\ Shapes'
    BY <2>1, <2>2 DEF IInv, PoolInv, PoolTypeOK, Shapes
  <2>4. ConnectionsInUse'
    <3>1. <<c, "result">> \notin out /\ <<c, "call">> \notin out
      BY <2>1 DEF IInv, PoolInv, ConnectionsInUse, At, Singles, Results
    <3>2. \A d \in Callers : d # c => todo'[d] = todo[d]
      BY <2>1 DEF IInv, PoolInv, PoolTypeOK
    <3>. QED BY <2>1, <3>1, <3>2 DEF IInv, PoolInv, ConnectionsInUse, At, Busy
  <2>5. StatsTypeOK' /\ LifeTypeOK'
    <3>1. 0 \in 0 .. Ancient
      BY ApiAssumption DEF Ancient
    <3>. QED BY <2>1, <3>1, PartsOfIInv DEF StatsTypeOK, LifeTypeOK, serveVars
  <2>6. todo[c] = <<"stamp">>
    <3>1. todo[c] \notin Seq(Calls \cup {"keep"})
      BY <2>1 DEF At, Busy, Calls, Singles, Results
    <3>2. Head(<<"serve">>) # "stamp"
      OBVIOUS
    <3>. QED BY <2>1, <3>1, <3>2 DEF At, IInv, PoolInv, Shapes
  <2>7. cached /\ dataAge <= Timeout /\ dataAge \in Nat /\ TTL \in Nat /\ Timeout \in Nat
    BY <2>6, PartsOfIInv, ApiAssumption DEF StatsTypeOK, Ancient, IInv, StatsInv
  <2>8. StatsInv'
    BY <2>1, <2>7 DEF StatsInv
  <2>. QED BY <2>3, <2>4, <2>5, <2>8
           DEF IInv, TypeOK, ApiTypeOK, PoolInv, StatsTypeOK, LifeTypeOK
<1>3. CASE ServeStats(c)
  <2>1. Proceeds(c, <<>>, 0) /\ At(c, {"serve"}) /\ UNCHANGED <<out, mishaps, statsVars>>
    BY <1>3 DEF ServeStats
  <2>2. <<c, "result">> \notin out' /\ <<c, "call">> \notin out'
    BY <2>1 DEF IInv, PoolInv, ConnectionsInUse, At, Singles, Results
  <2>3. <<>> \in Seq(Calls \cup {"keep"}) /\ 0 \in 0 .. MaxRows
    BY PoolAssumption
  <2>4. mishaps' \in 0 .. MaxMishaps /\ out' \subseteq out
    BY <2>1 DEF IInv, PoolInv, PoolTypeOK
  <2>5. PoolInv /\ LifeTypeOK'
    BY PartsOfIInv DEF LifeTypeOK, serveVars, IInv
  <2>6. PoolInv' /\ NoneComesToStats
    BY <2>1, <2>2, <2>3, <2>4, <2>5, ProceedsKeeps
  <2>. QED BY <2>1, <2>5, <2>6, PoolStepOfServe
<1>. QED BY <1>1, <1>2, <1>3 DEF Stats

\* While a handler is about to stamp or serve, no time passes.
LEMMA TickKeeps ==
  ASSUME IInv, TimePasses
  PROVE  IInv'
<1>1. Tick /\ UNCHANGED serveVars
  BY DEF TimePasses
<1>2. UNCHANGED <<todo, out, left, found, ctx, mishaps, cached>>
  BY <1>1 DEF Tick, poolVars
<1>3. /\ dataAge \in 0 .. Ancient /\ stampAge \in 0 .. Ancient
      /\ dataAge' = Older(dataAge) /\ stampAge' = Older(stampAge)
      /\ Ancient \in Nat /\ Timeout \in Nat
  BY <1>1, PartsOfIInv, ApiAssumption DEF Tick, StatsTypeOK, Ancient
<1>4. dataAge' \in 0 .. Ancient /\ stampAge' \in 0 .. Ancient
  BY <1>3 DEF Older
<1>5. read' \in [Callers -> 0 .. Timeout]
  BY <1>1, <1>3, PartsOfIInv DEF Tick, StatsTypeOK
<1>6. dataAge' <= stampAge' + Timeout
  BY <1>3 DEF Older, IInv, StatsInv
<1>7. \A c \in Callers : todo[c] # <<"stamp">> /\ todo[c] # <<"serve">>
  <2>1. Head(<<"stamp">>) = "stamp" /\ Head(<<"serve">>) = "serve"
        /\ <<"stamp">> # <<>> /\ <<"serve">> # <<>>
    OBVIOUS
  <2>. QED BY <1>1, <2>1 DEF Tick, At, Busy, Local
<1>8. StatsInv'
  BY <1>2, <1>6, <1>7 DEF StatsInv
<1>9. PoolInv' /\ StatsTypeOK' /\ LifeTypeOK'
  BY <1>1, <1>2, <1>4, <1>5, PartsOfIInv DEF PoolInv, PoolTypeOK, Shapes, ConnectionsInUse,
     At, Busy, StatsTypeOK, LifeTypeOK, serveVars
<1>. QED BY <1>8, <1>9 DEF IInv, TypeOK, ApiTypeOK, PoolInv, StatsTypeOK, LifeTypeOK

\* Contexts end, and the process's life goes on, without a connection moving.
LEMMA LifeKeeps ==
  ASSUME IInv, UNCHANGED <<todo, out, left, found, mishaps, statsVars>>, LifeTypeOK',
         ctx' \in [Callers -> {"request", "job", "process", "done"}]
  PROVE  IInv'
<1>1. PoolInv' /\ NoneComesToStats
  BY DEF IInv, PoolInv, PoolTypeOK, Shapes, ConnectionsInUse, At, Busy, NoneComesToStats
<1>. QED BY <1>1, PoolStepOfServe

-----------------------------------------------------------------------------
LEMMA InvInit == Init => IInv
<1>. SUFFICES ASSUME Init PROVE IInv
  OBVIOUS
<1>. USE DEF Init, ApiInit, PoolInit
<1>1. PoolInv
  <2>1. Cardinality({}) = 0
    BY FS_EmptySet
  <2>2. <<>> \in Seq(Steps) /\ <<>> \in Seq(Calls \cup {"keep"})
    OBVIOUS
  <2>. QED BY <2>1, <2>2, PoolAssumption
           DEF PoolInv, PoolTypeOK, Shapes, ConnectionsInUse, At
<1>2. StatsTypeOK /\ LifeTypeOK
  <2>1. Ancient \in 0 .. Ancient /\ 0 \in 0 .. Timeout
    BY ApiAssumption DEF Ancient
  <2>. HIDE DEF Ancient
  <2>2. cached \in BOOLEAN /\ cancelled \in BOOLEAN
    OBVIOUS
  <2>3. dataAge \in 0 .. Ancient /\ stampAge \in 0 .. Ancient
    BY <2>1
  <2>4. read \in [Callers -> 0 .. Timeout]
    BY <2>1
  <2>. QED BY <2>2, <2>3, <2>4 DEF StatsTypeOK, LifeTypeOK
<1>3. StatsInv
  BY ApiAssumption DEF StatsInv, Ancient
<1>. QED BY <1>1, <1>2, <1>3, PartsOfIInv

LEMMA InvStep == IInv /\ [Next]_vars => IInv'
<1>. SUFFICES ASSUME IInv, [Next]_vars PROVE IInv'
  OBVIOUS
<1>0. PoolInv /\ LifeTypeOK /\ ctx \in [Callers -> {"request", "job", "process", "done"}]
  BY PartsOfIInv DEF PoolInv, PoolTypeOK
<1>1. ASSUME NEW c \in Callers, Arrives(c) PROVE IInv'
  BY <1>1, BeginKeeps DEF Arrives, RequestArrives, JobStarts, Collects
<1>2. ASSUME NEW c \in Callers, Connects(c) PROVE IInv'
  <2>1. PoolInv' /\ NoneComesToStats
    BY <1>0, <1>2, AcquireKeeps, PoolStepKeeps DEF Connects
  <2>2. UNCHANGED statsVars /\ LifeTypeOK'
    BY <1>0, <1>2 DEF Connects, LifeTypeOK, serveVars
  <2>. QED BY <2>1, <2>2, PoolStepOfServe
<1>3. ASSUME NEW c \in Callers, GoesOn(c) PROVE IInv'
  <2>1. CASE Stats(c)
    BY <1>3, <2>1, StatsStepKeeps DEF GoesOn
  <2>2. CASE CallGoesOn(c)
    <3>1. PoolInv' /\ NoneComesToStats
      BY <1>0, <2>2, PoolStepKeeps DEF CallGoesOn
    <3>2. UNCHANGED statsVars /\ LifeTypeOK'
      BY <1>0, <1>3, <2>2 DEF GoesOn, CallGoesOn, LifeTypeOK, serveVars
    <3>. QED BY <3>1, <3>2, PoolStepOfServe
  <2>. QED BY <1>3, <2>1, <2>2 DEF GoesOn
<1>4. ASSUME NEW c \in Callers, TimesOut(c) PROVE IInv'
  BY <1>0, <1>4, LifeKeeps DEF TimesOut, TimeOut, LifeTypeOK, serveVars
<1>5. ASSUME NEW g \in Goroutines, GoroutineFails(g) PROVE IInv'
  <2>1. ctx' \in [Callers -> {"request", "job", "process", "done"}]
    BY <1>0, <1>5 DEF GoroutineFails
  <2>. QED BY <1>0, <1>5, <2>1, LifeKeeps DEF GoroutineFails, LifeTypeOK
<1>6. CASE Returns
  BY <1>0, <1>6, LifeKeeps
     DEF Returns, QueueStops, HttpReturns, LifeTypeOK, apiVars, poolVars
<1>7. CASE Ends
  BY <1>0, <1>7, LifeKeeps
     DEF Ends, Start, StartFails, Close, Exit, LifeTypeOK, apiVars, poolVars
<1>8. CASE TimePasses
  BY <1>8, TickKeeps
<1>9. CASE UNCHANGED vars
  BY <1>0, <1>9, LifeKeeps DEF vars, apiVars, poolVars, serveVars, LifeTypeOK
<1>. QED BY <1>1, <1>2, <1>3, <1>4, <1>5, <1>6, <1>7, <1>8, <1>9 DEF Next, Gone

(* The connections, the ages of the statistics and the handlers' calls fit *)
(* together in every state.                                                *)
THEOREM Invariance == Spec => []IInv
BY InvInit, InvStep, PTL DEF Spec

-----------------------------------------------------------------------------
(* Handlers, connections, contexts and the phases of the process keep to   *)
(* their types; a page is never longer than its limit.                     *)
THEOREM TypeCorrect == Spec => []TypeOK
<1>1. IInv => TypeOK
  BY DEF IInv
<1>. QED BY <1>1, Invariance, PTL

(* No more connections are out than there are, and each is with a handler  *)
(* at the call that took it, whatever fails or is cancelled.               *)
THEOREM NothingLeaks == Spec => []ConnectionsInUse
<1>1. IInv => ConnectionsInUse
  BY DEF IInv, PoolInv
<1>. QED BY <1>1, Invariance, PTL

(* For any number of requests that find the cache stale together, what is  *)
(* served is no older than the time to live and one request.               *)
THEOREM StatsCorrect == Spec => []StatsAreRecent
<1>1. IInv => StatsAreRecent
  <2>. SUFFICES ASSUME IInv, NEW c \in Callers, At(c, {"serve"})
                PROVE  cached /\ dataAge <= TTL + Timeout
    BY DEF StatsAreRecent
  <2>1. todo[c] \notin Seq(Calls \cup {"keep"})
    BY DEF At, Busy, Calls, Singles, Results
  <2>2. Head(<<"stamp">>) # "serve"
    OBVIOUS
  <2>3. todo[c] = <<"serve">>
    BY <2>1, <2>2 DEF At, IInv, PoolInv, Shapes
  <2>. QED BY <2>3 DEF IInv, StatsInv
<1>. QED BY <1>1, Invariance, PTL

-----------------------------------------------------------------------------
(* Hold and wait *)

\* What runs for as long as the process does makes no calls but the collector's.
LastingInv == \A c \in Callers : ctx[c] = "process" => todo[c] \in Seq({"try"})

LEMMA RestOfTries ==
  ASSUME NEW s \in Seq({"try"}), s # <<>>
  PROVE  Head(s) = "try" /\ Tail(s) \in Seq({"try"})
  OBVIOUS

LEMMA ProceedsLasting ==
  ASSUME IInv, LastingInv, NEW c \in Callers, Busy(c), NEW rest, NEW keys,
         Proceeds(c, rest, keys), rest \in {<<>>, todo[c], Tail(todo[c])}
  PROVE  LastingInv'
<1>1. /\ todo' = [todo EXCEPT ![c] = rest]
      /\ ctx' = [ctx EXCEPT ![c] = IF rest = <<>> THEN "process" ELSE @]
  BY DEF Proceeds
<1>2. todo \in [Callers -> Seq(Steps)] /\ ctx \in [Callers -> {"request", "job", "process", "done"}]
  BY DEF IInv, PoolInv, PoolTypeOK
<1>3. ASSUME NEW d \in Callers, ctx'[d] = "process" PROVE todo'[d] \in Seq({"try"})
  <2>1. CASE d # c
    BY <1>1, <1>2, <1>3, <2>1 DEF LastingInv
  <2>2. CASE d = c /\ rest = <<>>
    BY <1>1, <1>2, <2>2
  <2>3. CASE d = c /\ rest # <<>>
    <3>1. todo[c] \in Seq({"try"}) /\ todo[c] # <<>>
      BY <1>1, <1>2, <1>3, <2>3 DEF LastingInv, Busy
    <3>2. Tail(todo[c]) \in Seq({"try"})
      BY <3>1, RestOfTries
    <3>. QED BY <1>1, <1>2, <2>3, <3>1, <3>2
  <2>. QED BY <2>1, <2>2, <2>3
<1>. QED BY <1>3 DEF LastingInv

\* Contexts are only ever ended, and nobody's calls change.
LEMMA EndingLasting ==
  ASSUME LastingInv, UNCHANGED todo,
         \A c \in Callers : ctx'[c] = "process" => ctx[c] = "process"
  PROVE  LastingInv'
  BY DEF LastingInv

LEMMA FailsLasting ==
  ASSUME IInv, LastingInv, NEW c \in Callers, Busy(c), NextStep(c) \/ Fails(c)
  PROVE  LastingInv'
<1>1. CASE NextStep(c)
  BY <1>1, ProceedsLasting DEF NextStep
<1>2. CASE Proceeds(c, <<>>, 0)
  BY <1>2, ProceedsLasting
<1>. QED BY <1>1, <1>2 DEF Fails

LEMMA CallsLasting ==
  ASSUME IInv, LastingInv, NEW c \in Callers,
         \/ RowRead(c) \/ ResultEnds(c) \/ CallReturns(c) \/ NoSources(c)
         \/ ScanFails(c) \/ CallFails(c) \/ CallCancelled(c) \/ CallRefused(c)
  PROVE  LastingInv'
<1>1. Busy(c)
  BY HoldersAtCalls DEF IInv, RowRead, ResultEnds, CallReturns, NoSources, ScanFails,
     CallFails, CallCancelled, CallRefused, At
<1>2. CASE RowRead(c)
  BY <1>2, EndingLasting DEF RowRead
<1>3. CASE ResultEnds(c) \/ NoSources(c)
  BY <1>1, <1>3, ProceedsLasting DEF ResultEnds, NoSources
<1>4. CASE NextStep(c) \/ Fails(c)
  BY <1>1, <1>4, FailsLasting
<1>. QED BY <1>2, <1>3, <1>4 DEF CallReturns, ScanFails, CallFails, CallCancelled, CallRefused

\* Whoever is at one of the steps with the statistics runs under a request.
LEMMA StatsLasting ==
  ASSUME IInv, LastingInv, NEW c \in Callers, Stats(c)
  PROVE  LastingInv'
<1>1. Busy(c) /\ Head(todo[c]) \in Local
  BY DEF Stats, KeepStats, StampStats, ServeStats, At, Local
<1>2. ctx[c] # "process"
  BY <1>1, RestOfTries DEF LastingInv, Busy, Local
<1>3. CASE ServeStats(c)
  BY <1>1, <1>3, ProceedsLasting DEF ServeStats
<1>4. CASE KeepStats(c) \/ StampStats(c)
  <2>1. ctx' = ctx /\ \A d \in Callers : d # c => todo'[d] = todo[d]
    BY <1>4 DEF KeepStats, StampStats, IInv, PoolInv, PoolTypeOK
  <2>. QED BY <1>2, <2>1 DEF LastingInv
<1>. QED BY <1>3, <1>4 DEF Stats

LEMMA ArrivesLasting ==
  ASSUME IInv, LastingInv, NEW c \in Callers, Arrives(c)
  PROVE  LastingInv'
<1>1. PICK context, plan :
        /\ context \in {"request", "job", "process"}
        /\ Begins(c, plan, context)
        /\ context = "process" => plan = collect
  <2>1. CASE RequestArrives(c)
    BY <2>1 DEF RequestArrives, Begin
  <2>2. CASE JobStarts(c)
    BY <2>2 DEF JobStarts, Begin
  <2>3. CASE Collects(c)
    <3>1. PICK kind \in KindsOf[c] \cap {"collect"} :
            \E plan \in Plans(kind) : Begins(c, plan, "process")
      BY <2>3 DEF Collects, Begin
    <3>2. Plans(kind) = {collect}
      BY <3>1 DEF Plans
    <3>. QED BY <3>1, <3>2
  <2>. QED BY <2>1, <2>2, <2>3 DEF Arrives
<1>2. todo' = [todo EXCEPT ![c] = plan] /\ ctx' = [ctx EXCEPT ![c] = context]
  BY <1>1 DEF Begins
<1>3. collect \in Seq({"try"})
  BY DEF collect
<1>. QED BY <1>1, <1>2, <1>3 DEF LastingInv, IInv, PoolInv, PoolTypeOK

LEMMA LastingStep == IInv /\ LastingInv /\ [Next]_vars => LastingInv'
<1>. SUFFICES ASSUME IInv, LastingInv, [Next]_vars PROVE LastingInv'
  OBVIOUS
<1>0. ctx \in [Callers -> {"request", "job", "process", "done"}]
  BY DEF IInv, PoolInv, PoolTypeOK
<1>1. ASSUME NEW c \in Callers, Arrives(c) PROVE LastingInv'
  BY <1>1, ArrivesLasting
<1>2. ASSUME NEW c \in Callers, Connects(c) PROVE LastingInv'
  <2>1. CASE Acquire(c)
    BY <2>1, EndingLasting DEF Acquire, Takes
  <2>. QED BY <1>2, <2>1, CallsLasting DEF Connects
<1>3. ASSUME NEW c \in Callers, GoesOn(c) PROVE LastingInv'
  BY <1>3, CallsLasting, StatsLasting DEF GoesOn, CallGoesOn
<1>4. ASSUME NEW c \in Callers, TimesOut(c) PROVE LastingInv'
  BY <1>0, <1>4, EndingLasting DEF TimesOut, TimeOut
<1>5. ASSUME NEW g \in Goroutines, GoroutineFails(g) PROVE LastingInv'
  BY <1>0, <1>5, EndingLasting DEF GoroutineFails
<1>6. CASE Returns \/ Ends \/ TimePasses \/ UNCHANGED vars
  BY <1>6, EndingLasting DEF Returns, QueueStops, HttpReturns, Ends, Start, StartFails, Close,
     Exit, TimePasses, Tick, vars, apiVars, poolVars
<1>. QED BY <1>1, <1>2, <1>3, <1>4, <1>5, <1>6 DEF Next, Gone

(* Whoever keeps a connection while it waits for another one runs under a  *)
(* context that ends by itself, or has ended: a request's, which times     *)
(* out, or a job's, to which River gives a minute.  So no wedge of the     *)
(* pool outlasts them, whatever the number of connections, although        *)
(* scanPublicKeys holds and waits.                                         *)
WedgesAreTimed ==
    \A c \in Callers : Holds(c) # {} /\ Wants(c) # {} => ctx[c] \in Timed \cup {"done"}

(* The collector, whose context lasts as long as the process, never does.  *)
THEOREM WedgesEnd == Spec => []WedgesAreTimed
<1>1. Init => LastingInv
  <2>1. <<>> \in Seq({"try"})
    OBVIOUS
  <2>. QED BY <2>1 DEF Init, ApiInit, PoolInit, LastingInv
<1>2. ASSUME IInv, LastingInv PROVE WedgesAreTimed
  <2>. SUFFICES ASSUME NEW c \in Callers, Holds(c) # {}, Wants(c) # {}, ctx[c] = "process"
                PROVE  FALSE
    BY <1>2 DEF WedgesAreTimed, IInv, PoolInv, PoolTypeOK, Timed
  <2>1. Busy(c)
    BY DEF Wants, At
  <2>2. Head(todo[c]) = "try"
    BY <1>2, <2>1, RestOfTries DEF LastingInv, Busy
  <2>3. Holds(c) \subseteq {"call"}
    BY <1>2, <2>2 DEF Holds, IInv, PoolInv, ConnectionsInUse, At, Results
  <2>4. "call" \notin Holds(c)
    BY <2>2 DEF Wants, At, Results
  <2>. QED BY <2>3, <2>4
<1>. QED BY <1>1, <1>2, LastingStep, Invariance, PTL DEF Spec
=============================================================================
