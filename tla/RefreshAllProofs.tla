--------------------------- MODULE RefreshAllProofs ---------------------------
(***************************************************************************)
(* Proofs about RefreshAll: the daily pass reaches every profile that is   *)
(* there all the time, exactly once, for any table, any batch size and any *)
(* concurrent requests.                                                    *)
(***************************************************************************)
EXTENDS RefreshAll, ProfilesProofs, FiniteSetTheorems

\* Of the rows that are there all the time, exactly those up to the cursor
\* have been asked for, and the batch holds the first ones behind it.
CursorInv ==
  step # "idle" =>
    /\ \A i \in present : asked[i] = IF i <= after THEN 1 ELSE 0
    /\ \A i \in batch : after < i
    /\ \A i \in present \ batch, j \in batch : after < i => j < i
    /\ step = "done" => \A i \in present : i <= after

PassInv == Base /\ PassTypeOK /\ CursorInv

LEMMA StoredAreIds == Base => Stored \subseteq Ids
  BY IdType DEF Stored

LEMMA StoredAreIdsNext == Base' => (Stored \subseteq Ids)'
  BY StoredAreIds, PTL

LEMMA PassInvInit == PassInit => PassInv
  BY BaseInit DEF PassInit, PassInv, Base, PassTypeOK, CursorInv

\* What ORDER BY id LIMIT returns: a beginning of the rows, and nothing only
\* if there are none.
LEMMA FirstRowsBegin ==
  ASSUME NEW rows, NEW B \in FirstRows(rows, BatchSize)
  PROVE  /\ B \subseteq rows
         /\ \A i \in B, j \in rows \ B : i < j
         /\ B = {} => rows = {}
  BY FS_EmptySet, BatchSizeAssumption DEF FirstRows

LEMMA PassInvList ==
  ASSUME PassInv, List
  PROVE  PassInv'
<1>1. /\ step = "list" /\ UNCHANGED <<vars, after, asked, present>>
      /\ batch' \in FirstRows({i \in Stored : i > after}, BatchSize)
      /\ step' = IF batch' = {} THEN "done" ELSE "queue"
  BY DEF List, Read
<1>2. /\ batch' \subseteq {i \in Stored : i > after}
      /\ \A i \in batch', j \in {k \in Stored : k > after} \ batch' : i < j
      /\ batch' = {} => {i \in Stored : i > after} = {}
  BY <1>1, FirstRowsBegin
<1>3. Base'
  BY <1>1, BaseStep DEF PassInv
<1>4. Stored' = Stored
  BY <1>1 DEF Stored, vars, tables
<1>5. /\ Stored \subseteq Ids /\ Ids \subseteq Nat \ {0} /\ present \subseteq Stored
      /\ after \in Ids \cup {0}
  BY StoredAreIds, ProfilesAssumption DEF PassInv, PassTypeOK
<1>6. PassTypeOK'
  BY <1>1, <1>2, <1>3, <1>4, <1>5 DEF PassInv, PassTypeOK, Base
<1>7. CursorInv'
  BY <1>1, <1>2, <1>5 DEF PassInv, CursorInv
<1>. QED BY <1>3, <1>6, <1>7 DEF PassInv

LEMMA PassInvEnqueue ==
  ASSUME PassInv, NEW i \in Ids, Enqueue(i)
  PROVE  PassInv'
<1>1. /\ step = "queue" /\ i \in batch /\ \A j \in batch : i <= j
      /\ after' = i /\ asked' = [asked EXCEPT ![i] = @ + 1] /\ batch' = batch \ {i}
      /\ step' = IF batch' = {} THEN "list" ELSE "queue"
      /\ UNCHANGED <<vars, present>>
  BY DEF Enqueue
<1>2. Base'
  BY <1>1, BaseStep DEF PassInv
<1>3. Stored' = Stored
  BY <1>1 DEF Stored, vars, tables
<1>4. /\ Ids \subseteq Nat \ {0} /\ present \subseteq Ids /\ batch \subseteq Ids
      /\ after \in Ids \cup {0} /\ asked \in [Ids -> Nat]
  BY StoredAreIds, ProfilesAssumption DEF PassInv, PassTypeOK
<1>5. PassTypeOK'
  <2>1. asked' \in [Ids -> Nat]
    BY <1>1, <1>4
  <2>2. batch' \subseteq Ids /\ (batch' # {} <=> step' = "queue")
    BY <1>1, <1>4
  <2>3. TypeOK' /\ present' \subseteq Stored'
    BY <1>1, <1>2, <1>3 DEF PassInv, PassTypeOK, Base
  <2>. QED BY <1>1, <2>1, <2>2, <2>3 DEF PassTypeOK
<1>6. CursorInv'
  <2>1. after < i /\ \A k \in present : after < k /\ k < i => FALSE
    <3>. SUFFICES ASSUME NEW k \in present, after < k, k < i PROVE FALSE
      BY <1>1 DEF PassInv, CursorInv
    <3>1. CASE k \in batch
      BY <1>1, <1>4, <3>1
    <3>2. CASE k \notin batch
      BY <1>1, <1>4, <3>2 DEF PassInv, CursorInv
    <3>. QED BY <3>1, <3>2
  <2>2. \A k \in present : asked'[k] = IF k <= after' THEN 1 ELSE 0
    BY <1>1, <1>4, <2>1 DEF PassInv, CursorInv
  <2>3. \A k \in batch' : after' < k
    BY <1>1, <1>4
  <2>4. \A k \in present \ batch', j \in batch' : after' < k => j < k
    BY <1>1, <1>4, <2>1 DEF PassInv, CursorInv
  <2>. QED BY <1>1, <2>2, <2>3, <2>4 DEF CursorInv
<1>. QED BY <1>2, <1>5, <1>6 DEF PassInv

LEMMA PassInvRest ==
  ASSUME PassInv, StartPass \/ PassFails \/ Requesting \/ UNCHANGED allVars
  PROVE  PassInv'
<1>1. CASE StartPass
  <2>1. Base' /\ Stored' = Stored
    BY <1>1, BaseStep DEF StartPass, PassInv, Stored, vars, tables
  <2>2. Stored \subseteq Ids /\ Ids \subseteq Nat \ {0}
    BY StoredAreIds, ProfilesAssumption DEF PassInv
  <2>. QED BY <1>1, <2>1, <2>2 DEF StartPass, PassInv, PassTypeOK, CursorInv, Base
<1>2. CASE PassFails
  <2>1. Stored' = Stored
    BY <1>2 DEF PassFails, Stored, tables
  <2>2. Base'
    <3>1. mishaps' \in 0..MaxMishaps
      BY <1>2, ProfilesAssumption DEF PassFails, PassInv, Base, TypeOK
    <3>. QED BY <1>2, <3>1
            DEF PassFails, PassInv, Base, TypeOK, LocalInv, outerVars, tables, localVars
  <2>. QED BY <1>2, <2>1, <2>2 DEF PassFails, PassInv, PassTypeOK, CursorInv, Base
<1>3. CASE Requesting
  <2>1. Base' /\ Stored' \subseteq Ids
    BY <1>3, BaseStep, StoredAreIdsNext DEF Requesting, PassInv
  <2>. QED BY <1>3, <2>1 DEF Requesting, PassInv, PassTypeOK, CursorInv, passVars, Base
<1>4. CASE UNCHANGED allVars
  <2>1. Base' /\ Stored' = Stored
    BY <1>4, BaseStep DEF allVars, PassInv, Stored, vars, tables
  <2>. QED BY <1>4, <2>1 DEF allVars, passVars, PassInv, PassTypeOK, CursorInv, Base
<1>. QED BY <1>1, <1>2, <1>3, <1>4

LEMMA PassInvStep == PassInv /\ [PassNext]_allVars => PassInv'
  BY PassInvList, PassInvEnqueue, PassInvRest DEF PassNext, Pass

\* The pass and its history keep their types.
THEOREM PassTypeCorrect == PassSpec => []PassTypeOK
<1>1. PassSpec => []PassInv
  BY PassInvInit, PassInvStep, PTL DEF PassSpec
<1>. QED BY <1>1, PTL DEF PassInv

\* A pass that ends has asked once for each profile that was there throughout.
THEOREM PassIsComplete == PassSpec => []PassIsStable
<1>1. PassSpec => []PassInv
  BY PassInvInit, PassInvStep, PTL DEF PassSpec
<1>2. PassInv => PassIsStable
  BY StoredAreIds DEF PassInv, CursorInv, PassIsStable
<1>. QED BY <1>1, <1>2, PTL
===============================================================================
