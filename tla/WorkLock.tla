------------------------------ MODULE WorkLock ------------------------------
(***************************************************************************)
(* What the task queue promises about one piece of work, a pair of user    *)
(* and dedup_key: a request for it holds it exclusively from the moment it *)
(* is accepted until it settles, the work is carried out only by the       *)
(* request that holds it, and it is not given up while being carried out.  *)
(* A settled request may take the work up again (a retry), but only while  *)
(* nobody else holds it.                                                   *)
(***************************************************************************)
CONSTANTS Calls, Works, WorkOf

VARIABLES
  holder,  \* the requests holding each piece of work
  busy     \* the requests carrying it out

lvars == <<holder, busy>>

LockInit ==
  /\ holder = [w \in Works |-> {}]
  /\ busy = [w \in Works |-> {}]

Acquire(c) ==
  /\ holder[WorkOf[c]] = {}
  /\ holder' = [holder EXCEPT ![WorkOf[c]] = {c}]
  /\ UNCHANGED busy

Begin(c) ==
  /\ holder[WorkOf[c]] \subseteq {c}
  /\ busy[WorkOf[c]] = {}
  /\ holder' = [holder EXCEPT ![WorkOf[c]] = {c}]
  /\ busy' = [busy EXCEPT ![WorkOf[c]] = {c}]

End(c) ==
  /\ c \in busy[WorkOf[c]]
  /\ busy' = [busy EXCEPT ![WorkOf[c]] = {}]
  /\ UNCHANGED holder

Release(c) ==
  /\ c \in holder[WorkOf[c]]
  /\ busy[WorkOf[c]] = {}
  /\ holder' = [holder EXCEPT ![WorkOf[c]] = {}]
  /\ UNCHANGED busy

LockNext == \E c \in Calls : Acquire(c) \/ Begin(c) \/ End(c) \/ Release(c)

LockSpec == LockInit /\ [][LockNext]_lvars

\* A piece of work has one holder at most, a request for it, and nobody else
\* carries it out.
LockSafe ==
  \A w \in Works :
    /\ busy[w] \subseteq holder[w]
    /\ \A c, d \in holder[w] : c = d /\ WorkOf[c] = w
=============================================================================
