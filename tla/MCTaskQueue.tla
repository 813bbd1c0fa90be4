---------------------------- MODULE MCTaskQueue ----------------------------
(***************************************************************************)
(* Instances of TaskQueue for TLC: two or three calls, of which c1 and c2  *)
(* ask for the same work and c3, when there is one, for other work.        *)
(***************************************************************************)
EXTENDS TaskQueue, TLC

CONSTANTS c1, c2, c3, refresh, revoke

OneWork == c1 :> refresh @@ c2 :> refresh
ThreeRivals == OneWork @@ c3 :> refresh
TwoWorks == OneWork @@ c3 :> revoke
=============================================================================
