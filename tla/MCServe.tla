------------------------------- MODULE MCServe -------------------------------
(***************************************************************************)
(* Instances of Serve for TLC: a request, and another one, a job or a      *)
(* collector, on as many connections as two searches can wedge.            *)
(***************************************************************************)
EXTENDS Serve, TLC

CONSTANTS c1, c2

Mixed == c1 :> {"search", "source", "stats"} @@ c2 :> {"stats", "refresh", "collect"}
==============================================================================
