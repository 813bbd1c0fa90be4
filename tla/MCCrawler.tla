------------------------------ MODULE MCCrawler ------------------------------
(***************************************************************************)
(* Instances of Crawler for TLC: the crawler's process, and a server with  *)
(* the workers that refresh accounts of the same provider.                 *)
(***************************************************************************)
EXTENDS Crawler, TLC

CONSTANTS worker1, worker2, scrape, serve

OneWorker == crawler :> scrape @@ worker1 :> serve
TwoWorkers == OneWorker @@ worker2 :> serve
=============================================================================
