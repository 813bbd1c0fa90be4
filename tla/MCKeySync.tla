----------------------------- MODULE MCKeySync -----------------------------
(***************************************************************************)
(* Instances of KeySync for TLC: the crawler and a refresh meet on one     *)
(* account while its owner revokes a key.                                  *)
(***************************************************************************)
EXTENDS KeySync

CONSTANTS crawler, refresh, revocation
=============================================================================
