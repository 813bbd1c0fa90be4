---------------------------- MODULE MCRevocation ----------------------------
(***************************************************************************)
(* A user, two accounts, of which one publishes a key, and three names.    *)
(***************************************************************************)
EXTENDS Revocation, TLC

CONSTANTS ann, acc1, acc2, gpg2, j1, j2

FirstNames == acc1 :> "x" @@ acc2 :> "y"
KeyOfOne == gpg2 :> acc2
TypeOfKey == gpg2 :> "gpg"
=============================================================================
