------------------------------- MODULE MCSync -------------------------------
(* Instances of Sync.                                                      *)
EXTENDS Sync

MinusTwo == -2

\* One peer that connects from two addresses, at once or one after the other.
SamePeer == 1 :> "a" @@ 2 :> "a"

=============================================================================
