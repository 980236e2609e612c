-------------------------- MODULE MCVoteCollection --------------------------
(* Model values and small sets for checking VoteCollection with TLC.       *)
EXTENDS VoteCollection, TLC

CONSTANTS k1, k2, k3, h1, h2

(* One vote each and a threshold of two: a quorum needs two distinct keys, *)
(* so a key counted twice, or a forged vote counted, decides alone.        *)
MCCommittee == (k1 :> 1) @@ (k2 :> 1) @@ (k3 :> 1)
(* Committee weights whose sum exceeds a uint8.                            *)
MCHeavyCommittee == (k1 :> 200) @@ (k2 :> 100) @@ (k3 :> 0)

=============================================================================
