----------------------------- MODULE MCReducer -----------------------------
(* Model values and small sets for checking Reducer with TLC.              *)
EXTENDS Reducer, TLC

CONSTANTS k1, k2, k3, h1

(* One vote each, threshold two: two distinct keys make a quorum.         *)
MCCommittee == (k1 :> 1) @@ (k2 :> 1) @@ (k3 :> 1)

(* Valid block reduction votes for h1 from the two other keys, in round 1, *)
(* steps 1 and 2: enough for both steps of a cycle to reach a quorum.      *)
MCNetMsgs ==
  {m \in BlockMsg : m.sigOK /\ m.hash = h1 /\ m.round = 1 /\ m.pk /= k1}
(* k2 and k3 play the same part: equal weight, neither is this node.      *)
MCSymmetry == Permutations({k2, k3})
=============================================================================
