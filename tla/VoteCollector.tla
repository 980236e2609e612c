---------------------------- MODULE VoteCollector ----------------------------
(***************************************************************************)
(* What one step of vote collection promises (spec 4.3, 4.4 and 8), with  *)
(* no channel, no encoding and no bounded counter: each voter's first      *)
(* ballot is accepted, and collection concludes with a hash exactly when   *)
(* the accepted ballots for it carry the quorum weight, or with the        *)
(* timeout hash when the timer fires first.                                *)
(***************************************************************************)
EXTENDS Naturals, FiniteSets

CONSTANTS
  Voters,       \* the keys that may cast a ballot
  Weight,       \* the committee: voter -> vote weight
  Quorum,       \* the quorum weight
  Candidates,   \* the hashes a ballot may be for
  TimeoutHash,  \* the hash collection concludes with on a timeout
  NoHash        \* no hash yet

VARIABLES
  ballots,   \* the accepted ballots: <<voter, hash>> pairs
  decision   \* [state: "pending", "quorum" or "timeout", hash]

(* The total weight of a set of voters: the number of their votes, a      *)
(* voter of weight w casting the votes 1 .. w.                             *)
TotalWeight(S) == Cardinality(UNION {{v} \X (1 .. Weight[v]) : v \in S})

Supporters(h) == {v \in Voters : <<v, h>> \in ballots}

HasBallot(v) == \E h \in Candidates : <<v, h>> \in ballots

Init ==
  /\ ballots = {}
  /\ decision = [state |-> "pending", hash |-> NoHash]

(* A voter's first ballot is accepted; if it brings its hash to the        *)
(* quorum, collection concludes with that hash.                            *)
Accept(v, h) ==
  /\ decision.state = "pending"
  /\ ~HasBallot(v)
  /\ ballots' = ballots \cup {<<v, h>>}
  /\ decision' = IF TotalWeight(Supporters(h) \cup {v}) >= Quorum
                   THEN [state |-> "quorum", hash |-> h]
                   ELSE decision

TimeOut ==
  /\ decision.state = "pending"
  /\ decision' = [state |-> "timeout", hash |-> TimeoutHash]
  /\ UNCHANGED ballots

Next ==
  \/ \E v \in Voters, h \in Candidates : Accept(v, h)
  \/ TimeOut

Spec == Init /\ [][Next]_<<ballots, decision>>

=============================================================================
