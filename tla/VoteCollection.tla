--------------------------- MODULE VoteCollection ---------------------------
(***************************************************************************)
(* One call of Reducer.decideOnHash (reduction/reduction.go): it reads     *)
(* reduction messages from inputChannel until one hash reaches the         *)
(* threshold or its timer fires.  The messages are whatever Listen put on  *)
(* the channel: duplicates, forged signatures, other steps, other keys.    *)
(***************************************************************************)
EXTENDS VoteTally, Sequences

CONSTANTS
  InputCap,   \* capacity of inputChannel (100 in NewReducer)
  MaxSent     \* bound on the messages the environment puts on the channel

ASSUME CollectionAssumption ==
  /\ InputCap \in Nat \ {0}
  /\ MaxSent \in Nat

VARIABLES
  inputChannel,  \* the buffered channel r.inputChannel
  tally,         \* votesPerHash, hasVoted, voteSet of the call
  outcome,       \* "pending" while in the loop, then "quorum" or "timeout"
  result,        \* the hash returned
  winning,       \* r.winningBlockHash, read by checkWinningBlockHash
  counted,       \* auxiliary: the messages whose weight entered the tally, in order
  sent           \* auxiliary: messages put on the channel so far

vars == <<inputChannel, tally, outcome, result, winning, counted, sent>>

Init ==
  /\ inputChannel = <<>>
  /\ tally = EmptyTally
  /\ outcome = "pending"
  /\ result = NilHash
  /\ winning \in Hashes \cup {NilHash}
  /\ counted = <<>>
  /\ sent = 0

(* The send without blocking on a full channel.                           *)
SendUnbounded(m) ==
  /\ sent < MaxSent
  /\ inputChannel' = Append(inputChannel, m)
  /\ sent' = sent + 1
  /\ UNCHANGED <<tally, outcome, result, winning, counted>>

(* Listen's handleMessage: r.inputChannel <- message (blocks when full).   *)
Send(m) ==
  /\ sent < MaxSent
  /\ Len(inputChannel) < InputCap
  /\ inputChannel' = Append(inputChannel, m)
  /\ sent' = sent + 1
  /\ UNCHANGED <<tally, outcome, result, winning, counted>>

(* case m := <-r.inputChannel of decideOnHash's select.                    *)
Receive ==
  /\ outcome = "pending"
  /\ inputChannel /= <<>>
  /\ LET m == Head(inputChannel) IN
       /\ inputChannel' = Tail(inputChannel)
       /\ tally' = Collect(tally, m, winning)
       /\ counted' = IF Counts(tally, m, winning) THEN Append(counted, m)
                     ELSE counted
       /\ IF Decides(tally, m, winning)
            THEN /\ outcome' = "quorum"
                 /\ result' = m.hash
            ELSE UNCHANGED <<outcome, result>>
  /\ UNCHANGED <<winning, sent>>

(* case <-timer.C: return make([]byte, 32), nil.                           *)
Timeout ==
  /\ outcome = "pending"
  /\ outcome' = "timeout"
  /\ result' = ZeroHash
  /\ UNCHANGED <<inputChannel, tally, winning, counted, sent>>

Next ==
  \/ \E m \in Msg : Send(m)
  \/ Receive
  \/ Timeout

Spec == Init /\ [][Next]_vars

-----------------------------------------------------------------------------
TypeOK ==
  /\ inputChannel \in Seq(Msg)
  /\ Len(inputChannel) <= InputCap
  /\ tally \in Tally
  /\ outcome \in {"pending", "quorum", "timeout"}
  /\ result \in VoteHash \cup {NilHash}
  /\ winning \in Hashes \cup {NilHash}
  /\ counted \in Seq(Msg)
  /\ sent \in 0 .. MaxSent

(* The votes of a set of keys: a key of weight w casts the votes 1 .. w.   *)
Votes(S) == UNION {{k} \X (1 .. Committee[k]) : k \in S}

(* The total committee weight of a set of keys, the number of its votes    *)
(* (no uint8 wrap).                                                        *)
WeightOf(S) == Cardinality(Votes(S))

(* The keys whose counted, verified vote is for hash h.                    *)
VotersFor(h) ==
  {counted[i].pk : i \in {j \in DOMAIN counted :
                           /\ counted[j].hash = h
                           /\ VerifyReductionMessage(counted[j], winning)}}

(***************************************************************************)
(* Deduplication (hasVoted in decideOnHash): no key's weight enters the    *)
(* tally twice in a step, whatever duplicates or conflicting votes of that *)
(* key arrive on the channel.                                              *)
(***************************************************************************)
NoDoubleCount ==
  \A i, j \in DOMAIN counted : counted[i].pk = counted[j].pk => i = j

(***************************************************************************)
(* A quorum result of decideOnHash is backed by verified votes for that    *)
(* hash from distinct keys whose committee weight reaches the threshold,   *)
(* although the tally adds weights in uint8.                               *)
(***************************************************************************)
QuorumSound ==
  outcome = "quorum" => WeightOf(VotersFor(result)) >= Threshold

(***************************************************************************)
(* decideOnHash returns as soon as the verified votes it counted for one   *)
(* hash carry the threshold weight: while it is still collecting, no hash  *)
(* has that weight, although votesPerHash adds weights in uint8.           *)
(***************************************************************************)
QuorumDecided ==
  outcome = "pending" =>
    \A h \in VoteHash : WeightOf(VotersFor(h)) < Threshold

(***************************************************************************)
(* A verified vote of a key that has no vote in the tally yet is counted   *)
(* when decideOnHash takes it from the channel (spec: a message failing    *)
(* signature validation is discarded, and only a key's first vote counts). *)
(***************************************************************************)
VerifiedVoteCounted ==
  [][ Receive =>
        LET m == Head(inputChannel) IN
          (/\ VerifyReductionMessage(m, winning)
           /\ \A i \in DOMAIN counted : counted[i].pk /= m.pk)
            => counted' = Append(counted, m) ]_vars

-----------------------------------------------------------------------------
(* The abstract vote collector, seen through decideOnHash: the accepted    *)
(* ballots are the counted messages, the decision is outcome and result.   *)
Collector == INSTANCE VoteCollector
  WITH Voters <- Keys, Weight <- Committee, Quorum <- Threshold,
       Candidates <- VoteHash, TimeoutHash <- ZeroHash, NoHash <- NilHash,
       ballots <- {<<counted[i].pk, counted[i].hash>> : i \in DOMAIN counted},
       decision <- [state |-> outcome, hash |-> result]

(***************************************************************************)
(* decideOnHash implements the vote collector of the spec: it accepts only *)
(* a key's first verified vote, and returns a hash exactly when the votes  *)
(* it accepted for that hash reach the threshold weight.                   *)
(***************************************************************************)
CollectorRefinement == Collector!Spec

=============================================================================
