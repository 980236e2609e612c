--------------------------- MODULE AgreementBroker ---------------------------
(***************************************************************************)
(* The agreement broker of agreement/broker.go.  Three goroutines share    *)
(* its consensus.State (round and step, each accessor mutex-guarded):      *)
(*   - Listen, which takes a quorum from accumulator.CollectedVotesChan,   *)
(*     publishes the winning hash and calls updateRound(Round() + 1);      *)
(*   - the accumulator, fed by filter.Collect on the event bus, which      *)
(*     reaches a quorum for the current round and sends it on that         *)
(*     channel (blocking while it is full);                                *)
(*   - sendAgreement, the callback the reducer's goroutine runs when it    *)
(*     publishes a reduction result: it reads round and step, streams an   *)
(*     agreement vote if this node is a member, and increments the step    *)
(*     in a deferred call.                                                 *)
(* consensus.State, EventFilter and Accumulator are not in this            *)
(* repository; they follow spec 4.3 and 5 (Update(r) sets the round and    *)
(* resets the step to 1; a quorum is emitted once per round and step).     *)
(***************************************************************************)
EXTENDS Naturals, Sequences

CONSTANTS
  StartRound,      \* currentRound passed to Launch
  AgreementSteps,  \* steps for which agreement quorums may be reached
  Membership,      \* the <<round, step>> pairs at which AmMember holds
  CollectedCap,    \* capacity of accumulator.CollectedVotesChan
  MaxRound,        \* the accumulator reaches quorums up to this round
  MaxResults       \* bound on the reduction results published

ASSUME AgreementAssumption ==
  /\ StartRound \in Nat
  /\ AgreementSteps \subseteq Nat
  /\ Membership \subseteq Nat \X Nat
  /\ CollectedCap \in Nat \ {0}
  /\ MaxRound \in Nat /\ MaxResults \in Nat

(* A quorum the accumulator emits: the round and step it was reached in.   *)
Quorum == [round: Nat, step: Nat]
NoQuorum == [none |-> TRUE]

(* An agreement vote streamed by sendAgreement: the round and step it is   *)
(* stamped with, and the round of the reduction result it carries.         *)
AgreementVote == [round: Nat, step: Nat, resultRound: Nat]

(* A winning hash published by Listen: the round of the quorum it comes    *)
(* from, and the broker's round when it was published.                     *)
Winning == [quorumRound: Nat, round: Nat]

SaPc == {"idle", "member", "createRound", "createStep", "defer"}

VARIABLES
  round, step,     \* b.state
  collected,       \* accumulator.CollectedVotesChan
  pendingQuorum,   \* a quorum the accumulator is sending, or NoQuorum
  emitted,         \* the (round, step) pairs the accumulator emitted
  listenPc,        \* "recv" (at the channel receive) or "update"
  saPc,            \* where the running sendAgreement call is
  saResult,        \* its reduction result: round it was made in, decodes?
  saRound,         \* the Round() it read for createAgreement
  gossip,          \* agreement votes streamed on topics.Gossip (history)
  winning,         \* winning hashes published (history)
  roundUpdates,    \* rounds published by consensus.UpdateRound (history)
  results,         \* reduction results published so far
  resultsInRound   \* of these, the ones published in the current round

vars == <<round, step, collected, pendingQuorum, emitted, listenPc, saPc,
          saResult, saRound, gossip, winning, roundUpdates, results,
          resultsInRound>>

AmMember(r, s) == <<r, s>> \in Membership

(* Launch: newBroker, then updateRound(currentRound) before Listen runs.   *)
Init ==
  /\ round = StartRound /\ step = 1
  /\ collected = <<>> /\ pendingQuorum = NoQuorum /\ emitted = {}
  /\ listenPc = "recv"
  /\ saPc = "idle" /\ saResult = [round |-> StartRound, ok |-> TRUE]
  /\ saRound = StartRound
  /\ gossip = {} /\ winning = <<>> /\ roundUpdates = <<StartRound>>
  /\ results = 0 /\ resultsInRound = 0

-----------------------------------------------------------------------------
(* updateRound(r): filter.UpdateRound (State.Update: round r, step 1),     *)
(* consensus.UpdateRound publishes r, accumulator.Clear, filter.FlushQueue *)
(* (the cleared store and queue are left to the accumulator's guard).      *)
UpdateRound(r) ==
  /\ round' = r /\ step' = 1
  /\ roundUpdates' = Append(roundUpdates, r)
  /\ resultsInRound' = 0

(* Listen: evs := <-CollectedVotesChan; publishWinningHash(evs).           *)
ListenReceive ==
  /\ listenPc = "recv" /\ collected /= <<>>
  /\ winning' = Append(winning, [quorumRound |-> Head(collected).round,
                                 round |-> round])
  /\ collected' = Tail(collected)
  /\ listenPc' = "update"
  /\ UNCHANGED <<round, step, pendingQuorum, emitted, saPc, saResult, saRound,
                 gossip, roundUpdates, results, resultsInRound>>

(* Listen: updateRound(b.state.Round() + 1).                               *)
ListenUpdate ==
  /\ listenPc = "update"
  /\ UpdateRound(round + 1)
  /\ listenPc' = "recv"
  /\ UNCHANGED <<collected, pendingQuorum, emitted, saPc, saResult, saRound,
                 gossip, winning, results>>

(* The accumulator's store for step s of the current round reaches quorum; *)
(* it is emitted once per round and step.                                  *)
AccumulatorQuorum(s) ==
  /\ pendingQuorum = NoQuorum
  /\ round <= MaxRound
  /\ <<round, s>> \notin emitted
  /\ pendingQuorum' = [round |-> round, step |-> s]
  /\ emitted' = emitted \cup {<<round, s>>}
  /\ UNCHANGED <<round, step, collected, listenPc, saPc, saResult, saRound,
                 gossip, winning, roundUpdates, results, resultsInRound>>

(* A send that does not wait for room in the channel.                     *)
AccumulatorSendUnbounded ==
  /\ pendingQuorum /= NoQuorum
  /\ collected' = Append(collected, pendingQuorum)
  /\ pendingQuorum' = NoQuorum
  /\ UNCHANGED <<round, step, emitted, listenPc, saPc, saResult, saRound,
                 gossip, winning, roundUpdates, results, resultsInRound>>

(* The send on CollectedVotesChan blocks until the channel has room.       *)
AccumulatorSend ==
  /\ pendingQuorum /= NoQuorum
  /\ Len(collected) < CollectedCap
  /\ collected' = Append(collected, pendingQuorum)
  /\ pendingQuorum' = NoQuorum
  /\ UNCHANGED <<round, step, emitted, listenPc, saPc, saResult, saRound,
                 gossip, winning, roundUpdates, results, resultsInRound>>

(* The reducer publishes a reduction result for the round it is in; its    *)
(* goroutine runs sendAgreement.  ok: the vote set unmarshals.             *)
ReductionResult(ok) ==
  /\ saPc = "idle" /\ results < MaxResults
  /\ saPc' = "member"
  /\ saResult' = [round |-> round, ok |-> ok]
  /\ results' = results + 1 /\ resultsInRound' = resultsInRound + 1
  /\ UNCHANGED <<round, step, collected, pendingQuorum, emitted, listenPc,
                 saRound, gossip, winning, roundUpdates>>

(* if b.handler.AmMember(Round(), Step()): a member unmarshals the vote    *)
(* set, a failure returns the error; a non-member goes to the deferred     *)
(* IncrementStep.                                                          *)
SendAgreementMember ==
  /\ saPc = "member"
  /\ saPc' = IF AmMember(round, step) /\ saResult.ok THEN "createRound"
                                                     ELSE "defer"
  /\ UNCHANGED <<round, step, collected, pendingQuorum, emitted, listenPc,
                 saResult, saRound, gossip, winning, roundUpdates, results,
                 resultsInRound>>

(* createAgreement(voteSet, b.state.Round(), b.state.Step()): two reads.   *)
SendAgreementRound ==
  /\ saPc = "createRound"
  /\ saRound' = round
  /\ saPc' = "createStep"
  /\ UNCHANGED <<round, step, collected, pendingQuorum, emitted, listenPc,
                 saResult, gossip, winning, roundUpdates, results,
                 resultsInRound>>

(* ... then the step; the vote is streamed on topics.Gossip.               *)
SendAgreementStream ==
  /\ saPc = "createStep"
  /\ gossip' = gossip \cup {[round |-> saRound, step |-> step,
                             resultRound |-> saResult.round]}
  /\ saPc' = "defer"
  /\ UNCHANGED <<round, step, collected, pendingQuorum, emitted, listenPc,
                 saResult, saRound, winning, roundUpdates, results,
                 resultsInRound>>

(* defer b.state.IncrementStep(), on every return path.                    *)
SendAgreementDefer ==
  /\ saPc = "defer"
  /\ step' = step + 1
  /\ saPc' = "idle"
  /\ UNCHANGED <<round, collected, pendingQuorum, emitted, listenPc,
                 saResult, saRound, gossip, winning, roundUpdates, results,
                 resultsInRound>>

SendAgreementStep ==
  SendAgreementMember \/ SendAgreementRound \/ SendAgreementStream
  \/ SendAgreementDefer

(* Listen waits on an empty channel and no sendAgreement call runs: the    *)
(* broker idles until the network or the reducer delivers more.            *)
Waiting ==
  /\ listenPc = "recv" /\ collected = <<>> /\ saPc = "idle"
  /\ UNCHANGED vars

Next ==
  \/ ListenReceive \/ ListenUpdate
  \/ \E s \in AgreementSteps : AccumulatorQuorum(s)
  \/ AccumulatorSend
  \/ \E ok \in BOOLEAN : ReductionResult(ok)
  \/ SendAgreementStep
  \/ Waiting

Spec == Init /\ [][Next]_vars

-----------------------------------------------------------------------------
TypeOK ==
  /\ round \in Nat /\ step \in Nat \ {0}
  /\ collected \in Seq(Quorum) /\ Len(collected) <= CollectedCap
  /\ pendingQuorum \in Quorum \cup {NoQuorum}
  /\ emitted \subseteq Nat \X Nat
  /\ listenPc \in {"recv", "update"}
  /\ saPc \in SaPc
  /\ saResult \in [round: Nat, ok: BOOLEAN] /\ saRound \in Nat
  /\ gossip \subseteq AgreementVote
  /\ winning \in Seq(Winning) /\ roundUpdates \in Seq(Nat)
  /\ results \in 0 .. MaxResults /\ resultsInRound \in 0 .. results

(***************************************************************************)
(* An agreement vote is stamped with the round of the reduction result it  *)
(* carries (spec 5: a stale result is discarded without side effects).     *)
(***************************************************************************)
AgreementVoteOfResultRound == \A v \in gossip : v.round = v.resultRound

(***************************************************************************)
(* The step never runs ahead of the reduction results of the current       *)
(* round: each result advances it once, and a new round starts at step 1  *)
(* (spec 3 and 4.5: every node stays on the same step as everybody else).  *)
(***************************************************************************)
StepFollowsResults == step <= resultsInRound + 1

(***************************************************************************)
(* Listen publishes a winning hash only for a quorum of the round it is    *)
(* closing (spec 4.5: the round advances on an agreement quorum of it).    *)
(***************************************************************************)
WinningOfCurrentRound ==
  \A i \in DOMAIN winning : winning[i].quorumRound = winning[i].round

=============================================================================
