--------------------------- MODULE ReductionBroker ---------------------------
(***************************************************************************)
(* The reduction broker of reduction/broker.go.  Its Listen goroutine      *)
(* selects over three channels fed by the event bus: round updates,        *)
(* selection results (best scores) and step changes of its State.  It      *)
(* starts and ends the reducer and clears and flushes the event filter     *)
(* and accumulator.  The filter's Collect runs meanwhile as a bus callback *)
(* for every reduction vote, on another goroutine.                         *)
(* The State, EventFilter, Accumulator and the reducer's startReduction /  *)
(* end are not in this repository; they follow spec 4.3 and 4.4: Collect   *)
(* hands a vote of the current round and step to the accumulator, queues  *)
(* a later one and drops an earlier one; UpdateRound moves the State to    *)
(* round r, step 1 and drops queued votes of older rounds; FlushQueue      *)
(* hands the queued votes of the current round and step to the            *)
(* accumulator.  A vote is identified by its round and step.               *)
(***************************************************************************)
EXTENDS Naturals, Sequences

CONSTANTS
  Hashes,      \* candidate hashes a selection result carries
  ZeroHash,    \* make([]byte, 32)
  NilEvent,    \* a nil *selection.ScoreEvent
  StartRound,  \* the round the broker starts in
  MaxRound,    \* the last round a round update is published for
  MaxStep,     \* the reducer moves the State up to this step
  MaxVotes     \* bound on reduction votes delivered to Collect

ASSUME ReductionBrokerAssumption ==
  /\ ZeroHash \notin Hashes /\ NilEvent \notin Hashes \cup {ZeroHash}
  /\ StartRound \in Nat /\ MaxRound \in Nat
  /\ MaxStep \in Nat \ {0} /\ MaxVotes \in Nat

Vote == [round: Nat, step: Nat]
Selection == [round: Nat, hash: Hashes \cup {NilEvent}]

VARIABLES
  round, step,   \* b.ctx.state
  roundChan,     \* b.roundUpdateChan
  selectionChan, \* b.selectionChan
  stepChan,      \* b.stepChan (one element per step change)
  listenPc,      \* "select", or "update" between Clear and UpdateRound
  newRound,      \* the round of the update Listen is handling
  reducer,       \* [running, round, hash] of the reducer
  acc,           \* the votes in the accumulator's store
  queue,         \* the votes in the filter's queue
  started,       \* reductions started: [round, hash] (history)
  published,     \* rounds and selections published so far (environment)
  votes          \* reduction votes delivered so far

vars == <<round, step, roundChan, selectionChan, stepChan, listenPc, newRound,
          reducer, acc, queue, started, published, votes>>

(* LaunchReducer: newBroker subscribes the channels; the State is at       *)
(* StartRound, step 1, and no reduction runs.                              *)
Init ==
  /\ round = StartRound /\ step = 1
  /\ roundChan = <<>> /\ selectionChan = <<>> /\ stepChan = <<>>
  /\ listenPc = "select" /\ newRound = StartRound
  /\ reducer = [running |-> FALSE, round |-> StartRound, hash |-> ZeroHash]
  /\ acc = {} /\ queue = {}
  /\ started = {}
  /\ published = [round |-> StartRound, selections |-> {}]
  /\ votes = 0

-----------------------------------------------------------------------------
(* The filter and the reducer (spec 4.3 and 4.4).                          *)

(* FlushQueue: the queued votes of the current round and step are handed   *)
(* to the accumulator.                                                     *)
Flushed(r, s) == {v \in queue : v.round = r /\ v.step = s}

FlushQueue(accNow, r, s) ==
  /\ acc' = accNow \cup Flushed(r, s)
  /\ queue' = queue \ Flushed(r, s)

StartReduction(h) ==
  /\ reducer' = [running |-> TRUE, round |-> round, hash |-> h]
  /\ started' = started \cup {[round |-> round, hash |-> h]}

(* filter.Collect(v), run by the event bus for a reduction vote.           *)
Collect(v) ==
  /\ votes < MaxVotes
  /\ votes' = votes + 1
  /\ \/ /\ v.round = round /\ v.step = step
        /\ acc' = acc \cup {v}
        /\ UNCHANGED queue
     \/ /\ v.round > round \/ (v.round = round /\ v.step > step)
        /\ queue' = queue \cup {v}
        /\ UNCHANGED acc
     \/ /\ v.round < round \/ (v.round = round /\ v.step < step)
        /\ UNCHANGED <<acc, queue>>
  /\ UNCHANGED <<round, step, roundChan, selectionChan, stepChan, listenPc,
                 newRound, reducer, started, published>>

(* The reducer completes a step and increments the State's step, which     *)
(* the State publishes on stepChan.                                        *)
ReducerStep ==
  /\ reducer.running /\ step < MaxStep
  /\ step' = step + 1
  /\ stepChan' = Append(stepChan, step + 1)
  /\ UNCHANGED <<round, roundChan, selectionChan, listenPc, newRound, reducer,
                 acc, queue, started, published, votes>>

(* The agreement broker publishes the next round.                          *)
PublishRound ==
  /\ published.round < MaxRound
  /\ roundChan' = Append(roundChan, published.round + 1)
  /\ published' = [published EXCEPT !.round = @ + 1]
  /\ UNCHANGED <<round, step, selectionChan, stepChan, listenPc, newRound,
                 reducer, acc, queue, started, votes>>

(* The selection of the latest published round publishes its best score,   *)
(* or nil, once.                                                           *)
PublishSelection(h) ==
  /\ published.round \notin published.selections
  /\ selectionChan' = Append(selectionChan,
                             [round |-> published.round, hash |-> h])
  /\ published' = [published EXCEPT !.selections = @ \cup {published.round}]
  /\ UNCHANGED <<round, step, roundChan, stepChan, listenPc, newRound,
                 reducer, acc, queue, started, votes>>

-----------------------------------------------------------------------------
(* Listen's select.                                                        *)

(* A round update that does not end the reducer.                           *)
ListenRoundUpdateNoEnd ==
  /\ listenPc = "select" /\ roundChan /= <<>>
  /\ newRound' = Head(roundChan)
  /\ roundChan' = Tail(roundChan)
  /\ acc' = {}
  /\ listenPc' = "update"
  /\ UNCHANGED <<round, step, selectionChan, stepChan, reducer, queue,
                 started, published, votes>>

(* case round := <-b.roundUpdateChan: b.reducer.end(); b.accumulator.Clear() *)
ListenRoundUpdate ==
  /\ listenPc = "select" /\ roundChan /= <<>>
  /\ newRound' = Head(roundChan)
  /\ roundChan' = Tail(roundChan)
  /\ reducer' = [reducer EXCEPT !.running = FALSE]
  /\ acc' = {}
  /\ listenPc' = "update"
  /\ UNCHANGED <<round, step, selectionChan, stepChan, queue, started,
                 published, votes>>

(* ... b.filter.UpdateRound(round)                                         *)
ListenUpdateRound ==
  /\ listenPc = "update"
  /\ round' = newRound /\ step' = 1
  /\ queue' = {v \in queue : v.round >= newRound}
  /\ listenPc' = "select"
  /\ UNCHANGED <<roundChan, selectionChan, stepChan, newRound, reducer, acc,
                 started, published, votes>>

(* Without the nil check: the event's fields are used whatever it is.      *)
ListenSelectionNoNilCheck ==
  /\ listenPc = "select" /\ selectionChan /= <<>>
  /\ LET ev == Head(selectionChan) IN
       StartReduction(IF ev.round = round THEN ev.hash ELSE ZeroHash)
  /\ selectionChan' = Tail(selectionChan)
  /\ FlushQueue(acc, round, step)
  /\ UNCHANGED <<round, step, roundChan, stepChan, listenPc, newRound,
                 published, votes>>

(* case ev := <-b.selectionChan: a nil event, or one of another round,     *)
(* starts a reduction of the zero hash; one of the State's round starts a  *)
(* reduction of its hash.  Then b.filter.FlushQueue().                     *)
ListenSelection ==
  /\ listenPc = "select" /\ selectionChan /= <<>>
  /\ LET ev == Head(selectionChan) IN
       StartReduction(IF ev.hash /= NilEvent /\ ev.round = round
                        THEN ev.hash ELSE ZeroHash)
  /\ selectionChan' = Tail(selectionChan)
  /\ FlushQueue(acc, round, step)
  /\ UNCHANGED <<round, step, roundChan, stepChan, listenPc, newRound,
                 published, votes>>

(* case <-b.stepChan: b.accumulator.Clear(); b.filter.FlushQueue()         *)
ListenStep ==
  /\ listenPc = "select" /\ stepChan /= <<>>
  /\ stepChan' = Tail(stepChan)
  /\ FlushQueue({}, round, step)
  /\ UNCHANGED <<round, step, roundChan, selectionChan, listenPc, newRound,
                 reducer, started, published, votes>>

(* Nothing more is delivered and Listen waits in its select.               *)
Waiting ==
  /\ listenPc = "select"
  /\ roundChan = <<>> /\ selectionChan = <<>> /\ stepChan = <<>>
  /\ UNCHANGED vars

Next ==
  \/ ListenRoundUpdate \/ ListenUpdateRound \/ ListenSelection \/ ListenStep
  \/ \E v \in [round: {round, round + 1}, step: 1 .. MaxStep] : Collect(v)
  \/ ReducerStep
  \/ PublishRound
  \/ \E h \in Hashes \cup {NilEvent} : PublishSelection(h)
  \/ Waiting

Spec == Init /\ [][Next]_vars

-----------------------------------------------------------------------------
TypeOK ==
  /\ round \in Nat /\ step \in 1 .. MaxStep
  /\ roundChan \in Seq(Nat) /\ selectionChan \in Seq(Selection)
  /\ stepChan \in Seq(Nat)
  /\ listenPc \in {"select", "update"} /\ newRound \in Nat
  /\ reducer \in [running: BOOLEAN, round: Nat, hash: Hashes \cup {ZeroHash}]
  /\ acc \subseteq Vote /\ queue \subseteq Vote
  /\ started \subseteq [round: Nat, hash: Hashes \cup {ZeroHash}]
  /\ published \in [round: Nat, selections: SUBSET Nat]
  /\ votes \in 0 .. MaxVotes

(***************************************************************************)
(* A running reduction is one of the State's round: a round update ends    *)
(* the reduction in flight before the round moves on (spec 5).             *)
(***************************************************************************)
ReductionOfCurrentRound == reducer.running => reducer.round = round

(***************************************************************************)
(* Once Listen has handled a round update, the accumulator holds no vote   *)
(* of an older round (spec 4.3: the store is cleared on every round        *)
(* transition before a new vote is admitted).                              *)
(***************************************************************************)
NoStaleVoteAfterUpdate ==
  listenPc = "select" => \A v \in acc : v.round = round

(***************************************************************************)
(* The selection result of the latest published round, when it carries a  *)
(* hash, starts a reduction of that hash (spec 4.4: a selection for the    *)
(* current round begins step 1 with its hash).                             *)
(***************************************************************************)
SelectionReduced ==
  [][ (ListenSelection /\ LET ev == Head(selectionChan) IN
                           ev.hash /= NilEvent /\ ev.round = published.round)
      => reducer'.hash = Head(selectionChan).hash ]_vars

=============================================================================
