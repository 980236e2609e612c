------------------------------ MODULE Reducer ------------------------------
(***************************************************************************)
(* The Reducer of reduction/reduction.go: the Listen loop and the          *)
(* runReduction goroutines it starts.                                      *)
(*                                                                         *)
(* processMessage has a value receiver, so a reduction message from the    *)
(* network is handled on a copy of the Reducer: initialise and             *)
(* handleMessage then write the copy's fields, and a runReduction started  *)
(* there runs on the copy.  Only queued messages replayed at the top of    *)
(* Listen are handled on the Reducer itself.  A worker therefore either    *)
(* works on the shared Reducer (shared = TRUE) or on its own copy.         *)
(* Channels, the queue and the event bus are shared by all copies.         *)
(***************************************************************************)
EXTENDS VoteTally, Sequences, FiniteSets

CONSTANTS
  Me,             \* this node's BLS key
  NetMsgs,        \* the reduction messages the network may deliver
  InputCap,       \* capacity of inputChannel (100 in NewReducer)
  MaxNet,         \* bound on reduction messages delivered by the network
  MaxSelections,  \* bound on selection results delivered
  MaxWinning      \* bound on winning block hashes delivered

ASSUME ReducerAssumption ==
  /\ Me \in Keys
  /\ NetMsgs \subseteq Msg
  /\ InputCap \in Nat \ {0}
  /\ MaxNet \in Nat /\ MaxSelections \in Nat /\ MaxWinning \in Nat

(* The fields of a Reducer that its methods write.                         *)
RState == [round: Nat, step: Uint8, reducing: BOOLEAN,
           currentHash: VoteHash \cup {NilHash}, inSigSetPhase: BOOLEAN,
           winningBlockHash: Hashes \cup {NilHash}]

(* A vote published on the "outgoing" topic.                               *)
Vote == [kind: {"reduction", "agreement"}, round: Nat, step: Uint8,
         sigSet: BOOLEAN, hash: VoteHash \cup {NilHash}]

(* A runReduction goroutine.  counted, dRound and dStep are auxiliary:     *)
(* the messages the current decideOnHash counted, and the round and step   *)
(* of the Reducer it runs on when that decideOnHash started.               *)
WorkerPc == {"decide1", "afterStep1", "decide2", "finish", "output", "done"}
Worker == [pc: WorkerPc, shared: BOOLEAN, copy: RState, tally: Tally,
           counted: SUBSET Msg, dRound: Nat, dStep: Uint8,
           hash1: VoteHash, vs1: Nat, hash2: VoteHash, vs2: Nat,
           out: {"nil", "voteSet"}]

VARIABLES
  reducer,        \* the Reducer's own fields
  queue,          \* reductionQueue: messages kept for a later round or step
  inputChannel,   \* r.inputChannel, read by decideOnHash
  outputChannel,  \* r.outputChannel (capacity 1): "nil" or "voteSet"
  workers,        \* the runReduction goroutines started so far
  listenPc,       \* where Listen is: "top", "replay", "select", "push", "stopped"
  replaying,      \* queued messages taken by GetMessages, not yet handled
  pushing,        \* the message Listen is sending on inputChannel
  pushReturn,     \* where Listen resumes after that send
  outgoing,       \* votes published so far (auxiliary history)
  env             \* counts of network, selection, winning-hash deliveries
                  \* and the last round published on the round update topic

vars == <<reducer, queue, inputChannel, outputChannel, workers, listenPc,
          replaying, pushing, pushReturn, outgoing, env>>

NoMsg == [none |-> TRUE]

Init ==
  /\ reducer = [round |-> 0, step |-> 0, reducing |-> FALSE,
                currentHash |-> NilHash, inSigSetPhase |-> FALSE,
                winningBlockHash |-> NilHash]
  /\ queue = {}
  /\ inputChannel = <<>>
  /\ outputChannel = <<>>
  /\ workers = <<>>
  /\ listenPc = "top"
  /\ replaying = {}
  /\ pushing = NoMsg
  /\ pushReturn = "top"
  /\ outgoing = {}
  /\ env = [net |-> 0, sel |-> 0, win |-> 0, lastRound |-> 0]

-----------------------------------------------------------------------------
(* Helpers on a Reducer state p, named after the methods they model.       *)

EligibleToVote == Committee[Me] > 0

IncrementStep(p) == [p EXCEPT !.step = (@ + 1) % 256]

ShouldBeProcessed(p, m) ==
  /\ m.round = p.round
  /\ m.step = p.step
  /\ Committee[m.pk] > 0

IsFromCorrectPhase(p, m) == p.inSigSetPhase = m.sigSet

ShouldBeStored(p, m) == m.round > p.round \/ m.step > p.step

(* initialise: a Reducer still at round 0, step 0 takes the round, step    *)
(* and phase of the first message it processes.                            *)
Initialise(p, m) ==
  IF p.round = 0 /\ p.step = 0
    THEN [p EXCEPT !.round = m.round, !.step = m.step,
                   !.inSigSetPhase = IF m.sigSet THEN TRUE ELSE @]
    ELSE p

(* The vote createReductionMessage builds from p.                          *)
ReductionVote(p) ==
  [kind |-> "reduction", round |-> p.round, step |-> p.step,
   sigSet |-> p.inSigSetPhase, hash |-> p.currentHash]

ReductionSuccessful(h1, h2, vs1, vs2) ==
  /\ h1 /= NilHash /\ h2 /= NilHash
  /\ h1 = h2
  /\ vs1 = Threshold /\ vs2 = Threshold

(* The hash createAgreementMessage writes with Write256 first; Write256    *)
(* of a nil hash fails, and voteAgreement returns that error.              *)
AgreementHash(p) ==
  IF p.inSigSetPhase THEN p.winningBlockHash ELSE p.currentHash

(* The agreement vote createAgreementMessage builds from p.                *)
AgreementVote(p) ==
  [kind |-> "agreement", round |-> p.round, step |-> p.step,
   sigSet |-> p.inSigSetPhase, hash |-> AgreementHash(p)]

NewWorker(shared, p) ==
  [pc |-> "decide1", shared |-> shared, copy |-> p, tally |-> EmptyTally,
   counted |-> {}, dRound |-> p.round, dStep |-> p.step,
   hash1 |-> ZeroHash, vs1 |-> 0, hash2 |-> ZeroHash, vs2 |-> 0,
   out |-> "nil"]

(* The Reducer a worker runs on.                                           *)
P(i) == IF workers[i].shared THEN reducer ELSE workers[i].copy

-----------------------------------------------------------------------------
(* handleMessage without the reducing check: every processed message      *)
(* starts a runReduction.                                                  *)
HandleMessageNoGuard(p, m, shared, ret) ==
  IF ShouldBeProcessed(p, m) /\ IsFromCorrectPhase(p, m)
    THEN LET q == [p EXCEPT !.reducing = TRUE] IN
         /\ workers' = Append(workers, NewWorker(shared, q))
         /\ reducer' = IF shared THEN q ELSE reducer
         /\ listenPc' = "push"
         /\ pushing' = m
         /\ pushReturn' = ret
         /\ UNCHANGED queue
    ELSE /\ queue' = IF ShouldBeStored(p, m) \/ ~IsFromCorrectPhase(p, m)
                       THEN queue \cup {m} ELSE queue
         /\ listenPc' = ret
         /\ UNCHANGED <<workers, reducer, pushing, pushReturn>>

(***************************************************************************)
(* handleMessage(m) on Reducer p, then where Listen goes.  A message to    *)
(* process starts runReduction on p unless p is reducing, then is sent on  *)
(* inputChannel; one for a later round or step, or of the other phase, is  *)
(* queued; any other is dropped.  shared tells whether p is the Reducer    *)
(* itself; ret is where Listen resumes.                                    *)
(***************************************************************************)
HandleMessage(p, m, shared, ret) ==
  IF ShouldBeProcessed(p, m) /\ IsFromCorrectPhase(p, m)
    THEN /\ IF ~p.reducing
              THEN LET q == [p EXCEPT !.reducing = TRUE] IN
                   /\ workers' = Append(workers, NewWorker(shared, q))
                   /\ reducer' = IF shared THEN q ELSE reducer
              ELSE UNCHANGED <<workers, reducer>>
         /\ listenPc' = "push"
         /\ pushing' = m
         /\ pushReturn' = ret
         /\ UNCHANGED queue
    ELSE /\ queue' = IF ShouldBeStored(p, m) \/ ~IsFromCorrectPhase(p, m)
                       THEN queue \cup {m} ELSE queue
         /\ listenPc' = ret
         /\ UNCHANGED <<workers, reducer, pushing, pushReturn>>

(* Top of the Listen loop: queue.GetMessages(r.round, r.step).             *)
GetMessages ==
  /\ listenPc = "top"
  /\ LET got == {m \in queue : m.round = reducer.round /\ m.step = reducer.step}
     IN /\ queue' = queue \ got
        /\ replaying' = got
        /\ listenPc' = IF got = {} THEN "select" ELSE "replay"
  /\ UNCHANGED <<reducer, inputChannel, outputChannel, workers, pushing,
                 pushReturn, outgoing, env>>

(* One queued message: handled on the Reducer itself if of its phase,      *)
(* otherwise dropped.                                                      *)
Replay ==
  /\ listenPc = "replay"
  /\ \E m \in replaying :
       LET rest == replaying \ {m}
           ret == IF rest = {} THEN "select" ELSE "replay"
       IN /\ replaying' = rest
          /\ IF m.sigSet = reducer.inSigSetPhase
               THEN HandleMessage(reducer, m, TRUE, ret)
               ELSE /\ listenPc' = ret
                    /\ UNCHANGED <<reducer, queue, workers, pushing, pushReturn>>
  /\ UNCHANGED <<inputChannel, outputChannel, outgoing, env>>

(* r.inputChannel <- message: blocks while the channel is full.            *)
Push ==
  /\ listenPc = "push"
  /\ Len(inputChannel) < InputCap
  /\ inputChannel' = Append(inputChannel, pushing)
  /\ pushing' = NoMsg
  /\ listenPc' = pushReturn
  /\ UNCHANGED <<reducer, queue, outputChannel, workers, replaying,
                 pushReturn, outgoing, env>>

-----------------------------------------------------------------------------
(* The cases of Listen's select.                                           *)

(* case <-r.quitChannel: unsubscribe and return.                           *)
Quit ==
  /\ listenPc = "select"
  /\ listenPc' = "stopped"
  /\ UNCHANGED <<reducer, queue, inputChannel, outputChannel, workers,
                 replaying, pushing, pushReturn, outgoing, env>>

(***************************************************************************)
(* case result := <-r.outputChannel: a non-nil result is voted on with     *)
(* voteAgreement when eligible (Listen returns when that fails: Write256   *)
(* of a nil hash), then currentHash is reset and the step incremented.     *)
(***************************************************************************)
OutputResult ==
  /\ listenPc = "select"
  /\ outputChannel /= <<>>
  /\ outputChannel' = Tail(outputChannel)
  /\ LET votes == EligibleToVote /\ Head(outputChannel) = "voteSet"
     IN IF votes /\ AgreementHash(reducer) = NilHash
          THEN /\ listenPc' = "stopped"
               /\ UNCHANGED <<reducer, outgoing>>
          ELSE /\ outgoing' = IF votes
                                THEN outgoing \cup {AgreementVote(reducer)}
                                ELSE outgoing
               /\ reducer' = IncrementStep([reducer EXCEPT !.currentHash = NilHash])
               /\ listenPc' = "top"
  /\ UNCHANGED <<queue, inputChannel, workers, replaying, pushing,
                 pushReturn, env>>

(* case roundBuffer := <-r.roundUpdateChannel: updateRound.                *)
(* The queue is cleared of the Reducer's round and older ones.             *)
UpdateRound(rd) ==
  /\ listenPc = "select"
  /\ rd > env.lastRound
  /\ env' = [env EXCEPT !.lastRound = rd]
  /\ queue' = {m \in queue : m.round > reducer.round}
  /\ reducer' = [reducer EXCEPT !.winningBlockHash = NilHash,
                   !.inSigSetPhase = FALSE, !.round = rd, !.step = 1]
  /\ listenPc' = "top"
  /\ UNCHANGED <<inputChannel, outputChannel, workers, replaying, pushing,
                 pushReturn, outgoing>>

(* case selectionResult := <-r.selectionResultChannel.                     *)
SelectionResult(h) ==
  /\ listenPc = "select"
  /\ env.sel < MaxSelections
  /\ env' = [env EXCEPT !.sel = @ + 1]
  /\ IF reducer.currentHash = NilHash
       THEN LET q == [reducer EXCEPT !.currentHash = h] IN
            /\ reducer' = q
            /\ outgoing' = IF EligibleToVote
                             THEN outgoing \cup {ReductionVote(q)}
                             ELSE outgoing
       ELSE UNCHANGED <<reducer, outgoing>>
  /\ listenPc' = "top"
  /\ UNCHANGED <<queue, inputChannel, outputChannel, workers, replaying,
                 pushing, pushReturn>>

(* case winningBlockHash := <-r.winningBlockHashChannel: moveToSigSetPhase.*)
MoveToSigSetPhase(h) ==
  /\ listenPc = "select"
  /\ env.win < MaxWinning
  /\ env' = [env EXCEPT !.win = @ + 1]
  /\ reducer' = [reducer EXCEPT !.winningBlockHash = h,
                   !.inSigSetPhase = TRUE, !.step = 1]
  /\ listenPc' = "top"
  /\ UNCHANGED <<queue, inputChannel, outputChannel, workers, replaying,
                 pushing, pushReturn, outgoing>>

(***************************************************************************)
(* case messageBytes := <-r.blockReductionChannel (or the sigSetReduction  *)
(* one): processMessage, on a copy of the Reducer.  Messages that fail     *)
(* validation or decoding are dropped and not delivered here.              *)
(***************************************************************************)
ProcessMessage(m) ==
  /\ listenPc = "select"
  /\ env.net < MaxNet
  /\ env' = [env EXCEPT !.net = @ + 1]
  /\ HandleMessage(Initialise(reducer, m), m, FALSE, "top")
  /\ UNCHANGED <<inputChannel, outputChannel, replaying, outgoing>>

-----------------------------------------------------------------------------
(* The steps of runReduction on worker i.                                  *)

Deciding(i) == workers[i].pc \in {"decide1", "decide2"}

(* The end of a decideOnHash: step 1's result goes to afterStep1, step     *)
(* 2's to finish.                                                          *)
EndDecide(w, h, vs) ==
  IF w.pc = "decide1"
    THEN [w EXCEPT !.pc = "afterStep1", !.hash1 = h, !.vs1 = vs]
    ELSE [w EXCEPT !.pc = "finish", !.hash2 = h, !.vs2 = vs]

(* case m := <-r.inputChannel of decideOnHash.                             *)
WorkerReceive(i) ==
  /\ Deciding(i)
  /\ inputChannel /= <<>>
  /\ LET w == workers[i]
         m == Head(inputChannel)
         wb == P(i).winningBlockHash
         t == Collect(w.tally, m, wb)
         w1 == [w EXCEPT !.tally = t,
                  !.counted = IF Counts(w.tally, m, wb) THEN @ \cup {m} ELSE @]
     IN workers' = [workers EXCEPT ![i] =
                      IF Decides(w.tally, m, wb)
                        THEN EndDecide(w1, m.hash,
                                       RemoveDeviatingVotes(t.voteSet, m.hash))
                        ELSE w1]
  /\ inputChannel' = Tail(inputChannel)
  /\ UNCHANGED <<reducer, queue, outputChannel, listenPc, replaying, pushing,
                 pushReturn, outgoing, env>>

(* case <-timer.C of decideOnHash: the zero hash and a nil vote set.       *)
WorkerTimeout(i) ==
  /\ Deciding(i)
  /\ workers' = [workers EXCEPT ![i] = EndDecide(@, ZeroHash, 0)]
  /\ UNCHANGED <<reducer, queue, inputChannel, outputChannel, listenPc,
                 replaying, pushing, pushReturn, outgoing, env>>

(* Writes p' to the Reducer worker i runs on, and w' to the worker.        *)
SetP(i, p, w) ==
  /\ reducer' = IF workers[i].shared THEN p ELSE reducer
  /\ workers' = [workers EXCEPT ![i] =
                   IF workers[i].shared THEN w ELSE [w EXCEPT !.copy = p]]

(* currentHash = hash1, incrementStep, voteReduction when eligible, and    *)
(* the second decideOnHash starts.                                         *)
AfterStep1(i) ==
  /\ workers[i].pc = "afterStep1"
  /\ LET w == workers[i]
         p == IncrementStep([P(i) EXCEPT !.currentHash = w.hash1])
     IN /\ SetP(i, p, [w EXCEPT !.pc = "decide2", !.tally = EmptyTally,
                         !.counted = {}, !.dRound = p.round, !.dStep = p.step])
        /\ outgoing' = IF EligibleToVote THEN outgoing \cup {ReductionVote(p)}
                       ELSE outgoing
  /\ UNCHANGED <<queue, inputChannel, outputChannel, listenPc, replaying,
                 pushing, pushReturn, env>>

(* reducing = false, then reductionSuccessful picks the result.            *)
Finish(i) ==
  /\ workers[i].pc = "finish"
  /\ LET w == workers[i]
         p == [P(i) EXCEPT !.reducing = FALSE]
         ok == ReductionSuccessful(w.hash1, w.hash2, w.vs1, w.vs2)
     IN SetP(i, p, [w EXCEPT !.pc = "output",
                      !.out = IF ok THEN "voteSet" ELSE "nil"])
  /\ UNCHANGED <<queue, inputChannel, outputChannel, listenPc, replaying,
                 pushing, pushReturn, outgoing, env>>

(* The send without blocking on a channel that holds a result.            *)
OutputUnbounded(i) ==
  /\ workers[i].pc = "output"
  /\ outputChannel' = Append(outputChannel, workers[i].out)
  /\ workers' = [workers EXCEPT ![i].pc = "done"]
  /\ UNCHANGED <<reducer, queue, inputChannel, listenPc, replaying, pushing,
                 pushReturn, outgoing, env>>

(* r.outputChannel <- result: blocks while the channel holds a result.     *)
Output(i) ==
  /\ workers[i].pc = "output"
  /\ outputChannel = <<>>
  /\ outputChannel' = <<workers[i].out>>
  /\ workers' = [workers EXCEPT ![i].pc = "done"]
  /\ UNCHANGED <<reducer, queue, inputChannel, listenPc, replaying, pushing,
                 pushReturn, outgoing, env>>

WorkerStep(i) ==
  \/ WorkerReceive(i) \/ WorkerTimeout(i) \/ AfterStep1(i)
  \/ Finish(i) \/ Output(i)

(* After Listen has returned the model only stutters.                      *)
Stopped ==
  /\ listenPc = "stopped"
  /\ UNCHANGED vars

Next ==
  \/ GetMessages \/ Replay \/ Push
  \/ Quit \/ OutputResult
  \/ \E rd \in Rounds : UpdateRound(rd)
  \/ \E h \in VoteHash : SelectionResult(h)
  \/ \E h \in Hashes : MoveToSigSetPhase(h)
  \/ \E m \in NetMsgs : ProcessMessage(m)
  \/ \E i \in DOMAIN workers : WorkerStep(i)
  \/ Stopped

Spec == Init /\ [][Next]_vars

(***************************************************************************)
(* Listen and the runReduction goroutines are scheduled fairly by the Go   *)
(* runtime and the timer of decideOnHash fires: a goroutine that can move  *)
(* eventually moves, and a ready case of Listen's select is eventually     *)
(* taken.  The network, the quit channel and the other brokers are not     *)
(* bound to do anything.                                                   *)
(***************************************************************************)
FairSpec ==
  /\ Spec
  /\ WF_vars(GetMessages \/ Replay \/ Push \/ OutputResult)
  /\ WF_vars(\E i \in DOMAIN workers : WorkerStep(i))

-----------------------------------------------------------------------------
TypeOK ==
  /\ reducer \in RState
  /\ queue \subseteq Msg
  /\ inputChannel \in Seq(Msg) /\ Len(inputChannel) <= InputCap
  /\ outputChannel \in Seq({"nil", "voteSet"}) /\ Len(outputChannel) <= 1
  /\ workers \in Seq(Worker)
  /\ listenPc \in {"top", "replay", "select", "push", "stopped"}
  /\ replaying \subseteq Msg
  /\ pushing \in Msg \cup {NoMsg}
  /\ pushReturn \in {"top", "replay", "select"}
  /\ outgoing \subseteq Vote

(* A worker between its start and its reducing = false.                    *)
Reducing(i) == workers[i].pc \in {"decide1", "afterStep1", "decide2", "finish"}

(***************************************************************************)
(* The reducing flag of the Reducer is set exactly while one runReduction  *)
(* goroutine on the Reducer itself is running: the replay path of Listen   *)
(* never starts a second one, and the flag is not left set.                *)
(***************************************************************************)
SharedReductionExclusive ==
  LET Running(i) == workers[i].shared /\ Reducing(i)
  IN /\ \A i, j \in DOMAIN workers : Running(i) /\ Running(j) => i = j
     /\ reducer.reducing <=> \E i \in DOMAIN workers : Running(i)

(***************************************************************************)
(* At most one reduction cycle runs at a time (the reducing flag guards    *)
(* runReduction; the spec: one emission per round and step).               *)
(***************************************************************************)
SingleReduction ==
  Cardinality({i \in DOMAIN workers : Reducing(i)}) <= 1

(***************************************************************************)
(* The node never publishes two reduction votes for different hashes in    *)
(* the same round, step and phase.                                         *)
(***************************************************************************)
NoEquivocation ==
  \A v1, v2 \in outgoing :
    (/\ v1.kind = "reduction" /\ v2.kind = "reduction"
     /\ v1.round = v2.round /\ v1.step = v2.step /\ v1.sigSet = v2.sigSet)
      => v1.hash = v2.hash

(***************************************************************************)
(* decideOnHash counts only votes of the round and step it decides on.     *)
(***************************************************************************)
VotesOfCurrentStep ==
  \A i \in DOMAIN workers :
    \A m \in workers[i].counted :
      m.round = workers[i].dRound /\ m.step = workers[i].dStep

(***************************************************************************)
(* The queue never holds a message of a round older than the Reducer's     *)
(* (spec: a message for an earlier round is discarded, a round update      *)
(* clears the older ones).                                                 *)
(***************************************************************************)
StaleNeverQueued ==
  \A m \in queue : m.round >= reducer.round

(***************************************************************************)
(* A cycle whose two steps both reached a quorum on the same candidate     *)
(* hash emits its vote set (spec: both steps converge on H, so reduction   *)
(* emits the combined vote set and H).                                     *)
(***************************************************************************)
ConvergedReductionEmits ==
  \A i \in DOMAIN workers :
    (/\ workers[i].pc \in {"output", "done"}
     /\ workers[i].hash1 \in Hashes
     /\ workers[i].hash1 = workers[i].hash2)
      => workers[i].out = "voteSet"

(***************************************************************************)
(* Listen never stays blocked sending a message on inputChannel (spec:     *)
(* nothing but a shutdown signal halts the broker's loop).                 *)
(***************************************************************************)
ListenNotBlocked == listenPc = "push" ~> listenPc /= "push"

=============================================================================
