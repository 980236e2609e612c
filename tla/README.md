# TLA+ models of the dusk-blockchain consensus

This directory holds the verification project for the consensus code in
`src/pkg/core/consensus/`. It has three kinds of files:
- TLA+ modules of its components;
- TLC configurations that check the modules on small instances;
- TLAPS proofs of type correctness and the main safety invariants.

Every definition translates code under `src/`. `PROJECT.json` gives the line
ranges under `map`. Some code that the consensus calls is not in this
repository: the reduction queue, `consensus.State`, `EventFilter`,
`Accumulator`, the seeder and the forwarder. The helpers that stand for it
follow `spec.md` and are marked `spec_modelled`.

## 1. The system and its parts

| Part | Source | Concurrency | Module |
|---|---|---|---|
| Reducer: Listen loop, queue replay | `reduction/reduction.go` | Listen and its `runReduction` goroutines share `inputChannel` and `outputChannel`; `processMessage` runs on a copy | `Reducer` |
| decideOnHash, the vote tally of one step | `reduction/reduction.go` 389-492 | a timer races the votes | `VoteTally`, `VoteCollection` |
| What vote collection promises | spec 4.3, 4.4, 8 | none | `VoteCollector` (abstract) |
| Reduction broker (filter/accumulator) | `reduction/broker.go` | Listen's select against the filter's `Collect` bus callback | `ReductionBroker` |
| Agreement broker | `agreement/broker.go` | Listen, the accumulator's blocking send, and the `sendAgreement` callback share `State` | `AgreementBroker` |
| Generation broker | `generation/broker.go` | Listen and the `onBlock` callback share the seeder, threshold and bid list without a lock | `GenerationBroker` |
| Sortition | `sortition.go` | none: one sequential call and its loop | `Sortition` |
| Block generation, genesis, lite DB, transaction hashing, demo node | various | none | not modelled (section 7) |

How the parts interact:
- The event bus delivers round updates, selection results (best scores),
  reduction votes and agreement votes to the brokers. It does this on
  buffered channels, or by running a callback on the bus goroutine.
- The reduction broker starts a reducer for each selection result. The
  reducer's `decideOnHash` collects votes until a hash reaches the quorum
  weight, or its timer fires.
- The reducer publishes each result. The agreement broker's `sendAgreement`
  callback turns it into an agreement vote. An agreement quorum makes the
  agreement broker publish the winning hash and the next round.
- The next round in turn reaches the reduction and generation brokers.
- Sortition gives every node its vote count for a step, from its stake and
  a score.

## 2. Modules, state and actions

- **`VoteTally`** has no variables. It holds the committee, the threshold,
  the hashes and the data of one `decideOnHash` call:
  - `Msg` is a decoded vote. A bad BLS signature is the field `sigOK`.
  - `Tally` holds `votesPerHash` (uint8), `hasVoted` and the length of
    `voteSet`.
  - `Collect` is the body of `case m := <-r.inputChannel`. It marks the key,
    then adds its weight `% 256`.
  - `Counts` is the `hasVoted` test followed by `verifyReductionMessage`.
  - `Decides` is `thresholdExceeded`.
  - The properties measure a set of keys by `WeightOf`, the number of its
    votes (a key of weight w casts votes 1..w). This is the true sum of
    the weights, with no uint8 wrap.
- **`VoteCollection`** models one `decideOnHash` call against an adversarial
  channel.
  - Actions: `Send` (Listen's send, which blocks on a full channel),
    `Receive` and `Timeout`.
  - The auxiliary variable `counted` holds the messages whose weight entered
    the tally.
  - It is refined to `VoteCollector`: the accepted ballots are
    `{<<pk, hash>>}` of `counted`, and the decision is `outcome` with
    `result`.
- **`VoteCollector`** is the abstract specification. It accepts a voter's
  first ballot and decides a hash exactly when the accepted ballots for it
  reach the quorum weight, or decides the timeout hash.
- **`Reducer`** models Listen and all its goroutines.
  - Listen: one action per select case, the queue replay and the blocking
    `Push`.
  - Goroutines: a sequence of `runReduction` goroutines, each with a program
    counter, a flag saying whether it runs on the Reducer itself or on a
    copy, its tally and its results.
  - `HandleMessage(p, m, shared, ret)` is `handleMessage` on the Reducer
    state `p`. It writes back only when `p` is the Reducer itself, because
    `processMessage` has a value receiver.
- **`ReductionBroker`** models Listen's three cases.
  - The round-update case is split in two: `ListenRoundUpdate` is `end()`
    and `Clear()`; `ListenUpdateRound` is `filter.UpdateRound`.
  - The other Listen cases are `ListenSelection` (nil, current-round or
    obsolete event, then `FlushQueue`) and `ListenStep` (`Clear` and
    `FlushQueue`).
  - The actions run against the filter's `Collect` callback, the reducer's
    step increments (`ReducerStep`) and the publishers (`PublishRound`,
    `PublishSelection`).
- **`AgreementBroker`** models three goroutines around `State`.
  - Listen: `ListenReceive` takes a quorum and publishes the winning hash.
    `ListenUpdate` is `updateRound(Round()+1)`.
  - The accumulator: `AccumulatorQuorum` reaches a quorum. `AccumulatorSend`
    sends it on `CollectedVotesChan`, blocking while the channel is full.
  - `sendAgreement`: each `State` access is its own step (`SendAgreement*`).
    The deferred `IncrementStep` runs last.
- **`GenerationBroker`** models newBroker's goroutine (which becomes
  Listen's) and `onBlock`.
  - `Init` is the state right after `onBlock` is subscribed (broker.go:69):
    the seeder is fresh (round 0) and no score event has been sent.
    `HandleLatest` is newBroker's own `handleBlock(getLatestBlock())`, which
    seeds round `StartHeight + 1` and runs `generateProofAndBlock`; Listen
    starts only after it. An accepted block can reach `onBlock` first.
  - Listen: `ReceiveBid`, `ReceiveRegeneration` then `LowerThreshold`, and
    `ReceiveWinningHash`.
  - `OnBlock`: `Reset`, a decode failure, `RemoveExpiredBids`, then the
    seed of the round after the block (`height` counts accepted blocks).
  - Both goroutines then go through `generateProofAndBlock`. Each of its
    four seeder reads is a step (`GenProof`, `GenSeed`, `GenFresh`,
    `GenForward`).
- **`Sortition`** models one call of `sortition` or `verifySortition` and
  the `calcVotes` loop.
  - The BLS outcome is nondeterministic (`Score`). Then come the sanity
    checks (`Checks`) and one loop turn per step (`LoopStep`).
  - The float comparisons of the loop are replaced by what they yield for
    a normal density with `sigma > 0`. `Prob(x) >= target` holds exactly
    when `|x - mu| <= W`, where W is the half-width of the target's level
    set.
  - A score is therefore given by its level `200 W`. The level is odd, so
    there are no ties. `AbovePeak` stands for a score above the peak, which
    has no level set.
  - `sigma = 0`, or `0/0` when the total stake is 0, makes the density NaN.
    Every comparison with NaN is false.
  - `MaxPos` is the grid index past which the loop counter is no longer
    followed.
- **`MC*` modules** give TLC its model values, committees and symmetry.
- **`*Proofs` and `VoteTallyLemmas`** hold the TLAPS proofs.

## 3. Runs

The runs of `PROJECT.json`:

| Run | Config | Expect | What it shows |
|---|---|---|---|
| vote_collection | `MCVoteCollection.cfg` | pass | One `decideOnHash` against every stream of up to 4 messages through a channel of capacity 2. These hold: `NoDoubleCount`, `QuorumSound`, `QuorumDecided`, and the refinement `CollectorRefinement` of `VoteCollector`. |
| vote_wrap | `MCVoteCollection_wrap.cfg` | violation | With weights 200 and 100, the uint8 tally wraps and a quorum is missed. |
| reducer_env | `MCReducer_env.cfg` | pass | Listen and its goroutines with round updates, a selection result and a winning hash in every order. `SharedReductionExclusive` holds. |
| reducer_single | `MCReducer_SingleReduction.cfg` | violation | A second reduction cycle starts while one runs, because of the value receiver. |
| reducer_blocked | `MCReducer_ListenNotBlocked.cfg` | violation | Under fairness, Listen and a goroutine block on each other's full channels. |
| agreement_broker | `MCAgreementBroker.cfg` | pass | `TypeOK`: `CollectedVotesChan` never exceeds its capacity, the step is never 0; no deadlock. |
| agreement_winning | `MCAgreementBroker_WinningOfCurrentRound.cfg` | violation | A queued second quorum of the closing round publishes another winning hash and skips a round. |
| generation_broker | `MCGenerationBroker.cfg` | pass | `TypeOK`: newBroker's `handleBlock`, Listen and `onBlock` stay at program points of their own, in every interleaving (an accepted block may overtake the first `handleBlock`); no deadlock. |
| reduction_broker | `MCReductionBroker.cfg` | pass | `ReductionOfCurrentRound`: a running reduction is one of the State's round. This holds although `UpdateRound` applies a round read from the channel a step earlier. |
| reduction_broker_stale | `MCReductionBroker_NoStaleVoteAfterUpdate.cfg` | violation | A vote of the old round is collected between `Clear()` and `UpdateRound` and survives. |
| sortition | `MCSortition.cfg` | pass | `VotesMatchReference`: a count `calcVotes` returns is the spec's bucket count. `ReturnsInRange`: `calcVotes` returns whenever the score is within the density's range. |
| sortition_returns | `MCSortition_CalcVotesReturns.cfg` | violation | For inputs that pass every check, the loop never breaks. |

Every pass run also checks the module's `TypeOK`. Each property of a pass
run has a mutant in `PROJECT.json`: a plausible bug in the mapped code under
which TLC finds the property violated. Examples:
- `Send` without its capacity guard;
- `Counts` without `hasVoted`;
- `thresholdExceeded` off by one;
- `handleMessage` without the `reducing` test;
- the accumulator's send not blocking;
- `isFresh` inverted;
- the round update without `end()`;
- `calcVotes` testing the bucket one step ahead, or not advancing `pos`.

Further counterexamples are kept as configurations outside the listed runs.
Each one violates a property stated from the spec:

| Config | Property | What TLC finds |
|---|---|---|
| `MCVoteCollection_shadow.cfg` | `VerifiedVoteCounted` | A forged first message of a key shadows its valid vote. |
| `MCReducer_NoEquivocation.cfg` | `NoEquivocation` | Two different reduction votes in one round and step. |
| `MCReducer_VotesOfCurrentStep.cfg` | `VotesOfCurrentStep` | A vote of another step is counted. |
| `MCReducer_StaleNeverQueued.cfg` | `StaleNeverQueued` | `shouldBeStored` uses `\|\|`. |
| `MCReducer_ConvergedReductionEmits.cfg` | `ConvergedReductionEmits` | The vote set is never filled, so the output is nil. |
| `MCAgreementBroker_StepFollowsResults.cfg` | `StepFollowsResults` | The deferred `IncrementStep` lands after a round reset. |
| `MCAgreementBroker_AgreementVoteOfResultRound.cfg` | `AgreementVoteOfResultRound` | A vote is stamped with a round other than its result's (Round() and Step() read at different times). |
| `MCGenerationBroker_ScoreEventConsistent.cfg` | `ScoreEventConsistent` | The proof seed and the sent seed differ across an `onBlock`. |
| `MCGenerationBroker_ThresholdOfOwnRound.cfg` | `ThresholdOfOwnRound` | `Lower` lands after `onBlock`'s `Reset`. |
| `MCGenerationBroker_SeedNeverBack.cfg` | `SeedNeverBack` | An accepted block reaches `onBlock` before newBroker's `handleBlock`, which then seeds the older round. The seeder is not in this repository, so whether `GenerateSeed` would refuse that is open. |
| `MCReductionBroker_SelectionReduced.cfg` | `SelectionReduced` | A selection of round r+1 is taken before the update to r+1 and reduced as the zero hash. |

### Bounds

- **Vote collection, Reducer.** Three keys give two voters besides the node
  and one to forge or duplicate. Threshold 2 needs two distinct keys. Two
  steps are one cycle, and two rounds are one round update.
  - Symmetry applies to keys k2 and k3. They have equal weights and neither
    is `Me`.
  - The violation runs have no symmetry.
- **Agreement broker.** Two rounds and a `CollectedVotesChan` of capacity 1
  make the accumulator's send block. Three results are enough for
  `sendAgreement` to overlap a round update.
- **Generation broker.** Two blocks (one may fail to decode) and two
  regenerations let `onBlock` interleave with the first `handleBlock` and
  with every step of Listen's `generateProofAndBlock`.
- **Reduction broker.** Two steps and two votes make a `Collect` fit
  between `Clear` and `UpdateRound`. Rounds 1 to 3 give two round updates,
  so two of them can wait in `roundUpdateChan` at once while a reduction
  runs. The violation run `reduction_broker_stale` keeps rounds 1 and 2.
- **Sortition.** The inputs cover the following cases:
  - thresholds 0, 1, 2, 4 and 5;
  - total stakes 0 and 4, which give NaN, rejection, and peaks below and
    above 1;
  - stakes 99, 100 and 200, which cover below-minimum, mu 1 and mu 2;
  - levels 61, 151 and 251, which fall below, within and beyond the range
    of the density;
  - `MaxPos = 201`, which lies past every `100 mu`.

### Fairness

Only the runs with a liveness property use a fair specification
(`Reducer` and `Sortition`; the brokers' runs check safety under `Spec`).
They assume weak fairness only of steps the Go runtime must take once they
are enabled:
- Listen's own steps;
- the steps of the `runReduction` goroutines;
- the `calcVotes` loop, which runs on the caller's goroutine.

The network, the event bus publishers and other nodes get no fairness. They
need not send anything.

## 4. Findings

`PROJECT.json` lists the findings of the violation runs:
- **Value receiver** (`reduction.go:199`): several reduction cycles run at
  once.
- **Mutual blocking** (`reduction.go:236`): Listen and a `runReduction`
  goroutine each block on the other's full channel.
- **uint8 wrap** (`reduction.go:422`): the tally wraps and a quorum is
  missed.
- **Round update** (`agreement/broker.go:70`): the update uses
  `Round()+1`, not the quorum's round.
- **Round-update order** (`reduction/broker.go:84`): `Clear` runs before
  `UpdateRound`.
- **calcVotes loop** (`sortition.go:111`): the loop may never break for
  valid inputs.

## 5. Proofs

Theorem modules and what they prove for every value of the constants, under
each module's `ASSUME`:
- **`VoteCollectionProofs`**:
  - `TypeCorrect`: `Spec => []TypeOK`.
  - `DedupCorrect`: `Spec => []NoDoubleCount`. The inductive invariant adds
    `CountedHaveVoted`: every counted key is in `hasVoted`.
  - Both use the lemmas of `VoteTallyLemmas` (`CollectType`,
    `EmptyTallyType`).
  - `QuorumSoundCorrect`: `Spec => []QuorumSound`, for every committee and
    with no hypothesis, although the tally wraps. The inductive invariant
    `SoundInv` adds:
    - `TallyIsWeight`: each hash's uint8 tally is the weight of its verified
      voters modulo 256;
    - `QuorumTallied`: a quorum result's tally reached the threshold;
    - `CountedVerified`, and a finite `hasVoted`.

    A weight is at least its remainder modulo 256, so a wrapped tally never
    overstates the weight. The step for a counted vote rests on the lemma
    `WeightAdd`: a new key adds its committee weight. It holds because
    `hasVoted` keeps the key out of the voters so far.
  - `QuorumDecidedCorrect` and `CollectorRefinementCorrect` have the
    hypothesis `CommitteeFitsUint8`: the committee is finite and its total
    weight is below 256. Under it, `votesPerHash` never wraps (lemma
    `TallyExact`). Run `vote_wrap` shows that both properties fail for a
    heavier committee, so the hypothesis is exactly the condition under
    which they hold, not an assumption about the code.
    - `QuorumDecidedCorrect`: `Spec => []QuorumDecided`. It adds
      `PendingBelow`: while the call collects, no tally has the threshold,
      because a tally that reaches it ends the call.
    - `CollectorRefinementCorrect`: `Spec => CollectorRefinement`, proved
      step by step.
      - The ballots are the counted messages, and the decision is `outcome`
        with `result`.
      - A counted vote is `Accept` of its key and hash (lemma
        `ReceiveAccepts`). The key has no ballot yet because it is not in
        `hasVoted`. The abstract supporters of the hash are its verified
        voters, and the abstract weight is `WeightOf`.
      - A timeout is `TimeOut`. A send, or a skipped or forged vote, is a
        stutter.
  - The weight of a set of keys is defined as the number of its votes: a
    key of weight w casts votes 1..w. It is not a recursive sum, so the
    library's `FiniteSetTheorems` (`FS_Union`, `FS_Product`, `FS_Subset`)
    give its value for every set.
- **`ReducerProofs`**:
  - `ReducerTypeCorrect`. The inductive invariant adds `PushingMsg`: Listen
    in a push holds a message.
  - `SharedReductionCorrect`: `[]SharedReductionExclusive`. The property is
    restated as `Excl(workers, reducing)`, with one lemma per kind of step.
- **`ReductionBrokerProofs`**:
  - `BrokerTypeCorrect`.
  - `ReductionRoundCorrect`: `[]ReductionOfCurrentRound`. The property is
    not inductive on its own. `ListenUpdateRound` moves the round, and only
    `EndedBeforeUpdate` tells that no reduction runs at that moment. That
    invariant holds because `ListenRoundUpdate` ends the reducer as it
    enters the `"update"` state.
- **`SortitionProofs`**:
  - `SortitionTypeCorrect`.
  - `VotesCorrect`: `[]VotesMatchReference`. Its core is the lemma
    `BucketIsReference`. The bucket test `Dist2(i) >= level >= Dist2(i+1)`,
    with `level` odd, holds only at `i = (200 mu - level) div 2`. So
    whenever the loop breaks, it returns the reference count.
- **`AgreementBrokerProofs`**:
  - `AgreementTypeCorrect`. `CollectedVotesChan` never holds more than its
    capacity, and the step is never 0.
- **`GenerationBrokerProofs`**:
  - `GenerationTypeCorrect`. The two goroutines stay at program points of
    their own through `generateProofAndBlock` (`PcsApart`). The lemma
    `SetPcType` moves one goroutine and keeps both apart.

Each inductive invariant was first checked by TLC as an invariant of the
run's configuration, before it was proved.

Only TLC checks the following, for these reasons:
- Liveness (`ReturnsInRange` and the
  violated `ListenNotBlocked` and `CalcVotesReturns`) needs fairness and
  ENABLED. These are beyond the provers here.
- `QuorumDecided` and `CollectorRefinement` for committees whose total
  weight reaches 256. They are false there, and run `vote_wrap` exhibits
  the counterexample.

## 6. What the abstractions leave out

- Signature, decoding and Ed25519 failures before any state change are
  messages the network never delivers.
- The committee is fixed per run.
- Timers are nondeterministic steps.
- Sortition's rounding of `pos` is ignored, and `2 pi` is taken as
  710/113 in `PeakBelowOne`.

## 7. Not modelled

Block generation (`blockgeneration.go`, `genesis.go`) is sequential hashing
and proof and message construction. Its one control hazard is listed in
`PROJECT.json`: a score message is sent before a later step can fail.

The lite database transactions, transaction hashing and the demo node's
start-up are map accesses, pure hashing and sequential code. A model checker
adds nothing over unit tests there.

Hazards still without a property are listed in `PROJECT.json` with the
reason. Among them are step monotonicity within a round
(`moveToSigSetPhase`), and the uint8 step wrap, which needs 255 steps.
