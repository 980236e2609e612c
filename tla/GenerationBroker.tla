-------------------------- MODULE GenerationBroker --------------------------
(***************************************************************************)
(* The score generation broker of generation/broker.go.  Two goroutines    *)
(* use its seeder, forwarder threshold and bid list without a lock:        *)
(*   - "listen": the goroutine of newBroker, which seeds from the latest   *)
(*     stored block through handleBlock and, once newBroker has returned,  *)
(*     runs Listen (broker.go:25-26), selecting over bids, regeneration    *)
(*     states and winning block hashes; a regeneration of the seeder's     *)
(*     round lowers the threshold and runs generateProofAndBlock;          *)
(*   - "onBlock": the callback the event bus runs for an accepted block;   *)
(*     it is subscribed before newBroker's handleBlock, so it can overtake *)
(*     it.  It resets the threshold, drops expired bids, seeds the round   *)
(*     after the block and runs generateProofAndBlock too.                 *)
(* generateProofAndBlock reads the seeder three times (the proof's seed,   *)
(* the seed sent, its freshness) and its round a fourth time; each read is *)
(* a step of its own.  The seeder, forwarder and proof generator are not   *)
(* in this repository: the seed of a round is identified with the round,   *)
(* GenerateSeed(h, _) makes h the seeder's round, isFresh(seed) compares   *)
(* with the latest seed, Lower and Reset count the lowerings of the        *)
(* threshold (spec 4.6).                                                   *)
(***************************************************************************)
EXTENDS Naturals

CONSTANTS
  StartHeight,    \* height of the block getLatestBlock returns
  BidExpiries,    \* expiry heights of the bids the bid list update delivers
  RegenRounds,    \* rounds carried by block regeneration states
  MaxBlocks,      \* bound on accepted blocks delivered
  MaxRegens,      \* bound on regeneration states delivered
  MaxBids,        \* bound on bids delivered
  MaxWinning      \* bound on winning block hashes delivered

ASSUME GenerationAssumption ==
  /\ StartHeight \in Nat
  /\ BidExpiries \subseteq Nat /\ RegenRounds \subseteq Nat
  /\ MaxBlocks \in Nat /\ MaxRegens \in Nat /\ MaxBids \in Nat
  /\ MaxWinning \in Nat

Actors == {"listen", "onBlock"}

(* Where a goroutine is.  newBroker's goroutine starts in handleBlock,   *)
(* then Listen waits in its select, or is about to lower the threshold;    *)
(* onBlock is idle between accepted blocks; both go through the steps of   *)
(* generateProofAndBlock.                                                  *)
GenPc == {"handle", "select", "lower", "idle", "proof", "seed", "fresh",
          "forward"}
Home(a) == IF a = "listen" THEN "select" ELSE "idle"

(* A score event forwarded: the round it is stamped with, the seed its     *)
(* proof was generated from, the seed sent, and the threshold's lowerings. *)
ScoreEvent == [round: Nat, proofSeed: Nat, seed: Nat, lowered: Nat]

VARIABLES
  height,         \* height of the latest accepted block delivered
  seedRound,      \* seeder: Round() and the round of LatestSeed()
  threshold,      \* forwarder.threshold: lowerings since the last Reset
  bids,           \* the proof generator's bid list (expiry heights)
  gen,            \* per goroutine: pc and the seeds generateProofAndBlock read
  scores,         \* score events forwarded (history)
  regensInRound,  \* regenerations matched with the seeder's current round
  certificates,   \* certificate messages published
  env             \* deliveries so far: blocks, regenerations, bids

vars == <<height, seedRound, threshold, bids, gen, scores, regensInRound,
          certificates, env>>

SetPc(a, pc) == gen' = [gen EXCEPT ![a].pc = pc]

(* newBroker: the seeder is fresh, onBlock is subscribed, and the         *)
(* constructor's goroutine is about to run handleBlock(getLatestBlock()).  *)
Init ==
  /\ height = StartHeight
  /\ seedRound = 0
  /\ threshold = 0
  /\ bids = {}
  /\ gen = [a \in Actors |->
             [pc |-> IF a = "listen" THEN "handle" ELSE "idle",
              proofSeed |-> 0, seed |-> 0]]
  /\ scores = {}
  /\ regensInRound = 0
  /\ certificates = 0
  /\ env = [blocks |-> 0, regens |-> 0, bids |-> 0]

(* newBroker's handleBlock(blk): GenerateSeed(blk.Height + 1), then        *)
(* setPrevBlock and generateProofAndBlock; Listen starts after it returns. *)
HandleLatest ==
  /\ gen["listen"].pc = "handle"
  /\ seedRound' = StartHeight + 1
  /\ SetPc("listen", "proof")
  /\ UNCHANGED <<height, threshold, bids, scores, regensInRound,
                 certificates, env>>

-----------------------------------------------------------------------------
(* generateProofAndBlock and Forward, one seeder access per step.          *)

(* proof := GenerateProof(b.seeder.LatestSeed())                           *)
GenProof(a) ==
  /\ gen[a].pc = "proof"
  /\ gen' = [gen EXCEPT ![a].pc = "seed", ![a].proofSeed = seedRound]
  /\ UNCHANGED <<height, seedRound, threshold, bids, scores, regensInRound,
                 certificates, env>>

(* b.Forward(proof, b.seeder.LatestSeed())                                 *)
GenSeed(a) ==
  /\ gen[a].pc = "seed"
  /\ gen' = [gen EXCEPT ![a].pc = "fresh", ![a].seed = seedRound]
  /\ UNCHANGED <<height, seedRound, threshold, bids, scores, regensInRound,
                 certificates, env>>

(* A stale seed makes the goroutine leave its loop.                        *)
GenFreshLeave(a) ==
  /\ gen[a].pc = "fresh"
  /\ SetPc(a, IF gen[a].seed = seedRound THEN "forward" ELSE "done")
  /\ UNCHANGED <<height, seedRound, threshold, bids, scores, regensInRound,
                 certificates, env>>

(* if b.seeder.isFresh(seed)                                               *)
GenFresh(a) ==
  /\ gen[a].pc = "fresh"
  /\ SetPc(a, IF gen[a].seed = seedRound THEN "forward" ELSE Home(a))
  /\ UNCHANGED <<height, seedRound, threshold, bids, scores, regensInRound,
                 certificates, env>>

(* forwardScoreEvent(proof, b.seeder.Round(), seed) under the forwarder's  *)
(* current threshold.                                                      *)
GenForward(a) ==
  /\ gen[a].pc = "forward"
  /\ scores' = scores \cup {[round |-> seedRound, proofSeed |-> gen[a].proofSeed,
                             seed |-> gen[a].seed, lowered |-> threshold]}
  /\ SetPc(a, Home(a))
  /\ UNCHANGED <<height, seedRound, threshold, bids, regensInRound,
                 certificates, env>>

GenStep(a) == GenProof(a) \/ GenSeed(a) \/ GenFresh(a) \/ GenForward(a)

-----------------------------------------------------------------------------
(* Listen's select.                                                        *)

(* case bid := <-b.bidChan: b.proofGenerator.UpdateBidList(bid)            *)
ReceiveBid(e) ==
  /\ gen["listen"].pc = "select" /\ env.bids < MaxBids
  /\ bids' = bids \cup {e}
  /\ env' = [env EXCEPT !.bids = @ + 1]
  /\ UNCHANGED <<height, seedRound, threshold, gen, scores, regensInRound,
                 certificates>>

(* case state := <-b.regenerationChan: if state.Round == b.seeder.Round()  *)
ReceiveRegeneration(r) ==
  /\ gen["listen"].pc = "select" /\ env.regens < MaxRegens
  /\ env' = [env EXCEPT !.regens = @ + 1]
  /\ IF r = seedRound
       THEN /\ SetPc("listen", "lower")
            /\ regensInRound' = regensInRound + 1
       ELSE UNCHANGED <<gen, regensInRound>>
  /\ UNCHANGED <<height, seedRound, threshold, bids, scores, certificates>>

(* b.forwarder.threshold.Lower(); b.generateProofAndBlock()                *)
LowerThreshold ==
  /\ gen["listen"].pc = "lower"
  /\ threshold' = threshold + 1
  /\ SetPc("listen", "proof")
  /\ UNCHANGED <<height, seedRound, bids, scores, regensInRound, certificates, env>>

(* case winningBlockHash := <-b.winningBlockHashChan: the certificate is   *)
(* generated and published with the hash.                                  *)
ReceiveWinningHash ==
  /\ gen["listen"].pc = "select" /\ certificates < MaxWinning
  /\ certificates' = certificates + 1
  /\ UNCHANGED <<height, seedRound, threshold, bids, gen, scores, regensInRound, env>>

-----------------------------------------------------------------------------
(***************************************************************************)
(* onBlock(m): threshold.Reset(); a block that does not decode returns     *)
(* there.  Otherwise the block is the next one after the latest accepted:  *)
(* RemoveExpiredBids(height + 1) and handleBlock, which seeds round        *)
(* height + 1, does setPrevBlock and generateProofAndBlock.                *)
(***************************************************************************)
OnBlock(decodes) ==
  /\ gen["onBlock"].pc = "idle" /\ env.blocks < MaxBlocks
  /\ threshold' = 0
  /\ env' = [env EXCEPT !.blocks = @ + 1]
  /\ IF decodes
       THEN /\ height' = height + 1
            /\ bids' = {e \in bids : e >= height + 2}
            /\ seedRound' = height + 2
            /\ regensInRound' = 0
            /\ SetPc("onBlock", "proof")
       ELSE UNCHANGED <<height, bids, seedRound, regensInRound, gen>>
  /\ UNCHANGED <<scores, certificates>>

(* The bounds are reached and both goroutines wait.                        *)
Waiting ==
  /\ gen["listen"].pc = "select" /\ gen["onBlock"].pc = "idle"
  /\ UNCHANGED vars

Next ==
  \/ HandleLatest
  \/ \E e \in BidExpiries : ReceiveBid(e)
  \/ \E r \in RegenRounds : ReceiveRegeneration(r)
  \/ LowerThreshold
  \/ ReceiveWinningHash
  \/ \E d \in BOOLEAN : OnBlock(d)
  \/ \E a \in Actors : GenStep(a)
  \/ Waiting

Spec == Init /\ [][Next]_vars

-----------------------------------------------------------------------------
TypeOK ==
  /\ height \in Nat /\ seedRound \in Nat /\ threshold \in Nat
  /\ bids \subseteq BidExpiries
  /\ gen \in [Actors -> [pc: GenPc, proofSeed: Nat, seed: Nat]]
  /\ gen["listen"].pc /= "idle" /\ gen["onBlock"].pc \notin {"handle", "select", "lower"}
  /\ scores \subseteq ScoreEvent
  /\ regensInRound \in Nat /\ certificates \in 0 .. MaxWinning
  /\ env \in [blocks: 0 .. MaxBlocks, regens: 0 .. MaxRegens,
              bids: 0 .. MaxBids]

(***************************************************************************)
(* The seeder's round never moves back: no GenerateSeed (newBroker's       *)
(* handleBlock or onBlock's) seeds a round below the one already seeded.   *)
(***************************************************************************)
SeedNeverBack == [][seedRound' >= seedRound]_seedRound

(***************************************************************************)
(* A score event carries a proof generated from the seed it is sent with,  *)
(* and that seed is the seed of the round it is stamped with.              *)
(***************************************************************************)
ScoreEventConsistent ==
  \A e \in scores : e.proofSeed = e.seed /\ e.seed = e.round

(***************************************************************************)
(* The threshold is lowered only by regenerations of the seeder's current  *)
(* round (the check state.Round == b.seeder.Round() before Lower).         *)
(***************************************************************************)
ThresholdOfOwnRound == threshold <= regensInRound

=============================================================================
