----------------------- MODULE GenerationBrokerProofs -----------------------
(***************************************************************************)
(* Proofs about the generation broker: newBroker's handleBlock and Listen, *)
(* and the onBlock callback, all running generateProofAndBlock, for every  *)
(* start height, set of bids and regeneration rounds, and bound.           *)
(***************************************************************************)
EXTENDS GenerationBroker, TLAPS

(* The constants the proofs use.                                           *)
LEMMA ConstFacts ==
  /\ StartHeight \in Nat
  /\ BidExpiries \subseteq Nat /\ RegenRounds \subseteq Nat
  /\ MaxBlocks \in Nat /\ MaxRegens \in Nat /\ MaxBids \in Nat
  /\ MaxWinning \in Nat
BY GenerationAssumption

(* The goroutine records: where each goroutine is and the seeds it read.  *)
GenType == [Actors -> [pc: GenPc, proofSeed: Nat, seed: Nat]]

(* newBroker's goroutine never is at onBlock's idle point, onBlock never   *)
(* in newBroker's handleBlock or in Listen's select or lower.              *)
PcsApart(g) ==
  /\ g["listen"].pc /= "idle"
  /\ g["onBlock"].pc \notin {"handle", "select", "lower"}

(* Moving goroutine a to a point of its own keeps the records well typed   *)
(* and the two goroutines apart.                                           *)
LEMMA SetPcType ==
  ASSUME NEW g \in GenType, PcsApart(g), NEW a \in Actors,
         NEW pc \in GenPc, a = "listen" => pc /= "idle",
         a = "onBlock" => pc \notin {"handle", "select", "lower"}
  PROVE  LET g2 == [g EXCEPT ![a].pc = pc] IN g2 \in GenType /\ PcsApart(g2)
BY DEF GenType, PcsApart, Actors

(* The type invariant, restated with the goroutine records named.         *)
LEMMA TypeOKIs ==
  TypeOK <=>
    /\ height \in Nat /\ seedRound \in Nat /\ threshold \in Nat
    /\ bids \subseteq BidExpiries
    /\ gen \in GenType /\ PcsApart(gen)
    /\ scores \subseteq ScoreEvent
    /\ regensInRound \in Nat /\ certificates \in 0 .. MaxWinning
    /\ env \in [blocks: 0 .. MaxBlocks, regens: 0 .. MaxRegens,
                bids: 0 .. MaxBids]
BY DEF TypeOK, GenType, PcsApart

-----------------------------------------------------------------------------
(* Each step of generateProofAndBlock keeps the state well typed.         *)
LEMMA GenStepType ==
  ASSUME TypeOK, NEW a \in Actors, GenStep(a)
  PROVE  TypeOK'
<1> USE ConstFacts
<1>1. gen \in GenType /\ PcsApart(gen)
  BY TypeOKIs
<1>2. CASE GenProof(a)
  <2>1. gen' \in GenType /\ PcsApart(gen')
    BY <1>1, <1>2 DEF GenProof, TypeOK, GenType, PcsApart, Actors, GenPc
  <2>2. QED
    BY <1>2, <2>1 DEF GenProof, TypeOK, GenType, PcsApart
<1>3. CASE GenSeed(a)
  <2>1. gen' \in GenType /\ PcsApart(gen')
    BY <1>1, <1>3 DEF GenSeed, TypeOK, GenType, PcsApart, Actors, GenPc
  <2>2. QED
    BY <1>3, <2>1 DEF GenSeed, TypeOK, GenType, PcsApart
<1>4. CASE GenFresh(a)
  <2>1. gen' \in GenType /\ PcsApart(gen')
    BY <1>1, <1>4, SetPcType DEF GenFresh, SetPc, Home, GenPc, Actors
  <2>2. QED
    BY <1>4, <2>1 DEF GenFresh, TypeOK, GenType, PcsApart
<1>5. CASE GenForward(a)
  <2>1. gen' \in GenType /\ PcsApart(gen')
    BY <1>1, <1>5, SetPcType DEF GenForward, SetPc, Home, GenPc, Actors
  <2>2. scores' \subseteq ScoreEvent
    BY <1>5 DEF GenForward, TypeOK, GenType, ScoreEvent
  <2>3. QED
    BY <1>5, <2>1, <2>2 DEF GenForward, TypeOK, GenType, PcsApart
<1>6. QED
  BY <1>2, <1>3, <1>4, <1>5 DEF GenStep

(* Every step keeps the broker's state well typed.                         *)
LEMMA TypeStep == TypeOK /\ [Next]_vars => TypeOK'
<1> SUFFICES ASSUME TypeOK, [Next]_vars PROVE TypeOK'
  OBVIOUS
<1> USE ConstFacts
<1>1. gen \in GenType /\ PcsApart(gen)
  BY TypeOKIs
<1>2. ASSUME NEW e \in BidExpiries, ReceiveBid(e)
      PROVE  TypeOK'
  BY <1>2 DEF ReceiveBid, TypeOK
<1>3. ASSUME NEW r \in RegenRounds, ReceiveRegeneration(r)
      PROVE  TypeOK'
  <2>1. CASE r = seedRound
    <3>1. gen' \in GenType /\ PcsApart(gen')
      BY <1>1, <1>3, <2>1, SetPcType DEF ReceiveRegeneration, SetPc, GenPc,
         Actors
    <3>2. QED
      BY <1>3, <2>1, <3>1 DEF ReceiveRegeneration, TypeOK, GenType, PcsApart
  <2>2. CASE r /= seedRound
    BY <1>3, <2>2 DEF ReceiveRegeneration, TypeOK
  <2>3. QED
    BY <2>1, <2>2
<1>4. CASE LowerThreshold
  <2>1. gen' \in GenType /\ PcsApart(gen')
    BY <1>1, <1>4, SetPcType DEF LowerThreshold, SetPc, GenPc, Actors
  <2>2. QED
    BY <1>4, <2>1 DEF LowerThreshold, TypeOK, GenType, PcsApart
<1>5. CASE ReceiveWinningHash
  BY <1>5 DEF ReceiveWinningHash, TypeOK
<1>6. ASSUME NEW d \in BOOLEAN, OnBlock(d)
      PROVE  TypeOK'
  <2>1. CASE d
    <3>1. gen' \in GenType /\ PcsApart(gen')
      BY <1>1, <1>6, <2>1, SetPcType DEF OnBlock, SetPc, GenPc, Actors
    <3>2. QED
      BY <1>6, <2>1, <3>1 DEF OnBlock, TypeOK, GenType, PcsApart
  <2>2. CASE ~d
    BY <1>6, <2>2 DEF OnBlock, TypeOK
  <2>3. QED
    BY <2>1, <2>2
<1>7. ASSUME NEW a \in Actors, GenStep(a)
      PROVE  TypeOK'
  BY <1>7, GenStepType
<1>8. CASE Waiting \/ UNCHANGED vars
  BY <1>8 DEF Waiting, vars, TypeOK
<1>9. CASE HandleLatest
  <2>1. gen' \in GenType /\ PcsApart(gen')
    BY <1>1, <1>9, SetPcType DEF HandleLatest, SetPc, GenPc, Actors
  <2>2. QED
    BY <1>9, <2>1 DEF HandleLatest, TypeOK, GenType, PcsApart
<1>10. QED
  BY <1>2, <1>3, <1>4, <1>5, <1>6, <1>7, <1>8, <1>9 DEF Next

(* The initial state is well typed.                                       *)
LEMMA TypeInit == Init => TypeOK
<1> SUFFICES ASSUME Init PROVE TypeOK
  OBVIOUS
<1> USE ConstFacts
<1>1. gen \in GenType /\ PcsApart(gen)
  BY DEF Init, GenType, PcsApart, Home, GenPc, Actors
<1>2. scores \subseteq ScoreEvent
  BY DEF Init, ScoreEvent
<1>3. QED
  BY <1>1, <1>2 DEF Init, TypeOK, GenType, PcsApart

(***************************************************************************)
(* Type correctness of the generation broker for every instance: each     *)
(* goroutine stays at points of its own (Listen never takes onBlock's idle *)
(* point, onBlock never Listen's select or lower), and every score event   *)
(* forwarded is a well-formed record.                                      *)
(***************************************************************************)
THEOREM GenerationTypeCorrect == Spec => []TypeOK
BY TypeInit, TypeStep, PTL DEF Spec

=============================================================================
