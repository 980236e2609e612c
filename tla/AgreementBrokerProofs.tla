------------------------ MODULE AgreementBrokerProofs ------------------------
(***************************************************************************)
(* Proofs about the agreement broker: Listen, the accumulator's send on    *)
(* CollectedVotesChan and the sendAgreement callback, for every start      *)
(* round, membership, channel capacity and bound.                          *)
(***************************************************************************)
EXTENDS AgreementBroker, SequenceTheorems, TLAPS

(* The constants the proofs use.                                           *)
LEMMA ConstFacts ==
  /\ StartRound \in Nat /\ AgreementSteps \subseteq Nat
  /\ CollectedCap \in Nat \ {0} /\ MaxRound \in Nat /\ MaxResults \in Nat
BY AgreementAssumption

(* UpdateRound leaves a well-typed round, step and history.                *)
LEMMA UpdateRoundType ==
  ASSUME TypeOK, NEW r \in Nat, UpdateRound(r)
  PROVE  /\ round' \in Nat /\ step' \in Nat \ {0}
         /\ roundUpdates' \in Seq(Nat) /\ resultsInRound' = 0
BY DEF UpdateRound, TypeOK

-----------------------------------------------------------------------------
(* Every step keeps the broker's state well typed.                         *)
LEMMA TypeStep == TypeOK /\ [Next]_vars => TypeOK'
<1> SUFFICES ASSUME TypeOK, [Next]_vars PROVE TypeOK'
  OBVIOUS
<1> USE ConstFacts
<1>1. CASE ListenReceive
  <2>1. Head(collected) \in Quorum
    BY <1>1 DEF ListenReceive, TypeOK
  <2>2. winning' \in Seq(Winning)
    BY <1>1, <2>1 DEF ListenReceive, TypeOK, Winning, Quorum
  <2>3. collected' \in Seq(Quorum) /\ Len(collected') <= CollectedCap
    BY <1>1 DEF ListenReceive, TypeOK
  <2>4. QED
    BY <1>1, <2>2, <2>3 DEF ListenReceive, TypeOK
<1>2. CASE ListenUpdate
  <2>1. /\ round' \in Nat /\ step' \in Nat \ {0}
        /\ roundUpdates' \in Seq(Nat) /\ resultsInRound' = 0
    BY <1>2, UpdateRoundType DEF ListenUpdate, TypeOK
  <2>2. QED
    BY <1>2, <2>1 DEF ListenUpdate, TypeOK
<1>3. ASSUME NEW s \in AgreementSteps, AccumulatorQuorum(s)
      PROVE  TypeOK'
  BY <1>3 DEF AccumulatorQuorum, TypeOK, Quorum
<1>4. CASE AccumulatorSend
  <2>1. collected' \in Seq(Quorum) /\ Len(collected') <= CollectedCap
    BY <1>4 DEF AccumulatorSend, TypeOK, NoQuorum
  <2>2. QED
    BY <1>4, <2>1 DEF AccumulatorSend, TypeOK
<1>5. ASSUME NEW ok \in BOOLEAN, ReductionResult(ok)
      PROVE  TypeOK'
  <2>1. saResult' \in [round: Nat, ok: BOOLEAN] /\ saPc' \in SaPc
    BY <1>5 DEF ReductionResult, TypeOK, SaPc
  <2>2. results' \in 0 .. MaxResults /\ resultsInRound' \in 0 .. results'
    BY <1>5 DEF ReductionResult, TypeOK
  <2>3. QED
    BY <1>5, <2>1, <2>2 DEF ReductionResult, TypeOK
<1>6. CASE SendAgreementStep
  <2>1. CASE SendAgreementMember
    BY <2>1 DEF SendAgreementMember, TypeOK, SaPc
  <2>2. CASE SendAgreementRound
    BY <2>2 DEF SendAgreementRound, TypeOK, SaPc
  <2>3. CASE SendAgreementStream
    BY <2>3 DEF SendAgreementStream, TypeOK, SaPc, AgreementVote
  <2>4. CASE SendAgreementDefer
    BY <2>4 DEF SendAgreementDefer, TypeOK, SaPc
  <2>5. QED
    BY <1>6, <2>1, <2>2, <2>3, <2>4 DEF SendAgreementStep
<1>7. CASE Waiting \/ UNCHANGED vars
  BY <1>7 DEF Waiting, vars, TypeOK
<1>8. QED
  BY <1>1, <1>2, <1>3, <1>4, <1>5, <1>6, <1>7 DEF Next

(* The initial state is well typed.                                       *)
LEMMA TypeInit == Init => TypeOK
  <2> SUFFICES ASSUME Init PROVE TypeOK
    OBVIOUS
  <2>1. collected \in Seq(Quorum) /\ Len(collected) <= CollectedCap
    BY ConstFacts DEF Init
  <2>2. winning \in Seq(Winning) /\ roundUpdates \in Seq(Nat)
    BY ConstFacts DEF Init
  <2>3. saResult \in [round: Nat, ok: BOOLEAN] /\ saPc \in SaPc
    BY ConstFacts DEF Init, SaPc
  <2>4. QED
    BY ConstFacts, <2>1, <2>2, <2>3 DEF Init, TypeOK, NoQuorum

(***************************************************************************)
(* Type correctness of the agreement broker for every instance: in         *)
(* particular CollectedVotesChan never holds more than its capacity, and   *)
(* the step is never 0.                                                    *)
(***************************************************************************)
THEOREM AgreementTypeCorrect == Spec => []TypeOK
BY TypeInit, TypeStep, PTL DEF Spec

=============================================================================
