------------------------ MODULE ReductionBrokerProofs ------------------------
(***************************************************************************)
(* Proofs about the reduction broker's Listen loop, the filter's Collect   *)
(* callback and the reducer, for every set of hashes, start round and      *)
(* bound.                                                                  *)
(***************************************************************************)
EXTENDS ReductionBroker, SequenceTheorems, TLAPS

(* The constants the proofs use.                                           *)
LEMMA ConstFacts ==
  /\ StartRound \in Nat /\ MaxRound \in Nat
  /\ MaxStep \in Nat \ {0} /\ MaxVotes \in Nat
  /\ NilEvent \notin Hashes /\ ZeroHash \notin Hashes
BY ReductionBrokerAssumption

(* A selection event taken from the channel starts a reduction of a hash   *)
(* or of the zero hash.                                                    *)
LEMMA SelectionHash ==
  ASSUME NEW ev \in Selection, NEW r
  PROVE  (IF ev.hash /= NilEvent /\ ev.round = r THEN ev.hash ELSE ZeroHash)
           \in Hashes \cup {ZeroHash}
BY DEF Selection

-----------------------------------------------------------------------------
(* Every step keeps the broker's state well typed.                         *)
LEMMA TypeStep == TypeOK /\ [Next]_vars => TypeOK'
<1> SUFFICES ASSUME TypeOK, [Next]_vars PROVE TypeOK'
  OBVIOUS
<1> USE ConstFacts
<1>1. CASE ListenRoundUpdate
  <2>1. reducer' \in [running: BOOLEAN, round: Nat, hash: Hashes \cup {ZeroHash}]
    BY <1>1 DEF ListenRoundUpdate, TypeOK
  <2>2. newRound' \in Nat /\ roundChan' \in Seq(Nat)
    BY <1>1 DEF ListenRoundUpdate, TypeOK
  <2>3. QED
    BY <1>1, <2>1, <2>2 DEF ListenRoundUpdate, TypeOK
<1>2. CASE ListenUpdateRound
  <2>1. queue' \subseteq Vote
    BY <1>2 DEF ListenUpdateRound, TypeOK
  <2>2. QED
    BY <1>2, <2>1 DEF ListenUpdateRound, TypeOK
<1>3. CASE ListenSelection
  <2> DEFINE ev == Head(selectionChan)
  <2>1. ev \in Selection
    BY <1>3 DEF ListenSelection, TypeOK
  <2>2. reducer' \in [running: BOOLEAN, round: Nat, hash: Hashes \cup {ZeroHash}]
    BY <1>3, <2>1, SelectionHash DEF ListenSelection, StartReduction, TypeOK
  <2>3. started' \subseteq [round: Nat, hash: Hashes \cup {ZeroHash}]
    BY <1>3, <2>1, SelectionHash DEF ListenSelection, StartReduction, TypeOK
  <2>4. acc' \subseteq Vote /\ queue' \subseteq Vote
    BY <1>3 DEF ListenSelection, FlushQueue, Flushed, TypeOK
  <2>5. selectionChan' \in Seq(Selection)
    BY <1>3 DEF ListenSelection, TypeOK
  <2>6. QED
    BY <1>3, <2>2, <2>3, <2>4, <2>5 DEF ListenSelection, TypeOK
<1>4. CASE ListenStep
  BY <1>4 DEF ListenStep, FlushQueue, Flushed, TypeOK
<1>5. ASSUME NEW v \in [round: {round, round + 1}, step: 1 .. MaxStep],
             Collect(v)
      PROVE  TypeOK'
  <2>1. v \in Vote
    BY DEF TypeOK, Vote
  <2>2. QED
    BY <1>5, <2>1 DEF Collect, TypeOK
<1>6. CASE ReducerStep
  <2>1. step' \in 1 .. MaxStep
    BY <1>6 DEF ReducerStep, TypeOK
  <2>2. stepChan' \in Seq(Nat)
    BY <1>6 DEF ReducerStep, TypeOK
  <2>3. QED
    BY <1>6, <2>1, <2>2 DEF ReducerStep, TypeOK
<1>7. CASE PublishRound
  <2>1. roundChan' \in Seq(Nat)
    BY <1>7 DEF PublishRound, TypeOK
  <2>2. published' = [round |-> published.round + 1,
                      selections |-> published.selections]
    BY <1>7 DEF PublishRound, TypeOK
  <2>3. published' \in [round: Nat, selections: SUBSET Nat]
    BY <2>2 DEF TypeOK
  <2>4. QED
    BY <1>7, <2>1, <2>3 DEF PublishRound, TypeOK
<1>8. ASSUME NEW h \in Hashes \cup {NilEvent}, PublishSelection(h)
      PROVE  TypeOK'
  <2>1. [round |-> published.round, hash |-> h] \in Selection
    BY DEF TypeOK, Selection
  <2>2. selectionChan' \in Seq(Selection)
    BY <1>8, <2>1 DEF PublishSelection, TypeOK
  <2>3. published' \in [round: Nat, selections: SUBSET Nat]
    BY <1>8 DEF PublishSelection, TypeOK
  <2>4. QED
    BY <1>8, <2>2, <2>3 DEF PublishSelection, TypeOK
<1>9. CASE Waiting \/ UNCHANGED vars
  BY <1>9 DEF Waiting, vars, TypeOK
<1>10. QED
  BY <1>1, <1>2, <1>3, <1>4, <1>5, <1>6, <1>7, <1>8, <1>9 DEF Next

(***************************************************************************)
(* Type correctness of the broker for every instance.                      *)
(***************************************************************************)
THEOREM BrokerTypeCorrect == Spec => []TypeOK
<1>1. Init => TypeOK
  BY ConstFacts DEF Init, TypeOK
<1>2. QED
  BY <1>1, TypeStep, PTL DEF Spec

-----------------------------------------------------------------------------
(* Between the end of the reduction and UpdateRound no reduction runs.     *)
EndedBeforeUpdate == listenPc = "update" => ~reducer.running

(* The inductive invariant for ReductionOfCurrentRound.                    *)
IInv == TypeOK /\ EndedBeforeUpdate /\ ReductionOfCurrentRound

(***************************************************************************)
(* A running reduction belongs to the State's round, for every instance    *)
(* (run reduction_broker checks it on a small one).  The round moves only  *)
(* in UpdateRound, which Listen reaches only through the round-update case *)
(* that ended the reducer (EndedBeforeUpdate); a reduction starts only in  *)
(* the selection case, with the State's round.                             *)
(***************************************************************************)
THEOREM ReductionRoundCorrect == Spec => []ReductionOfCurrentRound
<1>1. Init => IInv
  BY ConstFacts DEF Init, IInv, TypeOK, EndedBeforeUpdate,
     ReductionOfCurrentRound
<1>2. IInv /\ [Next]_vars => IInv'
  <2> SUFFICES ASSUME IInv, [Next]_vars PROVE IInv'
    OBVIOUS
  <2>1. TypeOK'
    BY TypeStep DEF IInv
  <2>2. (EndedBeforeUpdate /\ ReductionOfCurrentRound)'
    <3>1. CASE ListenRoundUpdate
      BY <3>1 DEF ListenRoundUpdate, EndedBeforeUpdate,
         ReductionOfCurrentRound, IInv, TypeOK
    <3>2. CASE ListenUpdateRound
      BY <3>2 DEF ListenUpdateRound, EndedBeforeUpdate,
         ReductionOfCurrentRound, IInv
    <3>3. CASE ListenSelection
      BY <3>3 DEF ListenSelection, StartReduction, EndedBeforeUpdate,
         ReductionOfCurrentRound, IInv
    <3>4. CASE ListenStep
      BY <3>4 DEF ListenStep, EndedBeforeUpdate, ReductionOfCurrentRound,
         IInv
    <3>5. ASSUME NEW v \in [round: {round, round + 1}, step: 1 .. MaxStep],
                 Collect(v)
          PROVE  (EndedBeforeUpdate /\ ReductionOfCurrentRound)'
      BY <3>5 DEF Collect, EndedBeforeUpdate, ReductionOfCurrentRound, IInv
    <3>6. CASE ReducerStep
      BY <3>6 DEF ReducerStep, EndedBeforeUpdate, ReductionOfCurrentRound,
         IInv
    <3>7. CASE PublishRound
      BY <3>7 DEF PublishRound, EndedBeforeUpdate, ReductionOfCurrentRound,
         IInv
    <3>8. ASSUME NEW h \in Hashes \cup {NilEvent}, PublishSelection(h)
          PROVE  (EndedBeforeUpdate /\ ReductionOfCurrentRound)'
      BY <3>8 DEF PublishSelection, EndedBeforeUpdate,
         ReductionOfCurrentRound, IInv
    <3>9. CASE Waiting \/ UNCHANGED vars
      BY <3>9 DEF Waiting, vars, EndedBeforeUpdate, ReductionOfCurrentRound,
         IInv
    <3>10. QED
      BY <3>1, <3>2, <3>3, <3>4, <3>5, <3>6, <3>7, <3>8, <3>9 DEF Next
  <2>3. QED
    BY <2>1, <2>2 DEF IInv
<1>3. IInv => ReductionOfCurrentRound
  BY DEF IInv
<1>4. QED
  BY <1>1, <1>2, <1>3, PTL DEF Spec

=============================================================================
