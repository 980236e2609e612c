--------------------------- MODULE SortitionProofs ---------------------------
(***************************************************************************)
(* Proofs about sortition, verifySortition and the calcVotes loop for      *)
(* every minimum stake, set of inputs and grid bound.                     *)
(***************************************************************************)
EXTENDS Sortition, TLAPS

(* The grid bound is a number.                                             *)
LEMMA MaxPosNat == MaxPos \in Nat
BY SortitionAssumption

(* A call's inputs are numbers and its level is odd or AbovePeak.          *)
LEMMA CallFields ==
  ASSUME NEW c \in Calls
  PROVE  /\ c.caller \in Callers
         /\ c.threshold \in Nat /\ c.stake \in Nat /\ c.totalStake \in Nat
         /\ c.level \in Nat \cup {AbovePeak}
         /\ c.level /= AbovePeak => c.level % 2 = 1
BY SortitionAssumption DEF Calls, AbovePeak

(***************************************************************************)
(* The bucket the loop stops in is the reference bucket: with the level L  *)
(* odd, |i - 100 mu| * 2 >= L >= |i + 1 - 100 mu| * 2 holds only below mu *)
(* and only for i = floor((200 mu - L) / 2).                               *)
(***************************************************************************)
LEMMA BucketIsReference ==
  ASSUME call \in Calls, NEW i \in Nat, InBucket(i)
  PROVE  i = ReferenceVotes
<1>1. /\ Mu \in Nat /\ call.level \in Nat /\ call.level % 2 = 1
  BY CallFields DEF InBucket, Mu
<1>2. Dist2(i) >= call.level /\ call.level >= Dist2(i + 1)
  BY DEF InBucket
<1>3. QED
  BY <1>1, <1>2 DEF Dist2, ReferenceVotes

(* The results calcVotes and its callers return are well typed.           *)
LEMMA ResultType ==
  ASSUME NEW v \in 0 .. MaxPos, NEW e \in ErrorKinds, NEW c \in BOOLEAN
  PROVE  [votes |-> v, err |-> e, calc |-> c]
           \in [votes: 0 .. MaxPos, err: ErrorKinds, calc: BOOLEAN]
OBVIOUS

-----------------------------------------------------------------------------
(* Every step keeps the call, the program counter, the loop counter       *)
(* (saturated at MaxPos) and the result well typed.                        *)
LEMMA TypeStep == TypeOK /\ [Next]_vars => TypeOK'
<1> SUFFICES ASSUME TypeOK, [Next]_vars PROVE TypeOK'
  OBVIOUS
<1>1. ASSUME NEW o \in {"valid", "invalid", "error"}, Score(o)
      PROVE  TypeOK'
  <2>1. call' \in Calls /\ votes' \in 0 .. MaxPos
    BY <1>1 DEF Score, TypeOK
  <2>2. pc' \in {"score", "checks", "loop", "done"}
    BY <1>1 DEF Score, Return
  <2>3. result' \in [votes: 0 .. MaxPos, err: ErrorKinds, calc: BOOLEAN]
    <3>1. 0 \in 0 .. MaxPos
      BY MaxPosNat
    <3>2. CASE UNCHANGED result
      BY <3>2 DEF TypeOK
    <3>3. CASE result' = [votes |-> 0, err |-> "none", calc |-> FALSE]
      BY <3>1, <3>3 DEF ErrorKinds
    <3>4. CASE result' = [votes |-> 0, err |-> "error", calc |-> FALSE]
      BY <3>1, <3>4 DEF ErrorKinds
    <3>5. QED
      BY <1>1, <3>2, <3>3, <3>4 DEF Score, Return
  <2>4. QED
    BY <2>1, <2>2, <2>3 DEF TypeOK
<1>2. CASE Checks
  <2>1. call' \in Calls /\ votes' \in 0 .. MaxPos
    BY <1>2 DEF Checks, TypeOK
  <2>2. pc' \in {"score", "checks", "loop", "done"}
    BY <1>2 DEF Checks, Return
  <2>3. result' \in [votes: 0 .. MaxPos, err: ErrorKinds, calc: BOOLEAN]
    <3>1. CASE UNCHANGED result
      BY <3>1 DEF TypeOK
    <3>2. CASE result' = [votes |-> 0, err |-> "error", calc |-> FALSE]
      BY <3>2, MaxPosNat, ResultType DEF ErrorKinds
    <3>3. QED
      BY <1>2, <3>1, <3>2 DEF Checks, Return
  <2>4. QED
    BY <2>1, <2>2, <2>3 DEF TypeOK
<1>3. CASE LoopStep
  <2>1. call' \in Calls /\ pc' \in {"score", "checks", "loop", "done"}
    BY <1>3 DEF LoopStep, Return, TypeOK
  <2>2. votes' \in 0 .. MaxPos
    <3>1. votes \in Nat /\ votes <= MaxPos /\ MaxPos \in Nat
      BY MaxPosNat DEF TypeOK
    <3>2. CASE InBucket(votes)
      BY <1>3, <3>1, <3>2 DEF LoopStep
    <3>3. CASE ~InBucket(votes)
      <4>1. votes' = IF votes < MaxPos THEN votes + 1 ELSE votes
        BY <1>3, <3>3, Zenon DEF LoopStep
      <4>2. QED
        BY <3>1, <4>1
    <3>4. QED
      BY <3>2, <3>3
  <2>3. result' \in [votes: 0 .. MaxPos, err: ErrorKinds, calc: BOOLEAN]
    <3>1. CASE UNCHANGED result
      BY <3>1 DEF TypeOK
    <3>2. CASE result' = [votes |-> votes, err |-> "none", calc |-> TRUE]
      BY <3>2, ResultType DEF ErrorKinds, TypeOK
    <3>3. QED
      BY <1>3, <3>1, <3>2 DEF LoopStep, Return
  <2>4. QED
    BY <2>1, <2>2, <2>3 DEF TypeOK
<1>4. CASE UNCHANGED vars
  BY <1>4 DEF vars, TypeOK
<1>5. QED
  BY <1>1, <1>2, <1>3, <1>4 DEF Next

(***************************************************************************)
(* Type correctness of sortition and verifySortition for every input.      *)
(***************************************************************************)
THEOREM SortitionTypeCorrect == Spec => []TypeOK
<1>1. Init => TypeOK
  BY MaxPosNat DEF Init, TypeOK, ErrorKinds
<1>2. QED
  BY <1>1, TypeStep, PTL DEF Spec

(* The inductive invariant: VotesMatchReference with the types.            *)
IInv == TypeOK /\ VotesMatchReference

(***************************************************************************)
(* A vote count calcVotes returns is the reference bucket count, for every *)
(* input (run sortition checks it on a small instance).  Only the loop's   *)
(* break returns a computed count, and it breaks in the reference bucket   *)
(* (BucketIsReference); every other step keeps the call and the result.   *)
(***************************************************************************)
THEOREM VotesCorrect == Spec => []VotesMatchReference
<1>1. Init => IInv
  <2> SUFFICES ASSUME Init PROVE IInv
    OBVIOUS
  <2>1. TypeOK
    BY MaxPosNat, ResultType DEF Init, TypeOK, ErrorKinds
  <2>2. VotesMatchReference
    BY DEF Init, VotesMatchReference
  <2>3. QED
    BY <2>1, <2>2 DEF IInv
<1>2. IInv /\ [Next]_vars => IInv'
  <2> SUFFICES ASSUME IInv, [Next]_vars PROVE IInv'
    OBVIOUS
  <2>1. TypeOK'
    BY TypeStep DEF IInv
  <2>2. VotesMatchReference'
    <3>1. ASSUME NEW o \in {"valid", "invalid", "error"}, Score(o)
          PROVE  VotesMatchReference'
      BY <3>1 DEF Score, Return, VotesMatchReference
    <3>2. CASE Checks
      BY <3>2 DEF Checks, Return, VotesMatchReference
    <3>3. CASE LoopStep /\ InBucket(votes)
      <4>1. votes = ReferenceVotes
        BY <3>3, BucketIsReference DEF IInv, TypeOK
      <4>2. QED
        BY <3>3, <4>1 DEF LoopStep, Return, VotesMatchReference,
           ReferenceVotes, Mu
    <3>4. CASE LoopStep /\ ~InBucket(votes)
      BY <3>4 DEF LoopStep, IInv, VotesMatchReference, ReferenceVotes, Mu
    <3>5. CASE UNCHANGED vars
      BY <3>5 DEF vars, IInv, VotesMatchReference, ReferenceVotes, Mu
    <3>6. QED
      BY <3>1, <3>2, <3>3, <3>4, <3>5 DEF Next
  <2>3. QED
    BY <2>1, <2>2 DEF IInv
<1>3. IInv => VotesMatchReference
  BY DEF IInv
<1>4. QED
  BY <1>1, <1>2, <1>3, PTL DEF Spec
=============================================================================
