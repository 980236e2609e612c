------------------------ MODULE VoteCollectionProofs ------------------------
(***************************************************************************)
(* Proofs about one call of decideOnHash (VoteCollection), for every set   *)
(* of keys, committee weights, threshold and channel capacity.             *)
(***************************************************************************)
EXTENDS VoteCollection, VoteTallyLemmas, FiniteSetTheorems, SequenceTheorems,
        TLAPS

LEMMA TypeInit == Init => TypeOK
BY CollectionAssumption
   DEF Init, TypeOK, EmptyTally, Tally, Uint8, Msg, BlockMsg, SigSetMsg

LEMMA TypeStep == TypeOK /\ [Next]_vars => TypeOK'
<1> SUFFICES ASSUME TypeOK, [Next]_vars PROVE TypeOK'
  OBVIOUS
<1>1. ASSUME NEW m \in Msg, Send(m) PROVE TypeOK'
  BY <1>1, CollectionAssumption DEF Send, TypeOK
<1>2. CASE Receive
  <2>1. inputChannel # << >> /\ Head(inputChannel) \in Msg
    BY <1>2 DEF Receive, TypeOK
  <2>2. Collect(tally, Head(inputChannel), winning) \in Tally
    BY <2>1, CollectType DEF TypeOK
  <2>3. Head(inputChannel).hash \in VoteHash
    BY <2>1 DEF Msg, BlockMsg, SigSetMsg
  <2>4. Len(Tail(inputChannel)) <= InputCap /\ Tail(inputChannel) \in Seq(Msg)
    BY <2>1, CollectionAssumption DEF TypeOK
  <2>5. QED
    BY <1>2, <2>1, <2>2, <2>3, <2>4 DEF Receive, TypeOK
<1>3. CASE Timeout
  BY <1>3 DEF Timeout, TypeOK, VoteHash
<1>4. CASE UNCHANGED vars
  BY <1>4 DEF vars, TypeOK
<1>5. QED
  BY <1>1, <1>2, <1>3, <1>4 DEF Next

(***************************************************************************)
(* Type correctness of decideOnHash: the channel never holds more than its *)
(* capacity and the uint8 tally stays in range.                            *)
(***************************************************************************)
THEOREM TypeCorrect == Spec => []TypeOK
BY TypeInit, TypeStep, PTL DEF Spec

(***************************************************************************)
(* NoDoubleCount is inductive together with: every key with a counted     *)
(* vote is in hasVoted.  hasVoted only grows, and a vote is counted only   *)
(* when its key is not in hasVoted yet.                                    *)
(***************************************************************************)
CountedHaveVoted ==
  \A i \in DOMAIN counted : counted[i].pk \in tally.hasVoted

IInv == TypeOK /\ CountedHaveVoted /\ NoDoubleCount

LEMMA IInvInit == Init => IInv
BY TypeInit DEF Init, IInv, CountedHaveVoted, NoDoubleCount, EmptyTally

LEMMA IInvStep == IInv /\ [Next]_vars => IInv'
<1> SUFFICES ASSUME IInv, [Next]_vars PROVE IInv'
  OBVIOUS
<1>1. TypeOK'
  BY TypeStep DEF IInv
<1>2. ASSUME NEW m \in Msg, Send(m) PROVE IInv'
  BY <1>1, <1>2 DEF Send, IInv, CountedHaveVoted, NoDoubleCount
<1>3. CASE Receive
  <2> DEFINE m == Head(inputChannel)
  <2>1. m \in Msg /\ tally \in Tally /\ counted \in Seq(Msg)
    BY <1>3 DEF Receive, IInv, TypeOK
  <2>2. tally'.hasVoted = tally.hasVoted \cup {m.pk}
    BY <1>3, <2>1 DEF Receive, Collect, Tally
  <2>3. CASE Counts(tally, m, winning)
    <3>1. counted' = Append(counted, m)
      BY <1>3, <2>3 DEF Receive
    <3>2. \A i \in DOMAIN counted : counted[i].pk # m.pk
      BY <2>3 DEF Counts, IInv, CountedHaveVoted
    <3>3. CountedHaveVoted'
      BY <2>1, <2>2, <3>1 DEF IInv, CountedHaveVoted
    <3>4. NoDoubleCount'
      BY <2>1, <3>1, <3>2 DEF IInv, NoDoubleCount
    <3>5. QED
      BY <1>1, <3>3, <3>4 DEF IInv
  <2>4. CASE ~Counts(tally, m, winning)
    <3>1. counted' = counted
      BY <1>3, <2>4 DEF Receive
    <3>2. QED
      BY <1>1, <2>2, <3>1 DEF IInv, CountedHaveVoted, NoDoubleCount
  <2>5. QED
    BY <2>3, <2>4
<1>4. CASE Timeout
  BY <1>1, <1>4 DEF Timeout, IInv, CountedHaveVoted, NoDoubleCount
<1>5. CASE UNCHANGED vars
  BY <1>1, <1>5 DEF vars, IInv, CountedHaveVoted, NoDoubleCount
<1>6. QED
  BY <1>2, <1>3, <1>4, <1>5 DEF Next

(***************************************************************************)
(* Deduplication holds for every committee and every stream of messages:  *)
(* no key's weight enters the tally of a decideOnHash call twice.          *)
(***************************************************************************)
THEOREM DedupCorrect == Spec => []NoDoubleCount
<1>1. IInv => NoDoubleCount
  BY DEF IInv
<1>2. QED
  BY IInvInit, IInvStep, <1>1, PTL DEF Spec

-----------------------------------------------------------------------------
(* Every counted message verified against the winning hash (it never       *)
(* changes during the call).                                               *)
CountedVerified ==
  \A i \in DOMAIN counted : VerifyReductionMessage(counted[i], winning)

(* The uint8 tally of each hash is the weight of its voters, modulo 256.   *)
TallyIsWeight ==
  \A h \in VoteHash : tally.votesPerHash[h] = WeightOf(VotersFor(h)) % 256

(* A quorum result is a hash whose tally reached the threshold.            *)
QuorumTallied ==
  outcome = "quorum" =>
    result \in VoteHash /\ ThresholdExceeded(tally.votesPerHash[result])

(* The inductive invariant for QuorumSound.                                *)
SoundInv ==
  /\ IInv /\ CountedVerified /\ TallyIsWeight /\ QuorumTallied
  /\ IsFiniteSet(tally.hasVoted)

-----------------------------------------------------------------------------
(* The votes of a finite set of keys are finitely many.                    *)
LEMMA WeightType ==
  ASSUME NEW S \in SUBSET Keys, IsFiniteSet(S)
  PROVE  IsFiniteSet(Votes(S)) /\ WeightOf(S) \in Nat
<1>1. Votes(S) \subseteq S \X (1 .. 255)
  BY ConstAssumption DEF Votes, Uint8
<1>2. IsFiniteSet(S \X (1 .. 255))
  <2>1. IsFiniteSet(1 .. 255)
    <3>1. 1 \in Int /\ 255 \in Int
      OBVIOUS
    <3>2. QED
      BY <3>1, FS_Interval
  <2>2. QED
    BY <2>1, FS_Product
<1>3. IsFiniteSet(Votes(S))
  BY <1>1, <1>2, FS_Subset
<1>4. QED
  BY <1>3, FS_CardinalityType DEF WeightOf

(* The empty set of keys has no weight.                                    *)
LEMMA WeightEmpty == WeightOf({}) = 0
<1>1. Votes({}) = {}
  BY DEF Votes
<1>2. QED
  BY <1>1, FS_EmptySet DEF WeightOf

(* A key added to a set of keys adds its committee weight.                 *)
LEMMA WeightAdd ==
  ASSUME NEW S \in SUBSET Keys, IsFiniteSet(S), NEW k \in Keys \ S
  PROVE  WeightOf(S \cup {k}) = WeightOf(S) + Committee[k]
<1> DEFINE Own == {k} \X (1 .. Committee[k])
<1>1. Votes(S \cup {k}) = Votes(S) \cup Own
  BY DEF Votes
<1>2. Votes(S) \cap Own = {}
  BY DEF Votes
<1>3. IsFiniteSet(Own) /\ Cardinality(Own) = Committee[k]
  <2>1. Committee[k] \in Nat
    BY ConstAssumption DEF Uint8
  <2>2. IsFiniteSet(1 .. Committee[k]) /\ Cardinality(1 .. Committee[k]) = Committee[k]
    BY <2>1, FS_Interval
  <2>3. IsFiniteSet({k}) /\ Cardinality({k}) = 1
    BY FS_Singleton
  <2>4. IsFiniteSet(Own)
        /\ Cardinality(Own) = Cardinality({k}) * Cardinality(1 .. Committee[k])
    BY <2>2, <2>3, FS_Product
  <2>5. QED
    BY <2>1, <2>2, <2>3, <2>4
<1>4. IsFiniteSet(Votes(S)) /\ Cardinality(Votes(S)) \in Nat
  BY WeightType DEF WeightOf
<1>5. Cardinality(Votes(S) \cup Own)
        = Cardinality(Votes(S)) + Cardinality(Own) - Cardinality(Votes(S) \cap Own)
  BY <1>3, <1>4, FS_Union
<1>6. Cardinality(Votes(S) \cap Own) = 0
  BY <1>2, FS_EmptySet
<1>7. WeightOf(S \cup {k}) = Cardinality(Votes(S) \cup Own)
  BY <1>1 DEF WeightOf
<1>8. Committee[k] \in Nat
  BY ConstAssumption DEF Uint8
<1>9. QED
  BY <1>3, <1>4, <1>5, <1>6, <1>7, <1>8 DEF WeightOf

-----------------------------------------------------------------------------
(* The voters of a hash are keys that have voted.                          *)
LEMMA VotersHaveVoted ==
  ASSUME IInv, NEW h
  PROVE  VotersFor(h) \subseteq tally.hasVoted
BY DEF IInv, CountedHaveVoted, VotersFor

(* Counting a verified message adds its key to the voters of its hash.     *)
LEMMA VotersAppend ==
  ASSUME counted \in Seq(Msg), NEW m \in Msg,
         VerifyReductionMessage(m, winning),
         counted' = Append(counted, m), winning' = winning, NEW h
  PROVE  VotersFor(h)' =
           IF m.hash = h THEN VotersFor(h) \cup {m.pk} ELSE VotersFor(h)
<1>1. DOMAIN counted' = 1 .. Len(counted) + 1
  OBVIOUS
<1>2. \A i \in 1 .. Len(counted) : counted'[i] = counted[i]
  OBVIOUS
<1>3. counted'[Len(counted) + 1] = m
  OBVIOUS
<1>4. DOMAIN counted = 1 .. Len(counted)
  OBVIOUS
<1>5. QED
  BY <1>1, <1>2, <1>3, <1>4 DEF VotersFor

(* The initial state satisfies the strengthened invariant.                 *)
LEMMA SoundInit == Init => SoundInv
<1> SUFFICES ASSUME Init PROVE SoundInv
  OBVIOUS
<1>1. IInv
  BY IInvInit
<1>2. \A h \in VoteHash : VotersFor(h) = {}
  BY DEF Init, VotersFor
<1>3. TallyIsWeight
  BY <1>2, WeightEmpty DEF Init, TallyIsWeight, EmptyTally
<1>4. IsFiniteSet(tally.hasVoted)
  BY FS_EmptySet DEF Init, EmptyTally
<1>5. QED
  BY <1>1, <1>3, <1>4 DEF Init, SoundInv, CountedVerified, QuorumTallied

(* Every step keeps the tally equal to the voters' weight modulo 256, and  *)
(* a quorum result backed by its tally.                                    *)
LEMMA SoundStep == SoundInv /\ [Next]_vars => SoundInv'
<1> SUFFICES ASSUME SoundInv, [Next]_vars PROVE SoundInv'
  OBVIOUS
<1>1. IInv'
  BY IInvStep DEF SoundInv
<1>2. ASSUME NEW m \in Msg, Send(m) PROVE SoundInv'
  BY <1>1, <1>2 DEF Send, SoundInv, CountedVerified, TallyIsWeight,
     QuorumTallied, VotersFor
<1>3. CASE Receive
  <2> DEFINE m == Head(inputChannel)
  <2>1. /\ m \in Msg /\ tally \in Tally /\ counted \in Seq(Msg)
        /\ outcome = "pending" /\ winning' = winning
        /\ tally' = Collect(tally, m, winning)
    BY <1>3 DEF Receive, SoundInv, IInv, TypeOK
  <2>2. m.pk \in Keys /\ m.hash \in VoteHash /\ Committee[m.pk] \in Nat
    <3>1. m.pk \in Keys /\ m.hash \in VoteHash
      BY <2>1 DEF Msg, BlockMsg, SigSetMsg
    <3>2. QED
      BY <3>1, ConstAssumption DEF Uint8
  <2>3. CASE Counts(tally, m, winning)
    <3>1. counted' = Append(counted, m) /\ VerifyReductionMessage(m, winning)
      BY <1>3, <2>3 DEF Receive, Counts
    <3>2. /\ tally'.votesPerHash =
               [tally.votesPerHash EXCEPT ![m.hash] = (@ + Committee[m.pk]) % 256]
          /\ tally'.hasVoted = tally.hasVoted \cup {m.pk}
      BY <2>1, <2>3 DEF Collect
    <3>3. m.pk \notin tally.hasVoted
      BY <2>3 DEF Counts
    <3>4. CountedVerified'
      BY <2>1, <3>1 DEF SoundInv, CountedVerified
    <3>5. IsFiniteSet(tally.hasVoted')
      BY <3>2, FS_AddElement DEF SoundInv
    <3>6. TallyIsWeight'
      <4> SUFFICES ASSUME NEW h \in VoteHash
                   PROVE  tally'.votesPerHash[h] = WeightOf(VotersFor(h)') % 256
        BY DEF TallyIsWeight
      <4>1. VotersFor(h) \subseteq Keys /\ IsFiniteSet(VotersFor(h))
        <5>1. VotersFor(h) \subseteq tally.hasVoted
          BY VotersHaveVoted DEF SoundInv
        <5>2. tally.hasVoted \subseteq Keys
          BY <2>1 DEF Tally
        <5>3. QED
          BY <5>1, <5>2, FS_Subset DEF SoundInv
      <4>2. tally.votesPerHash \in [VoteHash -> Uint8]
        BY <2>1 DEF Tally
      <4>3. tally.votesPerHash[h] = WeightOf(VotersFor(h)) % 256
        BY DEF SoundInv, TallyIsWeight
      <4>4. WeightOf(VotersFor(h)) \in Nat
        BY <4>1, WeightType
      <4>5. CASE h = m.hash
        <5>1. VotersFor(h)' = VotersFor(h) \cup {m.pk}
          BY <2>1, <3>1, <4>5, VotersAppend
        <5>2. m.pk \notin VotersFor(h)
          BY <3>3, VotersHaveVoted DEF SoundInv
        <5>3. WeightOf(VotersFor(h) \cup {m.pk})
                = WeightOf(VotersFor(h)) + Committee[m.pk]
          BY <2>2, <4>1, <5>2, WeightAdd
        <5>4. tally'.votesPerHash[h] =
                (tally.votesPerHash[h] + Committee[m.pk]) % 256
          BY <3>2, <4>2, <4>5
        <5>5. QED
          BY <2>2, <4>3, <4>4, <5>1, <5>3, <5>4
      <4>6. CASE h # m.hash
        <5>1. VotersFor(h)' = VotersFor(h)
          BY <2>1, <3>1, <4>6, VotersAppend
        <5>2. tally'.votesPerHash[h] = tally.votesPerHash[h]
          BY <3>2, <4>2, <4>6
        <5>3. QED
          BY <4>3, <5>1, <5>2
      <4>7. QED
        BY <4>5, <4>6
    <3>7. QuorumTallied'
      <4>1. CASE Decides(tally, m, winning)
        <5>1. outcome' = "quorum" /\ result' = m.hash
          BY <1>3, <4>1 DEF Receive
        <5>2. QED
          BY <2>1, <2>2, <4>1, <5>1 DEF Decides, QuorumTallied
      <4>2. CASE ~Decides(tally, m, winning)
        BY <1>3, <2>1, <4>2 DEF Receive, QuorumTallied
      <4>3. QED
        BY <4>1, <4>2
    <3>8. QED
      BY <1>1, <3>4, <3>5, <3>6, <3>7 DEF SoundInv
  <2>4. CASE ~Counts(tally, m, winning)
    <3>1. counted' = counted /\ outcome' = outcome
      BY <1>3, <2>1, <2>4 DEF Receive, Decides
    <3>2. tally'.votesPerHash = tally.votesPerHash
          /\ tally'.hasVoted = tally.hasVoted \cup {m.pk}
      BY <2>1, <2>4 DEF Collect
    <3>3. \A h : VotersFor(h)' = VotersFor(h)
      BY <2>1, <3>1 DEF VotersFor
    <3>4. IsFiniteSet(tally.hasVoted')
      BY <3>2, FS_AddElement DEF SoundInv
    <3>5. QED
      BY <1>1, <2>1, <3>1, <3>2, <3>3, <3>4
         DEF SoundInv, CountedVerified, TallyIsWeight, QuorumTallied
  <2>5. QED
    BY <2>3, <2>4
<1>4. CASE Timeout
  BY <1>1, <1>4 DEF Timeout, SoundInv, CountedVerified, TallyIsWeight,
     QuorumTallied, VotersFor
<1>5. CASE UNCHANGED vars
  BY <1>1, <1>5 DEF vars, SoundInv, CountedVerified, TallyIsWeight,
     QuorumTallied, VotersFor
<1>6. QED
  BY <1>2, <1>3, <1>4, <1>5 DEF Next

(***************************************************************************)
(* A quorum result of decideOnHash is backed, for every committee and      *)
(* threshold and every stream of messages, by verified votes for that hash *)
(* from distinct keys whose total weight reaches the threshold, although   *)
(* votesPerHash adds weights in uint8.  QuorumSound is not inductive: the  *)
(* proof carries that each hash's tally is the weight of its verified      *)
(* voters modulo 256 (deduplication makes each key add its weight once),   *)
(* and that a quorum result's tally reached the threshold; a weight is at  *)
(* least its remainder modulo 256, so a wrapped tally never overstates it. *)
(***************************************************************************)
THEOREM QuorumSoundCorrect == Spec => []QuorumSound
<1>1. SoundInv => QuorumSound
  <2> SUFFICES ASSUME SoundInv, outcome = "quorum"
               PROVE  WeightOf(VotersFor(result)) >= Threshold
    BY DEF QuorumSound
  <2>1. result \in VoteHash /\ tally.votesPerHash[result] >= Threshold
    BY DEF SoundInv, QuorumTallied, ThresholdExceeded
  <2>2. VotersFor(result) \subseteq Keys /\ IsFiniteSet(VotersFor(result))
    <3>1. VotersFor(result) \subseteq tally.hasVoted
      BY VotersHaveVoted DEF SoundInv
    <3>2. tally.hasVoted \subseteq Keys
      BY DEF SoundInv, IInv, TypeOK, Tally
    <3>3. QED
      BY <3>1, <3>2, FS_Subset DEF SoundInv
  <2>3. WeightOf(VotersFor(result)) \in Nat
    BY <2>2, WeightType
  <2>4. tally.votesPerHash[result] = WeightOf(VotersFor(result)) % 256
    BY <2>1 DEF SoundInv, TallyIsWeight
  <2>5. WeightOf(VotersFor(result)) % 256 <= WeightOf(VotersFor(result))
    BY <2>3
  <2>6. QED
    BY <2>1, <2>3, <2>4, <2>5, ConstAssumption
<1>2. QED
  BY SoundInit, SoundStep, <1>1, PTL DEF Spec

-----------------------------------------------------------------------------
(* The committee's total weight fits a uint8: votesPerHash never wraps.    *)
CommitteeFitsUint8 == IsFiniteSet(Keys) /\ WeightOf(Keys) < 256

(* While decideOnHash collects, no hash's tally has reached the threshold. *)
PendingBelow ==
  outcome = "pending" =>
    \A h \in VoteHash : ~ThresholdExceeded(tally.votesPerHash[h])

(* The inductive invariant for QuorumDecided and the refinement.           *)
DecidedInv == SoundInv /\ PendingBelow

(* A set of keys weighs no more than the whole committee.                  *)
LEMMA WeightMono ==
  ASSUME IsFiniteSet(Keys), NEW S \in SUBSET Keys
  PROVE  WeightOf(S) \in Nat /\ WeightOf(S) <= WeightOf(Keys)
<1>1. IsFiniteSet(Votes(Keys))
  BY WeightType
<1>2. Votes(S) \subseteq Votes(Keys)
  BY DEF Votes
<1>3. IsFiniteSet(S)
  BY FS_Subset
<1>4. QED
  BY <1>1, <1>2, <1>3, WeightType, FS_Subset DEF WeightOf

(* A weight below 256 is its own remainder: the tally is the weight.       *)
LEMMA TallyExact ==
  ASSUME SoundInv, CommitteeFitsUint8, NEW h \in VoteHash
  PROVE  tally.votesPerHash[h] = WeightOf(VotersFor(h))
<1>1. VotersFor(h) \subseteq Keys
  <2>1. VotersFor(h) \subseteq tally.hasVoted
    BY VotersHaveVoted DEF SoundInv
  <2>2. QED
    BY <2>1 DEF SoundInv, IInv, TypeOK, Tally
<1>2. WeightOf(VotersFor(h)) \in 0 .. 255
  BY <1>1, WeightMono DEF CommitteeFitsUint8
<1>3. QED
  BY <1>2 DEF SoundInv, TallyIsWeight

(* Every step keeps the tallies of a collecting call below the threshold.  *)
LEMMA PendingStep == DecidedInv /\ [Next]_vars => PendingBelow'
<1> SUFFICES ASSUME DecidedInv, [Next]_vars PROVE PendingBelow'
  OBVIOUS
<1>1. ASSUME NEW m \in Msg, Send(m) PROVE PendingBelow'
  BY <1>1 DEF Send, DecidedInv, PendingBelow
<1>2. CASE Receive
  <2> DEFINE m == Head(inputChannel)
  <2>1. /\ tally \in Tally /\ tally' = Collect(tally, m, winning)
        /\ m \in Msg /\ m.hash \in VoteHash
    <3>1. tally \in Tally /\ inputChannel \in Seq(Msg) /\ inputChannel # << >>
      BY <1>2 DEF Receive, DecidedInv, SoundInv, IInv, TypeOK
    <3>2. m \in Msg
      BY <3>1
    <3>3. QED
      BY <1>2, <3>1, <3>2 DEF Receive, Msg, BlockMsg, SigSetMsg
  <2>2. CASE Decides(tally, m, winning)
    BY <1>2, <2>2 DEF Receive, PendingBelow
  <2>3. CASE Counts(tally, m, winning) /\ ~Decides(tally, m, winning)
    <3>1. outcome' = outcome /\ outcome = "pending"
      BY <1>2, <2>3 DEF Receive
    <3>2. tally'.votesPerHash =
            [tally.votesPerHash EXCEPT ![m.hash] = (@ + Committee[m.pk]) % 256]
      BY <2>1, <2>3 DEF Collect
    <3>3. ~ThresholdExceeded(tally'.votesPerHash[m.hash])
      BY <2>1, <2>3 DEF Decides
    <3>4. \A h \in VoteHash \ {m.hash} :
            tally'.votesPerHash[h] = tally.votesPerHash[h]
      BY <2>1, <3>2 DEF Tally
    <3>5. QED
      BY <3>1, <3>3, <3>4 DEF DecidedInv, PendingBelow
  <2>4. CASE ~Counts(tally, m, winning)
    <3>1. outcome' = outcome /\ tally'.votesPerHash = tally.votesPerHash
      BY <1>2, <2>1, <2>4 DEF Receive, Decides, Collect
    <3>2. QED
      BY <3>1 DEF DecidedInv, PendingBelow
  <2>5. QED
    BY <2>2, <2>3, <2>4
<1>3. CASE Timeout
  BY <1>3 DEF Timeout, PendingBelow
<1>4. CASE UNCHANGED vars
  BY <1>4 DEF vars, DecidedInv, PendingBelow
<1>5. QED
  BY <1>1, <1>2, <1>3, <1>4 DEF Next

(* The initial state satisfies the invariant for QuorumDecided.            *)
LEMMA DecidedInit == Init => DecidedInv
<1> SUFFICES ASSUME Init PROVE DecidedInv
  OBVIOUS
<1>1. PendingBelow
  BY ConstAssumption DEF Init, PendingBelow, EmptyTally, ThresholdExceeded
<1>2. QED
  BY SoundInit, <1>1 DEF DecidedInv

(***************************************************************************)
(* When the committee's total weight fits a uint8, decideOnHash returns as *)
(* soon as the verified votes it counted for a hash carry the threshold    *)
(* weight: while it collects, no hash has that weight.  Run vote_wrap      *)
(* shows the property fails for a heavier committee, so the hypothesis is  *)
(* the exact condition under which it holds.  The proof: a collecting      *)
(* call's tallies are all below the threshold (a tally that reaches it     *)
(* ends the call), and with no wrap a tally is its voters' weight.         *)
(***************************************************************************)
THEOREM QuorumDecidedCorrect ==
  ASSUME CommitteeFitsUint8
  PROVE  Spec => []QuorumDecided
<1>1. DecidedInv /\ [Next]_vars => DecidedInv'
  BY SoundStep, PendingStep DEF DecidedInv
<1>2. DecidedInv => QuorumDecided
  <2> SUFFICES ASSUME DecidedInv, outcome = "pending", NEW h \in VoteHash
               PROVE  WeightOf(VotersFor(h)) < Threshold
    BY DEF QuorumDecided
  <2>1. tally.votesPerHash[h] = WeightOf(VotersFor(h))
    BY TallyExact DEF DecidedInv
  <2>2. tally.votesPerHash[h] \in Nat
    <3>1. tally \in Tally
      BY DEF DecidedInv, SoundInv, IInv, TypeOK
    <3>2. QED
      BY <3>1 DEF Tally, Uint8
  <2>3. QED
    BY <2>1, <2>2, ConstAssumption DEF DecidedInv, PendingBelow,
       ThresholdExceeded
<1>3. QED
  BY DecidedInit, <1>1, <1>2, PTL DEF Spec

-----------------------------------------------------------------------------
(* The refinement mapping of CollectorRefinement.                          *)
BallotsOf == {<<counted[i].pk, counted[i].hash>> : i \in DOMAIN counted}
DecisionOf == [state |-> outcome, hash |-> result]

(* The abstract supporters of a hash are its verified voters.              *)
LEMMA SupportersAreVoters ==
  ASSUME SoundInv, NEW h
  PROVE  {v \in Keys : <<v, h>> \in BallotsOf} = VotersFor(h)
<1>1. counted \in Seq(Msg)
  BY DEF SoundInv, IInv, TypeOK
<1>2. \A i \in DOMAIN counted : counted[i].pk \in Keys
  <2>1. DOMAIN counted = 1 .. Len(counted)
    BY <1>1
  <2>2. \A i \in 1 .. Len(counted) : counted[i] \in Msg
    BY <1>1, ElementOfSeq
  <2>3. QED
    BY <2>1, <2>2 DEF Msg, BlockMsg, SigSetMsg
<1>3. QED
  BY <1>2 DEF SoundInv, CountedVerified, BallotsOf, VotersFor

(* The abstract weight of a set of voters is its committee weight.         *)
LEMMA TotalWeightIs ==
  ASSUME NEW S
  PROVE  Collector!TotalWeight(S) = WeightOf(S)
BY DEF Collector!TotalWeight, WeightOf, Votes, Collector!Cardinality, Cardinality

(* Counting a verified first vote is the abstract Accept of its key and    *)
(* hash.                                                                   *)
LEMMA ReceiveAccepts ==
  ASSUME DecidedInv, CommitteeFitsUint8, Receive,
         Counts(tally, Head(inputChannel), winning)
  PROVE  Collector!Accept(Head(inputChannel).pk, Head(inputChannel).hash)
<1> DEFINE m == Head(inputChannel)
           V == VotersFor(m.hash)
<1>1. /\ m \in Msg /\ m.pk \in Keys /\ m.hash \in VoteHash
      /\ tally \in Tally /\ counted \in Seq(Msg) /\ outcome = "pending"
      /\ Committee[m.pk] \in Nat
  <2>1. tally \in Tally /\ inputChannel \in Seq(Msg) /\ inputChannel # << >>
        /\ counted \in Seq(Msg) /\ outcome = "pending"
    BY DEF Receive, DecidedInv, SoundInv, IInv, TypeOK
  <2>2. m \in Msg
    BY <2>1
  <2>3. m.pk \in Keys /\ m.hash \in VoteHash
    BY <2>2 DEF Msg, BlockMsg, SigSetMsg
  <2>4. Committee[m.pk] \in Nat
    BY <2>3, ConstAssumption DEF Uint8
  <2>5. QED
    BY <2>1, <2>2, <2>3, <2>4
<1>2. counted' = Append(counted, m) /\ VerifyReductionMessage(m, winning)
      /\ UNCHANGED winning
  BY DEF Receive, Counts
<1>3. m.pk \notin tally.hasVoted
  BY DEF Counts
<1>4. ~Collector!HasBallot(m.pk)
  BY <1>3 DEF Collector!HasBallot, BallotsOf, DecidedInv, SoundInv, IInv,
     CountedHaveVoted
<1>5. BallotsOf' = BallotsOf \cup {<<m.pk, m.hash>>}
  BY <1>1, <1>2 DEF BallotsOf
<1>6. Collector!Supporters(m.hash) = V
  BY SupportersAreVoters DEF Collector!Supporters, DecidedInv, BallotsOf
<1>7. Decides(tally, m, winning)
        <=> Collector!TotalWeight(V \cup {m.pk}) >= Threshold
  <2>1. V \subseteq Keys /\ IsFiniteSet(V)
    <3>1. V \subseteq tally.hasVoted
      BY VotersHaveVoted DEF DecidedInv, SoundInv
    <3>2. QED
      BY <1>1, <3>1, FS_Subset DEF Tally, DecidedInv, SoundInv
  <2>2. m.pk \notin V
    BY <1>3, VotersHaveVoted DEF DecidedInv, SoundInv
  <2>3. WeightOf(V \cup {m.pk}) = WeightOf(V) + Committee[m.pk]
    BY <1>1, <2>1, <2>2, WeightAdd
  <2>4. WeightOf(V \cup {m.pk}) \in 0 .. 255
    <3>1. WeightOf(V \cup {m.pk}) \in Nat
          /\ WeightOf(V \cup {m.pk}) <= WeightOf(Keys)
      BY <1>1, <2>1, WeightMono DEF CommitteeFitsUint8
    <3>2. WeightOf(Keys) \in Nat
      BY WeightMono DEF CommitteeFitsUint8
    <3>3. QED
      BY <3>1, <3>2 DEF CommitteeFitsUint8
  <2>5. tally.votesPerHash[m.hash] = WeightOf(V)
    BY <1>1, TallyExact DEF DecidedInv
  <2>6. WeightOf(V) \in Nat
    BY <2>1, WeightType
  <2>7. Collect(tally, m, winning).votesPerHash[m.hash]
          = WeightOf(V \cup {m.pk})
    <3>1. Collect(tally, m, winning).votesPerHash[m.hash]
            = (tally.votesPerHash[m.hash] + Committee[m.pk]) % 256
      <4>1. Collect(tally, m, winning).votesPerHash =
              [tally.votesPerHash EXCEPT ![m.hash] = (@ + Committee[m.pk]) % 256]
        BY DEF Collect
      <4>2. QED
        BY <1>1, <4>1 DEF Tally
    <3>2. WeightOf(V) + Committee[m.pk] \in 0 .. 255
      BY <2>3, <2>4
    <3>3. (WeightOf(V) + Committee[m.pk]) % 256 = WeightOf(V) + Committee[m.pk]
      BY <3>2
    <3>4. QED
      BY <2>3, <2>5, <3>1, <3>3
  <2>8. QED
    BY <2>7, TotalWeightIs DEF Decides, ThresholdExceeded
<1>8. DecisionOf' =
        IF Collector!TotalWeight(V \cup {m.pk}) >= Threshold
          THEN [state |-> "quorum", hash |-> m.hash] ELSE DecisionOf
  BY <1>7 DEF Receive, DecisionOf
<1>9. QED
  BY <1>1, <1>4, <1>5, <1>6, <1>8 DEF Collector!Accept, DecisionOf, BallotsOf

(* Every step of decideOnHash is a step of the vote collector or leaves    *)
(* its ballots and decision unchanged.                                     *)
LEMMA RefinementStep ==
  ASSUME CommitteeFitsUint8
  PROVE  DecidedInv /\ [Next]_vars
           => [Collector!Next]_<<BallotsOf, DecisionOf>>
<1> SUFFICES ASSUME DecidedInv, [Next]_vars
             PROVE  [Collector!Next]_<<BallotsOf, DecisionOf>>
  OBVIOUS
<1>1. ASSUME NEW m \in Msg, Send(m)
      PROVE  UNCHANGED <<BallotsOf, DecisionOf>>
  BY <1>1 DEF Send, BallotsOf, DecisionOf
<1>2. CASE Receive
  <2> DEFINE m == Head(inputChannel)
  <2>1. CASE Counts(tally, m, winning)
    <3>1. m.pk \in Keys /\ m.hash \in VoteHash
      <4>1. inputChannel \in Seq(Msg) /\ inputChannel # << >>
        BY <1>2 DEF Receive, DecidedInv, SoundInv, IInv, TypeOK
      <4>2. m \in Msg
        BY <4>1
      <4>3. QED
        BY <4>2 DEF Msg, BlockMsg, SigSetMsg
    <3>2. Collector!Accept(m.pk, m.hash)
      BY <1>2, <2>1, ReceiveAccepts
    <3>3. Collector!Next
      <4>1. \E v \in Keys, h \in VoteHash : Collector!Accept(v, h)
        BY <3>1, <3>2 DEF Collector!Accept
      <4>2. QED
        BY <4>1 DEF Collector!Next
    <3>4. QED
      BY <3>3
  <2>2. CASE ~Counts(tally, m, winning)
    BY <1>2, <2>2 DEF Receive, Decides, BallotsOf, DecisionOf
  <2>3. QED
    BY <2>1, <2>2
<1>3. CASE Timeout
  <2>1. Collector!TimeOut
    BY <1>3 DEF Timeout, Collector!TimeOut, BallotsOf, DecisionOf
  <2>2. QED
    BY <2>1 DEF Collector!Next
<1>4. CASE UNCHANGED vars
  BY <1>4 DEF vars, BallotsOf, DecisionOf
<1>5. QED
  BY <1>1, <1>2, <1>3, <1>4 DEF Next

(***************************************************************************)
(* When the committee's total weight fits a uint8, decideOnHash implements *)
(* the vote collector of the spec: with the counted messages as accepted   *)
(* ballots, a counted vote is a voter's first ballot, and the call returns *)
(* a hash exactly when the ballots accepted for it reach the threshold     *)
(* weight, or the zero hash on a timeout.  Run vote_wrap shows a heavier   *)
(* committee breaks it.  Each counted vote maps to Accept, a timeout to    *)
(* TimeOut, and every other step (a send, a skipped or forged vote) to a   *)
(* stutter; the invariant of QuorumDecidedCorrect gives the tally as the   *)
(* accepted weight and the first-ballot condition.                         *)
(***************************************************************************)
THEOREM CollectorRefinementCorrect ==
  ASSUME CommitteeFitsUint8
  PROVE  Spec => CollectorRefinement
<1>1. Init => Collector!Init
  BY DEF Init, Collector!Init
<1>2. DecidedInv /\ [Next]_vars => DecidedInv'
  BY SoundStep, PendingStep DEF DecidedInv
<1>3. DecidedInv /\ [Next]_vars
        => [Collector!Next]_<<BallotsOf, DecisionOf>>
  BY RefinementStep
<1>4. QED
  BY <1>1, <1>2, <1>3, DecidedInit, PTL
     DEF Spec, CollectorRefinement, Collector!Spec, BallotsOf, DecisionOf

=============================================================================
