--------------------------- MODULE VoteTallyLemmas ---------------------------
(***************************************************************************)
(* Facts about the tally operators of VoteTally (decideOnHash's locals),   *)
(* used by the proofs about one decideOnHash call and about the Reducer.   *)
(***************************************************************************)
EXTENDS VoteTally, TLAPS

(* The tally operators keep a tally well typed.                            *)
LEMMA CollectType ==
  ASSUME NEW t \in Tally, NEW m \in Msg, NEW w
  PROVE  Collect(t, m, w) \in Tally
<1>1. m.pk \in Keys /\ m.hash \in VoteHash
  BY DEF Msg, BlockMsg, SigSetMsg
<1>2. Committee[m.pk] \in Uint8
  BY <1>1, ConstAssumption
<1>3. t.votesPerHash \in [VoteHash -> Uint8] /\ t.hasVoted \subseteq Keys
      /\ t.voteSet \in Nat
  BY DEF Tally
<1>4. [t.votesPerHash EXCEPT ![m.hash] = (@ + Committee[m.pk]) % 256]
        \in [VoteHash -> Uint8]
  <2>1. t.votesPerHash[m.hash] \in Nat /\ Committee[m.pk] \in Nat
    BY <1>1, <1>2, <1>3 DEF Uint8
  <2>2. (t.votesPerHash[m.hash] + Committee[m.pk]) % 256 \in Uint8
    BY <2>1 DEF Uint8
  <2>3. QED
    BY <1>1, <1>3, <2>2
<1>5. CASE Counts(t, m, w)
  BY <1>1, <1>3, <1>4, <1>5 DEF Collect, Tally, AddVotesToVoteSet
<1>6. CASE ~Counts(t, m, w)
  BY <1>1, <1>3, <1>6 DEF Collect, Tally
<1>7. QED
  BY <1>5, <1>6

(* The empty tally a decideOnHash call starts from is a tally.            *)
LEMMA EmptyTallyType == EmptyTally \in Tally
BY DEF EmptyTally, Tally, Uint8

=============================================================================
