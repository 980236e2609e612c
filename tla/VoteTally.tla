----------------------------- MODULE VoteTally -----------------------------
(***************************************************************************)
(* The data of a reduction step of the Reducer (reduction/reduction.go):   *)
(* reduction messages, their verification, and the per-step tally that    *)
(* decideOnHash keeps in its three locals votesPerHash, hasVoted and       *)
(* voteSet.  This module has no variables: VoteCollection (one call of     *)
(* decideOnHash) and Reducer (the Listen loop and its runReduction         *)
(* goroutines) both build on it.                                           *)
(***************************************************************************)
EXTENDS Naturals, FiniteSets

CONSTANTS
  Keys,       \* BLS public keys that may appear in a reduction message
  Committee,  \* votingCommittee: key -> vote weight (uint8, 0 = not a member)
  Threshold,  \* committeeStore.Threshold()
  Hashes,     \* candidate block hashes
  ZeroHash,   \* make([]byte, 32): the hash decideOnHash returns on timeout
  NilHash,    \* a nil []byte (currentHash, winningBlockHash before they are set)
  Rounds,     \* round numbers carried by messages
  Steps       \* step numbers carried by messages

Uint8 == 0 .. 255

ASSUME ConstAssumption ==
  /\ Committee \in [Keys -> Uint8]
  /\ Threshold \in Nat \ {0}
  /\ ZeroHash \notin Hashes
  /\ NilHash \notin Hashes \cup {ZeroHash}
  /\ Rounds \subseteq Nat
  /\ Steps \subseteq Uint8

(* A 32-byte hash a vote can carry: a candidate or the all-zero hash.      *)
VoteHash == Hashes \cup {ZeroHash}

(***************************************************************************)
(* A decoded reduction message.  sigOK abstracts the BLS signature of the  *)
(* voted hash (msg.VerifyBLSSignature); sigSet tells a sigSetReduction     *)
(* message from a blockReduction one; wbh is the WinningBlockHash field of *)
(* a sigSetReduction message.                                              *)
(***************************************************************************)
BlockMsg ==
  [pk: Keys, round: Rounds, step: Steps, hash: VoteHash, sigOK: BOOLEAN,
   sigSet: {FALSE}, wbh: {NilHash}]
SigSetMsg ==
  [pk: Keys, round: Rounds, step: Steps, hash: VoteHash, sigOK: BOOLEAN,
   sigSet: {TRUE}, wbh: Hashes]
Msg == BlockMsg \cup SigSetMsg

(***************************************************************************)
(* The locals of one decideOnHash call.  voteSet is kept as its length:    *)
(* reductionSuccessful reads nothing else of it.                           *)
(***************************************************************************)
Tally == [votesPerHash: [VoteHash -> Uint8], hasVoted: SUBSET Keys,
          voteSet: Nat]

EmptyTally ==
  [votesPerHash |-> [h \in VoteHash |-> 0], hasVoted |-> {}, voteSet |-> 0]

(* verifyReductionMessage with checkWinningBlockHash; winning is the       *)
(* Reducer's winningBlockHash.                                             *)
VerifyReductionMessage(m, winning) ==
  /\ m.sigOK
  /\ m.sigSet => m.wbh = winning

(* Off by one: a hash one vote short of the threshold wins.               *)
ThresholdExceededLow(votes) == votes >= Threshold - 1

(* Strict comparison: a hash with exactly the threshold does not win.     *)
ThresholdExceededStrict(votes) == votes > Threshold

ThresholdExceeded(votes) == votes >= Threshold

(* addVotesToVoteSet appends to its own copy of the slice header: the      *)
(* caller's voteSet keeps its length.                                      *)
AddVotesToVoteSet(voteSet, pk) == voteSet

(* Without the hasVoted check: every verified message is counted.         *)
CountsNoDedup(t, m, winning) == VerifyReductionMessage(m, winning)

(* The message is added to the tally: a first message of its key that     *)
(* verifies.                                                               *)
Counts(t, m, winning) ==
  /\ m.pk \notin t.hasVoted
  /\ VerifyReductionMessage(m, winning)

(***************************************************************************)
(* One message taken from inputChannel by decideOnHash: a key that has     *)
(* voted is skipped; otherwise it is marked as voted before verification,  *)
(* and a message that verifies adds its key's weight (uint8 addition) to   *)
(* the tally of its hash.                                                  *)
(***************************************************************************)
Collect(t, m, winning) ==
  IF Counts(t, m, winning)
    THEN [votesPerHash |->
            [t.votesPerHash EXCEPT ![m.hash] = (@ + Committee[m.pk]) % 256],
          hasVoted |-> t.hasVoted \cup {m.pk},
          voteSet |-> AddVotesToVoteSet(t.voteSet, m.pk)]
    ELSE [t EXCEPT !.hasVoted = @ \cup {m.pk}]

(* decideOnHash returns on this message: it was counted and its hash now   *)
(* has the threshold.                                                      *)
Decides(t, m, winning) ==
  /\ Counts(t, m, winning)
  /\ ThresholdExceeded(Collect(t, m, winning).votesPerHash[m.hash])

(* removeDeviatingVotes also works on its own slice header: the caller's   *)
(* voteSet keeps its length.                                               *)
RemoveDeviatingVotes(voteSet, hash) == voteSet

=============================================================================
