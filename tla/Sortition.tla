------------------------------ MODULE Sortition ------------------------------
(***************************************************************************)
(* One call of sortition or verifySortition (sortition.go) and the         *)
(* calcVotes loop they end in.                                             *)
(*                                                                         *)
(* calcVotes walks pos = 0, 0.01, 0.02, ... and stops at the first bucket  *)
(* [pos, pos + 0.01] whose densities p1 = Prob(pos), p2 = Prob(pos + 0.01) *)
(* of Normal(mu = stake / 100, sigma = threshold / totalStake) satisfy     *)
(* p1 <= target <= p2, target = score / 2^256.  The floats are abstracted  *)
(* by what the comparisons yield.  For sigma > 0 the density is a bell     *)
(* around mu: Prob(x) >= target exactly when |x - mu| <= W, where W is the *)
(* half-width of the target's level set; a target above the peak          *)
(* 1 / (sigma * sqrt(2 pi)) has no level set.  So the test holds at grid   *)
(* index i exactly when |i - 100 mu| >= 100 W >= |i + 1 - 100 mu|.  A      *)
(* score is given by its level: 2 * 100 W, an odd number (no ties), or     *)
(* AbovePeak.  For sigma = 0, or 0 / 0 when totalStake = 0, gonum's        *)
(* LogProb is NaN and every comparison is false.  Rounding of pos is left  *)
(* out.                                                                    *)
(***************************************************************************)
EXTENDS Integers

CONSTANTS
  MinimumStake,  \* consensus.MinimumStake
  Thresholds,    \* values of ctx.Threshold
  Stakes,        \* values of the stake (ctx.weight, or the voter's stake)
  TotalStakes,   \* values of ctx.W
  Levels,        \* levels of scores: 200 W, odd
  MaxPos         \* the grid index past which the loop is no longer counted

ASSUME SortitionAssumption ==
  /\ MinimumStake \in Nat
  /\ Thresholds \subseteq Nat /\ Stakes \subseteq Nat
  /\ TotalStakes \subseteq Nat
  /\ Levels \subseteq Nat /\ \A l \in Levels : l % 2 = 1
  /\ MaxPos \in Nat /\ \A s \in Stakes : MaxPos > 100 * (s \div 100)

(* The level of a score above the peak: it has no level set.              *)
AbovePeak == -1
Callers == {"sortition", "verify"}
ErrorKinds == {"none", "error"}

(* sigma * sqrt(2 pi) > 1, i.e. the peak of the density is below 1, so a   *)
(* score may lie above it (2 pi taken as 710 / 113).                       *)
PeakBelowOne(t, total) == 710 * t * t > 113 * total * total

(* The calls the program can make: a score above the peak only when the    *)
(* peak is below 1.                                                        *)
Calls ==
  {c \in [caller: Callers, threshold: Thresholds, stake: Stakes,
          totalStake: TotalStakes, level: Levels \cup {AbovePeak}] :
     c.level = AbovePeak => PeakBelowOne(c.threshold, c.totalStake)}

VARIABLES
  call,    \* the call and its inputs
  pc,      \* "score", "checks", "loop" or "done"
  votes,   \* pos / 0.01 and the votes counted so far
  result   \* [votes, err] returned (ctx.votes for sortition)

vars == <<call, pc, votes, result>>

Init ==
  /\ call \in Calls
  /\ pc = "score"
  /\ votes = 0
  /\ result = [votes |-> 0, err |-> "none", calc |-> FALSE]

(* calc: the vote count is the one calcVotes computed.                    *)
Return(v, e, calc) ==
  /\ pc' = "done"
  /\ result' = [votes |-> v, err |-> e, calc |-> calc]

(* verifyScore passing BLSVerify's "Invalid Signature" error on.          *)
ScorePropagating(outcome) ==
  /\ pc = "score"
  /\ \/ outcome = "valid" /\ pc' = "checks" /\ UNCHANGED result
     \/ outcome = "invalid" /\ call.caller = "verify"
        /\ Return(0, "invalidSignature", FALSE)
     \/ outcome = "error" /\ Return(0, "error", FALSE)
  /\ UNCHANGED <<call, votes>>

(***************************************************************************)
(* sortition: ctx.BLSSign of the role's message, an error is returned.     *)
(* verifySortition: verifyScore's BLSVerify; "Invalid Signature" is zero   *)
(* votes without error, any other error is returned, a valid score goes    *)
(* on to calcVotes.                                                        *)
(***************************************************************************)
Score(outcome) ==
  /\ pc = "score"
  /\ \/ outcome = "valid" /\ pc' = "checks" /\ UNCHANGED result
     \/ outcome = "invalid" /\ call.caller = "verify" /\ Return(0, "none", FALSE)
     \/ outcome = "error" /\ Return(0, "error", FALSE)
  /\ UNCHANGED <<call, votes>>

Mu == call.stake \div 100

(* The sanity checks of calcVotes.  p > 1 \/ p < 0 is false for NaN.       *)
Rejected ==
  \/ call.threshold > call.totalStake
  \/ call.stake < MinimumStake
  \/ call.totalStake > 0 /\ call.threshold > call.totalStake

Checks ==
  /\ pc = "checks"
  /\ \/ Rejected /\ Return(0, "error", FALSE)
     \/ ~Rejected /\ pc' = "loop" /\ UNCHANGED result
  /\ UNCHANGED <<call, votes>>

(* Distance of grid index i from the mean, doubled, in 0.01 units.         *)
Dist2(i) == IF i >= 100 * Mu THEN 2 * (i - 100 * Mu) ELSE 2 * (100 * Mu - i)

(* The density is a number: sigma > 0.                                     *)
SigmaPositive == call.threshold > 0 /\ call.totalStake > 0

(* The bucket tested one step ahead.                                      *)
InBucketAhead(i) ==
  /\ SigmaPositive
  /\ call.level /= AbovePeak
  /\ Dist2(i + 1) >= call.level
  /\ call.level >= Dist2(i + 2)

(* target >= dist.Prob(pos) && target <= dist.Prob(pos + 0.01)             *)
InBucket(i) ==
  /\ SigmaPositive
  /\ call.level /= AbovePeak
  /\ Dist2(i) >= call.level
  /\ call.level >= Dist2(i + 1)

(* A loop that forgets pos += 0.01.                                       *)
LoopStepNoAdvance ==
  /\ pc = "loop"
  /\ \/ InBucket(votes) /\ Return(votes, "none", TRUE) /\ UNCHANGED votes
     \/ /\ ~InBucket(votes)
        /\ UNCHANGED <<votes, pc, result>>
  /\ UNCHANGED call

(* One turn of the loop: break, or pos += 0.01; votes++ (past MaxPos the   *)
(* density only falls and the count is no longer followed).                *)
LoopStep ==
  /\ pc = "loop"
  /\ \/ InBucket(votes) /\ Return(votes, "none", TRUE) /\ UNCHANGED votes
     \/ /\ ~InBucket(votes)
        /\ votes' = IF votes < MaxPos THEN votes + 1 ELSE votes
        /\ UNCHANGED <<pc, result>>
  /\ UNCHANGED call

Next ==
  \/ \E o \in {"valid", "invalid", "error"} : Score(o)
  \/ Checks
  \/ LoopStep

Spec == Init /\ [][Next]_vars

(* The loop runs on the caller's goroutine until it breaks.                *)
FairSpec == Spec /\ WF_vars(LoopStep)

-----------------------------------------------------------------------------
TypeOK ==
  /\ call \in Calls
  /\ pc \in {"score", "checks", "loop", "done"}
  /\ votes \in 0 .. MaxPos
  /\ result \in [votes: 0 .. MaxPos, err: ErrorKinds, calc: BOOLEAN]

(* The bucket count of spec 4.1: the buckets below mu passed before the    *)
(* one holding the score, floor(100 mu - W).                               *)
ReferenceVotes == (200 * Mu - call.level) \div 2

(* The score lies between the density at 0 and its peak.                   *)
InRange ==
  SigmaPositive /\ call.level /= AbovePeak /\ call.level < 200 * Mu

(***************************************************************************)
(* When calcVotes returns a vote count, it is the number of 0.01-wide      *)
(* buckets traversed before the one holding the score (spec 4.1).          *)
(***************************************************************************)
VotesMatchReference ==
  (pc = "done" /\ result.calc)
    => result.votes = ReferenceVotes

(***************************************************************************)
(* calcVotes returns whenever the score lies within the density's range,   *)
(* between its value at 0 and its peak.                                    *)
(***************************************************************************)
ReturnsInRange == (pc = "loop" /\ InRange) ~> pc = "done"

(***************************************************************************)
(* For every valid input (threshold <= totalStake, stake >= MinimumStake,  *)
(* 0 <= threshold / totalStake <= 1) calcVotes returns (spec 8).           *)
(***************************************************************************)
CalcVotesReturns == pc = "loop" ~> pc = "done"

=============================================================================
