---------------------------- MODULE ReducerProofs ----------------------------
(***************************************************************************)
(* Proofs about the Reducer (Listen and its runReduction goroutines) for   *)
(* every set of keys, committee, channel capacity and delivery bounds.     *)
(***************************************************************************)
EXTENDS Reducer, VoteTallyLemmas, SequenceTheorems, TLAPS

-----------------------------------------------------------------------------
(* Type lemmas for the helpers the actions are built from.                 *)

LEMMA MsgFields ==
  ASSUME NEW m \in Msg
  PROVE  /\ m.pk \in Keys /\ m.round \in Nat /\ m.step \in Uint8
         /\ m.hash \in VoteHash /\ m.sigSet \in BOOLEAN
BY ConstAssumption DEF Msg, BlockMsg, SigSetMsg

LEMMA IncrementStepType ==
  ASSUME NEW p \in RState
  PROVE  IncrementStep(p) \in RState
BY DEF IncrementStep, RState, Uint8

LEMMA InitialiseType ==
  ASSUME NEW p \in RState, NEW m \in Msg
  PROVE  Initialise(p, m) \in RState
BY MsgFields DEF Initialise, RState

LEMMA NewWorkerType ==
  ASSUME NEW b \in BOOLEAN, NEW p \in RState
  PROVE  NewWorker(b, p) \in Worker
BY EmptyTallyType DEF NewWorker, Worker, WorkerPc, RState, VoteHash

LEMMA EndDecideType ==
  ASSUME NEW w \in Worker, w.pc \in {"decide1", "decide2"},
         NEW h \in VoteHash, NEW vs \in Nat
  PROVE  EndDecide(w, h, vs) \in Worker
BY DEF EndDecide, Worker, WorkerPc

(* Replacing one element of a sequence keeps it a sequence over S.         *)
LEMMA SeqExceptType ==
  ASSUME NEW S, NEW s \in Seq(S), NEW i \in DOMAIN s, NEW x \in S
  PROVE  [s EXCEPT ![i] = x] \in Seq(S)
OBVIOUS

LEMMA ReductionVoteType ==
  ASSUME NEW p \in RState
  PROVE  ReductionVote(p) \in Vote
BY DEF ReductionVote, Vote, RState

LEMMA AgreementVoteType ==
  ASSUME NEW p \in RState
  PROVE  AgreementVote(p) \in Vote
BY DEF AgreementVote, AgreementHash, Vote, RState, VoteHash

(* The Reducer a worker runs on is a Reducer state.                       *)
LEMMA PType ==
  ASSUME TypeOK, NEW i \in DOMAIN workers
  PROVE  P(i) \in RState
<1>1. workers[i] \in Worker
  BY DEF TypeOK
<1>2. QED
  BY <1>1 DEF P, TypeOK, Worker

(* SetP writes a Reducer state and a worker.                               *)
LEMMA SetPType ==
  ASSUME TypeOK, NEW i \in DOMAIN workers, NEW p \in RState,
         NEW w \in Worker, SetP(i, p, w)
  PROVE  reducer' \in RState /\ workers' \in Seq(Worker)
<1>1. reducer' \in RState
  BY DEF SetP, TypeOK
<1>2. [w EXCEPT !.copy = p] \in Worker
  BY DEF Worker
<1>3. workers' \in Seq(Worker)
  BY <1>2, SeqExceptType DEF SetP, TypeOK
<1>4. QED
  BY <1>1, <1>3

(* handleMessage keeps the variables it writes well typed.                 *)
LEMMA HandleMessageType ==
  ASSUME TypeOK, NEW p \in RState, NEW m \in Msg, NEW b \in BOOLEAN,
         NEW ret \in {"top", "replay", "select"},
         HandleMessage(p, m, b, ret)
  PROVE  /\ reducer' \in RState /\ workers' \in Seq(Worker)
         /\ queue' \subseteq Msg
         /\ listenPc' \in {"top", "replay", "select", "push"}
         /\ pushing' \in Msg \cup {NoMsg}
         /\ pushReturn' \in {"top", "replay", "select"}
         /\ listenPc' = "push" => pushing' \in Msg
<1>1. CASE ShouldBeProcessed(p, m) /\ IsFromCorrectPhase(p, m)
  <2>1. /\ listenPc' = "push" /\ pushing' = m /\ pushReturn' = ret
        /\ queue' = queue
    BY <1>1 DEF HandleMessage
  <2>2. CASE ~p.reducing
    <3> DEFINE q == [p EXCEPT !.reducing = TRUE]
    <3>1. q \in RState
      BY DEF RState
    <3>2. NewWorker(b, q) \in Worker
      BY <3>1, NewWorkerType
    <3>3. workers' = Append(workers, NewWorker(b, q))
          /\ reducer' \in {q, reducer}
      BY <1>1, <2>2 DEF HandleMessage
    <3>4. workers' \in Seq(Worker)
      BY <3>2, <3>3 DEF TypeOK
    <3>5. reducer' \in RState
      BY <3>1, <3>3 DEF TypeOK
    <3>6. QED
      BY <2>1, <3>4, <3>5 DEF TypeOK
  <2>3. CASE p.reducing
    <3>1. workers' = workers /\ reducer' = reducer
      BY <1>1, <2>3 DEF HandleMessage
    <3>2. QED
      BY <2>1, <3>1 DEF TypeOK
  <2>4. QED
    BY <2>2, <2>3
<1>2. CASE ~(ShouldBeProcessed(p, m) /\ IsFromCorrectPhase(p, m))
  <2>1. /\ queue' \in {queue \cup {m}, queue} /\ listenPc' = ret
        /\ UNCHANGED <<workers, reducer, pushing, pushReturn>>
    BY <1>2 DEF HandleMessage
  <2>2. QED
    BY <2>1 DEF TypeOK
<1>3. QED
  BY <1>1, <1>2

LEMMA TypeInit == Init => TypeOK
BY ReducerAssumption DEF Init, TypeOK, RState, NoMsg, Uint8

(***************************************************************************)
(* TypeOK is inductive together with: while Listen is blocked in the send  *)
(* of handleMessage it holds a message (Push appends it to inputChannel).  *)
(***************************************************************************)
PushingMsg == listenPc = "push" => pushing \in Msg

TypeInv == TypeOK /\ PushingMsg

LEMMA TypeInvInit == Init => TypeInv
BY TypeInit DEF Init, TypeInv, PushingMsg

(* The steps of Listen itself, the disjuncts of Next but the goroutines'. *)
ListenNext ==
  \/ GetMessages \/ Replay \/ Push \/ Quit \/ OutputResult
  \/ \E rd \in Rounds : UpdateRound(rd)
  \/ \E h \in VoteHash : SelectionResult(h)
  \/ \E h \in Hashes : MoveToSigSetPhase(h)
  \/ \E m \in NetMsgs : ProcessMessage(m)
  \/ Stopped

LEMMA ListenStepType ==
  ASSUME TypeInv, ListenNext
  PROVE  TypeInv'
<1> USE DEF TypeInv
<1>1. CASE GetMessages
  BY <1>1 DEF GetMessages, TypeOK, PushingMsg
<1>2. CASE Replay
  <2>1. PICK m \in replaying :
          LET rest == replaying \ {m}
              ret == IF rest = {} THEN "select" ELSE "replay"
          IN /\ replaying' = rest
             /\ IF m.sigSet = reducer.inSigSetPhase
                  THEN HandleMessage(reducer, m, TRUE, ret)
                  ELSE /\ listenPc' = ret
                       /\ UNCHANGED <<reducer, queue, workers, pushing,
                                      pushReturn>>
    BY <1>2 DEF Replay
  <2>2. m \in Msg
    BY DEF TypeOK
  <2>3. UNCHANGED <<inputChannel, outputChannel, outgoing, env>>
        /\ replaying' \subseteq Msg
    BY <1>2, <2>1 DEF Replay, TypeOK
  <2>4. CASE m.sigSet = reducer.inSigSetPhase
    BY <2>1, <2>2, <2>3, <2>4, HandleMessageType DEF TypeOK, PushingMsg
  <2>5. CASE m.sigSet # reducer.inSigSetPhase
    BY <2>1, <2>3, <2>5 DEF TypeOK, PushingMsg
  <2>6. QED
    BY <2>4, <2>5
<1>3. CASE Push
  <2>1. pushing \in Msg /\ Len(inputChannel) < InputCap
    BY <1>3 DEF Push, PushingMsg
  <2>2. inputChannel' \in Seq(Msg) /\ Len(inputChannel') <= InputCap
    BY <1>3, <2>1, ReducerAssumption, AppendProperties DEF Push, TypeOK
  <2>3. listenPc' \in {"top", "replay", "select"} /\ pushing' = NoMsg
    BY <1>3 DEF Push, TypeOK
  <2>4. QED
    BY <1>3, <2>2, <2>3 DEF Push, TypeOK, PushingMsg
<1>4. CASE Quit
  BY <1>4 DEF Quit, TypeOK, PushingMsg
<1>5. CASE OutputResult
  <2>1. outputChannel' = Tail(outputChannel) /\ outputChannel # << >>
    BY <1>5 DEF OutputResult
  <2>2. outputChannel' \in Seq({"nil", "voteSet"}) /\ Len(outputChannel') <= 1
    BY <2>1, HeadTailProperties DEF TypeOK
  <2>3. IncrementStep([reducer EXCEPT !.currentHash = NilHash]) \in RState
    <3>1. [reducer EXCEPT !.currentHash = NilHash] \in RState
      BY DEF TypeOK, RState
    <3>2. QED
      BY <3>1, IncrementStepType
  <2>4. reducer' \in RState /\ outgoing' \subseteq Vote
        /\ listenPc' \in {"top", "stopped"}
    BY <1>5, <2>3, AgreementVoteType DEF OutputResult, TypeOK
  <2>5. QED
    BY <1>5, <2>2, <2>4 DEF OutputResult, TypeOK, PushingMsg
<1>6. ASSUME NEW rd \in Rounds, UpdateRound(rd) PROVE TypeInv'
  <2>1. rd \in Nat
    BY ConstAssumption
  <2>2. reducer' = [round |-> rd, step |-> 1,
                    reducing |-> reducer.reducing,
                    currentHash |-> reducer.currentHash,
                    inSigSetPhase |-> FALSE, winningBlockHash |-> NilHash]
    BY <1>6 DEF UpdateRound, TypeOK, RState
  <2>3. reducer' \in RState
    BY <2>1, <2>2 DEF TypeOK, RState, Uint8
  <2>4. QED
    BY <1>6, <2>3 DEF UpdateRound, TypeOK, PushingMsg
<1>7. ASSUME NEW h \in VoteHash, SelectionResult(h) PROVE TypeInv'
  <2>1. [reducer EXCEPT !.currentHash = h] \in RState
    BY DEF TypeOK, RState
  <2>2. reducer' \in RState /\ outgoing' \subseteq Vote
    BY <1>7, <2>1, ReductionVoteType DEF SelectionResult, TypeOK
  <2>3. QED
    BY <1>7, <2>2 DEF SelectionResult, TypeOK, PushingMsg
<1>8. ASSUME NEW h \in Hashes, MoveToSigSetPhase(h) PROVE TypeInv'
  <2>1. reducer' = [round |-> reducer.round, step |-> 1,
                    reducing |-> reducer.reducing,
                    currentHash |-> reducer.currentHash,
                    inSigSetPhase |-> TRUE, winningBlockHash |-> h]
    BY <1>8 DEF MoveToSigSetPhase, TypeOK, RState
  <2>2. reducer' \in RState
    BY <2>1 DEF TypeOK, RState, Uint8
  <2>3. QED
    BY <1>8, <2>2 DEF MoveToSigSetPhase, TypeOK, PushingMsg
<1>9. ASSUME NEW m \in NetMsgs, ProcessMessage(m) PROVE TypeInv'
  <2>1. m \in Msg /\ Initialise(reducer, m) \in RState
    BY ReducerAssumption, InitialiseType DEF TypeOK
  <2>2. HandleMessage(Initialise(reducer, m), m, FALSE, "top")
        /\ UNCHANGED <<inputChannel, outputChannel, replaying, outgoing>>
        /\ env' = [env EXCEPT !.net = @ + 1]
    BY <1>9 DEF ProcessMessage
  <2>3. QED
    BY <2>1, <2>2, HandleMessageType DEF TypeOK, PushingMsg
<1>10. CASE Stopped
  BY <1>10 DEF Stopped, vars, TypeOK, PushingMsg
<1>11. QED
  BY <1>1, <1>2, <1>3, <1>4, <1>5, <1>6, <1>7, <1>8, <1>9, <1>10
     DEF ListenNext

LEMMA WorkerStepType ==
  ASSUME TypeInv, NEW i \in DOMAIN workers, WorkerStep(i)
  PROVE  TypeInv'
<1> USE DEF TypeInv
<1>1. workers[i] \in Worker
  BY DEF TypeOK
<1>2. CASE WorkerReceive(i)
  <2> DEFINE w == workers[i]
             m == Head(inputChannel)
             wb == P(i).winningBlockHash
             t == Collect(w.tally, m, wb)
             w1 == [w EXCEPT !.tally = t,
                      !.counted = IF Counts(w.tally, m, wb) THEN @ \cup {m}
                                  ELSE @]
  <2>1. inputChannel # << >> /\ m \in Msg /\ w.pc \in {"decide1", "decide2"}
    BY <1>2, HeadTailProperties DEF WorkerReceive, Deciding, TypeOK
  <2>2. t \in Tally
    BY <1>1, <2>1, CollectType DEF Worker
  <2>3. w1 \in Worker /\ w1.pc = w.pc
    BY <1>1, <2>1, <2>2 DEF Worker
  <2>4. EndDecide(w1, m.hash, RemoveDeviatingVotes(t.voteSet, m.hash)) \in Worker
    BY <2>1, <2>2, <2>3, MsgFields, EndDecideType DEF RemoveDeviatingVotes, Tally
  <2>5. workers' \in Seq(Worker)
    BY <1>2, <2>3, <2>4, SeqExceptType DEF WorkerReceive, TypeOK
  <2>6. inputChannel' = Tail(inputChannel)
    BY <1>2 DEF WorkerReceive
  <2>7. inputChannel' \in Seq(Msg) /\ Len(inputChannel') <= InputCap
    BY <2>1, <2>6, ReducerAssumption, HeadTailProperties DEF TypeOK
  <2>8. QED
    BY <1>2, <2>5, <2>7 DEF WorkerReceive, TypeOK, PushingMsg
<1>3. CASE WorkerTimeout(i)
  <2>1. EndDecide(workers[i], ZeroHash, 0) \in Worker
    BY <1>1, <1>3, EndDecideType DEF WorkerTimeout, Deciding, VoteHash
  <2>2. workers' \in Seq(Worker)
    BY <1>3, <2>1, SeqExceptType DEF WorkerTimeout, TypeOK
  <2>3. QED
    BY <1>3, <2>2 DEF WorkerTimeout, TypeOK, PushingMsg
<1>4. CASE AfterStep1(i)
  <2> DEFINE w == workers[i]
             p == IncrementStep([P(i) EXCEPT !.currentHash = w.hash1])
             w2 == [w EXCEPT !.pc = "decide2", !.tally = EmptyTally,
                      !.counted = {}, !.dRound = p.round, !.dStep = p.step]
  <2>1. p \in RState
    <3>1. [P(i) EXCEPT !.currentHash = w.hash1] \in RState
      BY <1>1, PType DEF RState, Worker, VoteHash
    <3>2. QED
      BY <3>1, IncrementStepType
  <2>2. w2 \in Worker
    BY <1>1, <2>1, EmptyTallyType DEF Worker, WorkerPc, RState
  <2>3. SetP(i, p, w2)
    BY <1>4 DEF AfterStep1
  <2>4. reducer' \in RState /\ workers' \in Seq(Worker)
    BY <2>1, <2>2, <2>3, SetPType
  <2>5. outgoing' \subseteq Vote
    BY <1>4, <2>1, ReductionVoteType DEF AfterStep1, TypeOK
  <2>6. QED
    BY <1>4, <2>4, <2>5 DEF AfterStep1, TypeOK, PushingMsg
<1>5. CASE Finish(i)
  <2> DEFINE w == workers[i]
             p == [P(i) EXCEPT !.reducing = FALSE]
             ok == ReductionSuccessful(w.hash1, w.hash2, w.vs1, w.vs2)
             w2 == [w EXCEPT !.pc = "output",
                      !.out = IF ok THEN "voteSet" ELSE "nil"]
  <2>1. p \in RState
    BY PType DEF RState
  <2>2. w2 \in Worker
    BY <1>1 DEF Worker, WorkerPc
  <2>3. reducer' \in RState /\ workers' \in Seq(Worker)
    BY <1>5, <2>1, <2>2, SetPType DEF Finish
  <2>4. QED
    BY <1>5, <2>3 DEF Finish, TypeOK, PushingMsg
<1>6. CASE Output(i)
  <2>1. [workers[i] EXCEPT !.pc = "done"] \in Worker
    BY <1>1 DEF Worker, WorkerPc
  <2>2. workers' \in Seq(Worker)
    BY <1>6, <2>1, SeqExceptType DEF Output, TypeOK
  <2>3. workers[i].out \in {"nil", "voteSet"}
    BY <1>1 DEF Worker
  <2>4. QED
    BY <1>6, <2>2, <2>3 DEF Output, TypeOK, PushingMsg
<1>7. QED
  BY <1>2, <1>3, <1>4, <1>5, <1>6 DEF WorkerStep

LEMMA TypeInvStep == TypeInv /\ [Next]_vars => TypeInv'
<1> SUFFICES ASSUME TypeInv, [Next]_vars PROVE TypeInv'
  OBVIOUS
<1>1. CASE \E i \in DOMAIN workers : WorkerStep(i)
  BY <1>1, WorkerStepType
<1>2. CASE UNCHANGED vars
  BY <1>2 DEF vars, TypeInv, TypeOK, PushingMsg
<1>3. CASE ListenNext
  BY <1>3, ListenStepType
<1>4. QED
  BY <1>1, <1>2, <1>3 DEF Next, ListenNext

(***************************************************************************)
(* Type correctness of the Reducer: the channels never exceed their        *)
(* capacities (inputChannel, and outputChannel of capacity 1 whose send    *)
(* blocks), the uint8 step stays in range, and every goroutine's state is  *)
(* well formed, for every committee, capacity and bound.                   *)
(***************************************************************************)
THEOREM ReducerTypeCorrect == Spec => []TypeOK
<1>1. TypeInv => TypeOK
  BY DEF TypeInv
<1>2. QED
  BY TypeInvInit, TypeInvStep, <1>1, PTL DEF Spec

-----------------------------------------------------------------------------
(***************************************************************************)
(* SharedReductionExclusive, stated over any sequence of goroutines ws and *)
(* any value r of the reducing flag, so that the lemmas below can say how  *)
(* appending a goroutine or changing one preserves it.                     *)
(***************************************************************************)
RunningPc == {"decide1", "afterStep1", "decide2", "finish"}

Running(ws, i) == ws[i].shared /\ ws[i].pc \in RunningPc

Excl(ws, r) ==
  /\ \A i, j \in DOMAIN ws : Running(ws, i) /\ Running(ws, j) => i = j
  /\ r <=> \E i \in DOMAIN ws : Running(ws, i)

LEMMA ExclIsSRE ==
  /\ SharedReductionExclusive <=> Excl(workers, reducer.reducing)
  /\ SharedReductionExclusive' <=> Excl(workers', reducer'.reducing)
BY DEF SharedReductionExclusive, Excl, Running, RunningPc, Reducing

(* Starting a goroutine that does not run on the Reducer itself.           *)
LEMMA ExclAppendOther ==
  ASSUME NEW ws \in Seq(Worker), NEW w \in Worker, NEW r,
         ~(w.shared /\ w.pc \in RunningPc), Excl(ws, r)
  PROVE  Excl(Append(ws, w), r)
<1> DEFINE ws2 == Append(ws, w)
<1>1. DOMAIN ws2 = DOMAIN ws \cup {Len(ws) + 1}
      /\ Len(ws) + 1 \notin DOMAIN ws
  BY AppendProperties
<1>2. \A k \in DOMAIN ws : ws2[k] = ws[k]
  BY AppendProperties
<1>3. ws2[Len(ws) + 1] = w
  BY AppendProperties
<1>4. \A k \in DOMAIN ws2 : Running(ws2, k) <=> k \in DOMAIN ws /\ Running(ws, k)
  BY <1>1, <1>2, <1>3 DEF Running
<1>5. QED
  BY <1>1, <1>4 DEF Excl

(* Starting a goroutine on the Reducer itself while none runs on it.       *)
LEMMA ExclAppendShared ==
  ASSUME NEW ws \in Seq(Worker), NEW w \in Worker,
         w.shared /\ w.pc \in RunningPc, Excl(ws, FALSE)
  PROVE  Excl(Append(ws, w), TRUE)
<1> DEFINE ws2 == Append(ws, w)
<1>1. DOMAIN ws2 = DOMAIN ws \cup {Len(ws) + 1}
      /\ Len(ws) + 1 \notin DOMAIN ws
  BY AppendProperties
<1>2. \A k \in DOMAIN ws : ws2[k] = ws[k]
  BY AppendProperties
<1>3. ws2[Len(ws) + 1] = w
  BY AppendProperties
<1>4. \A k \in DOMAIN ws2 : Running(ws2, k) <=> k = Len(ws) + 1
  BY <1>1, <1>2, <1>3 DEF Running, Excl
<1>5. QED
  BY <1>1, <1>4 DEF Excl

(* Changing a goroutine without changing whether it runs on the Reducer.   *)
LEMMA ExclUpdateSame ==
  ASSUME NEW ws \in Seq(Worker), NEW i \in DOMAIN ws, NEW w \in Worker, NEW r,
         (w.shared /\ w.pc \in RunningPc) <=> Running(ws, i), Excl(ws, r)
  PROVE  Excl([ws EXCEPT ![i] = w], r)
<1> DEFINE ws2 == [ws EXCEPT ![i] = w]
<1>1. DOMAIN ws2 = DOMAIN ws
  OBVIOUS
<1>2. \A k \in DOMAIN ws2 : Running(ws2, k) <=> Running(ws, k)
  BY DEF Running
<1>3. QED
  BY <1>1, <1>2 DEF Excl

(* The goroutine running on the Reducer stops running and clears reducing. *)
LEMMA ExclUpdateStop ==
  ASSUME NEW ws \in Seq(Worker), NEW i \in DOMAIN ws, NEW w \in Worker, NEW r,
         ~(w.shared /\ w.pc \in RunningPc), Running(ws, i), Excl(ws, r)
  PROVE  Excl([ws EXCEPT ![i] = w], FALSE)
<1> DEFINE ws2 == [ws EXCEPT ![i] = w]
<1>1. DOMAIN ws2 = DOMAIN ws
  OBVIOUS
<1>2. \A k \in DOMAIN ws2 : ~Running(ws2, k)
  BY DEF Running, Excl
<1>3. QED
  BY <1>1, <1>2 DEF Excl

(* handleMessage on the Reducer itself (b) or on a copy keeps Excl.        *)
LEMMA HandleMessageExcl ==
  ASSUME TypeOK, NEW p \in RState, NEW m \in Msg, NEW b \in BOOLEAN,
         NEW ret, HandleMessage(p, m, b, ret), b => p = reducer,
         Excl(workers, reducer.reducing)
  PROVE  Excl(workers', reducer'.reducing)
<1>1. CASE ShouldBeProcessed(p, m) /\ IsFromCorrectPhase(p, m) /\ ~p.reducing
  <2> DEFINE q == [p EXCEPT !.reducing = TRUE]
  <2>1. q \in RState /\ q.reducing
    BY DEF RState
  <2>2. NewWorker(b, q) \in Worker
        /\ NewWorker(b, q).shared = b /\ NewWorker(b, q).pc = "decide1"
    BY <2>1, NewWorkerType DEF NewWorker
  <2>3. workers' = Append(workers, NewWorker(b, q))
        /\ reducer' = IF b THEN q ELSE reducer
    BY <1>1 DEF HandleMessage
  <2>4. CASE b
    <3>1. Excl(workers, FALSE)
      BY <1>1, <2>4 DEF Excl
    <3>2. QED
      BY <2>1, <2>2, <2>3, <2>4, <3>1, ExclAppendShared DEF TypeOK, RunningPc
  <2>5. CASE ~b
    BY <2>2, <2>3, <2>5, ExclAppendOther DEF TypeOK
  <2>6. QED
    BY <2>4, <2>5
<1>2. CASE ShouldBeProcessed(p, m) /\ IsFromCorrectPhase(p, m) /\ p.reducing
  BY <1>2 DEF HandleMessage
<1>3. CASE ~(ShouldBeProcessed(p, m) /\ IsFromCorrectPhase(p, m))
  BY <1>3 DEF HandleMessage
<1>4. QED
  BY <1>1, <1>2, <1>3

(* The end of a decideOnHash keeps a goroutine running on the same Reducer.*)
LEMMA EndDecideKeeps ==
  ASSUME NEW w \in Worker, w.pc \in {"decide1", "decide2"},
         NEW h, NEW vs
  PROVE  EndDecide(w, h, vs).shared = w.shared
         /\ EndDecide(w, h, vs).pc \in RunningPc
BY DEF EndDecide, Worker, RunningPc

IInv == TypeInv /\ SharedReductionExclusive

LEMMA IInvInit == Init => IInv
BY TypeInvInit DEF Init, IInv, SharedReductionExclusive

(* A step that changes neither the goroutines nor the reducing flag.       *)
LEMMA ExclFrame ==
  ASSUME Excl(workers, reducer.reducing),
         workers' = workers, reducer'.reducing = reducer.reducing
  PROVE  Excl(workers', reducer'.reducing)
BY DEF Excl, Running

LEMMA ListenStepExcl ==
  ASSUME TypeOK, Excl(workers, reducer.reducing), ListenNext
  PROVE  Excl(workers', reducer'.reducing)
<1>1. CASE GetMessages \/ Push \/ Quit \/ Stopped
  BY <1>1, ExclFrame DEF GetMessages, Push, Quit, Stopped, vars
<1>2. CASE OutputResult
  <2>1. workers' = workers
    BY <1>2 DEF OutputResult
  <2>2. reducer' \in {reducer,
                      IncrementStep([reducer EXCEPT !.currentHash = NilHash])}
    BY <1>2 DEF OutputResult
  <2>3. reducer'.reducing = reducer.reducing
    BY <2>2 DEF IncrementStep, TypeOK, RState
  <2>4. QED
    BY <2>1, <2>3, ExclFrame
<1>3. ASSUME NEW rd \in Rounds, UpdateRound(rd)
      PROVE  Excl(workers', reducer'.reducing)
  <2>1. workers' = workers /\ reducer'.reducing = reducer.reducing
    BY <1>3 DEF UpdateRound, TypeOK, RState
  <2>2. QED
    BY <2>1, ExclFrame
<1>4. ASSUME NEW h \in VoteHash, SelectionResult(h)
      PROVE  Excl(workers', reducer'.reducing)
  <2>1. workers' = workers /\ reducer'.reducing = reducer.reducing
    BY <1>4 DEF SelectionResult, TypeOK, RState
  <2>2. QED
    BY <2>1, ExclFrame
<1>5. ASSUME NEW h \in Hashes, MoveToSigSetPhase(h)
      PROVE  Excl(workers', reducer'.reducing)
  <2>1. workers' = workers /\ reducer'.reducing = reducer.reducing
    BY <1>5 DEF MoveToSigSetPhase, TypeOK, RState
  <2>2. QED
    BY <2>1, ExclFrame
<1>6. CASE Replay
  <2>1. PICK m \in replaying :
          LET rest == replaying \ {m}
              ret == IF rest = {} THEN "select" ELSE "replay"
          IN IF m.sigSet = reducer.inSigSetPhase
               THEN HandleMessage(reducer, m, TRUE, ret)
               ELSE UNCHANGED <<reducer, workers>>
    BY <1>6 DEF Replay
  <2>2. m \in Msg /\ reducer \in RState
    BY DEF TypeOK
  <2>3. CASE m.sigSet = reducer.inSigSetPhase
    BY <2>1, <2>2, <2>3, HandleMessageExcl
  <2>4. CASE m.sigSet # reducer.inSigSetPhase
    BY <2>1, <2>4, ExclFrame
  <2>5. QED
    BY <2>3, <2>4
<1>7. ASSUME NEW m \in NetMsgs, ProcessMessage(m)
      PROVE  Excl(workers', reducer'.reducing)
  <2>1. m \in Msg /\ Initialise(reducer, m) \in RState
    BY ReducerAssumption, InitialiseType DEF TypeOK
  <2>2. HandleMessage(Initialise(reducer, m), m, FALSE, "top")
    BY <1>7 DEF ProcessMessage
  <2>3. QED
    BY <2>1, <2>2, HandleMessageExcl
<1>8. QED
  BY <1>1, <1>2, <1>3, <1>4, <1>5, <1>6, <1>7 DEF ListenNext

LEMMA WorkerStepExcl ==
  ASSUME TypeInv, TypeInv', Excl(workers, reducer.reducing),
         NEW i \in DOMAIN workers, WorkerStep(i)
  PROVE  Excl(workers', reducer'.reducing)
<1> DEFINE w == workers[i]
<1>1. w \in Worker /\ workers \in Seq(Worker) /\ reducer \in RState
  BY DEF TypeInv, TypeOK
<1>2. workers' \in Seq(Worker)
  BY DEF TypeInv, TypeOK
(* A step that replaces goroutine i by x, keeping whether it runs on the   *)
(* Reducer, and keeps the reducing flag.                                   *)
<1>3. ASSUME NEW x, workers' = [workers EXCEPT ![i] = x],
             reducer'.reducing = reducer.reducing,
             (x.shared /\ x.pc \in RunningPc) <=> Running(workers, i)
      PROVE  Excl(workers', reducer'.reducing)
  <2>1. x \in Worker
    BY <1>2, <1>3
  <2>2. QED
    BY <1>1, <1>3, <2>1, ExclUpdateSame
<1>4. CASE WorkerReceive(i)
  <2> DEFINE m == Head(inputChannel)
             wb == P(i).winningBlockHash
             t == Collect(w.tally, m, wb)
             w1 == [w EXCEPT !.tally = t,
                      !.counted = IF Counts(w.tally, m, wb) THEN @ \cup {m}
                                  ELSE @]
             e == EndDecide(w1, m.hash, RemoveDeviatingVotes(t.voteSet, m.hash))
             x == IF Decides(w.tally, m, wb) THEN e ELSE w1
  <2>1. w.pc \in {"decide1", "decide2"}
    BY <1>4 DEF WorkerReceive, Deciding
  <2>2. workers' = [workers EXCEPT ![i] = x] /\ reducer' = reducer
    BY <1>4 DEF WorkerReceive
  <2>3. w1.shared = w.shared /\ w1.pc = w.pc
    BY <1>1 DEF Worker
  <2>4. e.shared = w.shared /\ e.pc \in RunningPc
    BY <2>1, <2>3 DEF EndDecide, RunningPc
  <2>5. x.shared = w.shared /\ x.pc \in RunningPc
    BY <2>1, <2>3, <2>4 DEF RunningPc
  <2>6. QED
    BY <2>1, <2>2, <2>5, <1>3 DEF Running, RunningPc
<1>5. CASE WorkerTimeout(i)
  <2>1. w.pc \in {"decide1", "decide2"}
    BY <1>5 DEF WorkerTimeout, Deciding
  <2>2. workers' = [workers EXCEPT ![i] = EndDecide(w, ZeroHash, 0)]
        /\ reducer' = reducer
    BY <1>5 DEF WorkerTimeout
  <2>3. EndDecide(w, ZeroHash, 0).shared = w.shared
        /\ EndDecide(w, ZeroHash, 0).pc \in RunningPc
    BY <1>1, <2>1, EndDecideKeeps
  <2>4. QED
    BY <2>1, <2>2, <2>3, <1>3 DEF Running, RunningPc
<1>6. CASE AfterStep1(i)
  <2> DEFINE p == IncrementStep([P(i) EXCEPT !.currentHash = w.hash1])
             w2 == [w EXCEPT !.pc = "decide2", !.tally = EmptyTally,
                      !.counted = {}, !.dRound = p.round, !.dStep = p.step]
  <2>1. SetP(i, p, w2) /\ w.pc = "afterStep1"
    BY <1>6 DEF AfterStep1
  <2>2. w2.shared = w.shared /\ w2.pc = "decide2"
    BY <1>1 DEF Worker
  <2>3. CASE w.shared
    <3>1. reducer' = p /\ workers' = [workers EXCEPT ![i] = w2]
      BY <2>1, <2>3 DEF SetP
    <3>2. P(i) = reducer
      BY <2>3 DEF P
    <3>3. p.reducing = reducer.reducing
      BY <1>1, <3>2 DEF IncrementStep, RState
    <3>4. QED
      BY <2>1, <2>2, <2>3, <3>1, <3>3, <1>3 DEF Running, RunningPc
  <2>4. CASE ~w.shared
    <3>1. reducer' = reducer
          /\ workers' = [workers EXCEPT ![i] = [w2 EXCEPT !.copy = p]]
      BY <2>1, <2>4 DEF SetP
    <3>2. [w2 EXCEPT !.copy = p].shared = FALSE
      BY <1>1, <2>2, <2>4 DEF Worker
    <3>3. QED
      BY <2>4, <3>1, <3>2, <1>3 DEF Running
  <2>5. QED
    BY <2>3, <2>4
<1>7. CASE Finish(i)
  <2> DEFINE p == [P(i) EXCEPT !.reducing = FALSE]
             ok == ReductionSuccessful(w.hash1, w.hash2, w.vs1, w.vs2)
             w2 == [w EXCEPT !.pc = "output",
                      !.out = IF ok THEN "voteSet" ELSE "nil"]
  <2>1. SetP(i, p, w2) /\ w.pc = "finish"
    BY <1>7 DEF Finish
  <2>2. w2.shared = w.shared /\ w2.pc = "output"
    BY <1>1 DEF Worker
  <2>3. CASE w.shared
    <3>1. reducer' = p /\ workers' = [workers EXCEPT ![i] = w2]
      BY <2>1, <2>3 DEF SetP
    <3>2. p.reducing = FALSE
      BY <1>1, <2>3 DEF P, RState
    <3>3. Running(workers, i)
      BY <2>1, <2>3 DEF Running, RunningPc
    <3>4. w2 \in Worker
      BY <1>2, <3>1
    <3>5. QED
      BY <1>1, <2>2, <3>1, <3>2, <3>3, <3>4, ExclUpdateStop DEF RunningPc
  <2>4. CASE ~w.shared
    <3>1. reducer' = reducer
          /\ workers' = [workers EXCEPT ![i] = [w2 EXCEPT !.copy = p]]
      BY <2>1, <2>4 DEF SetP
    <3>2. [w2 EXCEPT !.copy = p].shared = FALSE
      BY <1>1, <2>2, <2>4 DEF Worker
    <3>3. QED
      BY <2>4, <3>1, <3>2, <1>3 DEF Running
  <2>5. QED
    BY <2>3, <2>4
<1>8. CASE Output(i)
  <2>1. workers' = [workers EXCEPT ![i] = [w EXCEPT !.pc = "done"]]
        /\ reducer' = reducer /\ w.pc = "output"
    BY <1>8 DEF Output
  <2>2. [w EXCEPT !.pc = "done"].pc = "done"
    BY <1>1 DEF Worker
  <2>3. QED
    BY <2>1, <2>2, <1>3 DEF Running, RunningPc
<1>9. QED
  BY <1>4, <1>5, <1>6, <1>7, <1>8 DEF WorkerStep

LEMMA IInvStep == IInv /\ [Next]_vars => IInv'
<1> SUFFICES ASSUME IInv, [Next]_vars PROVE IInv'
  OBVIOUS
<1>1. TypeInv'
  BY TypeInvStep DEF IInv
<1>2. SUFFICES Excl(workers', reducer'.reducing)
  BY <1>1, ExclIsSRE DEF IInv
<1>3. Excl(workers, reducer.reducing) /\ TypeInv /\ TypeOK
  BY ExclIsSRE DEF IInv, TypeInv
<1>4. CASE \E i \in DOMAIN workers : WorkerStep(i)
  BY <1>1, <1>3, <1>4, WorkerStepExcl
<1>5. CASE ListenNext
  BY <1>3, <1>5, ListenStepExcl
<1>6. CASE UNCHANGED vars
  BY <1>3, <1>6, ExclFrame DEF vars
<1>7. QED
  BY <1>4, <1>5, <1>6 DEF Next, ListenNext

(***************************************************************************)
(* The Reducer's own reducing flag is set exactly while one runReduction   *)
(* goroutine runs on the Reducer itself (started from a replayed queued    *)
(* message), for every committee, capacity and bound: handleMessage on the *)
(* Reducer starts no second cycle while one runs, and runReduction clears  *)
(* the flag when its cycle ends.  Goroutines started on copies by          *)
(* processMessage (value receiver) are not constrained by the flag.        *)
(***************************************************************************)
THEOREM SharedReductionCorrect == Spec => []SharedReductionExclusive
<1>1. IInv => SharedReductionExclusive
  BY DEF IInv
<1>2. QED
  BY IInvInit, IInvStep, <1>1, PTL DEF Spec

=============================================================================
