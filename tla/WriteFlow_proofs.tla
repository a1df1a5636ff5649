--------------------------- MODULE WriteFlow_proofs ---------------------------
(***************************************************************************)
(* What holds of WriteFlow for every registry, every number of workers and *)
(* every combination of faults.                                            *)
(***************************************************************************)
EXTENDS WriteFlowRefinement, WellFoundedInduction, TLAPS

Writers == {"executor", "coordinator"}

\* A node that writes is only ever scheduled with a pending action.
PendingOK ==
    /\ ckpt.next \in Writers => ckpt.ch.pending # None
    /\ \A r \in Requests :
          run[r].pc \in {"run", "wrote"} /\ run[r].node \in Writers
          => run[r].ch.pending # None

\* The channels a node may hand to the next one.
Schedules(next, ch) ==
    /\ next \in Nodes \cup {"end"}
    /\ ch \in Channels
    /\ next \in Writers => ch.pending # None

CkptType == ckpt \in [next : Nodes \cup {"end"}, ch : Channels,
                      ask : Questions \cup {None}, late : BOOLEAN,
                      answers : Seq(Answers)]
RunType == run \in [Requests -> RunState]

LEMMA EmptyTyped == EmptyChannels \in Channels
<1>1. <<>> \in Seq(Tools)
  OBVIOUS
<1> QED
  BY <1>1 DEF EmptyChannels, Channels

LEMMA IdleTyped == IdleRun \in RunState
<1>1. <<>> \in Seq(Answers)
  OBVIOUS
<1> QED
  BY <1>1, EmptyTyped DEF IdleRun, RunState

LEMMA PlanNotNone ==
    ASSUME NEW p \in [tool : Tools, args : Args, note : Notes]
    PROVE  p # None
  BY NoneAssumption

LEMMA LosesTip ==
    ASSUME NEW x \in RunState
    PROVE  /\ [x EXCEPT !.tip = FALSE] \in RunState
           /\ [x EXCEPT !.tip = FALSE].pc = x.pc
           /\ [x EXCEPT !.tip = FALSE].node = x.node
           /\ [x EXCEPT !.tip = FALSE].ch = x.ch
           /\ [x EXCEPT !.tip = FALSE].result = x.result
  BY DEF RunState

LEMMA NotesAreSeqs == \A n \in Notes : n \in Seq(Tools)
<1> QED
  BY DEF Notes

LEMMA InputsTyped ==
    ASSUME RunType, NEW r \in Requests
    PROVE  Inputs(r) \in Seq(Answers)
<1>1. run[r] \in RunState
  BY DEF RunType
<1>2. run[r].answers \in Seq(Answers) /\ run[r].resume \in Answers \cup {None}
  BY <1>1 DEF RunState
<1>3. CASE run[r].resume = None
  BY <1>2, <1>3 DEF Inputs
<1>4. CASE run[r].resume # None
  <2>1. <<run[r].resume>> \in Seq(Answers)
    BY <1>2, <1>4
  <2> QED
    BY <2>1, <1>2, <1>4 DEF Inputs
<1> QED
  BY <1>3, <1>4

-----------------------------------------------------------------------------
(* The three ways a run changes the checkpoint. *)

LEMMA CheckpointTyped ==
    ASSUME NEW next, NEW ch, Schedules(next, ch)
    PROVE  /\ Checkpoint(next, ch) \in
                 [next : Nodes \cup {"end"}, ch : Channels,
                  ask : Questions \cup {None}, late : BOOLEAN,
                  answers : Seq(Answers)]
           /\ Checkpoint(next, ch).next = next
           /\ Checkpoint(next, ch).ch = ch
<1>1. <<>> \in Seq(Answers)
  OBVIOUS
<1> QED
  BY <1>1 DEF Checkpoint, Schedules

LEMMA CommitKeeps ==
    ASSUME CkptType, RunType, PendingOK, NEW r \in Requests,
           NEW next, NEW ch, Schedules(next, ch), Commit(r, next, ch)
    PROVE  CkptType' /\ RunType' /\ PendingOK'
<1>1. CkptType'
  BY CheckpointTyped DEF Commit, CkptType
<1>2. <<>> \in Seq(Answers)
  OBVIOUS
<1>3. \A s \in Requests : s # r => run'[s] = [run[s] EXCEPT !.tip = FALSE]
  BY DEF Commit
<1>4. run'[r] = [run[r] EXCEPT !.pc = IF next = "end" THEN "finish" ELSE "run",
                               !.node = next, !.ch = ch, !.resume = None,
                               !.answers = <<>>, !.ask = None, !.tip = TRUE,
                               !.result = None]
  BY DEF Commit
<1>5. \A s \in Requests : run[s] \in RunState
  BY DEF RunType
<1>6. run'[r] \in RunState
  BY <1>2, <1>4, <1>5 DEF RunState, Schedules
<1>7. \A s \in Requests : s # r => run'[s] \in RunState
  BY <1>3, <1>5, LosesTip
<1>8. RunType'
  <2>1. run' = [s \in Requests |-> run'[s]]
    BY DEF Commit
  <2> QED
    BY <2>1, <1>6, <1>7 DEF RunType
<1>9. PendingOK'
  <2>1. ckpt'.next = next /\ ckpt'.ch = ch
    BY CheckpointTyped DEF Commit
  <2>2. run'[r].node = next /\ run'[r].ch = ch
    BY <1>4, <1>5 DEF RunState
  <2>3. \A s \in Requests : s # r => /\ run'[s].pc = run[s].pc
                                     /\ run'[s].node = run[s].node
                                     /\ run'[s].ch = run[s].ch
    BY <1>3, <1>5, LosesTip
  <2> QED
    BY <2>1, <2>2, <2>3 DEF PendingOK, Schedules
<1> QED
  BY <1>1, <1>8, <1>9

LEMMA InvokeKeeps ==
    ASSUME CkptType, RunType, PendingOK, NEW r \in Requests,
           NEW ch \in Channels, Invoke(r, ch)
    PROVE  CkptType' /\ RunType' /\ PendingOK'
<1>0. Schedules("router", ch)
  BY DEF Schedules, Nodes, Writers
<1>1. CkptType'
  BY <1>0, CheckpointTyped DEF Invoke, CkptType
<1>3. \A s \in Requests : s # r => run'[s] = [run[s] EXCEPT !.tip = FALSE]
  BY DEF Invoke
<1>4. run'[r] = [IdleRun EXCEPT !.pc = "run", !.node = "router", !.ch = ch, !.tip = TRUE]
  BY DEF Invoke
<1>5. \A s \in Requests : run[s] \in RunState
  BY DEF RunType
<1>6. run'[r] \in RunState
  BY <1>4, IdleTyped DEF RunState, Nodes
<1>7. \A s \in Requests : s # r => run'[s] \in RunState
  BY <1>3, <1>5, LosesTip
<1>8. RunType'
  <2>1. run' = [s \in Requests |-> run'[s]]
    BY DEF Invoke
  <2> QED
    BY <2>1, <1>6, <1>7 DEF RunType
<1>9. PendingOK'
  <2>1. ckpt'.next = "router"
    BY <1>0, CheckpointTyped DEF Invoke
  <2>2. run'[r].node = "router"
    BY <1>4, IdleTyped DEF RunState
  <2>3. \A s \in Requests : s # r => /\ run'[s].pc = run[s].pc
                                     /\ run'[s].node = run[s].node
                                     /\ run'[s].ch = run[s].ch
    BY <1>3, <1>5, LosesTip
  <2> QED
    BY <2>1, <2>2, <2>3 DEF PendingOK, Writers
<1> QED
  BY <1>1, <1>8, <1>9

LEMMA ParkKeeps ==
    ASSUME CkptType, RunType, PendingOK, NEW r \in Requests,
           NEW q \in Questions, Park(r, q)
    PROVE  CkptType' /\ RunType' /\ PendingOK'
<1>1. Inputs(r) \in Seq(Answers)
  BY InputsTyped
<1>2. CkptType' /\ ckpt'.next = ckpt.next /\ ckpt'.ch = ckpt.ch
  BY <1>1 DEF Park, CkptType
<1>3. \A s \in Requests : run[s] \in RunState
  BY DEF RunType
<1>4. run'[r] = [run[r] EXCEPT !.pc = "finish"] /\ \A s \in Requests : s # r => run'[s] = run[s]
  BY DEF Park, RunType
<1>5. RunType'
  <2>1. run'[r] \in RunState
    BY <1>3, <1>4 DEF RunState
  <2>2. run' = [s \in Requests |-> run'[s]]
    BY DEF Park, RunType
  <2> QED
    BY <2>1, <2>2, <1>3, <1>4 DEF RunType
<1>6. run'[r].pc = "finish"
  BY <1>3, <1>4 DEF RunState
<1>7. PendingOK'
  BY <1>2, <1>4, <1>6 DEF PendingOK
<1> QED
  BY <1>2, <1>5, <1>7

-----------------------------------------------------------------------------
(* Type correctness: every action keeps the inductive invariant. *)

RestType ==
    /\ erp \in [ambiguous : BOOLEAN, price : Prices]
    /\ gate \in BOOLEAN
    /\ log \in Seq(Writes)
    /\ said \in Seq(Replies)
    /\ turns \in Nat

TypeInv == CkptType /\ RunType /\ PendingOK /\ RestType

LEMMA TypeInvInit == Init => TypeInv
<1> SUFFICES ASSUME Init PROVE TypeInv
  OBVIOUS
<1>1. Schedules("end", EmptyChannels)
  BY EmptyTyped DEF Schedules, Writers
<1>2. CkptType
  BY <1>1, CheckpointTyped DEF Init, CkptType
<1>3. RunType
  BY IdleTyped DEF Init, RunType
<1>4. PendingOK
  <2>1. ckpt.next = "end"
    BY <1>1, CheckpointTyped DEF Init
  <2>2. \A r \in Requests : run[r].pc = "idle"
    BY DEF Init, IdleRun
  <2> QED
    BY <2>1, <2>2 DEF PendingOK, Writers
<1>5. log = <<>> /\ said = <<>> /\ turns = 0
  BY DEF Init
<1>6. RestType
  BY <1>5 DEF Init, RestType
<1> QED
  BY <1>2, <1>3, <1>4, <1>6 DEF TypeInv

LEMMA RunTyped ==
    ASSUME RunType, NEW r \in Requests
    PROVE  /\ run[r] \in RunState
           /\ run[r].ch \in Channels
           /\ run[r].ask \in Questions \cup {None}
  BY DEF RunType, RunState

LEMMA PlanTyped ==
    ASSUME NEW r \in Requests, NEW p \in PlansFor(r)
    PROVE  /\ p \in [tool : Tools, args : Args, note : Notes]
           /\ p.note \in Seq(Tools)
           /\ PlanQuestion(p) \in Questions
<1>1. p \in [tool : Tools, args : Args, note : Notes]
  BY DEF PlansFor, Plans
<1>2. PlanQuestion(p) \in Questions
  BY <1>1 DEF PlanQuestion, Questions
<1> QED
  BY <1>1, <1>2, NotesAreSeqs

LEMMA ChatKeeps ==
    ASSUME TypeInv, NEW r \in Requests, Chat(r)
    PROVE  TypeInv'
<1>1. RestType /\ CkptType /\ RunType /\ PendingOK
  BY DEF TypeInv
<1>2. ASSUME NEW x \in RunState, x.pc = "resume",
             run' = [run EXCEPT ![r] = x], UNCHANGED ckpt
      PROVE  CkptType' /\ RunType' /\ PendingOK'
  <2>1. run'[r] = x /\ \A s \in Requests : s # r => run'[s] = run[s]
    BY <1>1, <1>2 DEF RunType
  <2>2. RunType'
    BY <1>1, <1>2 DEF RunType
  <2>3. PendingOK'
    BY <1>1, <1>2, <2>1 DEF PendingOK
  <2> QED
    BY <1>1, <1>2, <2>2, <2>3 DEF CkptType
<1>4. CASE ChatFresh(r)
  BY <1>1, <1>4, EmptyTyped, InvokeKeeps DEF ChatFresh, TakesRequest, RestType, TypeInv
<1>5. CASE ChatNotParked(r)
  <2>1. ckpt.ch \in Channels
    BY <1>1 DEF CkptType
  <2> QED
    BY <1>1, <1>5, <2>1, InvokeKeeps DEF ChatNotParked, TakesRequest, RestType, TypeInv
<1>6. CASE ChatExpired(r)
  <2> DEFINE x == [IdleRun EXCEPT !.pc = "resume", !.resume = ExpiredAs,
                                  !.reply = "late", !.again = TRUE]
  <2>1. x \in RunState /\ x.pc = "resume"
    BY IdleTyped DEF RunState, ExpiredAs, Answers
  <2>2. run' = [run EXCEPT ![r] = x] /\ UNCHANGED ckpt
    BY <1>6 DEF ChatExpired
  <2>3. CkptType' /\ RunType' /\ PendingOK'
    BY <1>2, <2>1, <2>2
  <2> QED
    BY <1>1, <1>6, <2>3 DEF ChatExpired, TakesRequest, RestType, TypeInv
<1>7. CASE ChatReply(r)
  <2>1. PICK v \in Decisions(ckpt.ask) :
          /\ run' = [run EXCEPT ![r] = [IdleRun EXCEPT !.pc = "resume", !.resume = v,
                                                       !.reply = v]]
          /\ said' = IF Truthy(v) THEN Append(said, [ask |-> ckpt.ask, reply |-> v])
                     ELSE said
    BY <1>7 DEF ChatReply
  <2>2. v \in Answers
    BY DEF Decisions, Answers
  <2> DEFINE x == [IdleRun EXCEPT !.pc = "resume", !.resume = v, !.reply = v]
  <2>3. x \in RunState /\ x.pc = "resume"
    BY <2>2, IdleTyped DEF RunState
  <2>4. CkptType' /\ RunType' /\ PendingOK'
    <3>1. UNCHANGED ckpt
      BY <1>7 DEF ChatReply
    <3> QED
      BY <1>2, <2>1, <2>3, <3>1
  <2>5. ckpt.ask \in Questions \cup {None}
    BY <1>1 DEF CkptType
  <2>6. said' \in Seq(Replies)
    <3>1. [ask |-> ckpt.ask, reply |-> v] \in Replies
      BY <2>2, <2>5 DEF Replies
    <3>2. said \in Seq(Replies)
      BY <1>1 DEF RestType
    <3>3. Append(said, [ask |-> ckpt.ask, reply |-> v]) \in Seq(Replies)
      BY <3>1, <3>2
    <3> QED
      BY <2>1, <3>2, <3>3
  <2>7. turns' = turns + 1 /\ UNCHANGED <<erp, gate, log>>
    BY <1>7 DEF ChatReply, TakesRequest
  <2>8. RestType'
    BY <1>1, <2>6, <2>7 DEF RestType
  <2> QED
    BY <2>4, <2>8 DEF TypeInv
<1>8. CASE ChatReask(r)
  BY <1>1, <1>8 DEF ChatReask, TakesRequest, RestType, TypeInv, CkptType, RunType, PendingOK
<1> QED
  BY <1>4, <1>5, <1>6, <1>7, <1>8 DEF Chat

LEMMA ResumeFinishKeep ==
    ASSUME TypeInv, NEW r \in Requests, Resume(r) \/ Finish(r)
    PROVE  TypeInv'
<1>1. RestType /\ CkptType /\ RunType /\ PendingOK
  BY DEF TypeInv
<1>2. run[r] \in RunState
  BY <1>1, RunTyped
<1>3. CASE Resume(r)
  <2> DEFINE x == IF ckpt.next = "end" THEN [run[r] EXCEPT !.pc = "finish"]
                  ELSE [run[r] EXCEPT !.pc = "run", !.node = ckpt.next, !.ch = ckpt.ch,
                                      !.answers = ckpt.answers, !.ask = ckpt.ask,
                                      !.tip = TRUE]
  <2>1. run' = [run EXCEPT ![r] = x]
    BY <1>1, <1>3 DEF Resume, RunType
  <2>2. x \in RunState
    BY <1>1, <1>2 DEF CkptType, RunState
  <2>3. /\ ckpt.next = "end" => x.pc = "finish"
        /\ ckpt.next # "end" => x.node = ckpt.next /\ x.ch = ckpt.ch
    BY <1>2 DEF RunState
  <2>4. RunType'
    BY <1>1, <2>1, <2>2 DEF RunType
  <2>5. run'[r] = x /\ \A s \in Requests : s # r => run'[s] = run[s]
    BY <1>1, <2>1 DEF RunType
  <2>6. UNCHANGED <<ckpt, erp, gate, log, said, turns>>
    BY <1>3 DEF Resume
  <2>7. PendingOK'
    <3> HIDE DEF x
    <3> QED
      BY <1>1, <2>3, <2>5, <2>6 DEF PendingOK
  <2>8. CkptType' /\ RestType'
    BY <1>1, <2>6 DEF CkptType, RestType
  <2> QED
    BY <2>4, <2>7, <2>8 DEF TypeInv
<1>4. CASE Finish(r) /\ run[r].again
  <2>1. ckpt.ch \in Channels /\ Invoke(r, ckpt.ch)
    BY <1>1, <1>4 DEF CkptType, Finish
  <2> QED
    BY <1>1, <1>4, <2>1, InvokeKeeps DEF Finish, RestType, TypeInv
<1>5. CASE Finish(r) /\ ~run[r].again
  <2>1. run' = [run EXCEPT ![r] = IdleRun] /\ UNCHANGED ckpt
    BY <1>5 DEF Finish
  <2>2. RunType'
    BY <1>1, <2>1, IdleTyped DEF RunType
  <2>3. run'[r].pc = "idle" /\ \A s \in Requests : s # r => run'[s] = run[s]
    BY <1>1, <2>1 DEF RunType, IdleRun
  <2>4. PendingOK'
    BY <1>1, <2>1, <2>3 DEF PendingOK
  <2> QED
    BY <1>1, <1>5, <2>1, <2>2, <2>4 DEF Finish, RestType, TypeInv, CkptType
<1> QED
  BY <1>3, <1>4, <1>5

Unchanged == UNCHANGED <<erp, gate, log, said, turns>>

LEMMA CommitStep ==
    ASSUME TypeInv, NEW r \in Requests, NEW next, NEW ch,
           Schedules(next, ch), Commit(r, next, ch), Unchanged
    PROVE  TypeInv'
<1>1. CkptType' /\ RunType' /\ PendingOK'
  BY CommitKeeps DEF TypeInv
<1>2. RestType'
  BY DEF TypeInv, RestType, Unchanged
<1> QED
  BY <1>1, <1>2 DEF TypeInv

LEMMA ParkStep ==
    ASSUME TypeInv, NEW r \in Requests, NEW q \in Questions, Park(r, q), Unchanged
    PROVE  TypeInv'
<1>1. CkptType' /\ RunType' /\ PendingOK'
  BY ParkKeeps DEF TypeInv
<1>2. RestType'
  BY DEF TypeInv, RestType, Unchanged
<1> QED
  BY <1>1, <1>2 DEF TypeInv

LEMMA RouterPlannerKeep ==
    ASSUME TypeInv, NEW r \in Requests,
           \/ Router(r) \/ PlannerRefuses(r) \/ PlannerHandsOver(r)
           \/ PlannerAsks(r) \/ PlannerAnswered(r)
    PROVE  TypeInv'
<1>1. run[r] \in RunState /\ run[r].ch \in Channels
  BY RunTyped DEF TypeInv
<1>2. CASE Router(r)
  <2>1. PICK next \in {"planner", "end"} : Commit(r, next, run[r].ch)
    BY <1>2 DEF Router
  <2>2. Schedules(next, run[r].ch)
    BY <1>1 DEF Schedules, Nodes, Writers
  <2> QED
    BY <1>2, <2>1, <2>2, CommitStep DEF Router, Unchanged
<1>3. CASE PlannerRefuses(r)
  <2> DEFINE ch == [run[r].ch EXCEPT !.pending = None, !.chain = <<>>]
  <2>1. <<>> \in Seq(Tools)
    OBVIOUS
  <2>2. ch \in Channels
    BY <1>1, <2>1 DEF Channels
  <2>3. Schedules("end", ch)
    BY <2>2 DEF Schedules, Writers
  <2>4. Commit(r, "end", ch) /\ Unchanged
    BY <1>3 DEF PlannerRefuses, Unchanged
  <2> QED
    BY <2>3, <2>4, CommitStep
<1>4. CASE PlannerHandsOver(r)
  <2>1. PICK p \in PlansFor(r) :
          Commit(r, "coordinator", [run[r].ch EXCEPT !.pending = p, !.chain = p.note])
    BY <1>4 DEF PlannerHandsOver
  <2> DEFINE ch == [run[r].ch EXCEPT !.pending = p, !.chain = p.note]
  <2>2. p \in [tool : Tools, args : Args, note : Notes] /\ p.note \in Seq(Tools)
    BY PlanTyped
  <2>3. ch \in Channels /\ ch.pending = p
    BY <1>1, <2>2 DEF Channels
  <2>4. p # None
    BY <2>2, PlanNotNone
  <2>5. Schedules("coordinator", ch)
    BY <2>3, <2>4 DEF Schedules, Nodes
  <2>6. Unchanged
    BY <1>4 DEF PlannerHandsOver, Unchanged
  <2> QED
    BY <2>1, <2>5, <2>6, CommitStep
<1>5. CASE PlannerAsks(r)
  <2>1. PICK p \in PlansFor(r) : Park(r, PlanQuestion(p))
    BY <1>5 DEF PlannerAsks
  <2>2. Unchanged
    BY <1>5 DEF PlannerAsks, Unchanged
  <2> QED
    BY <2>1, <2>2, PlanTyped, ParkStep
<1>6. CASE PlannerAnswered(r)
  <2>1. PICK p \in PlansFor(r) :
          Commit(r, "executor", [run[r].ch EXCEPT !.pending = p, !.chain = p.note,
                                                  !.confirmed = Inputs(r)[1]])
    BY <1>6 DEF PlannerAnswered
  <2> DEFINE ch == [run[r].ch EXCEPT !.pending = p, !.chain = p.note,
                                     !.confirmed = Inputs(r)[1]]
  <2>2. p \in [tool : Tools, args : Args, note : Notes] /\ p.note \in Seq(Tools)
    BY PlanTyped
  <2>3. Inputs(r) \in Seq(Answers) /\ Inputs(r) # <<>>
    BY <1>6, InputsTyped DEF PlannerAnswered, TypeInv
  <2>4. Inputs(r)[1] \in Answers
    BY <2>3
  <2>5. ch \in Channels /\ ch.pending = p
    BY <1>1, <2>2, <2>4 DEF Channels
  <2>6. Schedules("executor", ch)
    BY <2>2, <2>5, PlanNotNone DEF Schedules, Nodes
  <2>7. Unchanged
    BY <1>6 DEF PlannerAnswered, Unchanged
  <2> QED
    BY <2>1, <2>6, <2>7, CommitStep
<1> QED
  BY <1>2, <1>3, <1>4, <1>5, <1>6

LEMMA CallKeeps ==
    ASSUME TypeInv, NEW r \in Requests, NEW w \in Writes,
           run[r].ch.pending # None, Call(r, w)
    PROVE  TypeInv'
<1>1. RestType /\ CkptType /\ RunType /\ PendingOK
  BY DEF TypeInv
<1>2. run[r] \in RunState
  BY <1>1, RunTyped
<1>3. PICK result \in {"envelope", "text", "error"}, reached \in BOOLEAN :
        /\ log' = IF reached THEN Append(log, w) ELSE log
        /\ run' = [run EXCEPT ![r].pc = "wrote", ![r].result = result]
  BY DEF Call
<1> DEFINE x == [run[r] EXCEPT !.pc = "wrote", !.result = result]
<1>4. run' = [run EXCEPT ![r] = x]
  BY <1>1, <1>3 DEF RunType
<1>5. x \in RunState /\ x.ch = run[r].ch
  BY <1>2 DEF RunState
<1>6. run'[r] = x /\ \A s \in Requests : s # r => run'[s] = run[s]
  BY <1>1, <1>4 DEF RunType
<1>7. RunType'
  BY <1>1, <1>4, <1>5 DEF RunType
<1>8. UNCHANGED <<ckpt, erp, gate, said, turns>>
  BY DEF Call
<1>9. PendingOK'
  <2> HIDE DEF x
  <2> QED
    BY <1>1, <1>5, <1>6, <1>8 DEF PendingOK
<1>10. log' \in Seq(Writes)
  BY <1>1, <1>3 DEF RestType
<1>11. CkptType' /\ RestType'
  BY <1>1, <1>8, <1>10 DEF CkptType, RestType
<1> QED
  BY <1>7, <1>9, <1>11 DEF TypeInv

LEMMA HandleTyped ==
    ASSUME TypeInv, NEW r \in Requests, run[r].ch.pending # None
    PROVE  Handle(r) \in [tool : Tools, args : Args] \cup {None}
<1>1. run[r].ch.pending \in [tool : Tools, args : Args, note : Notes]
  BY RunTyped DEF TypeInv, Channels
<1> QED
  BY <1>1 DEF Handle

LEMMA ExecutorKeeps ==
    ASSUME TypeInv, NEW r \in Requests,
           ExecutorCancels(r) \/ ExecutorCalls(r) \/ ExecutorReturns(r)
    PROVE  TypeInv'
<1>1. run[r] \in RunState /\ run[r].ch \in Channels
  BY RunTyped DEF TypeInv
<1>2. run[r].ch.pending # None
  BY DEF TypeInv, PendingOK, Writers, ExecutorCancels, ExecutorCalls, ExecutorReturns, At
<1>3. run[r].ch.pending \in [tool : Tools, args : Args, note : Notes]
  BY <1>1, <1>2 DEF Channels
<1>4. ASSUME NEW last \in [tool : Tools, args : Args] \cup {None}
      PROVE  Schedules("continuation", Cleared(run[r].ch, last))
  BY <1>1, <1>4 DEF Cleared, Channels, Schedules, Nodes, Writers
<1>5. CASE ExecutorCancels(r)
  <2>1. Commit(r, "continuation", Cleared(run[r].ch, None)) /\ Unchanged
    BY <1>5 DEF ExecutorCancels, Unchanged
  <2> QED
    BY <1>4, <2>1, CommitStep
<1>6. CASE ExecutorCalls(r)
  <2> DEFINE w == [tool |-> run[r].ch.pending.tool, args |-> run[r].ch.pending.args,
                   draft |-> None]
  <2>1. w \in Writes
    BY <1>3 DEF Writes
  <2>2. Call(r, w)
    BY <1>6 DEF ExecutorCalls
  <2> QED
    BY <1>2, <2>1, <2>2, CallKeeps
<1>7. CASE ExecutorReturns(r)
  <2>1. Commit(r, "continuation", Cleared(run[r].ch, Handle(r))) /\ Unchanged
    BY <1>7 DEF ExecutorReturns, Unchanged
  <2>2. Handle(r) \in [tool : Tools, args : Args] \cup {None}
    BY <1>2, HandleTyped
  <2> QED
    BY <1>4, <2>1, <2>2, CommitStep
<1> QED
  BY <1>5, <1>6, <1>7

LEMMA CoordinatorKeeps ==
    ASSUME TypeInv, NEW r \in Requests,
           \/ CoordinatorStops(r) \/ CoordinatorAsksPick(r) \/ CoordinatorAsksConfirm(r)
           \/ CoordinatorCalls(r) \/ CoordinatorReturns(r)
    PROVE  TypeInv'
<1>1. run[r] \in RunState /\ run[r].ch \in Channels
  BY RunTyped DEF TypeInv
<1>2. run[r].ch.pending # None
  BY DEF TypeInv, PendingOK, Writers, CoordinatorStops, CoordinatorAsksPick,
         CoordinatorAsksConfirm, CoordinatorCalls, CoordinatorReturns, At
<1>3. run[r].ch.pending \in [tool : Tools, args : Args, note : Notes]
  BY <1>1, <1>2 DEF Channels
<1>4. <<>> \in Notes
  <2>1. <<>> \in [1..0 -> Tools] /\ 0 \in 0..MaxChain
    BY BoundAssumption
  <2> QED
    BY <2>1 DEF Notes
<1>5. Picked(r) => DraftNow(r) \in Drafts
  <2>1. erp \in [ambiguous : BOOLEAN, price : Prices]
    BY DEF TypeInv, RestType
  <2> QED
    BY <2>1 DEF Picked, DraftNow, Drafts
<1>6. CASE CoordinatorStops(r)
  <2>1. Commit(r, "continuation", run[r].ch) /\ Unchanged
    BY <1>6 DEF CoordinatorStops, Unchanged
  <2>2. Schedules("continuation", run[r].ch)
    BY <1>1 DEF Schedules, Nodes, Writers
  <2> QED
    BY <2>1, <2>2, CommitStep
<1>7. CASE CoordinatorAsksPick(r)
  <2>1. Park(r, PickQuestion(run[r].ch.pending)) /\ Unchanged
    BY <1>7 DEF CoordinatorAsksPick, Unchanged
  <2>2. PickQuestion(run[r].ch.pending) \in Questions
    BY <1>3, <1>4 DEF PickQuestion, Questions
  <2> QED
    BY <2>1, <2>2, ParkStep
<1>8. CASE CoordinatorAsksConfirm(r)
  <2>1. Park(r, DraftQuestion(r)) /\ Unchanged /\ Picked(r)
    BY <1>8 DEF CoordinatorAsksConfirm, Unchanged
  <2>2. DraftQuestion(r) \in Questions
    BY <1>3, <1>4, <1>5, <2>1 DEF DraftQuestion, ShownChain, Questions
  <2> QED
    BY <2>1, <2>2, ParkStep
<1>9. CASE CoordinatorCalls(r)
  <2> DEFINE w == [tool |-> run[r].ch.pending.tool, args |-> run[r].ch.pending.args,
                   draft |-> DraftNow(r)]
  <2>1. w \in Writes
    BY <1>3, <1>5, <1>9 DEF CoordinatorCalls, Writes
  <2>2. Call(r, w)
    BY <1>9 DEF CoordinatorCalls
  <2> QED
    BY <1>2, <2>1, <2>2, CallKeeps
<1>10. CASE CoordinatorReturns(r)
  <2> DEFINE ch == IF run[r].result = "error" THEN run[r].ch
                   ELSE [run[r].ch EXCEPT !.pending = None, !.last = Handle(r)]
  <2>1. Handle(r) \in [tool : Tools, args : Args] \cup {None}
    BY <1>2, HandleTyped
  <2>2. ch \in Channels
    BY <1>1, <2>1 DEF Channels
  <2>3. Schedules("continuation", ch)
    BY <2>2 DEF Schedules, Nodes, Writers
  <2>4. Commit(r, "continuation", ch) /\ Unchanged
    BY <1>10 DEF CoordinatorReturns, Unchanged
  <2> QED
    BY <2>3, <2>4, CommitStep
<1> QED
  BY <1>6, <1>7, <1>8, <1>9, <1>10

LEMMA AdvanceTyped ==
    ASSUME NEW ch \in Channels, InChain(ch)
    PROVE  Schedules(IF AsksAgain(NextStep(ch)) THEN "coordinator" ELSE "executor",
                     Advance(ch))
<1>1. ch.last \in [tool : Tools, args : Args]
  BY DEF InChain, NextStep, Channels
<1>2. NextStep(ch) \in Tools
  BY <1>1, ToolAssumption DEF InChain, NextStep
<1>3. Tail(ch.chain) \in Seq(Tools)
  <2>1. ch.chain \in Seq(Tools) /\ ch.chain # <<>>
    BY DEF InChain, Channels
  <2> QED
    BY <2>1
<1>4. <<>> \in Notes
  <2>1. <<>> \in [1..0 -> Tools] /\ 0 \in 0..MaxChain
    BY BoundAssumption
  <2> QED
    BY <2>1 DEF Notes
<1>5. Advance(ch).pending \in [tool : Tools, args : Args, note : Notes]
  BY <1>1, <1>2, <1>4 DEF Advance
<1>6. Advance(ch) \in Channels /\ Advance(ch).pending # None
  BY <1>3, <1>5, PlanNotNone DEF Advance, Channels, Answers
<1> QED
  BY <1>6 DEF Schedules, Nodes

LEMMA ContinuationKeeps ==
    ASSUME TypeInv, NEW r \in Requests, ContinuationEnds(r) \/ ContinuationAdvances(r)
    PROVE  TypeInv'
<1>1. run[r].ch \in Channels
  BY RunTyped DEF TypeInv
<1>2. CASE ContinuationEnds(r)
  <2>1. Commit(r, "end", EmptyChannels) /\ Unchanged
    BY <1>2 DEF ContinuationEnds, Settled, Unchanged
  <2>2. Schedules("end", EmptyChannels)
    BY EmptyTyped DEF Schedules, Writers
  <2> QED
    BY <2>1, <2>2, CommitStep
<1>3. CASE ContinuationAdvances(r)
  BY <1>1, <1>3, AdvanceTyped, CommitStep DEF ContinuationAdvances, Unchanged
<1> QED
  BY <1>2, <1>3

LEMMA EnvironmentKeeps ==
    ASSUME TypeInv,
           \/ Expire \/ ToggleGate \/ ErpChanges \/ Die
           \/ \E r \in Requests : Raise(r)
    PROVE  TypeInv'
<1>1. RestType /\ CkptType /\ RunType /\ PendingOK
  BY DEF TypeInv
<1>2. CASE Expire
  <2>1. CkptType' /\ ckpt'.next = ckpt.next /\ ckpt'.ch = ckpt.ch
    BY <1>1, <1>2 DEF Expire, CkptType
  <2> QED
    BY <1>1, <1>2, <2>1 DEF Expire, TypeInv, RunType, PendingOK, RestType
<1>3. CASE ToggleGate \/ ErpChanges
  BY <1>1, <1>3 DEF ToggleGate, ErpChanges, TypeInv, CkptType, RunType, PendingOK, RestType
<1>4. ASSUME RunType', UNCHANGED <<ckpt, erp, gate, log, said, turns>>,
             \A s \in Requests : run'[s] = run[s] \/ run'[s].pc = "idle"
      PROVE  TypeInv'
  <2>1. PendingOK'
    BY <1>1, <1>4 DEF PendingOK
  <2> QED
    BY <1>1, <1>4, <2>1 DEF TypeInv, CkptType, RestType
<1>5. IdleRun \in RunState /\ IdleRun.pc = "idle"
  BY IdleTyped DEF IdleRun
<1>6. CASE Die
  <2>1. run' = [s \in Requests |-> IdleRun]
    BY <1>6 DEF Die
  <2> QED
    BY <1>4, <1>5, <1>6, <2>1 DEF Die, RunType
<1>7. CASE \E r \in Requests : Raise(r)
  <2>1. PICK r \in Requests : Raise(r)
    BY <1>7
  <2>2. run' = [run EXCEPT ![r] = IdleRun]
    BY <2>1 DEF Raise
  <2>3. RunType'
    BY <1>1, <1>5, <2>2 DEF RunType
  <2>4. \A s \in Requests : run'[s] = run[s] \/ run'[s].pc = "idle"
    BY <1>1, <1>5, <2>2 DEF RunType
  <2> QED
    BY <1>4, <2>1, <2>3, <2>4 DEF Raise
<1> QED
  BY <1>2, <1>3, <1>6, <1>7

LEMMA NextKeeps ==
    ASSUME TypeInv, [Next]_vars
    PROVE  TypeInv'
<1>1. CASE UNCHANGED vars
  BY <1>1 DEF vars, TypeInv, CkptType, RunType, PendingOK, RestType
<1>2. CASE \E r \in Requests : Chat(r)
  BY <1>2, ChatKeeps
<1>3. ASSUME NEW r \in Requests, Serve(r)
      PROVE  TypeInv'
  BY <1>3, ResumeFinishKeep, RouterPlannerKeep, ExecutorKeeps, CoordinatorKeeps,
     ContinuationKeeps DEF Serve
<1>4. CASE \/ Expire \/ ToggleGate \/ ErpChanges \/ Die
           \/ \E r \in Requests : Raise(r)
  BY <1>4, EnvironmentKeeps
<1> QED
  BY <1>1, <1>2, <1>3, <1>4 DEF Next

\* Whatever the faults and the registry, every value stays one of the values
\* the code can hold, and a writing node is only scheduled with a pending
\* action to write.
THEOREM TypeInvariant == Spec => []TypeInv
<1>1. Init => TypeInv
  BY TypeInvInit
<1>2. TypeInv /\ [Next]_vars => TypeInv'
  BY NextKeeps
<1> QED
  BY <1>1, <1>2, PTL DEF Spec

\* TypeOK, the type invariant of the runs, for every instance.
THEOREM TypeCorrect == Spec => []TypeOK
<1>1. TypeInv => TypeOK
  BY DEF TypeInv, CkptType, RunType, RestType, TypeOK
<1> QED
  BY <1>1, TypeInvariant, PTL

-----------------------------------------------------------------------------
(* What a step leaves in the checkpoint and in the runs, action by action. *)

SameRun(s) ==
    /\ run'[s].pc = run[s].pc /\ run'[s].node = run[s].node
    /\ run'[s].ch = run[s].ch /\ run'[s].resume = run[s].resume
    /\ run'[s].answers = run[s].answers

LEMMA CommitFacts ==
    ASSUME RunType, NEW r \in Requests, NEW next, NEW ch,
           Schedules(next, ch), Commit(r, next, ch)
    PROVE  /\ ckpt'.next = next /\ ckpt'.ch = ch /\ ckpt'.answers = <<>>
           /\ run'[r].pc \in {"run", "finish"} /\ run'[r].node = next
           /\ run'[r].ch = ch /\ run'[r].resume = None /\ run'[r].answers = <<>>
           /\ \A s \in Requests : s # r => SameRun(s)
<1>1. \A s \in Requests : run[s] \in RunState
  BY DEF RunType
<1>2. run'[r] = [run[r] EXCEPT !.pc = IF next = "end" THEN "finish" ELSE "run",
                               !.node = next, !.ch = ch, !.resume = None,
                               !.answers = <<>>, !.ask = None, !.tip = TRUE,
                               !.result = None]
  BY DEF Commit
<1>3. \A s \in Requests : s # r => run'[s] = [run[s] EXCEPT !.tip = FALSE]
  BY DEF Commit
<1>4. ckpt' = Checkpoint(next, ch)
  BY DEF Commit
<1>5. ckpt'.next = next /\ ckpt'.ch = ch /\ ckpt'.answers = <<>>
  BY <1>4 DEF Checkpoint
<1>6. \A s \in Requests : s # r => SameRun(s)
  BY <1>1, <1>3 DEF RunState, SameRun
<1>7. /\ run'[r].pc \in {"run", "finish"} /\ run'[r].node = next
      /\ run'[r].ch = ch /\ run'[r].resume = None /\ run'[r].answers = <<>>
  BY <1>1, <1>2 DEF RunState
<1> QED
  BY <1>5, <1>6, <1>7

LEMMA InvokeFacts ==
    ASSUME RunType, NEW r \in Requests, NEW ch \in Channels, Invoke(r, ch)
    PROVE  /\ ckpt'.next = "router" /\ ckpt'.ch = ch /\ ckpt'.answers = <<>>
           /\ run'[r].pc = "run" /\ run'[r].node = "router"
           /\ run'[r].ch = ch /\ run'[r].resume = None /\ run'[r].answers = <<>>
           /\ \A s \in Requests : s # r => SameRun(s)
<1>1. \A s \in Requests : run[s] \in RunState
  BY DEF RunType
<1>2. run'[r] = [IdleRun EXCEPT !.pc = "run", !.node = "router", !.ch = ch, !.tip = TRUE]
  BY DEF Invoke
<1>3. \A s \in Requests : s # r => run'[s] = [run[s] EXCEPT !.tip = FALSE]
  BY DEF Invoke
<1>4. ckpt' = Checkpoint("router", ch)
  BY DEF Invoke
<1>5. ckpt'.next = "router" /\ ckpt'.ch = ch /\ ckpt'.answers = <<>>
  BY <1>4 DEF Checkpoint
<1>6. \A s \in Requests : s # r => SameRun(s)
  BY <1>1, <1>3 DEF RunState, SameRun
<1>7. /\ run'[r].pc = "run" /\ run'[r].node = "router"
      /\ run'[r].ch = ch /\ run'[r].resume = None /\ run'[r].answers = <<>>
  BY <1>2 DEF IdleRun
<1> QED
  BY <1>5, <1>6, <1>7

LEMMA ParkFacts ==
    ASSUME RunType, CkptType, NEW r \in Requests, NEW q, Park(r, q)
    PROVE  /\ ckpt'.next = ckpt.next /\ ckpt'.ch = ckpt.ch
           /\ ckpt'.answers \in {ckpt.answers, Inputs(r)}
           /\ run'[r].pc = "finish" /\ run'[r].node = run[r].node
           /\ run'[r].ch = run[r].ch /\ run'[r].resume = run[r].resume
           /\ run'[r].answers = run[r].answers
           /\ \A s \in Requests : s # r => SameRun(s)
<1>1. \A s \in Requests : run[s] \in RunState
  BY DEF RunType
<1>2. run'[r] = [run[r] EXCEPT !.pc = "finish"] /\ \A s \in Requests : s # r => run'[s] = run[s]
  BY DEF Park, RunType
<1>3. ckpt'.next = ckpt.next /\ ckpt'.ch = ckpt.ch /\ ckpt'.answers \in {ckpt.answers, Inputs(r)}
  BY DEF Park, CkptType
<1>4. \A s \in Requests : s # r => SameRun(s)
  BY <1>2 DEF SameRun
<1>5. /\ run'[r].pc = "finish" /\ run'[r].node = run[r].node
      /\ run'[r].ch = run[r].ch /\ run'[r].resume = run[r].resume
      /\ run'[r].answers = run[r].answers
  BY <1>1, <1>2 DEF RunState
<1> QED
  BY <1>3, <1>4, <1>5

LEMMA CallFacts ==
    ASSUME RunType, NEW r \in Requests, NEW w, Call(r, w)
    PROVE  /\ run'[r].pc = "wrote" /\ run'[r].node = run[r].node
           /\ run'[r].ch = run[r].ch /\ run'[r].resume = run[r].resume
           /\ run'[r].answers = run[r].answers
           /\ \A s \in Requests : s # r => SameRun(s)
           /\ log' = log \/ log' = Append(log, w)
           /\ UNCHANGED <<ckpt, said>>
<1>1. \A s \in Requests : run[s] \in RunState
  BY DEF RunType
<1>2. PICK result \in {"envelope", "text", "error"}, reached \in BOOLEAN :
        /\ log' = IF reached THEN Append(log, w) ELSE log
        /\ run' = [run EXCEPT ![r].pc = "wrote", ![r].result = result]
  BY DEF Call
<1>3. /\ run'[r] = [run[r] EXCEPT !.pc = "wrote", !.result = result]
      /\ \A s \in Requests : s # r => run'[s] = run[s]
  BY <1>2 DEF RunType
<1>4. /\ run'[r].pc = "wrote" /\ run'[r].node = run[r].node
      /\ run'[r].ch = run[r].ch /\ run'[r].resume = run[r].resume
      /\ run'[r].answers = run[r].answers
  BY <1>1, <1>3 DEF RunState
<1>5. \A s \in Requests : s # r => SameRun(s)
  BY <1>3 DEF SameRun
<1> QED
  BY <1>2, <1>4, <1>5 DEF Call

LEMMA ResumeFacts ==
    ASSUME RunType, NEW r \in Requests, Resume(r)
    PROVE  /\ \/ /\ run'[r].pc = "finish" /\ run'[r].ch = run[r].ch
                 /\ run'[r].answers = run[r].answers
              \/ /\ run'[r].pc = "run" /\ run'[r].node = ckpt.next
                 /\ run'[r].ch = ckpt.ch /\ run'[r].answers = ckpt.answers
           /\ run'[r].resume = run[r].resume
           /\ \A s \in Requests : s # r => SameRun(s)
           /\ UNCHANGED <<ckpt, log, said>>
<1>1. \A s \in Requests : run[s] \in RunState
  BY DEF RunType
<1>2. /\ run'[r] = IF ckpt.next = "end" THEN [run[r] EXCEPT !.pc = "finish"]
                   ELSE [run[r] EXCEPT !.pc = "run", !.node = ckpt.next, !.ch = ckpt.ch,
                                       !.answers = ckpt.answers, !.ask = ckpt.ask,
                                       !.tip = TRUE]
      /\ \A s \in Requests : s # r => run'[s] = run[s]
  BY DEF Resume, RunType
<1>3. \A s \in Requests : s # r => SameRun(s)
  BY <1>2 DEF SameRun
<1>4. /\ \/ /\ run'[r].pc = "finish" /\ run'[r].ch = run[r].ch
            /\ run'[r].answers = run[r].answers
         \/ /\ run'[r].pc = "run" /\ run'[r].node = ckpt.next
            /\ run'[r].ch = ckpt.ch /\ run'[r].answers = ckpt.answers
      /\ run'[r].resume = run[r].resume
  BY <1>1, <1>2 DEF RunState
<1> QED
  BY <1>3, <1>4 DEF Resume

-----------------------------------------------------------------------------
(* The plain executor never writes a money or mail step. *)

Plain(next, ch) == next = "executor" => ch.pending.tool \notin ConfirmInChain

PlainInv ==
    /\ Plain(ckpt.next, ckpt.ch)
    /\ \A r \in Requests : run[r].pc \in {"run", "wrote"} => Plain(run[r].node, run[r].ch)
    /\ MoneyOnlyFromDraft

LEMMA CommitPlain ==
    ASSUME TypeInv, PlainInv, NEW r \in Requests, NEW next, NEW ch,
           Schedules(next, ch), Plain(next, ch), Commit(r, next, ch), Unchanged
    PROVE  PlainInv'
<1>1. /\ ckpt'.next = next /\ ckpt'.ch = ch
      /\ run'[r].node = next /\ run'[r].ch = ch
      /\ \A s \in Requests : s # r => SameRun(s)
  BY CommitFacts DEF TypeInv
<1>2. MoneyOnlyFromDraft'
  BY DEF PlainInv, MoneyOnlyFromDraft, Unchanged
<1> QED
  BY <1>1, <1>2 DEF PlainInv, Plain, SameRun

LEMMA InvokePlain ==
    ASSUME TypeInv, PlainInv, NEW r \in Requests, NEW ch \in Channels,
           Invoke(r, ch), UNCHANGED log
    PROVE  PlainInv'
<1>1. /\ ckpt'.next = "router" /\ run'[r].node = "router"
      /\ \A s \in Requests : s # r => SameRun(s)
  BY InvokeFacts DEF TypeInv
<1>2. MoneyOnlyFromDraft'
  BY DEF PlainInv, MoneyOnlyFromDraft
<1> QED
  BY <1>1, <1>2 DEF PlainInv, Plain, SameRun

LEMMA ParkPlain ==
    ASSUME TypeInv, PlainInv, NEW r \in Requests, NEW q, Park(r, q), Unchanged
    PROVE  PlainInv'
<1>1. /\ ckpt'.next = ckpt.next /\ ckpt'.ch = ckpt.ch /\ run'[r].pc = "finish"
      /\ \A s \in Requests : s # r => SameRun(s)
  BY ParkFacts DEF TypeInv
<1>2. MoneyOnlyFromDraft'
  BY DEF PlainInv, MoneyOnlyFromDraft, Unchanged
<1> QED
  BY <1>1, <1>2 DEF PlainInv, Plain, SameRun

LEMMA CallPlain ==
    ASSUME TypeInv, PlainInv, NEW r \in Requests, NEW w \in Writes, Call(r, w),
           run[r].pc = "run",
           w.tool \in ConfirmInChain => w.draft # None
    PROVE  PlainInv'
<1>1. /\ run'[r].node = run[r].node /\ run'[r].ch = run[r].ch
      /\ \A s \in Requests : s # r => SameRun(s)
      /\ log' = log \/ log' = Append(log, w)
      /\ UNCHANGED ckpt
  BY CallFacts DEF TypeInv
<1>2. log \in Seq(Writes)
  BY DEF TypeInv, RestType
<1>3. MoneyOnlyFromDraft'
  BY <1>1, <1>2 DEF PlainInv, MoneyOnlyFromDraft
<1> QED
  BY <1>1, <1>3 DEF PlainInv, Plain, SameRun

LEMMA ServePlain ==
    ASSUME TypeInv, PlainInv, NEW r \in Requests, Serve(r)
    PROVE  PlainInv'
<1>1. run[r] \in RunState /\ run[r].ch \in Channels /\ ckpt.ch \in Channels
  BY RunTyped DEF TypeInv, CkptType
<1>2. MoneyOnlyFromDraft /\ UNCHANGED log => MoneyOnlyFromDraft'
  BY DEF MoneyOnlyFromDraft
<1>3. ASSUME run[r].pc \in {"run", "wrote"}, run[r].node \in Writers
      PROVE  run[r].ch.pending \in [tool : Tools, args : Args, note : Notes]
  BY <1>1, <1>3 DEF TypeInv, PendingOK, Channels
<1>4. CASE Resume(r)
  BY <1>2, <1>4, ResumeFacts DEF PlainInv, Plain, SameRun, TypeInv
<1>5. CASE Finish(r)
  <2>1. CASE run[r].again
    BY <1>1, <1>5, <2>1, InvokePlain DEF Finish
  <2>2. CASE ~run[r].again
    <3>1. run'[r] = IdleRun /\ \A s \in Requests : s # r => run'[s] = run[s]
      BY <1>5, <2>2 DEF Finish, TypeInv, RunType
    <3>2. IdleRun.pc = "idle"
      BY DEF IdleRun
    <3> QED
      BY <1>2, <1>5, <2>2, <3>1, <3>2 DEF Finish, PlainInv, Plain
  <2> QED
    BY <2>1, <2>2
<1>6. CASE Router(r) \/ PlannerRefuses(r) \/ PlannerHandsOver(r) \/ PlannerAsks(r)
  <2>1. CASE Router(r)
    <3>1. PICK next \in {"planner", "end"} : Commit(r, next, run[r].ch)
      BY <2>1 DEF Router
    <3>2. Schedules(next, run[r].ch) /\ Plain(next, run[r].ch)
      BY <1>1 DEF Schedules, Nodes, Writers, Plain
    <3> QED
      BY <2>1, <3>1, <3>2, CommitPlain DEF Router, Unchanged
  <2>2. CASE PlannerRefuses(r)
    <3> DEFINE ch == [run[r].ch EXCEPT !.pending = None, !.chain = <<>>]
    <3>1. <<>> \in Seq(Tools)
      OBVIOUS
    <3>2. Schedules("end", ch) /\ Plain("end", ch)
      BY <1>1, <3>1 DEF Schedules, Writers, Plain, Channels
    <3>3. Commit(r, "end", ch) /\ Unchanged
      BY <2>2 DEF PlannerRefuses, Unchanged
    <3> QED
      BY <3>2, <3>3, CommitPlain
  <2>3. CASE PlannerHandsOver(r)
    <3>1. PICK p \in PlansFor(r) :
            Commit(r, "coordinator", [run[r].ch EXCEPT !.pending = p, !.chain = p.note])
      BY <2>3 DEF PlannerHandsOver
    <3> DEFINE ch == [run[r].ch EXCEPT !.pending = p, !.chain = p.note]
    <3>2. p \in [tool : Tools, args : Args, note : Notes] /\ p.note \in Seq(Tools) /\ p # None
      BY PlanTyped, PlanNotNone
    <3>3. Schedules("coordinator", ch) /\ Plain("coordinator", ch)
      BY <1>1, <3>2 DEF Schedules, Nodes, Plain, Channels
    <3> QED
      BY <2>3, <3>1, <3>3, CommitPlain DEF PlannerHandsOver, Unchanged
  <2>4. CASE PlannerAsks(r)
    <3>1. PICK p \in PlansFor(r) : Park(r, PlanQuestion(p))
      BY <2>4 DEF PlannerAsks
    <3> QED
      BY <2>4, <3>1, ParkPlain DEF PlannerAsks, Unchanged
  <2> QED
    BY <1>6, <2>1, <2>2, <2>3, <2>4
<1>7. CASE PlannerAnswered(r)
  <2>1. PICK p \in PlansFor(r) :
          /\ p.tool \notin Coordinated
          /\ Commit(r, "executor", [run[r].ch EXCEPT !.pending = p, !.chain = p.note,
                                                     !.confirmed = Inputs(r)[1]])
    BY <1>7 DEF PlannerAnswered
  <2> DEFINE ch == [run[r].ch EXCEPT !.pending = p, !.chain = p.note,
                                     !.confirmed = Inputs(r)[1]]
  <2>2. p \in [tool : Tools, args : Args, note : Notes] /\ p.note \in Seq(Tools) /\ p # None
    BY PlanTyped, PlanNotNone
  <2>3. Inputs(r) \in Seq(Answers) /\ Inputs(r) # <<>>
    BY <1>7, InputsTyped DEF PlannerAnswered, TypeInv
  <2>4. Inputs(r)[1] \in Answers
    BY <2>3
  <2>5. ch \in Channels /\ ch.pending = p
    BY <1>1, <2>2, <2>4 DEF Channels
  <2>6. Schedules("executor", ch) /\ Plain("executor", ch)
    BY <2>1, <2>2, <2>5, ToolAssumption DEF Schedules, Nodes, Plain
  <2> QED
    BY <1>7, <2>1, <2>6, CommitPlain DEF PlannerAnswered, Unchanged
<1>8. CASE ExecutorCancels(r) \/ ExecutorReturns(r)
  <2>1. run[r].ch.pending # None
    BY <1>8 DEF TypeInv, PendingOK, Writers, ExecutorCancels, ExecutorReturns, At
  <2>2. PICK last \in [tool : Tools, args : Args] \cup {None} :
          Commit(r, "continuation", Cleared(run[r].ch, last))
    BY <1>8, <2>1, HandleTyped DEF ExecutorCancels, ExecutorReturns
  <2>3. Schedules("continuation", Cleared(run[r].ch, last))
    BY <1>1 DEF Cleared, Channels, Schedules, Nodes, Writers
  <2>4. Plain("continuation", Cleared(run[r].ch, last)) /\ Unchanged
    BY <1>8 DEF Plain, ExecutorCancels, ExecutorReturns, Unchanged
  <2> QED
    BY <2>2, <2>3, <2>4, CommitPlain
<1>9. CASE ExecutorCalls(r)
  <2> DEFINE w == [tool |-> run[r].ch.pending.tool, args |-> run[r].ch.pending.args,
                   draft |-> None]
  <2>1. Call(r, w) /\ run[r].pc = "run" /\ run[r].node = "executor"
    BY <1>9 DEF ExecutorCalls, At
  <2>2. w \in Writes
    BY <1>3, <2>1 DEF Writes, Writers
  <2>3. w.tool \notin ConfirmInChain
    BY <2>1 DEF PlainInv, Plain
  <2> QED
    BY <2>1, <2>2, <2>3, CallPlain
<1>10. CASE CoordinatorStops(r) \/ CoordinatorReturns(r)
  <2>1. run[r].ch.pending # None
    BY <1>10 DEF TypeInv, PendingOK, Writers, CoordinatorStops, CoordinatorReturns, At
  <2>2. PICK ch \in Channels : Commit(r, "continuation", ch)
    <3>1. Handle(r) \in [tool : Tools, args : Args] \cup {None}
      BY <2>1, HandleTyped
    <3>2. [run[r].ch EXCEPT !.pending = None, !.last = Handle(r)] \in Channels
      BY <1>1, <3>1 DEF Channels
    <3> QED
      BY <1>1, <1>10, <3>2 DEF CoordinatorStops, CoordinatorReturns
  <2>3. Schedules("continuation", ch) /\ Plain("continuation", ch)
    BY DEF Schedules, Nodes, Writers, Plain
  <2>4. Unchanged
    BY <1>10 DEF CoordinatorStops, CoordinatorReturns, Unchanged
  <2> QED
    BY <2>2, <2>3, <2>4, CommitPlain
<1>11. CASE CoordinatorAsksPick(r) \/ CoordinatorAsksConfirm(r)
  <2>1. PICK q : Park(r, q)
    BY <1>11 DEF CoordinatorAsksPick, CoordinatorAsksConfirm
  <2>2. Unchanged
    BY <1>11 DEF CoordinatorAsksPick, CoordinatorAsksConfirm, Unchanged
  <2> QED
    BY <2>1, <2>2, ParkPlain
<1>12. CASE CoordinatorCalls(r)
  <2> DEFINE w == [tool |-> run[r].ch.pending.tool, args |-> run[r].ch.pending.args,
                   draft |-> DraftNow(r)]
  <2>1. Call(r, w) /\ run[r].pc = "run" /\ run[r].node = "coordinator" /\ Picked(r)
    BY <1>12 DEF CoordinatorCalls, At
  <2>2. DraftNow(r) \in Drafts
    BY <2>1 DEF Picked, DraftNow, Drafts, TypeInv, RestType
  <2>3. DraftNow(r) # None
    BY <2>2, NoneAssumption DEF Drafts
  <2>4. w \in Writes
    BY <1>3, <2>1, <2>2 DEF Writes, Writers
  <2> QED
    BY <2>1, <2>3, <2>4, CallPlain
<1>13. CASE ContinuationEnds(r)
  <2>1. Schedules("end", EmptyChannels) /\ Plain("end", EmptyChannels)
    BY EmptyTyped DEF Schedules, Writers, Plain
  <2>2. Commit(r, "end", EmptyChannels) /\ Unchanged
    BY <1>13 DEF ContinuationEnds, Settled, Unchanged
  <2> QED
    BY <2>1, <2>2, CommitPlain
<1>14. CASE ContinuationAdvances(r)
  <2> DEFINE ch == run[r].ch
             next == IF AsksAgain(NextStep(ch)) THEN "coordinator" ELSE "executor"
  <2>1. Commit(r, next, Advance(ch)) /\ Unchanged /\ InChain(ch)
    BY <1>14 DEF ContinuationAdvances, Unchanged
  <2>2. Schedules(next, Advance(ch))
    BY <1>1, <2>1, AdvanceTyped
  <2>3. Plain(next, Advance(ch))
    BY DEF Plain, Advance, AsksAgain
  <2> QED
    BY <2>1, <2>2, <2>3, CommitPlain
<1> QED
  BY <1>4, <1>5, <1>6, <1>7, <1>8, <1>9, <1>10, <1>11, <1>12, <1>13, <1>14 DEF Serve

LEMMA PlainStep ==
    ASSUME TypeInv, PlainInv, [Next]_vars
    PROVE  PlainInv'
<1>1. CASE UNCHANGED vars
  BY <1>1 DEF vars, PlainInv, Plain, MoneyOnlyFromDraft
<1>2. ASSUME UNCHANGED log, ckpt'.next = ckpt.next, ckpt'.ch = ckpt.ch,
             \A s \in Requests : run'[s] = run[s] \/ run'[s].pc \in {"idle", "resume"}
      PROVE  PlainInv'
  <2>1. MoneyOnlyFromDraft'
    BY <1>2 DEF PlainInv, MoneyOnlyFromDraft
  <2> QED
    BY <1>2, <2>1 DEF PlainInv, Plain
<1>3. IdleRun.pc = "idle"
  BY DEF IdleRun
<1>4. ASSUME NEW r \in Requests, Chat(r)
      PROVE  PlainInv'
  <2>1. CASE ChatFresh(r) \/ ChatNotParked(r)
    <3>1. PICK ch \in Channels : Invoke(r, ch)
      BY <2>1, EmptyTyped DEF ChatFresh, ChatNotParked, TypeInv, CkptType
    <3> QED
      BY <2>1, <3>1, InvokePlain DEF ChatFresh, ChatNotParked, TakesRequest
  <2>2. CASE ChatExpired(r) \/ ChatReply(r) \/ ChatReask(r)
    <3>1. UNCHANGED <<log, ckpt>>
      BY <2>2 DEF ChatExpired, ChatReply, ChatReask, TakesRequest
    <3>2. run' = run \/ \E x : x.pc = "resume" /\ run' = [run EXCEPT ![r] = x]
      <4>1. ASSUME NEW v, NEW t, NEW a
            PROVE  [IdleRun EXCEPT !.pc = "resume", !.resume = v, !.reply = t,
                                   !.again = a].pc = "resume"
        BY DEF IdleRun
      <4>2. ASSUME NEW v
            PROVE  [IdleRun EXCEPT !.pc = "resume", !.resume = v, !.reply = v].pc = "resume"
        BY DEF IdleRun
      <4>3. CASE ChatExpired(r)
        BY <4>1, <4>3 DEF ChatExpired
      <4>4. CASE ChatReply(r)
        BY <4>2, <4>4 DEF ChatReply
      <4>5. CASE ChatReask(r)
        BY <4>5 DEF ChatReask
      <4> QED
        BY <2>2, <4>3, <4>4, <4>5
    <3>3. \A s \in Requests : run'[s] = run[s] \/ run'[s].pc = "resume"
      BY <3>2 DEF TypeInv, RunType
    <3> QED
      BY <1>2, <3>1, <3>3
  <2> QED
    BY <1>4, <2>1, <2>2 DEF Chat
<1>5. ASSUME NEW r \in Requests, Raise(r)
      PROVE  PlainInv'
  BY <1>2, <1>3, <1>5 DEF Raise, TypeInv, RunType
<1>6. CASE Expire
  BY <1>2, <1>6 DEF Expire, TypeInv, CkptType
<1>7. CASE ToggleGate \/ ErpChanges \/ Die
  BY <1>2, <1>3, <1>7 DEF ToggleGate, ErpChanges, Die
<1> QED
  BY <1>1, <1>4, <1>5, <1>6, <1>7, ServePlain DEF Next

\* Money and mail steps are written by the coordinator that built a draft of
\* them, never by the plain executor: for every registry, any number of
\* overlapping requests and every fault, a declared chain included.
THEOREM MoneyNeedsDraft == Spec => []MoneyOnlyFromDraft
<1>1. Init => PlainInv
  <2> SUFFICES ASSUME Init PROVE PlainInv
    OBVIOUS
  <2>1. ckpt.next = "end" /\ log = <<>> /\ \A r \in Requests : run[r].pc = "idle"
    BY DEF Init, Checkpoint, IdleRun
  <2> QED
    BY <2>1 DEF PlainInv, Plain, MoneyOnlyFromDraft
<1>2. TypeInv /\ PlainInv /\ [Next]_vars => PlainInv'
  BY PlainStep
<1>3. PlainInv => MoneyOnlyFromDraft
  BY DEF PlainInv
<1> QED
  BY <1>1, <1>2, <1>3, TypeInvariant, PTL DEF Spec

-----------------------------------------------------------------------------
(* As long as the user has agreed to nothing, no run holds a yes.          *)

QuietCh(ch) == ~Truthy(ch.confirmed) /\ ch.last = None
QuietSeq(answers) == \A i \in 1..Len(answers) : ~Truthy(answers[i])
QuietRun(s) ==
    /\ run[s].pc # "wrote"
    /\ QuietCh(run[s].ch)
    /\ ~Truthy(run[s].resume)
    /\ QuietSeq(run[s].answers)

Quiet ==
    /\ QuietCh(ckpt.ch) /\ QuietSeq(ckpt.answers)
    /\ \A s \in Requests : QuietRun(s)
    /\ log = <<>>

QuietInv == said = <<>> => Quiet

LEMMA InputsQuiet ==
    ASSUME TypeInv, Quiet, NEW r \in Requests
    PROVE  QuietSeq(Inputs(r))
<1>1. run[r].answers \in Seq(Answers) /\ QuietSeq(run[r].answers) /\ ~Truthy(run[r].resume)
  BY DEF TypeInv, RunType, RunState, Quiet, QuietRun
<1>2. CASE run[r].resume = None
  <2>1. Inputs(r) = run[r].answers
    BY <1>1, <1>2 DEF Inputs
  <2> QED
    BY <1>1, <2>1
<1>3. CASE run[r].resume # None
  <2>1. Inputs(r) = run[r].answers \o <<run[r].resume>>
    BY <1>3 DEF Inputs
  <2>2. /\ Len(Inputs(r)) = Len(run[r].answers) + 1
        /\ \A i \in 1..Len(Inputs(r)) :
              Inputs(r)[i] = IF i <= Len(run[r].answers) THEN run[r].answers[i]
                             ELSE run[r].resume
    BY <1>1, <2>1
  <2>3. Len(run[r].answers) \in Nat
    BY <1>1
  <2> QED
    BY <1>1, <2>2, <2>3 DEF QuietSeq
<1> QED
  BY <1>2, <1>3

LEMMA CommitQuiet ==
    ASSUME TypeInv, Quiet, NEW r \in Requests, NEW next, NEW ch,
           Schedules(next, ch), QuietCh(ch), Commit(r, next, ch), Unchanged
    PROVE  Quiet'
<1>1. /\ ckpt'.ch = ch /\ ckpt'.answers = <<>>
      /\ run'[r].pc \in {"run", "finish"} /\ run'[r].ch = ch
      /\ run'[r].resume = None /\ run'[r].answers = <<>>
      /\ \A s \in Requests : s # r => SameRun(s)
  BY CommitFacts DEF TypeInv
<1>2. QuietSeq(<<>>) /\ ~Truthy(None)
  BY DEF QuietSeq, Truthy
<1> QED
  BY <1>1, <1>2 DEF Quiet, QuietRun, QuietCh, QuietSeq, SameRun, Unchanged

LEMMA InvokeQuiet ==
    ASSUME TypeInv, Quiet, NEW r \in Requests, NEW ch \in Channels,
           QuietCh(ch), Invoke(r, ch), UNCHANGED log
    PROVE  Quiet'
<1>1. /\ ckpt'.ch = ch /\ ckpt'.answers = <<>>
      /\ run'[r].pc = "run" /\ run'[r].ch = ch
      /\ run'[r].resume = None /\ run'[r].answers = <<>>
      /\ \A s \in Requests : s # r => SameRun(s)
  BY InvokeFacts DEF TypeInv
<1>2. QuietSeq(<<>>) /\ ~Truthy(None)
  BY DEF QuietSeq, Truthy
<1> QED
  BY <1>1, <1>2 DEF Quiet, QuietRun, QuietCh, QuietSeq, SameRun

LEMMA ParkQuiet ==
    ASSUME TypeInv, Quiet, NEW r \in Requests, NEW q, Park(r, q), Unchanged
    PROVE  Quiet'
<1>1. /\ ckpt'.ch = ckpt.ch /\ ckpt'.answers \in {ckpt.answers, Inputs(r)}
      /\ run'[r].pc = "finish" /\ run'[r].ch = run[r].ch
      /\ run'[r].resume = run[r].resume /\ run'[r].answers = run[r].answers
      /\ \A s \in Requests : s # r => SameRun(s)
  BY ParkFacts DEF TypeInv
<1>2. QuietSeq(ckpt'.answers)
  BY <1>1, InputsQuiet DEF Quiet
<1> QED
  BY <1>1, <1>2 DEF Quiet, QuietRun, QuietCh, QuietSeq, SameRun, Unchanged

LEMMA ServeQuiet ==
    ASSUME TypeInv, Quiet, NEW r \in Requests, Serve(r)
    PROVE  Quiet'
<1>1. /\ run[r] \in RunState /\ run[r].ch \in Channels /\ ckpt.ch \in Channels
      /\ Inputs(r) \in Seq(Answers)
  BY RunTyped, InputsTyped DEF TypeInv, CkptType
<1>2. QuietCh(run[r].ch) /\ run[r].pc # "wrote" /\ QuietSeq(Inputs(r)) /\ QuietCh(ckpt.ch)
  BY InputsQuiet DEF Quiet, QuietRun
<1>3. ~ \/ ExecutorCalls(r) \/ ExecutorReturns(r)
        \/ CoordinatorCalls(r) \/ CoordinatorReturns(r)
  <2>1. ConfirmAt \in Nat \ {0}
    BY DEF ConfirmAt
  <2>2. Len(Inputs(r)) >= ConfirmAt => ~Truthy(Inputs(r)[ConfirmAt])
    BY <1>1, <1>2, <2>1 DEF QuietSeq
  <2> QED
    BY <1>2, <2>2 DEF ExecutorCalls, ExecutorReturns, CoordinatorCalls,
                      CoordinatorReturns, QuietCh
<1>4. ~ContinuationAdvances(r)
  BY <1>2 DEF ContinuationAdvances, InChain, NextStep, QuietCh
<1>5. CASE Resume(r)
  BY <1>5, ResumeFacts DEF Quiet, QuietRun, QuietCh, QuietSeq, SameRun, TypeInv
<1>6. CASE Finish(r)
  <2>1. CASE run[r].again
    BY <1>1, <1>2, <1>6, <2>1, InvokeQuiet DEF Finish
  <2>2. CASE ~run[r].again
    <3>1. run'[r] = IdleRun /\ \A s \in Requests : s # r => run'[s] = run[s]
      BY <1>6, <2>2 DEF Finish, TypeInv, RunType
    <3>2. UNCHANGED <<ckpt, log>>
      BY <1>6, <2>2 DEF Finish
    <3>3. QuietRun(r)'
      BY <3>1 DEF QuietRun, IdleRun, QuietCh, EmptyChannels, QuietSeq, Truthy
    <3>4. \A s \in Requests : s # r => QuietRun(s)'
      BY <3>1 DEF Quiet, QuietRun
    <3> QED
      BY <3>2, <3>3, <3>4 DEF Quiet
  <2> QED
    BY <2>1, <2>2
<1>7. CASE Router(r)
  <2>1. PICK next \in {"planner", "end"} : Commit(r, next, run[r].ch)
    BY <1>7 DEF Router
  <2>2. Schedules(next, run[r].ch)
    BY <1>1 DEF Schedules, Nodes, Writers
  <2> QED
    BY <1>2, <1>7, <2>1, <2>2, CommitQuiet DEF Router, Unchanged
<1>8. CASE PlannerRefuses(r)
  <2> DEFINE ch == [run[r].ch EXCEPT !.pending = None, !.chain = <<>>]
  <2>1. <<>> \in Seq(Tools)
    OBVIOUS
  <2>2. Schedules("end", ch) /\ QuietCh(ch)
    BY <1>1, <1>2, <2>1 DEF Schedules, Writers, QuietCh, Channels
  <2>3. Commit(r, "end", ch) /\ Unchanged
    BY <1>8 DEF PlannerRefuses, Unchanged
  <2> QED
    BY <2>2, <2>3, CommitQuiet
<1>9. CASE PlannerHandsOver(r)
  <2>1. PICK p \in PlansFor(r) :
          Commit(r, "coordinator", [run[r].ch EXCEPT !.pending = p, !.chain = p.note])
    BY <1>9 DEF PlannerHandsOver
  <2> DEFINE ch == [run[r].ch EXCEPT !.pending = p, !.chain = p.note]
  <2>2. p \in [tool : Tools, args : Args, note : Notes] /\ p.note \in Seq(Tools) /\ p # None
    BY PlanTyped, PlanNotNone
  <2>3. Schedules("coordinator", ch) /\ QuietCh(ch)
    BY <1>1, <1>2, <2>2 DEF Schedules, Nodes, QuietCh, Channels
  <2> QED
    BY <1>9, <2>1, <2>3, CommitQuiet DEF PlannerHandsOver, Unchanged
<1>10. CASE PlannerAsks(r) \/ CoordinatorAsksPick(r) \/ CoordinatorAsksConfirm(r)
  <2>1. PICK q : Park(r, q)
    BY <1>10 DEF PlannerAsks, CoordinatorAsksPick, CoordinatorAsksConfirm
  <2>2. Unchanged
    BY <1>10 DEF PlannerAsks, CoordinatorAsksPick, CoordinatorAsksConfirm, Unchanged
  <2> QED
    BY <2>1, <2>2, ParkQuiet
<1>11. CASE PlannerAnswered(r)
  <2>1. PICK p \in PlansFor(r) :
          Commit(r, "executor", [run[r].ch EXCEPT !.pending = p, !.chain = p.note,
                                                  !.confirmed = Inputs(r)[1]])
    BY <1>11 DEF PlannerAnswered
  <2> DEFINE ch == [run[r].ch EXCEPT !.pending = p, !.chain = p.note,
                                     !.confirmed = Inputs(r)[1]]
  <2>2. p \in [tool : Tools, args : Args, note : Notes] /\ p.note \in Seq(Tools) /\ p # None
    BY PlanTyped, PlanNotNone
  <2>3. Inputs(r) # <<>>
    BY <1>11 DEF PlannerAnswered
  <2>4. Inputs(r)[1] \in Answers /\ ~Truthy(Inputs(r)[1])
    BY <1>1, <1>2, <2>3 DEF QuietSeq
  <2>5. ch \in Channels /\ ch.pending = p /\ QuietCh(ch)
    BY <1>1, <1>2, <2>2, <2>4 DEF Channels, QuietCh
  <2>6. Schedules("executor", ch)
    BY <2>2, <2>5 DEF Schedules, Nodes
  <2> QED
    BY <1>11, <2>1, <2>5, <2>6, CommitQuiet DEF PlannerAnswered, Unchanged
<1>12. CASE ExecutorCancels(r)
  <2> DEFINE ch == Cleared(run[r].ch, None)
  <2>1. Schedules("continuation", ch) /\ QuietCh(ch)
    BY <1>1, <1>2 DEF Cleared, Channels, Schedules, Nodes, Writers, QuietCh, Truthy
  <2>2. Commit(r, "continuation", ch) /\ Unchanged
    BY <1>12 DEF ExecutorCancels, Unchanged
  <2> QED
    BY <2>1, <2>2, CommitQuiet
<1>13. CASE CoordinatorStops(r)
  <2>1. Schedules("continuation", run[r].ch)
    BY <1>1 DEF Schedules, Nodes, Writers
  <2> QED
    BY <1>2, <1>13, <2>1, CommitQuiet DEF CoordinatorStops, Unchanged
<1>14. CASE ContinuationEnds(r)
  <2>1. Schedules("end", EmptyChannels) /\ QuietCh(EmptyChannels)
    BY EmptyTyped DEF Schedules, Writers, QuietCh, EmptyChannels, Truthy
  <2> QED
    BY <1>14, <2>1, CommitQuiet DEF ContinuationEnds, Settled, Unchanged
<1> QED
  BY <1>3, <1>4, <1>5, <1>6, <1>7, <1>8, <1>9, <1>10, <1>11, <1>12, <1>13, <1>14 DEF Serve

LEMMA OnlyAppends ==
    ASSUME TypeInv, [Next]_vars, said' = <<>>
    PROVE  said = <<>>
<1>1. said \in Seq(Replies)
  BY DEF TypeInv, RestType
<1>2. ASSUME NEW r \in Requests, Chat(r)
      PROVE  said = <<>>
  <2>1. CASE ChatReply(r)
    <3>1. PICK v \in Decisions(ckpt.ask) :
            said' = IF Truthy(v) THEN Append(said, [ask |-> ckpt.ask, reply |-> v])
                    ELSE said
      BY <2>1 DEF ChatReply
    <3>2. Append(said, [ask |-> ckpt.ask, reply |-> v]) # <<>>
      BY <1>1
    <3> QED
      BY <3>1, <3>2
  <2>2. CASE ~ChatReply(r)
    BY <1>2, <2>2 DEF Chat, ChatFresh, ChatNotParked, ChatExpired, ChatReask
  <2> QED
    BY <2>1, <2>2
<1>3. ASSUME NEW r \in Requests, Serve(r)
      PROVE  said = <<>>
  BY <1>3 DEF Serve, Resume, Finish, Router, PlannerRefuses, PlannerHandsOver,
     PlannerAsks, PlannerAnswered, ExecutorCancels, ExecutorCalls, ExecutorReturns,
     CoordinatorStops, CoordinatorAsksPick, CoordinatorAsksConfirm, CoordinatorCalls,
     CoordinatorReturns, ContinuationEnds, ContinuationAdvances, Call
<1> QED
  BY <1>2, <1>3 DEF Next, vars, Raise, Expire, ToggleGate, ErpChanges, Die

LEMMA QuietStep ==
    ASSUME TypeInv, Quiet, [Next]_vars, said' = <<>>
    PROVE  Quiet'
<1>1. CASE UNCHANGED vars
  BY <1>1 DEF vars, Quiet, QuietRun, QuietCh, QuietSeq
<1>2. QuietCh(IdleRun.ch) /\ QuietSeq(IdleRun.answers) /\ IdleRun.pc = "idle" /\ ~Truthy(None)
  BY DEF IdleRun, EmptyChannels, QuietCh, QuietSeq, Truthy
<1>3. ASSUME UNCHANGED log, ckpt'.ch = ckpt.ch, ckpt'.answers = ckpt.answers,
             \A s \in Requests :
               \/ run'[s] = run[s]
               \/ /\ run'[s].pc # "wrote" /\ run'[s].ch = IdleRun.ch
                  /\ run'[s].answers = IdleRun.answers /\ ~Truthy(run'[s].resume)
      PROVE  Quiet'
  <2>1. \A s \in Requests : QuietRun(s)'
    BY <1>2, <1>3 DEF Quiet, QuietRun, QuietCh, QuietSeq
  <2> QED
    BY <1>3, <2>1 DEF Quiet, QuietCh, QuietSeq
<1>4. ASSUME NEW r \in Requests, Chat(r)
      PROVE  Quiet'
  <2>1. CASE ChatFresh(r) \/ ChatNotParked(r)
    <3>1. PICK ch \in {EmptyChannels, ckpt.ch} : Invoke(r, ch)
      BY <2>1 DEF ChatFresh, ChatNotParked
    <3>2. ch \in Channels /\ QuietCh(ch)
      BY EmptyTyped DEF TypeInv, CkptType, Quiet, QuietCh, EmptyChannels, Truthy
    <3> QED
      BY <2>1, <3>1, <3>2, InvokeQuiet DEF ChatFresh, ChatNotParked, TakesRequest
  <2>2. CASE ChatExpired(r)
    <3>1. /\ run' = [run EXCEPT ![r] = [IdleRun EXCEPT !.pc = "resume",
                            !.resume = ExpiredAs, !.reply = "late", !.again = TRUE]]
          /\ UNCHANGED <<log, ckpt>>
      BY <2>2 DEF ChatExpired, TakesRequest
    <3>2. \A s \in Requests : s # r => run'[s] = run[s]
      BY <3>1 DEF TypeInv, RunType
    <3>3. /\ run'[r].pc = "resume" /\ run'[r].resume = "no"
          /\ run'[r].ch = IdleRun.ch /\ run'[r].answers = IdleRun.answers
      BY <3>1 DEF IdleRun, TypeInv, RunType, ExpiredAs
    <3>4. ~Truthy("no")
      BY DEF Truthy
    <3> QED
      BY <1>3, <3>1, <3>2, <3>3, <3>4
  <2>3. CASE ChatReply(r)
    <3>1. PICK v \in Decisions(ckpt.ask) :
            /\ run' = [run EXCEPT ![r] = [IdleRun EXCEPT !.pc = "resume", !.resume = v,
                                                         !.reply = v]]
            /\ said' = IF Truthy(v) THEN Append(said, [ask |-> ckpt.ask, reply |-> v])
                       ELSE said
      BY <2>3 DEF ChatReply
    <3>2. said \in Seq(Replies)
      BY DEF TypeInv, RestType
    <3>3. ~Truthy(v)
      <4>1. Append(said, [ask |-> ckpt.ask, reply |-> v]) # <<>>
        BY <3>2
      <4> QED
        BY <3>1, <4>1
    <3>4. \A s \in Requests : s # r => run'[s] = run[s]
      BY <3>1 DEF TypeInv, RunType
    <3>5. /\ run'[r].pc = "resume" /\ run'[r].resume = v
          /\ run'[r].ch = IdleRun.ch /\ run'[r].answers = IdleRun.answers
      BY <3>1 DEF IdleRun, TypeInv, RunType
    <3>6. UNCHANGED <<log, ckpt>>
      BY <2>3 DEF ChatReply, TakesRequest
    <3> QED
      BY <1>3, <3>3, <3>4, <3>5, <3>6
  <2>4. CASE ChatReask(r)
    BY <1>3, <2>4 DEF ChatReask, TakesRequest
  <2> QED
    BY <1>4, <2>1, <2>2, <2>3, <2>4 DEF Chat
<1>5. IdleRun.resume = None
  BY DEF IdleRun
<1>6. ASSUME NEW r \in Requests, Raise(r)
      PROVE  Quiet'
  BY <1>2, <1>3, <1>5, <1>6 DEF Raise, TypeInv, RunType
<1>7. CASE Expire
  BY <1>3, <1>7 DEF Expire, TypeInv, CkptType
<1>8. CASE ToggleGate \/ ErpChanges
  BY <1>3, <1>8 DEF ToggleGate, ErpChanges
<1>9. CASE Die
  BY <1>2, <1>3, <1>5, <1>9 DEF Die
<1> QED
  BY <1>1, <1>4, <1>6, <1>7, <1>8, <1>9, ServeQuiet DEF Next

\* The ERP receives nothing before the user has answered a question of this
\* conversation with a yes or a pick -- not from a second request overlapping
\* the first, not from a replayed node, not after a restart.
THEOREM NothingUninvitedHolds == Spec => []NothingUninvited
<1>1. Init => QuietInv
  <2> SUFFICES ASSUME Init PROVE Quiet
    BY DEF QuietInv
  <2>1. ckpt = Checkpoint("end", EmptyChannels) /\ log = <<>>
    BY DEF Init
  <2>2. QuietCh(ckpt.ch) /\ QuietSeq(ckpt.answers)
    BY <2>1 DEF Checkpoint, EmptyChannels, QuietCh, QuietSeq, Truthy
  <2>3. \A s \in Requests : run[s] = IdleRun
    BY DEF Init
  <2>4. \A s \in Requests : QuietRun(s)
    BY <2>3 DEF QuietRun, IdleRun, EmptyChannels, QuietCh, QuietSeq, Truthy
  <2> QED
    BY <2>1, <2>2, <2>4 DEF Quiet
<1>2. TypeInv /\ QuietInv /\ [Next]_vars => QuietInv'
  <2> SUFFICES ASSUME TypeInv, QuietInv, [Next]_vars, said' = <<>>
               PROVE  Quiet'
    BY DEF QuietInv
  <2>1. said = <<>>
    BY OnlyAppends
  <2> QED
    BY <2>1, QuietStep DEF QuietInv
<1>3. QuietInv => NothingUninvited
  BY DEF QuietInv, Quiet, NothingUninvited
<1> QED
  BY <1>1, <1>2, <1>3, TypeInvariant, PTL DEF Spec

-----------------------------------------------------------------------------
(***************************************************************************)
(* A thread that serves one request at a time: no old handle is found, a   *)
(* no writes nothing, and without faults the confirmation gate keeps its   *)
(* promise.  For every registry, every set of options and prices, any      *)
(* number of workers and requests.                                         *)
(***************************************************************************)

OneAtATime ==
    \A r, s \in Requests : run[r].pc # "idle" /\ run[s].pc # "idle" => r = s

\* A run stands on the latest checkpoint.
Aligned ==
    \A r \in Requests : run[r].pc \in {"run", "wrote"} =>
        /\ run[r].tip /\ run[r].node = ckpt.next /\ ckpt.next # "end"
        /\ run[r].ch = ckpt.ch /\ run[r].answers = ckpt.answers /\ run[r].ask = ckpt.ask

\* HandleConsumed, and that no run stops with a handle behind it.
Consumed ==
    /\ HandleConsumed
    /\ \A r \in Requests : run[r].pc = "finish" => ckpt.ch.last = None

Serial == OneAtATime /\ Aligned /\ Consumed

-----------------------------------------------------------------------------
(* What a step of the only run leaves behind                               *)

Alone(r) == \A s \in Requests : s # r => run[s].pc = "idle"

Others(r) ==
    \A s \in Requests : s # r =>
        /\ run'[s].pc = "idle" /\ run'[s].node = run[s].node /\ run'[s].ch = run[s].ch
        /\ run'[s].reply = run[s].reply /\ run'[s].resume = run[s].resume

LEMMA OthersStay ==
    ASSUME RunType, OneAtATime, NEW r \in Requests, run[r].pc # "idle",
           \A s \in Requests : s # r =>
               run'[s] = run[s] \/ run'[s] = [run[s] EXCEPT !.tip = FALSE]
    PROVE  Alone(r) /\ Others(r)
<1>1. \A s \in Requests : run[s] \in RunState
  BY DEF RunType
<1>2. \A s \in Requests : s # r => run[s].pc = "idle"
  BY DEF OneAtATime
<1> QED
  BY <1>1, <1>2 DEF Alone, Others, RunState

LEMMA CommitAlone ==
    ASSUME RunType, OneAtATime, NEW r \in Requests, run[r].pc # "idle",
           NEW next, NEW ch, Commit(r, next, ch)
    PROVE  /\ ckpt'.next = next /\ ckpt'.ch = ch /\ ckpt'.ask = None
           /\ ckpt'.answers = <<>> /\ ~ckpt'.late
           /\ run'[r].pc = IF next = "end" THEN "finish" ELSE "run"
           /\ run'[r].node = next /\ run'[r].ch = ch /\ run'[r].resume = None
           /\ run'[r].answers = <<>> /\ run'[r].ask = None /\ run'[r].tip
           /\ run'[r].reply = run[r].reply
           /\ Alone(r) /\ Others(r)
<1>1. run[r] \in RunState
  BY DEF RunType
<1>2. run'[r] = [run[r] EXCEPT !.pc = IF next = "end" THEN "finish" ELSE "run",
                               !.node = next, !.ch = ch, !.resume = None,
                               !.answers = <<>>, !.ask = None, !.tip = TRUE,
                               !.result = None]
  BY DEF Commit
<1>3. Alone(r) /\ Others(r)
  BY OthersStay DEF Commit
<1>4. ckpt' = Checkpoint(next, ch)
  BY DEF Commit
<1>5. /\ ckpt'.next = next /\ ckpt'.ch = ch /\ ckpt'.ask = None
      /\ ckpt'.answers = <<>> /\ ~ckpt'.late
  BY <1>4 DEF Checkpoint
<1>6. /\ run'[r].pc = IF next = "end" THEN "finish" ELSE "run"
      /\ run'[r].node = next /\ run'[r].ch = ch /\ run'[r].resume = None
      /\ run'[r].answers = <<>> /\ run'[r].ask = None /\ run'[r].tip
      /\ run'[r].reply = run[r].reply
  BY <1>1, <1>2 DEF RunState
<1> QED
  BY <1>3, <1>5, <1>6

LEMMA InvokeAlone ==
    ASSUME RunType, NEW r \in Requests, Alone(r), NEW ch, Invoke(r, ch)
    PROVE  /\ ckpt'.next = "router" /\ ckpt'.ch = ch /\ ckpt'.ask = None
           /\ ckpt'.answers = <<>> /\ ~ckpt'.late
           /\ run'[r].pc = "run" /\ run'[r].node = "router" /\ run'[r].ch = ch
           /\ run'[r].resume = None /\ run'[r].answers = <<>> /\ run'[r].ask = None
           /\ run'[r].tip /\ run'[r].reply = None
           /\ Others(r)
<1>1. run'[r] = [IdleRun EXCEPT !.pc = "run", !.node = "router", !.ch = ch, !.tip = TRUE]
  BY DEF Invoke
<1>2. \A s \in Requests : s # r => run'[s] = [run[s] EXCEPT !.tip = FALSE]
  BY DEF Invoke
<1>3. Others(r)
  BY <1>2 DEF Others, RunType, RunState, Alone
<1>4. ckpt' = Checkpoint("router", ch)
  BY DEF Invoke
<1>5. /\ ckpt'.next = "router" /\ ckpt'.ch = ch /\ ckpt'.ask = None
      /\ ckpt'.answers = <<>> /\ ~ckpt'.late
  BY <1>4 DEF Checkpoint
<1>6. /\ run'[r].pc = "run" /\ run'[r].node = "router" /\ run'[r].ch = ch
      /\ run'[r].resume = None /\ run'[r].answers = <<>> /\ run'[r].ask = None
      /\ run'[r].tip /\ run'[r].reply = None
  BY <1>1 DEF IdleRun
<1> QED
  BY <1>3, <1>5, <1>6

LEMMA ParkAlone ==
    ASSUME RunType, CkptType, OneAtATime, NEW r \in Requests, run[r].pc # "idle",
           run[r].tip, NEW q, Park(r, q)
    PROVE  /\ ckpt'.next = ckpt.next /\ ckpt'.ch = ckpt.ch /\ ckpt'.ask = q
           /\ ckpt'.answers = Inputs(r) /\ ~ckpt'.late
           /\ run'[r].pc = "finish" /\ run'[r].node = run[r].node
           /\ run'[r].ch = run[r].ch /\ run'[r].reply = run[r].reply
           /\ Alone(r) /\ Others(r)
<1>1. run[r] \in RunState
  BY DEF RunType
<1>2. run'[r] = [run[r] EXCEPT !.pc = "finish"] /\ \A s \in Requests : s # r => run'[s] = run[s]
  BY DEF Park, RunType
<1>3. Alone(r) /\ Others(r)
  BY <1>2, OthersStay
<1>4. /\ ckpt'.next = ckpt.next /\ ckpt'.ch = ckpt.ch /\ ckpt'.ask = q
      /\ ckpt'.answers = Inputs(r) /\ ~ckpt'.late
  BY DEF Park, CkptType
<1>5. /\ run'[r].pc = "finish" /\ run'[r].node = run[r].node
      /\ run'[r].ch = run[r].ch /\ run'[r].reply = run[r].reply
  BY <1>1, <1>2 DEF RunState
<1> QED
  BY <1>3, <1>4, <1>5

LEMMA CallAlone ==
    ASSUME RunType, OneAtATime, NEW r \in Requests, run[r].pc # "idle", NEW w, Call(r, w)
    PROVE  /\ run'[r].pc = "wrote" /\ run'[r].node = run[r].node /\ run'[r].ch = run[r].ch
           /\ run'[r].answers = run[r].answers /\ run'[r].ask = run[r].ask
           /\ run'[r].resume = run[r].resume /\ run'[r].tip = run[r].tip
           /\ run'[r].reply = run[r].reply
           /\ \/ log' = log /\ run'[r].result # "envelope"
              \/ log' = Append(log, w)
           /\ UNCHANGED <<ckpt, erp, gate, said, turns>>
           /\ Alone(r) /\ Others(r)
<1>1. run[r] \in RunState
  BY DEF RunType
<1>2. PICK result \in {"envelope", "text", "error"}, reached \in BOOLEAN :
        /\ result = "envelope" => reached
        /\ log' = IF reached THEN Append(log, w) ELSE log
        /\ run' = [run EXCEPT ![r].pc = "wrote", ![r].result = result]
  BY DEF Call
<1>3. /\ run'[r] = [run[r] EXCEPT !.pc = "wrote", !.result = result]
      /\ \A s \in Requests : s # r => run'[s] = run[s]
  BY <1>2 DEF RunType
<1>4. Alone(r) /\ Others(r)
  BY <1>3, OthersStay
<1>5. /\ run'[r].pc = "wrote" /\ run'[r].node = run[r].node /\ run'[r].ch = run[r].ch
      /\ run'[r].answers = run[r].answers /\ run'[r].ask = run[r].ask
      /\ run'[r].resume = run[r].resume /\ run'[r].tip = run[r].tip
      /\ run'[r].reply = run[r].reply /\ run'[r].result = result
  BY <1>1, <1>3 DEF RunState
<1>6. (log' = log /\ run'[r].result # "envelope") \/ log' = Append(log, w)
  BY <1>2, <1>5
<1> QED
  BY <1>4, <1>5, <1>6 DEF Call

LEMMA ResumeAlone ==
    ASSUME RunType, OneAtATime, NEW r \in Requests, Resume(r)
    PROVE  /\ IF ckpt.next = "end"
              THEN run'[r].pc = "finish" /\ run'[r].node = run[r].node /\ run'[r].ch = run[r].ch
              ELSE /\ run'[r].pc = "run" /\ run'[r].node = ckpt.next /\ run'[r].ch = ckpt.ch
                   /\ run'[r].answers = ckpt.answers /\ run'[r].ask = ckpt.ask /\ run'[r].tip
           /\ run'[r].resume = run[r].resume /\ run'[r].reply = run[r].reply
           /\ UNCHANGED <<ckpt, erp, gate, log, said, turns>>
           /\ Alone(r) /\ Others(r)
<1>1. run[r] \in RunState /\ run[r].pc = "resume"
  BY DEF RunType, Resume
<1>2. /\ run'[r] = IF ckpt.next = "end" THEN [run[r] EXCEPT !.pc = "finish"]
                   ELSE [run[r] EXCEPT !.pc = "run", !.node = ckpt.next, !.ch = ckpt.ch,
                                       !.answers = ckpt.answers, !.ask = ckpt.ask,
                                       !.tip = TRUE]
      /\ \A s \in Requests : s # r => run'[s] = run[s]
  BY DEF Resume, RunType
<1>3. Alone(r) /\ Others(r)
  BY <1>1, <1>2, OthersStay
<1>4. /\ IF ckpt.next = "end"
         THEN run'[r].pc = "finish" /\ run'[r].node = run[r].node /\ run'[r].ch = run[r].ch
         ELSE /\ run'[r].pc = "run" /\ run'[r].node = ckpt.next /\ run'[r].ch = ckpt.ch
              /\ run'[r].answers = ckpt.answers /\ run'[r].ask = ckpt.ask /\ run'[r].tip
      /\ run'[r].resume = run[r].resume /\ run'[r].reply = run[r].reply
  BY <1>1, <1>2 DEF RunState
<1> QED
  BY <1>3, <1>4 DEF Resume

\* A reply is taken, or the request of a run ends or is lost.
LEMMA ReplaceAlone ==
    ASSUME RunType, NEW r \in Requests, Alone(r), NEW x, run' = [run EXCEPT ![r] = x]
    PROVE  run'[r] = x /\ Others(r)
<1>1. run'[r] = x /\ \A s \in Requests : s # r => run'[s] = run[s]
  BY DEF RunType
<1> QED
  BY <1>1 DEF Others, Alone

LEMMA SerialBy ==
    ASSUME NEW r \in Requests, Others(r), Consumed,
           run'[r].pc \in {"run", "wrote"} =>
               /\ run'[r].tip /\ run'[r].node = ckpt'.next /\ ckpt'.next # "end"
               /\ run'[r].ch = ckpt'.ch /\ run'[r].answers = ckpt'.answers
               /\ run'[r].ask = ckpt'.ask,
           run'[r].ch.last # None => run'[r].node = "continuation",
           ckpt'.ch.last # None => ckpt'.next = "continuation",
           run'[r].pc = "finish" => ckpt'.ch.last = None
    PROVE  Serial'
<1>1. OneAtATime' /\ Aligned'
  BY DEF OneAtATime, Aligned, Others
<1>2. Consumed'
  BY DEF Consumed, HandleConsumed, Others
<1> QED
  BY <1>1, <1>2 DEF Serial

LEMMA CommitSerial ==
    ASSUME TypeInv, Serial, NEW r \in Requests, run[r].pc # "idle", NEW next, NEW ch,
           Commit(r, next, ch), ch.last # None => next = "continuation"
    PROVE  Serial'
<1> DEFINE ends == next = "end"
<1>1. RunType /\ OneAtATime /\ Consumed
  BY DEF TypeInv, Serial
<1>2. /\ ckpt'.next = next /\ ckpt'.ch = ch /\ ckpt'.ask = None /\ ckpt'.answers = <<>>
      /\ run'[r].pc = IF next = "end" THEN "finish" ELSE "run"
      /\ run'[r].node = next /\ run'[r].ch = ch
      /\ run'[r].answers = <<>> /\ run'[r].ask = None /\ run'[r].tip
      /\ Others(r)
  BY <1>1, CommitAlone
<1> QED
  BY <1>1, <1>2, SerialBy

LEMMA InvokeSerial ==
    ASSUME TypeInv, Serial, NEW r \in Requests, Alone(r), NEW ch, Invoke(r, ch),
           ch.last = None
    PROVE  Serial'
<1>1. RunType /\ Consumed
  BY DEF TypeInv, Serial
<1>2. /\ ckpt'.next = "router" /\ ckpt'.ch = ch /\ ckpt'.ask = None /\ ckpt'.answers = <<>>
      /\ run'[r].pc = "run" /\ run'[r].node = "router" /\ run'[r].ch = ch
      /\ run'[r].answers = <<>> /\ run'[r].ask = None /\ run'[r].tip
      /\ Others(r)
  BY <1>1, InvokeAlone
<1> QED
  BY <1>1, <1>2, SerialBy

LEMMA ParkSerial ==
    ASSUME TypeInv, Serial, NEW r \in Requests, run[r].pc = "run",
           run[r].node # "continuation", NEW q, Park(r, q)
    PROVE  Serial'
<1>1. RunType /\ CkptType /\ OneAtATime /\ Aligned /\ Consumed
  BY DEF TypeInv, Serial
<1>2. run[r].tip /\ run[r].node = ckpt.next /\ run[r].ch = ckpt.ch
  BY <1>1 DEF Aligned
<1>3. /\ ckpt'.next = ckpt.next /\ ckpt'.ch = ckpt.ch
      /\ run'[r].pc = "finish" /\ run'[r].node = run[r].node /\ run'[r].ch = run[r].ch
      /\ Others(r)
  BY <1>1, <1>2, ParkAlone
<1>4. run[r].ch.last = None
  BY <1>1 DEF Consumed, HandleConsumed
<1> QED
  BY <1>1, <1>2, <1>3, <1>4, SerialBy

LEMMA CallSerial ==
    ASSUME TypeInv, Serial, NEW r \in Requests, run[r].pc = "run", NEW w, Call(r, w)
    PROVE  Serial'
<1>1. RunType /\ OneAtATime /\ Aligned /\ Consumed
  BY DEF TypeInv, Serial
<1>2. /\ run'[r].pc = "wrote" /\ run'[r].node = run[r].node /\ run'[r].ch = run[r].ch
      /\ run'[r].answers = run[r].answers /\ run'[r].ask = run[r].ask
      /\ run'[r].tip = run[r].tip
      /\ ckpt' = ckpt /\ Others(r)
  BY <1>1, CallAlone
<1>3. run[r].ch.last # None => run[r].node = "continuation"
  BY <1>1 DEF Consumed, HandleConsumed
<1>4. /\ run[r].tip /\ run[r].node = ckpt.next /\ ckpt.next # "end"
      /\ run[r].ch = ckpt.ch /\ run[r].answers = ckpt.answers /\ run[r].ask = ckpt.ask
  BY <1>1 DEF Aligned
<1> QED
  BY <1>1, <1>2, <1>3, <1>4, SerialBy

LEMMA NoLast == EmptyChannels.last = None
BY DEF EmptyChannels

\* What the nodes commit; a handle goes to the continuation and nowhere else.
LEMMA ServeSerial ==
    ASSUME TypeInv, Serial, NEW r \in Requests, Serve(r)
    PROVE  Serial'
<1>1. RunType /\ CkptType /\ OneAtATime /\ Aligned /\ Consumed
  BY DEF TypeInv, Serial
<1>2. run[r].ch \in Channels
  BY RunTyped DEF TypeInv
<1>3. run[r].ch.last # None => run[r].node = "continuation"
  BY <1>1 DEF Consumed, HandleConsumed
<1>4. CASE Resume(r)
  <2>1. run[r].pc = "resume" /\ run[r].pc # "idle"
    BY <1>4 DEF Resume
  <2>2. /\ IF ckpt.next = "end"
           THEN run'[r].pc = "finish" /\ run'[r].node = run[r].node /\ run'[r].ch = run[r].ch
           ELSE /\ run'[r].pc = "run" /\ run'[r].node = ckpt.next /\ run'[r].ch = ckpt.ch
                /\ run'[r].answers = ckpt.answers /\ run'[r].ask = ckpt.ask /\ run'[r].tip
        /\ ckpt' = ckpt /\ Others(r)
    BY <1>1, <1>4, ResumeAlone
  <2>3. ckpt.ch.last # None => ckpt.next = "continuation"
    BY <1>1 DEF Consumed, HandleConsumed
  <2> QED
    BY <1>1, <1>3, <2>2, <2>3, SerialBy
<1>5. CASE Finish(r)
  <2>1. run[r].pc = "finish" /\ Alone(r)
    BY <1>1, <1>5 DEF Finish, OneAtATime, Alone
  <2>2. ckpt.ch.last = None
    BY <1>1, <2>1 DEF Consumed
  <2>3. CASE run[r].again
    BY <1>5, <2>1, <2>2, <2>3, InvokeSerial DEF Finish
  <2>4. CASE ~run[r].again
    <3>1. run' = [run EXCEPT ![r] = IdleRun] /\ ckpt' = ckpt
      BY <1>5, <2>4 DEF Finish
    <3>2. run'[r] = IdleRun /\ Others(r)
      BY <1>1, <2>1, <3>1, ReplaceAlone
    <3>3. run'[r].pc = "idle" /\ run'[r].ch.last = None
      BY <3>2, NoLast DEF IdleRun
    <3> QED
      BY <1>1, <2>2, <3>1, <3>2, <3>3, SerialBy
  <2> QED
    BY <2>3, <2>4
<1>6. CASE Router(r)
  <2>1. PICK next \in {"planner", "end"} : Commit(r, next, run[r].ch)
    BY <1>6 DEF Router
  <2>2. run[r].pc # "idle" /\ run[r].ch.last = None
    BY <1>3, <1>6 DEF Router, At
  <2> QED
    BY <2>1, <2>2, CommitSerial
<1>7. CASE PlannerRefuses(r)
  <2> DEFINE ch == [run[r].ch EXCEPT !.pending = None, !.chain = <<>>]
  <2>1. Commit(r, "end", ch) /\ run[r].pc # "idle"
    BY <1>7 DEF PlannerRefuses, At
  <2>2. ch.last = None
    BY <1>2, <1>3, <1>7 DEF PlannerRefuses, At, Channels
  <2> QED
    BY <2>1, <2>2, CommitSerial
<1>8. CASE PlannerHandsOver(r)
  <2>1. PICK p \in PlansFor(r) :
          Commit(r, "coordinator", [run[r].ch EXCEPT !.pending = p, !.chain = p.note])
    BY <1>8 DEF PlannerHandsOver
  <2> DEFINE ch == [run[r].ch EXCEPT !.pending = p, !.chain = p.note]
  <2>2. ch.last = None /\ run[r].pc # "idle"
    BY <1>2, <1>3, <1>8 DEF PlannerHandsOver, At, Channels
  <2> QED
    BY <2>1, <2>2, CommitSerial
<1>9. CASE PlannerAnswered(r)
  <2>1. PICK p \in PlansFor(r) :
          Commit(r, "executor", [run[r].ch EXCEPT !.pending = p, !.chain = p.note,
                                                  !.confirmed = Inputs(r)[1]])
    BY <1>9 DEF PlannerAnswered
  <2> DEFINE ch == [run[r].ch EXCEPT !.pending = p, !.chain = p.note,
                                     !.confirmed = Inputs(r)[1]]
  <2>2. ch.last = None /\ run[r].pc # "idle"
    BY <1>2, <1>3, <1>9 DEF PlannerAnswered, At, Channels
  <2> QED
    BY <2>1, <2>2, CommitSerial
<1>10. CASE PlannerAsks(r) \/ CoordinatorAsksPick(r) \/ CoordinatorAsksConfirm(r)
  <2>1. PICK q : Park(r, q)
    BY <1>10 DEF PlannerAsks, CoordinatorAsksPick, CoordinatorAsksConfirm
  <2>2. run[r].pc = "run" /\ run[r].node # "continuation"
    BY <1>10 DEF PlannerAsks, CoordinatorAsksPick, CoordinatorAsksConfirm, At
  <2> QED
    BY <2>1, <2>2, ParkSerial
<1>11. CASE ExecutorCalls(r) \/ CoordinatorCalls(r)
  <2>1. PICK w : Call(r, w)
    BY <1>11 DEF ExecutorCalls, CoordinatorCalls
  <2>2. run[r].pc = "run"
    BY <1>11 DEF ExecutorCalls, CoordinatorCalls, At
  <2> QED
    BY <2>1, <2>2, CallSerial
<1>12. CASE \/ ExecutorCancels(r) \/ ExecutorReturns(r)
            \/ CoordinatorStops(r) \/ CoordinatorReturns(r)
  <2>1. PICK ch : Commit(r, "continuation", ch)
    BY <1>12 DEF ExecutorCancels, ExecutorReturns, CoordinatorStops, CoordinatorReturns
  <2>2. run[r].pc # "idle"
    BY <1>12 DEF ExecutorCancels, ExecutorReturns, CoordinatorStops, CoordinatorReturns, At
  <2> QED
    BY <2>1, <2>2, CommitSerial
<1>13. CASE ContinuationEnds(r)
  <2>1. Commit(r, "end", EmptyChannels) /\ run[r].pc # "idle"
    BY <1>13 DEF ContinuationEnds, Settled, At
  <2> QED
    BY <2>1, NoLast, CommitSerial
<1>14. CASE ContinuationAdvances(r)
  <2>1. PICK next : Commit(r, next, Advance(run[r].ch))
    BY <1>14 DEF ContinuationAdvances
  <2>2. Advance(run[r].ch).last = None /\ run[r].pc # "idle"
    BY <1>14 DEF ContinuationAdvances, At, Advance
  <2> QED
    BY <2>1, <2>2, CommitSerial
<1> QED
  BY <1>4, <1>5, <1>6, <1>7, <1>8, <1>9, <1>10, <1>11, <1>12, <1>13, <1>14 DEF Serve

LEMMA AllIdle ==
    ASSUME "overlap" \notin Faults, NEW r \in Requests, TakesRequest(r)
    PROVE  Alone(r) /\ run[r].pc = "idle"
BY DEF TakesRequest, Alone

LEMMA ChatSerial ==
    ASSUME "overlap" \notin Faults, TypeInv, Serial, NEW r \in Requests, Chat(r)
    PROVE  Serial'
<1>1. RunType /\ CkptType /\ OneAtATime /\ Aligned /\ Consumed
  BY DEF TypeInv, Serial
<1>2. Alone(r) /\ run[r].pc = "idle"
  BY AllIdle DEF Chat, ChatFresh, ChatNotParked, ChatExpired, ChatReply, ChatReask
<1>3. ckpt.ch.last # None => ckpt.next = "continuation"
  BY <1>1 DEF Consumed, HandleConsumed
<1>4. CASE ChatFresh(r)
  BY <1>2, <1>4, NoLast, InvokeSerial DEF ChatFresh
<1>5. CASE ChatNotParked(r)
  BY <1>2, <1>3, <1>5, InvokeSerial DEF ChatNotParked, IsParked
<1>6. CASE ChatExpired(r) \/ ChatReply(r)
  <2>1. PICK x : /\ run' = [run EXCEPT ![r] = x] /\ ckpt' = ckpt
                 /\ x.pc = "resume" /\ x.ch = EmptyChannels
    <3>1. CASE ChatExpired(r)
      <4> DEFINE x == [IdleRun EXCEPT !.pc = "resume", !.resume = ExpiredAs,
                                      !.reply = "late", !.again = TRUE]
      <4>1. x.pc = "resume" /\ x.ch = EmptyChannels
        BY DEF IdleRun
      <4>2. run' = [run EXCEPT ![r] = x] /\ ckpt' = ckpt
        BY <3>1 DEF ChatExpired
      <4> QED
        BY <4>1, <4>2
    <3>2. CASE ChatReply(r)
      <4>1. PICK v : run' = [run EXCEPT ![r] = [IdleRun EXCEPT !.pc = "resume",
                                                  !.resume = v, !.reply = v]]
        BY <3>2 DEF ChatReply
      <4> DEFINE x == [IdleRun EXCEPT !.pc = "resume", !.resume = v, !.reply = v]
      <4>2. x.pc = "resume" /\ x.ch = EmptyChannels
        BY DEF IdleRun
      <4>3. run' = [run EXCEPT ![r] = x] /\ ckpt' = ckpt
        BY <3>2, <4>1 DEF ChatReply
      <4> QED
        BY <4>2, <4>3
    <3> QED
      BY <1>6, <3>1, <3>2
  <2>2. x.ch.last = None
    BY <2>1, NoLast
  <2>3. run'[r] = x /\ Others(r)
    BY <1>1, <1>2, <2>1, ReplaceAlone
  <2> QED
    BY <1>1, <1>3, <2>1, <2>2, <2>3, SerialBy
<1>7. CASE ChatReask(r)
  BY <1>7 DEF ChatReask, Serial, OneAtATime, Aligned, Consumed, HandleConsumed
<1> QED
  BY <1>4, <1>5, <1>6, <1>7 DEF Chat

LEMMA StepSerial ==
    ASSUME "overlap" \notin Faults, TypeInv, Serial, [Next]_vars
    PROVE  Serial'
<1>1. RunType /\ CkptType /\ OneAtATime /\ Aligned /\ Consumed
  BY DEF TypeInv, Serial
<1>2. CASE UNCHANGED vars \/ ToggleGate \/ ErpChanges
  BY <1>2 DEF vars, ToggleGate, ErpChanges, Serial, OneAtATime, Aligned, Consumed,
              HandleConsumed
<1>3. CASE Expire
  <2>1. /\ ckpt'.next = ckpt.next /\ ckpt'.ch = ckpt.ch /\ ckpt'.ask = ckpt.ask
        /\ ckpt'.answers = ckpt.answers /\ run' = run
    BY <1>1, <1>3 DEF Expire, CkptType
  <2> QED
    BY <1>1, <2>1 DEF Serial, OneAtATime, Aligned, Consumed, HandleConsumed
<1>4. ASSUME NEW r \in Requests, Raise(r)
      PROVE  Serial'
  <2>1. run' = [run EXCEPT ![r] = IdleRun] /\ ckpt' = ckpt /\ run[r].pc = "run"
    BY <1>4 DEF Raise
  <2>2. Alone(r)
    BY <1>1, <2>1 DEF OneAtATime, Alone
  <2>3. run'[r] = IdleRun /\ Others(r)
    BY <1>1, <2>1, <2>2, ReplaceAlone
  <2>4. run'[r].pc = "idle" /\ run'[r].ch.last = None
    BY <2>3, NoLast DEF IdleRun
  <2>5. ckpt.ch.last # None => ckpt.next = "continuation"
    BY <1>1 DEF Consumed, HandleConsumed
  <2> QED
    BY <1>1, <2>1, <2>3, <2>4, <2>5, SerialBy
<1>5. CASE Die
  <2>1. \A s \in Requests : run'[s].pc = "idle" /\ run'[s].ch.last = None
    BY <1>5, NoLast DEF Die, IdleRun
  <2>2. ckpt' = ckpt
    BY <1>5 DEF Die
  <2> QED
    BY <1>1, <2>1, <2>2 DEF Serial, OneAtATime, Aligned, Consumed, HandleConsumed
<1> QED
  BY <1>2, <1>3, <1>4, <1>5, ServeSerial, ChatSerial DEF Next

\* However planners change their minds, nodes raise, processes die and records
\* drift: as long as a thread serves one request at a time, a stored last_write
\* is always about to be consumed (continuation.py, write_continuation).
THEOREM HandleAlwaysConsumed ==
    ASSUME "overlap" \notin Faults
    PROVE  Spec => []HandleConsumed
<1>1. Init => Serial
  <2> SUFFICES ASSUME Init PROVE Serial
    OBVIOUS
  <2>1. ckpt.ch.last = None /\ \A s \in Requests : run[s].pc = "idle" /\ run[s].ch.last = None
    BY NoLast DEF Init, Checkpoint, IdleRun
  <2> QED
    BY <2>1 DEF Serial, OneAtATime, Aligned, Consumed, HandleConsumed
<1>2. TypeInv /\ Serial /\ [Next]_vars => Serial'
  BY StepSerial
<1>3. Serial => HandleConsumed
  BY DEF Serial, Consumed
<1> QED
  BY <1>1, <1>2, <1>3, TypeInvariant, PTL DEF Spec

LEMMA CoordinatorAsks ==
    ASSUME TypeInv, NEW r \in Requests,
           CoordinatorAsksPick(r) \/ CoordinatorAsksConfirm(r)
    PROVE  \E q \in Questions : Park(r, q)
<1>1. run[r] \in RunState /\ run[r].ch \in Channels
  BY RunTyped DEF TypeInv
<1>2. run[r].ch.pending # None
  BY DEF TypeInv, PendingOK, Writers, CoordinatorAsksPick, CoordinatorAsksConfirm, At
<1>3. run[r].ch.pending \in [tool : Tools, args : Args, note : Notes]
  BY <1>1, <1>2 DEF Channels
<1>4. <<>> \in Notes
  <2>1. <<>> \in [1..0 -> Tools] /\ 0 \in 0..MaxChain
    BY BoundAssumption
  <2> QED
    BY <2>1 DEF Notes
<1>5. Picked(r) => DraftNow(r) \in Drafts
  <2>1. erp \in [ambiguous : BOOLEAN, price : Prices]
    BY DEF TypeInv, RestType
  <2> QED
    BY <2>1 DEF Picked, DraftNow, Drafts
<1>6. CASE CoordinatorAsksPick(r)
  BY <1>3, <1>4, <1>6 DEF CoordinatorAsksPick, PickQuestion, Questions
<1>7. CASE CoordinatorAsksConfirm(r)
  BY <1>3, <1>4, <1>5, <1>7 DEF CoordinatorAsksConfirm, DraftQuestion, ShownChain, Questions
<1> QED
  BY <1>6, <1>7
Working == \E r \in Requests : run[r].pc \in {"run", "wrote"}

Parks == {"planner", "coordinator"}

\* Only a planner and a coordinator leave a question, and of the answers stored
\* with it none is in the place of the one that confirms.
Placed ==
    /\ ckpt.next \in {"executor", "continuation"} => Working
    /\ ckpt.ask = None => ckpt.answers = <<>>
    /\ ckpt.ask # None => ckpt.next \in Parks
    /\ ckpt.next = "planner" => ckpt.answers = <<>>
    /\ Len(ckpt.answers) < ConfirmAt

Refused(r) == run[r].reply \in {"no", "late"}

\* A run that was answered with a no gets to no tool call.
Denied ==
    \A r \in Requests : Refused(r) =>
        /\ run[r].pc \in {"resume", "run", "finish"}
        /\ run[r].pc = "resume" => run[r].resume = "no"
        /\ run[r].pc = "run" =>
              /\ run[r].resume \in {"no", None}
              /\ run[r].node = "executor" => ~Truthy(run[r].ch.confirmed)
              /\ run[r].node = "continuation" => run[r].ch.last = None


Certain == Placed /\ Denied

LEMMA InputsAre ==
    ASSUME TypeInv, NEW r \in Requests
    PROVE  /\ Len(run[r].answers) \in Nat
           /\ run[r].resume = None => Inputs(r) = run[r].answers
           /\ run[r].resume # None =>
                 /\ Len(Inputs(r)) = Len(run[r].answers) + 1
                 /\ Inputs(r)[Len(run[r].answers) + 1] = run[r].resume
                 /\ \A i \in 1..Len(run[r].answers) : Inputs(r)[i] = run[r].answers[i]
<1>1. run[r].answers \in Seq(Answers)
  BY RunTyped DEF TypeInv, RunState
<1>2. run[r].resume = None => Inputs(r) = run[r].answers
  BY <1>1 DEF Inputs
<1>3. run[r].resume # None => Inputs(r) = run[r].answers \o <<run[r].resume>>
  BY DEF Inputs
<1> QED
  BY <1>1, <1>2, <1>3

\* In the place of the answer that confirms, a refused run finds its no.
LEMMA RefusedInputs ==
    ASSUME TypeInv, Serial, Certain, NEW r \in Requests, Refused(r), run[r].pc = "run"
    PROVE  /\ Len(Inputs(r)) >= ConfirmAt => ~Truthy(Inputs(r)[ConfirmAt])
           /\ run[r].node = "planner" /\ Inputs(r) # <<>> => ~Truthy(Inputs(r)[1])
<1>1. run[r].answers = ckpt.answers /\ run[r].node = ckpt.next
  BY DEF Serial, Aligned
<1>2. run[r].resume \in {"no", None} /\ ~Truthy("no")
  BY DEF Certain, Denied, Truthy
<1>3. ConfirmAt \in Nat /\ Len(run[r].answers) \in Nat /\ Len(run[r].answers) < ConfirmAt
  BY <1>1, InputsAre DEF ConfirmAt, Certain, Placed
<1>4. run[r].node = "planner" => run[r].answers = <<>>
  BY <1>1 DEF Certain, Placed
<1>5. CASE run[r].resume = None
  <2>1. Inputs(r) = run[r].answers
    BY <1>5, InputsAre
  <2> QED
    BY <1>3, <1>4, <2>1
<1>6. CASE run[r].resume # None
  <2>1. /\ Len(Inputs(r)) = Len(run[r].answers) + 1
        /\ Inputs(r)[Len(run[r].answers) + 1] = run[r].resume
    BY <1>6, InputsAre
  <2>2. run[r].resume = "no"
    BY <1>2, <1>6
  <2>3. Len(Inputs(r)) >= ConfirmAt => ConfirmAt = Len(run[r].answers) + 1
    BY <1>3, <2>1
  <2>4. run[r].node = "planner" => Inputs(r)[1] = "no"
    <3>1. run[r].node = "planner" => Len(run[r].answers) = 0
      BY <1>4
    <3> QED
      BY <2>1, <2>2, <3>1
  <2> QED
    BY <1>2, <2>1, <2>2, <2>3, <2>4
<1> QED
  BY <1>5, <1>6

LEMMA DeniedBy ==
    ASSUME NEW r \in Requests, Alone(r), Others(r), Denied,
           Refused(r)' =>
               /\ run'[r].pc \in {"resume", "run", "finish"}
               /\ run'[r].pc = "resume" => run'[r].resume = "no"
               /\ run'[r].pc = "run" =>
                     /\ run'[r].resume \in {"no", None}
                     /\ run'[r].node = "executor" => ~Truthy(run'[r].ch.confirmed)
                     /\ run'[r].node = "continuation" => run'[r].ch.last = None
    PROVE  Denied'
<1>1. ASSUME NEW s \in Requests, s # r, Refused(s)'
      PROVE  FALSE
  BY <1>1 DEF Alone, Others, Denied, Refused
<1> QED
  BY <1>1 DEF Denied, Refused, Truthy

LEMMA CommitCertain ==
    ASSUME TypeInv, Serial, Certain, NEW r \in Requests, run[r].pc # "idle",
           NEW next, NEW ch, Commit(r, next, ch), UNCHANGED erp,
           Refused(r) /\ next = "executor" => ~Truthy(ch.confirmed),
           Refused(r) /\ next = "continuation" => ch.last = None
    PROVE  Certain'
<1>1. RunType /\ OneAtATime
  BY DEF TypeInv, Serial
<1>2. /\ ckpt'.next = next /\ ckpt'.ask = None /\ ckpt'.answers = <<>>
      /\ run'[r].pc = IF next = "end" THEN "finish" ELSE "run"
      /\ run'[r].node = next /\ run'[r].ch = ch /\ run'[r].resume = None
      /\ run'[r].reply = run[r].reply
      /\ Alone(r) /\ Others(r)
  BY <1>1, CommitAlone
<1>3. Denied'
  BY <1>2, DeniedBy DEF Certain, Refused
<1>4. Len(ckpt'.answers) < ConfirmAt'
  BY <1>2 DEF ConfirmAt
<1>5. Placed'
  BY <1>2, <1>4 DEF Placed, Working
<1> QED
  BY <1>3, <1>5 DEF Certain

LEMMA InvokeCertain ==
    ASSUME TypeInv, Certain, NEW r \in Requests, Alone(r), NEW ch, Invoke(r, ch),
           UNCHANGED erp
    PROVE  Certain'
<1>1. /\ ckpt'.next = "router" /\ ckpt'.ask = None /\ ckpt'.answers = <<>>
      /\ run'[r].reply = None /\ Others(r)
  BY InvokeAlone DEF TypeInv
<1>2. Denied'
  BY <1>1, DeniedBy, AnswerAssumption DEF Certain, Refused, Answers
<1>3. Len(ckpt'.answers) < ConfirmAt'
  BY <1>1 DEF ConfirmAt
<1>4. Placed'
  BY <1>1, <1>3 DEF Placed
<1> QED
  BY <1>2, <1>4 DEF Certain

LEMMA ParkCertain ==
    ASSUME TypeInv, Serial, Certain, NEW r \in Requests, run[r].pc = "run",
           run[r].node \in Parks, NEW q \in Questions, Park(r, q), UNCHANGED erp,
           Len(Inputs(r)) < ConfirmAt, run[r].node = "planner" => Inputs(r) = <<>>
    PROVE  Certain'
<1>1. /\ RunType /\ CkptType /\ OneAtATime
      /\ run[r].tip /\ run[r].node = ckpt.next
  BY DEF TypeInv, Serial, Aligned
<1>2. /\ ckpt'.next = ckpt.next /\ ckpt'.ask = q /\ ckpt'.answers = Inputs(r)
      /\ run'[r].pc = "finish"
      /\ Alone(r) /\ Others(r)
  BY <1>1, ParkAlone
<1>3. Denied'
  BY <1>2, DeniedBy DEF Certain
<1>4. q # None
  BY AnswerAssumption
<1>5. Len(ckpt'.answers) < ConfirmAt'
  BY <1>2 DEF ConfirmAt
<1>6. Placed'
  BY <1>1, <1>2, <1>4, <1>5 DEF Placed, Parks
<1> QED
  BY <1>3, <1>6 DEF Certain

LEMMA CallCertain ==
    ASSUME TypeInv, Serial, Certain, NEW r \in Requests, run[r].pc = "run",
           ~Refused(r), NEW w, Call(r, w)
    PROVE  Certain'
<1>1. RunType /\ OneAtATime
  BY DEF TypeInv, Serial
<1>2. /\ run'[r].pc = "wrote" /\ run'[r].reply = run[r].reply
      /\ UNCHANGED <<ckpt, erp>> /\ Alone(r) /\ Others(r)
  BY <1>1, CallAlone
<1>3. Denied'
  BY <1>2, DeniedBy DEF Certain, Refused
<1>4. Placed'
  BY <1>2 DEF Certain, Placed, Working, ConfirmAt
<1> QED
  BY <1>3, <1>4 DEF Certain

LEMMA ServeCertain ==
    ASSUME TypeInv, Serial, Certain, NEW r \in Requests, Serve(r)
    PROVE  Certain'
<1>1. /\ RunType /\ CkptType /\ OneAtATime /\ Aligned /\ Consumed /\ Placed /\ Denied
      /\ run[r].ch \in Channels /\ Inputs(r) \in Seq(Answers)
  BY RunTyped, InputsTyped DEF TypeInv, Serial, Certain
<1>2. run[r].ch.last # None => run[r].node = "continuation"
  BY <1>1 DEF Consumed, HandleConsumed
<1>3. CASE Resume(r)
  <2>1. run[r].pc = "resume" /\ Alone(r)
    BY <1>1, <1>3 DEF Resume, OneAtATime, Alone
  <2>2. ckpt.next \notin {"executor", "continuation"}
    BY <1>1, <2>1 DEF Placed, Working, Alone
  <2>3. /\ run'[r].pc \in {"run", "finish"}
        /\ run'[r].pc = "run" => run'[r].node = ckpt.next
        /\ run'[r].resume = run[r].resume /\ run'[r].reply = run[r].reply
        /\ UNCHANGED <<ckpt, erp>> /\ Others(r)
    BY <1>1, <1>3, ResumeAlone
  <2>4. Denied'
    BY <1>1, <2>1, <2>2, <2>3, DeniedBy DEF Denied, Refused
  <2>5. Placed'
    BY <1>1, <2>2, <2>3 DEF Placed, ConfirmAt
  <2> QED
    BY <2>4, <2>5 DEF Certain
<1>4. CASE Finish(r)
  <2>1. run[r].pc = "finish" /\ Alone(r)
    BY <1>1, <1>4 DEF Finish, OneAtATime, Alone
  <2>2. CASE run[r].again
    BY <1>4, <2>1, <2>2, InvokeCertain DEF Finish
  <2>3. CASE ~run[r].again
    <3>1. run' = [run EXCEPT ![r] = IdleRun] /\ ckpt' = ckpt /\ erp' = erp
      BY <1>4, <2>3 DEF Finish
    <3>2. run'[r] = IdleRun /\ Others(r)
      BY <1>1, <2>1, <3>1, ReplaceAlone
    <3>3. ~Refused(r)'
      BY <3>2, AnswerAssumption DEF Refused, IdleRun, Answers
    <3>4. Denied'
      BY <1>1, <2>1, <3>2, <3>3, DeniedBy
    <3>5. ckpt.next \notin {"executor", "continuation"}
      BY <1>1, <2>1 DEF Placed, Working, Alone
    <3>6. Placed'
      BY <1>1, <3>1, <3>5 DEF Placed, ConfirmAt
    <3> QED
      BY <3>4, <3>6 DEF Certain
  <2> QED
    BY <2>2, <2>3
<1>5. CASE Router(r) \/ PlannerRefuses(r)
  <2>1. PICK next, ch : next \in {"planner", "end"} /\ Commit(r, next, ch)
    BY <1>5 DEF Router, PlannerRefuses
  <2>2. run[r].pc # "idle" /\ UNCHANGED erp
    BY <1>5 DEF Router, PlannerRefuses, At
  <2> QED
    BY <2>1, <2>2, CommitCertain
<1>6. CASE PlannerHandsOver(r)
  <2>1. PICK ch : Commit(r, "coordinator", ch)
    BY <1>6 DEF PlannerHandsOver
  <2>2. run[r].pc # "idle" /\ UNCHANGED erp
    BY <1>6 DEF PlannerHandsOver, At
  <2> QED
    BY <2>1, <2>2, CommitCertain
<1>7. CASE PlannerAnswered(r)
  <2>1. PICK p \in PlansFor(r) :
          Commit(r, "executor", [run[r].ch EXCEPT !.pending = p, !.chain = p.note,
                                                  !.confirmed = Inputs(r)[1]])
    BY <1>7 DEF PlannerAnswered
  <2> DEFINE ch == [run[r].ch EXCEPT !.pending = p, !.chain = p.note,
                                     !.confirmed = Inputs(r)[1]]
  <2>2. run[r].pc = "run" /\ run[r].node = "planner" /\ UNCHANGED erp /\ Inputs(r) # <<>>
    BY <1>7 DEF PlannerAnswered, At
  <2>3. ch.confirmed = Inputs(r)[1]
    BY <1>1 DEF Channels
  <2>4. Refused(r) => ~Truthy(ch.confirmed)
    BY <2>2, <2>3, RefusedInputs
  <2> HIDE DEF ch
  <2> QED
    BY <2>1, <2>2, <2>4, CommitCertain DEF ch
<1>8. CASE PlannerAsks(r)
  <2>1. PICK p \in PlansFor(r) : Park(r, PlanQuestion(p))
    BY <1>8 DEF PlannerAsks
  <2>2. PlanQuestion(p) \in Questions
    BY PlanTyped
  <2>3. /\ run[r].pc = "run" /\ run[r].node = "planner" /\ UNCHANGED erp
        /\ Inputs(r) = <<>>
    BY <1>8 DEF PlannerAsks, At
  <2>4. Len(Inputs(r)) < ConfirmAt
    BY <2>3 DEF ConfirmAt
  <2> QED
    BY <2>1, <2>2, <2>3, <2>4, ParkCertain DEF Parks
<1>9. CASE CoordinatorAsksPick(r) \/ CoordinatorAsksConfirm(r)
  <2>1. PICK q \in Questions : Park(r, q)
    BY <1>9, CoordinatorAsks
  <2>2. run[r].pc = "run" /\ run[r].node = "coordinator" /\ UNCHANGED erp
    BY <1>9 DEF CoordinatorAsksPick, CoordinatorAsksConfirm, At
  <2>3. Len(Inputs(r)) < ConfirmAt
    BY <1>1, <1>9 DEF CoordinatorAsksPick, CoordinatorAsksConfirm, ConfirmAt
  <2> QED
    BY <2>1, <2>2, <2>3, ParkCertain DEF Parks
<1>10. CASE ExecutorCalls(r)
  <2>1. PICK w : Call(r, w)
    BY <1>10 DEF ExecutorCalls
  <2>2. run[r].pc = "run" /\ ~Refused(r)
    BY <1>1, <1>10 DEF ExecutorCalls, At, Denied
  <2> QED
    BY <2>1, <2>2, CallCertain
<1>11. CASE CoordinatorCalls(r)
  <2>1. PICK w : Call(r, w)
    BY <1>11 DEF CoordinatorCalls
  <2>2. run[r].pc = "run" /\ ~Refused(r)
    BY <1>11, RefusedInputs DEF CoordinatorCalls, At
  <2> QED
    BY <2>1, <2>2, CallCertain
<1>12. CASE ExecutorReturns(r) \/ CoordinatorReturns(r)
  <2>1. PICK ch : Commit(r, "continuation", ch)
    BY <1>12 DEF ExecutorReturns, CoordinatorReturns
  <2>2. run[r].pc = "wrote" /\ UNCHANGED erp
    BY <1>12 DEF ExecutorReturns, CoordinatorReturns
  <2>3. ~Refused(r)
    BY <1>1, <2>2 DEF Denied
  <2> QED
    BY <2>1, <2>2, <2>3, CommitCertain
<1>13. CASE ExecutorCancels(r)
  <2>1. Commit(r, "continuation", Cleared(run[r].ch, None)) /\ UNCHANGED erp
    BY <1>13 DEF ExecutorCancels
  <2>2. Cleared(run[r].ch, None).last = None /\ run[r].pc # "idle"
    BY <1>1, <1>13 DEF Cleared, Channels, ExecutorCancels, At
  <2> QED
    BY <2>1, <2>2, CommitCertain
<1>14. CASE CoordinatorStops(r)
  <2>1. Commit(r, "continuation", run[r].ch) /\ UNCHANGED erp
    BY <1>14 DEF CoordinatorStops
  <2>2. run[r].ch.last = None /\ run[r].pc # "idle"
    BY <1>2, <1>14 DEF CoordinatorStops, At
  <2> QED
    BY <2>1, <2>2, CommitCertain
<1>15. CASE ContinuationEnds(r)
  <2>1. PICK ch : Commit(r, "end", ch)
    BY <1>15 DEF ContinuationEnds
  <2>2. run[r].pc # "idle" /\ UNCHANGED erp
    BY <1>15 DEF ContinuationEnds, At
  <2> QED
    BY <2>1, <2>2, CommitCertain
<1>16. CASE ContinuationAdvances(r)
  <2>1. PICK next, ch : next \in {"coordinator", "executor"} /\ Commit(r, next, ch)
    BY <1>16 DEF ContinuationAdvances
  <2>2. run[r].pc = "run" /\ run[r].node = "continuation" /\ UNCHANGED erp
    BY <1>16 DEF ContinuationAdvances, At
  <2>3. run[r].ch.last # None
    BY <1>16 DEF ContinuationAdvances, InChain, NextStep
  <2>4. ~Refused(r)
    BY <1>1, <2>2, <2>3 DEF Denied
  <2> QED
    BY <2>1, <2>2, <2>4, CommitCertain
<1> QED
  BY <1>3, <1>4, <1>5, <1>6, <1>7, <1>8, <1>9, <1>10, <1>11, <1>12, <1>13, <1>14,
     <1>15, <1>16 DEF Serve

LEMMA ChatCertain ==
    ASSUME "overlap" \notin Faults, TypeInv, Serial, Certain, NEW r \in Requests, Chat(r)
    PROVE  Certain'
<1>1. RunType /\ CkptType /\ OneAtATime /\ Placed /\ Denied
  BY DEF TypeInv, Serial, Certain
<1>2. Alone(r) /\ run[r].pc = "idle" /\ UNCHANGED erp
  BY AllIdle DEF Chat, ChatFresh, ChatNotParked, ChatExpired, ChatReply, ChatReask, TakesRequest
<1>3. ckpt.next \notin {"executor", "continuation"}
  BY <1>1, <1>2 DEF Placed, Working, Alone
<1>4. CASE ChatFresh(r) \/ ChatNotParked(r)
  BY <1>2, <1>4, InvokeCertain DEF ChatFresh, ChatNotParked
<1>5. CASE ChatExpired(r) \/ ChatReply(r)
  <2>1. PICK x : /\ run' = [run EXCEPT ![r] = x] /\ ckpt' = ckpt /\ x.pc = "resume"
                 /\ x.reply \in {"no", "late"} => x.resume = "no"
    <3>1. CASE ChatExpired(r)
      <4> DEFINE x == [IdleRun EXCEPT !.pc = "resume", !.resume = ExpiredAs,
                                      !.reply = "late", !.again = TRUE]
      <4>1. x.pc = "resume" /\ x.resume = "no"
        BY DEF IdleRun, ExpiredAs
      <4>2. run' = [run EXCEPT ![r] = x] /\ ckpt' = ckpt
        BY <3>1 DEF ChatExpired
      <4> QED
        BY <4>1, <4>2
    <3>2. CASE ChatReply(r)
      <4>1. PICK v \in Decisions(ckpt.ask) :
              run' = [run EXCEPT ![r] = [IdleRun EXCEPT !.pc = "resume",
                                           !.resume = v, !.reply = v]]
        BY <3>2 DEF ChatReply
      <4> DEFINE x == [IdleRun EXCEPT !.pc = "resume", !.resume = v, !.reply = v]
      <4>2. x.pc = "resume" /\ x.resume = v /\ x.reply = v /\ v # "late"
        BY AnswerAssumption DEF IdleRun, Decisions
      <4>3. run' = [run EXCEPT ![r] = x] /\ ckpt' = ckpt
        BY <3>2, <4>1 DEF ChatReply
      <4> QED
        BY <4>2, <4>3
    <3> QED
      BY <1>5, <3>1, <3>2
  <2>2. run'[r] = x /\ Others(r)
    BY <1>1, <1>2, <2>1, ReplaceAlone
  <2>3. Denied'
    BY <1>1, <1>2, <2>1, <2>2, DeniedBy DEF Refused
  <2>4. Placed'
    BY <1>1, <1>2, <1>3, <2>1 DEF Placed, ConfirmAt
  <2> QED
    BY <2>3, <2>4 DEF Certain
<1>6. CASE ChatReask(r)
  BY <1>1, <1>2, <1>6 DEF ChatReask, Certain, Placed, Denied, Refused, Working, ConfirmAt
<1> QED
  BY <1>4, <1>5, <1>6 DEF Chat

LEMMA StepCertain ==
    ASSUME Faults \subseteq {"replan", "raise"}, TypeInv, Serial, Certain, [Next]_vars
    PROVE  Certain'
<1>1. RunType /\ CkptType /\ OneAtATime /\ Aligned /\ Placed /\ Denied
  BY DEF TypeInv, Serial, Certain
<1>2. CASE UNCHANGED vars \/ ToggleGate
  BY <1>1, <1>2 DEF vars, ToggleGate, Certain, Placed, Denied, Refused, Working, ConfirmAt
<1>3. CASE ErpChanges
  <2>1. ckpt.ask = None /\ UNCHANGED <<ckpt, run>>
    BY <1>3 DEF ErpChanges
  <2>2. Len(ckpt.answers) = 0 /\ ConfirmAt' \in {1, 2}
    BY <1>1, <2>1 DEF Placed, ConfirmAt
  <2>3. Placed'
    BY <1>1, <2>1, <2>2 DEF Placed, Working
  <2> QED
    BY <1>1, <2>1, <2>3 DEF Certain, Denied, Refused
<1>4. CASE Expire
  <2>1. /\ ckpt'.next = ckpt.next /\ ckpt'.ask = ckpt.ask /\ ckpt'.answers = ckpt.answers
        /\ run' = run /\ erp' = erp
    BY <1>1, <1>4 DEF Expire, CkptType
  <2> QED
    BY <1>1, <2>1 DEF Certain, Placed, Denied, Refused, Working, ConfirmAt
<1>5. ASSUME NEW r \in Requests, Raise(r)
      PROVE  Certain'
  <2>1. /\ run' = [run EXCEPT ![r] = IdleRun] /\ ckpt' = ckpt /\ erp' = erp
        /\ run[r].pc = "run" /\ run[r].node \notin {"executor", "continuation"}
    BY <1>5 DEF Raise
  <2>2. Alone(r) /\ ckpt.next \notin {"executor", "continuation"}
    BY <1>1, <2>1 DEF OneAtATime, Alone, Aligned
  <2>3. run'[r] = IdleRun /\ Others(r)
    BY <1>1, <2>1, <2>2, ReplaceAlone
  <2>4. ~Refused(r)'
    BY <2>3, AnswerAssumption DEF Refused, IdleRun, Answers
  <2>5. Denied'
    BY <1>1, <2>2, <2>3, <2>4, DeniedBy
  <2>6. Placed'
    BY <1>1, <2>1, <2>2 DEF Placed, ConfirmAt
  <2> QED
    BY <2>5, <2>6 DEF Certain
<1>6. CASE Die
  BY <1>6 DEF Die
<1> QED
  BY <1>2, <1>3, <1>4, <1>5, <1>6, ServeCertain, ChatCertain DEF Next

\* Only the two tool calls reach the ERP.
LEMMA OnlyCalls ==
    ASSUME [Next]_vars, log' # log
    PROVE  \E r \in Requests : ExecutorCalls(r) \/ CoordinatorCalls(r)
<1>1. ASSUME NEW r \in Requests, Chat(r)
      PROVE  FALSE
  BY <1>1 DEF Chat, ChatFresh, ChatNotParked, ChatExpired, ChatReply, ChatReask, TakesRequest
<1>2. ASSUME NEW r \in Requests, Serve(r)
      PROVE  ExecutorCalls(r) \/ CoordinatorCalls(r)
  BY <1>2 DEF Serve, Resume, Finish, Router, PlannerRefuses, PlannerHandsOver,
     PlannerAsks, PlannerAnswered, ExecutorCancels, ExecutorReturns,
     CoordinatorStops, CoordinatorAsksPick, CoordinatorAsksConfirm,
     CoordinatorReturns, ContinuationEnds, ContinuationAdvances
<1> QED
  BY <1>1, <1>2 DEF Next, vars, Raise, Expire, ToggleGate, ErpChanges, Die

LEMMA NoHolds ==
    ASSUME TypeInv, Serial, Certain, [Next]_vars, NEW r \in Requests,
           run'[r].pc = "wrote", log' # log
    PROVE  run[r].reply \notin {"no", "late"}
<1>1. PICK s \in Requests : ExecutorCalls(s) \/ CoordinatorCalls(s)
  BY OnlyCalls
<1>2. RunType /\ OneAtATime /\ Denied
  BY DEF TypeInv, Serial, Certain
<1>3. run[s].pc = "run"
  BY <1>1 DEF ExecutorCalls, CoordinatorCalls, At
<1>4. PICK w : Call(s, w)
  BY <1>1 DEF ExecutorCalls, CoordinatorCalls
<1>5. Others(s)
  BY <1>2, <1>3, <1>4, CallAlone
<1>6. r = s
  BY <1>5 DEF Others
<1>7. ~Refused(s)
  BY <1>1, <1>2, RefusedInputs DEF ExecutorCalls, CoordinatorCalls, At, Denied
<1> QED
  BY <1>6, <1>7 DEF Refused

\* A request that was answered with a no, or came after the question's TTL,
\* writes nothing: whatever candidates were picked before, whichever node is
\* re-run, planners that change their minds and nodes that raise included
\* (erp_agent.py, _decide_resume and the expired question; nodes.py, executor).
THEOREM NoAlwaysMeansNo ==
    ASSUME Faults \subseteq {"replan", "raise"}
    PROVE  Spec => NoMeansNo
<1>1. Init => Serial /\ Certain
  <2> SUFFICES ASSUME Init PROVE Serial /\ Certain
    OBVIOUS
  <2>1. /\ ckpt.ch.last = None /\ ckpt.next = "end" /\ ckpt.ask = None /\ ckpt.answers = <<>>
        /\ \A s \in Requests : run[s].pc = "idle" /\ run[s].ch.last = None /\ run[s].reply = None
    BY NoLast DEF Init, Checkpoint, IdleRun
  <2>2. Serial
    BY <2>1 DEF Serial, OneAtATime, Aligned, Consumed, HandleConsumed
  <2>3. Denied
    BY <2>1, AnswerAssumption DEF Denied, Refused, Answers
  <2>4. Placed
    BY <2>1 DEF Placed, ConfirmAt
  <2> QED
    BY <2>2, <2>3, <2>4 DEF Certain
<1>2. TypeInv /\ Serial /\ Certain /\ [Next]_vars => (Serial /\ Certain)'
  BY StepSerial, StepCertain
<1>3. TypeInv /\ Serial /\ Certain /\ [Next]_vars =>
        [\A r \in Requests :
            /\ run[r].pc = "run" /\ run'[r].pc = "wrote"
            /\ log' # log
            => run[r].reply \notin {"no", "late"}]_vars
  BY NoHolds
<1> QED
  BY <1>1, <1>2, <1>3, TypeInvariant, PTL DEF Spec, NoMeansNo

-----------------------------------------------------------------------------
(* Without faults: what stands behind a question and behind an answer      *)

\* The question the thread is parked on is what its node would ask now.
Asking ==
    ckpt.ask # None =>
        \/ /\ ckpt.next = "planner"
           /\ ckpt.ask.kind = "confirm" /\ ckpt.ask.draft = None
        \/ /\ ckpt.next = "coordinator" /\ ckpt.ask.kind = "pick"
           /\ erp.ambiguous /\ ckpt.answers = <<>>
        \/ /\ ckpt.next = "coordinator" /\ ckpt.ask.kind = "confirm"
           /\ ckpt.ask.tool = ckpt.ch.pending.tool /\ ckpt.ask.args = ckpt.ch.pending.args
           /\ ckpt.ask.draft = [pick  |-> IF erp.ambiguous THEN ckpt.answers[1] ELSE None,
                                price |-> erp.price]
           /\ ckpt.ask.note = ShownChain(ckpt.ch.pending)
           /\ Len(ckpt.answers) = ConfirmAt - 1

Waiting == ckpt.next # "end" /\ ~Working => ckpt.ask # None

Fits(answer, q) ==
    IF q.kind = "confirm" THEN answer \in {"yes", "no"} ELSE answer \in Options \cup {"no"}

\* A run holds an answer to the question the thread holds, or there is neither.
Fitting ==
    \A r \in Requests :
        /\ run[r].pc = "resume" => ckpt.ask # None /\ Fits(run[r].resume, ckpt.ask)
        /\ run[r].pc = "run" =>
              IF run[r].resume = None THEN ckpt.ask = None
              ELSE ckpt.ask # None /\ Fits(run[r].resume, ckpt.ask)

Linked(tool, chain) == chain = <<>> \/ IsChain(tool, chain)
NoAuto(chain) == chain # <<>> => chain[1] \in ConfirmInChain

\* The queue continues the step at hand, and a coordinator's question shows it,
\* or nothing of it runs without another question.
Chains(next, ch) ==
    /\ next \in {"executor", "coordinator"} => Linked(ch.pending.tool, ch.chain)
    /\ next = "coordinator" => ch.chain = ShownChain(ch.pending) \/ NoAuto(ch.chain)
    /\ next = "continuation" /\ ch.last # None => Linked(ch.last.tool, ch.chain)

Sound == Asking /\ Waiting /\ Fitting /\ Chains(ckpt.next, ckpt.ch)

LEMMA PlanChains ==
    ASSUME ChainsShown, NEW p \in Plans, p.tool \in Coordinated
    PROVE  p.note = ShownChain(p) \/ NoAuto(p.note)
<1>1. p.tool \in Tools /\ p.note \in Seq(Tools) /\ (p.note = <<>> \/ IsChain(p.tool, p.note))
  BY NotesAreSeqs DEF Plans
<1>2. CASE p.tool \in RendersChain
  BY <1>2 DEF ShownChain
<1>3. CASE p.tool \notin RendersChain
  <2>1. NextTool[p.tool] \in ConfirmInChain \cup {None}
    BY <1>1, <1>3 DEF ChainsShown
  <2>2. p.note # <<>> => p.note[1] \in Tools /\ p.note[1] = NextTool[p.tool]
    BY <1>1 DEF IsChain
  <2> QED
    BY <2>1, <2>2, NoneAssumption DEF NoAuto
<1> QED
  BY <1>2, <1>3

LEMMA AdvanceChains ==
    ASSUME ChainsShown, NEW ch \in Channels, InChain(ch), Linked(ch.last.tool, ch.chain)
    PROVE  Chains(IF AsksAgain(NextStep(ch)) THEN "coordinator" ELSE "executor", Advance(ch))
<1> DEFINE t == NextStep(ch)
           rest == Tail(ch.chain)
<1>1. ch.chain \in Seq(Tools) /\ ch.chain # <<>> /\ ch.chain[1] = t
  BY DEF InChain, Channels
<1>2. t \in Tools
  BY <1>1
<1>3. \A i \in 1..(Len(ch.chain) - 1) : ch.chain[i + 1] = NextTool[ch.chain[i]]
  BY <1>1 DEF Linked, IsChain
<1>4. /\ rest \in Seq(Tools) /\ Len(rest) = Len(ch.chain) - 1 /\ Len(ch.chain) \in Nat
      /\ \A i \in 1..Len(rest) : rest[i] = ch.chain[i + 1]
  BY <1>1
<1>5. rest # <<>> => rest[1] = NextTool[t] /\ rest[1] \in Tools
  <2>1. rest # <<>> => 1 \in 1..Len(rest) /\ 1 \in 1..(Len(ch.chain) - 1)
    BY <1>4
  <2> QED
    BY <1>1, <1>3, <1>4, <2>1
<1>6. \A i \in 1..(Len(rest) - 1) : rest[i + 1] = NextTool[rest[i]]
  <2> SUFFICES ASSUME NEW i \in 1..(Len(rest) - 1)
               PROVE  rest[i + 1] = NextTool[rest[i]]
    OBVIOUS
  <2>1. i \in 1..Len(rest) /\ i + 1 \in 1..Len(rest) /\ i + 1 \in 1..(Len(ch.chain) - 1)
    BY <1>4
  <2> QED
    BY <1>3, <1>4, <2>1
<1>7. Linked(t, rest)
  BY <1>5, <1>6 DEF Linked, IsChain
<1>8. AsksAgain(t) => NoAuto(rest)
  BY <1>2, <1>5, NoneAssumption DEF AsksAgain, NoAuto, ChainsShown
<1>9. Advance(ch).pending.tool = t /\ Advance(ch).chain = rest
  BY DEF Advance
<1> HIDE DEF t, rest
<1> QED
  BY <1>7, <1>8, <1>9 DEF Chains, t

LEMMA CommitSound ==
    ASSUME TypeInv, Serial, NEW r \in Requests, run[r].pc # "idle",
           NEW next, NEW ch, Commit(r, next, ch), Chains(next, ch)
    PROVE  Sound'
<1>1. RunType /\ OneAtATime
  BY DEF TypeInv, Serial
<1>2. /\ ckpt'.next = next /\ ckpt'.ch = ch /\ ckpt'.ask = None
      /\ run'[r].pc = IF next = "end" THEN "finish" ELSE "run"
      /\ run'[r].resume = None /\ Others(r)
  BY <1>1, CommitAlone
<1>3. Asking' /\ Fitting' /\ Waiting'
  BY <1>2 DEF Asking, Fitting, Waiting, Working, Others
<1>4. Chains(ckpt'.next, ckpt'.ch)
  BY <1>2
<1> QED
  BY <1>3, <1>4 DEF Sound, Chains, ShownChain

LEMMA InvokeSound ==
    ASSUME TypeInv, NEW r \in Requests, Alone(r), NEW ch, Invoke(r, ch)
    PROVE  Sound'
<1>1. /\ ckpt'.next = "router" /\ ckpt'.ask = None
      /\ run'[r].pc = "run" /\ run'[r].resume = None /\ Others(r)
  BY InvokeAlone DEF TypeInv
<1> QED
  BY <1>1 DEF Sound, Chains, Asking, Fitting, Waiting, Working, Others

LEMMA ParkSound ==
    ASSUME TypeInv, Serial, Sound, NEW r \in Requests, run[r].pc = "run",
           NEW q \in Questions, Park(r, q), UNCHANGED erp,
           ckpt'.ask = q /\ ckpt'.answers = Inputs(r) /\ ckpt'.next = ckpt.next
               /\ ckpt'.ch = ckpt.ch => Asking'
    PROVE  Sound'
<1>1. RunType /\ CkptType /\ OneAtATime /\ run[r].tip
  BY DEF TypeInv, Serial, Aligned
<1>2. /\ ckpt'.next = ckpt.next /\ ckpt'.ch = ckpt.ch /\ ckpt'.ask = q
      /\ ckpt'.answers = Inputs(r) /\ run'[r].pc = "finish" /\ Others(r)
  BY <1>1, ParkAlone
<1>3. q # None
  BY AnswerAssumption
<1>4. Fitting' /\ Waiting'
  BY <1>2, <1>3 DEF Fitting, Waiting, Others
<1> QED
  BY <1>2, <1>4 DEF Sound, Chains, ShownChain

LEMMA CallSound ==
    ASSUME TypeInv, Serial, Sound, NEW r \in Requests, run[r].pc = "run",
           NEW w, Call(r, w)
    PROVE  Sound'
<1>1. RunType /\ OneAtATime
  BY DEF TypeInv, Serial
<1>2. run'[r].pc = "wrote" /\ UNCHANGED <<ckpt, erp>> /\ Others(r)
  BY <1>1, CallAlone
<1>3. Fitting' /\ Waiting'
  BY <1>2 DEF Fitting, Waiting, Working, Others
<1> QED
  BY <1>2, <1>3 DEF Sound, Asking, ConfirmAt, Chains, ShownChain

LEMMA HandleLinks ==
    ASSUME TypeInv, NEW r \in Requests, run[r].ch.pending # None, NEW ch,
           ch.last \in {None, Handle(r)}, ch.chain = run[r].ch.chain,
           Linked(run[r].ch.pending.tool, run[r].ch.chain)
    PROVE  Chains("continuation", ch)
<1>1. Handle(r) # None => Handle(r).tool = run[r].ch.pending.tool
  BY DEF Handle
<1> QED
  BY <1>1 DEF Chains

LEMMA ServeSound ==
    ASSUME ChainsShown, TypeInv, Serial, Certain, Sound, NEW r \in Requests, Serve(r)
    PROVE  Sound'
<1>1. /\ RunType /\ CkptType /\ OneAtATime /\ Aligned /\ Consumed /\ Placed
      /\ Asking /\ Waiting /\ Fitting /\ Chains(ckpt.next, ckpt.ch)
      /\ run[r].ch \in Channels /\ Inputs(r) \in Seq(Answers)
  BY RunTyped, InputsTyped DEF TypeInv, Serial, Certain, Sound
<1>2. run[r].ch.last # None => run[r].node = "continuation"
  BY <1>1 DEF Consumed, HandleConsumed
<1>3. run[r].pc \in {"run", "wrote"} => run[r].node = ckpt.next /\ run[r].ch = ckpt.ch
  BY <1>1 DEF Aligned
<1>4. run[r].pc \in {"run", "wrote"} /\ run[r].node \in Writers => run[r].ch.pending # None
  BY DEF TypeInv, PendingOK
<1>5. CASE Resume(r)
  <2>1. run[r].pc = "resume" /\ Alone(r)
    BY <1>1, <1>5 DEF Resume, OneAtATime, Alone
  <2>2. ckpt.ask # None /\ Fits(run[r].resume, ckpt.ask)
    BY <1>1, <2>1 DEF Fitting
  <2>3. ckpt.next # "end" /\ run[r].resume # None
    BY <1>1, <2>2, AnswerAssumption DEF Placed, Parks, Fits, Answers
  <2>4. /\ run'[r].pc = "run" /\ run'[r].resume = run[r].resume
        /\ UNCHANGED <<ckpt, erp>> /\ Others(r)
    BY <1>1, <1>5, <2>3, ResumeAlone
  <2>5. Fitting' /\ Waiting'
    BY <2>2, <2>3, <2>4 DEF Fitting, Waiting, Working, Others, Fits
  <2> QED
    BY <1>1, <2>4, <2>5 DEF Sound, Asking, ConfirmAt, Chains, ShownChain
<1>6. CASE Finish(r)
  <2>1. run[r].pc = "finish" /\ Alone(r)
    BY <1>1, <1>6 DEF Finish, OneAtATime, Alone
  <2>2. CASE run[r].again
    BY <1>6, <2>1, <2>2, InvokeSound DEF Finish
  <2>3. CASE ~run[r].again
    <3>1. run' = [run EXCEPT ![r] = IdleRun] /\ ckpt' = ckpt /\ erp' = erp
      BY <1>6, <2>3 DEF Finish
    <3>2. run'[r].pc = "idle" /\ Others(r)
      <4>1. run'[r] = IdleRun /\ Others(r)
        BY <1>1, <2>1, <3>1, ReplaceAlone
      <4> QED
        BY <4>1 DEF IdleRun
    <3>3. ~Working
      BY <2>1 DEF Working, Alone
    <3>4. Fitting' /\ Waiting'
      BY <1>1, <3>1, <3>2, <3>3 DEF Fitting, Waiting, Others
    <3> QED
      BY <1>1, <3>1, <3>4 DEF Sound, Asking, ConfirmAt, Chains, ShownChain
  <2> QED
    BY <2>2, <2>3
<1>7. CASE Router(r) \/ PlannerRefuses(r) \/ ContinuationEnds(r)
  <2>1. PICK next, ch : next \in {"planner", "end"} /\ Commit(r, next, ch)
    BY <1>7 DEF Router, PlannerRefuses, ContinuationEnds
  <2>2. run[r].pc # "idle"
    BY <1>7 DEF Router, PlannerRefuses, ContinuationEnds, At
  <2> QED
    BY <2>1, <2>2, CommitSound DEF Chains
<1>8. CASE PlannerHandsOver(r)
  <2>1. PICK p \in PlansFor(r) : p.tool \in Coordinated /\
          Commit(r, "coordinator", [run[r].ch EXCEPT !.pending = p, !.chain = p.note])
    BY <1>8 DEF PlannerHandsOver
  <2> DEFINE ch == [run[r].ch EXCEPT !.pending = p, !.chain = p.note]
  <2>2. p \in Plans /\ (p.note = <<>> \/ IsChain(p.tool, p.note))
    BY DEF PlansFor, Plans
  <2>3. ch.pending = p /\ ch.chain = p.note /\ run[r].pc # "idle"
    BY <1>1, <1>8 DEF Channels, PlannerHandsOver, At
  <2>4. p.note = ShownChain(p) \/ NoAuto(p.note)
    BY <2>1, <2>2, PlanChains
  <2>5. Chains("coordinator", ch)
    BY <2>2, <2>3, <2>4 DEF Chains, Linked
  <2> QED
    BY <2>1, <2>3, <2>5, CommitSound
<1>9. CASE PlannerAnswered(r)
  <2>1. PICK p \in PlansFor(r) :
          Commit(r, "executor", [run[r].ch EXCEPT !.pending = p, !.chain = p.note,
                                                  !.confirmed = Inputs(r)[1]])
    BY <1>9 DEF PlannerAnswered
  <2> DEFINE ch == [run[r].ch EXCEPT !.pending = p, !.chain = p.note,
                                     !.confirmed = Inputs(r)[1]]
  <2>2. p.note = <<>> \/ IsChain(p.tool, p.note)
    BY DEF PlansFor, Plans
  <2>3. ch.pending = p /\ ch.chain = p.note /\ run[r].pc # "idle"
    BY <1>1, <1>9 DEF Channels, PlannerAnswered, At
  <2>4. Chains("executor", ch)
    BY <2>2, <2>3 DEF Chains, Linked
  <2> QED
    BY <2>1, <2>3, <2>4, CommitSound
<1>10. CASE PlannerAsks(r)
  <2>1. PICK p \in PlansFor(r) : Park(r, PlanQuestion(p))
    BY <1>10 DEF PlannerAsks
  <2>2. PlanQuestion(p) \in Questions
    BY PlanTyped
  <2>3. run[r].pc = "run" /\ run[r].node = "planner" /\ UNCHANGED erp
    BY <1>10 DEF PlannerAsks, At
  <2>4. PlanQuestion(p).kind = "confirm" /\ PlanQuestion(p).draft = None
    BY DEF PlanQuestion
  <2>5. ckpt'.ask = PlanQuestion(p) /\ ckpt'.next = ckpt.next => Asking'
    BY <1>3, <2>3, <2>4 DEF Asking
  <2> QED
    BY <2>1, <2>2, <2>3, <2>5, ParkSound
<1>11. CASE CoordinatorAsksPick(r)
  <2>1. PICK q \in Questions : Park(r, q)
    BY <1>11, CoordinatorAsks
  <2> DEFINE pick == PickQuestion(run[r].ch.pending)
  <2>2. Park(r, pick)
    BY <1>11 DEF CoordinatorAsksPick
  <2>3. run[r].pc = "run" /\ run[r].node = "coordinator" /\ UNCHANGED erp
    BY <1>11 DEF CoordinatorAsksPick, At
  <2>4. ckpt'.ask = q /\ ckpt'.ask = pick
    BY <1>1, <2>1, <2>2, <2>3, ParkAlone DEF Aligned
  <2>5. pick.kind = "pick"
    BY DEF PickQuestion
  <2>6. ckpt'.answers = Inputs(r) /\ ckpt'.next = ckpt.next => Asking'
    BY <1>3, <1>11, <2>3, <2>4, <2>5 DEF CoordinatorAsksPick, Asking
  <2> QED
    BY <2>1, <2>3, <2>6, ParkSound
<1>12. CASE CoordinatorAsksConfirm(r)
  <2>1. PICK q \in Questions : Park(r, q)
    BY <1>12, CoordinatorAsks
  <2>2. Park(r, DraftQuestion(r))
    BY <1>12 DEF CoordinatorAsksConfirm
  <2>3. /\ run[r].pc = "run" /\ run[r].node = "coordinator" /\ UNCHANGED erp
        /\ Len(Inputs(r)) = ConfirmAt - 1
    BY <1>12 DEF CoordinatorAsksConfirm, At
  <2>4. q = DraftQuestion(r)
    BY <1>1, <2>1, <2>2, <2>3, ParkAlone DEF Aligned
  <2>5. /\ q.kind = "confirm" /\ q.tool = ckpt.ch.pending.tool /\ q.args = ckpt.ch.pending.args
        /\ q.draft = [pick  |-> IF erp.ambiguous THEN Inputs(r)[1] ELSE None,
                      price |-> erp.price]
        /\ q.note = ShownChain(ckpt.ch.pending)
    BY <1>3, <2>3, <2>4 DEF DraftQuestion, DraftNow
  <2>6. ASSUME ckpt'.ask = q, ckpt'.answers = Inputs(r), ckpt'.next = ckpt.next,
               ckpt'.ch = ckpt.ch
        PROVE  Asking'
    <3>1. erp' = erp /\ ConfirmAt' = ConfirmAt /\ ckpt'.next = "coordinator"
      BY <1>3, <2>3, <2>6 DEF ConfirmAt
    <3>2. ckpt'.ask.note = ShownChain(ckpt'.ch.pending)
      BY <2>5, <2>6
    <3>3. ckpt'.ask.note = ShownChain(ckpt.ch.pending)'
      BY <3>2 DEF ShownChain
    <3>4. Len(ckpt'.answers) = ConfirmAt' - 1
      BY <2>3, <2>6, <3>1
    <3>5. /\ ckpt'.ask.kind = "confirm"
          /\ ckpt'.ask.tool = ckpt'.ch.pending.tool
          /\ ckpt'.ask.args = ckpt'.ch.pending.args
          /\ ckpt'.ask.draft = [pick  |-> IF erp'.ambiguous THEN ckpt'.answers[1] ELSE None,
                                price |-> erp'.price]
      BY <2>5, <2>6, <3>1
    <3> QED
      BY <3>1, <3>3, <3>4, <3>5 DEF Asking
  <2> QED
    BY <2>1, <2>3, <2>6, ParkSound
<1>13. CASE ExecutorCalls(r) \/ CoordinatorCalls(r)
  <2>1. PICK w : Call(r, w)
    BY <1>13 DEF ExecutorCalls, CoordinatorCalls
  <2>2. run[r].pc = "run"
    BY <1>13 DEF ExecutorCalls, CoordinatorCalls, At
  <2> QED
    BY <2>1, <2>2, CallSound
<1>14. CASE ExecutorReturns(r) \/ ExecutorCancels(r)
  <2>1. PICK last \in {None, Handle(r)} : Commit(r, "continuation", Cleared(run[r].ch, last))
    BY <1>14 DEF ExecutorReturns, ExecutorCancels
  <2> DEFINE ch == Cleared(run[r].ch, last)
  <2>2. run[r].pc \in {"run", "wrote"} /\ run[r].node = "executor"
    BY <1>14 DEF ExecutorReturns, ExecutorCancels, At
  <2>3. ch.last = last /\ ch.chain = run[r].ch.chain
    BY <1>1 DEF Cleared, Channels
  <2>4. Linked(run[r].ch.pending.tool, run[r].ch.chain) /\ run[r].ch.pending # None
    BY <1>1, <1>3, <1>4, <2>2 DEF Chains, Writers
  <2> HIDE DEF ch
  <2>5. Chains("continuation", ch)
    BY <2>3, <2>4, HandleLinks
  <2> QED
    BY <2>1, <2>2, <2>5, CommitSound DEF ch
<1>15. CASE CoordinatorReturns(r) \/ CoordinatorStops(r)
  <2>1. run[r].pc \in {"run", "wrote"} /\ run[r].node = "coordinator"
    BY <1>15 DEF CoordinatorReturns, CoordinatorStops, At
  <2>2. PICK ch : /\ Commit(r, "continuation", ch)
                  /\ ch \in {run[r].ch, [run[r].ch EXCEPT !.pending = None, !.last = Handle(r)]}
    BY <1>15 DEF CoordinatorReturns, CoordinatorStops
  <2>3. ch.last \in {None, Handle(r)} /\ ch.chain = run[r].ch.chain
    BY <1>1, <1>2, <2>1, <2>2 DEF Channels
  <2>4. Linked(run[r].ch.pending.tool, run[r].ch.chain) /\ run[r].ch.pending # None
    BY <1>1, <1>3, <1>4, <2>1 DEF Chains, Writers
  <2>5. Chains("continuation", ch)
    BY <2>3, <2>4, HandleLinks
  <2> QED
    BY <2>1, <2>2, <2>5, CommitSound
<1>16. CASE ContinuationAdvances(r)
  <2>1. /\ run[r].pc = "run" /\ run[r].node = "continuation" /\ InChain(run[r].ch)
        /\ Commit(r, IF AsksAgain(NextStep(run[r].ch)) THEN "coordinator" ELSE "executor",
                  Advance(run[r].ch))
    BY <1>16 DEF ContinuationAdvances, At
  <2>2. run[r].ch.last # None
    BY <2>1 DEF InChain, NextStep
  <2>3. Linked(run[r].ch.last.tool, run[r].ch.chain)
    BY <1>1, <1>3, <2>1, <2>2 DEF Chains
  <2>4. Chains(IF AsksAgain(NextStep(run[r].ch)) THEN "coordinator" ELSE "executor",
               Advance(run[r].ch))
    BY <1>1, <2>1, <2>3, AdvanceChains
  <2> QED
    BY <2>1, <2>4, CommitSound
<1> QED
  BY <1>5, <1>6, <1>7, <1>8, <1>9, <1>10, <1>11, <1>12, <1>13, <1>14, <1>15, <1>16
  DEF Serve

LEMMA ChatSound ==
    ASSUME "overlap" \notin Faults, TypeInv, Serial, Certain, Sound,
           NEW r \in Requests, Chat(r)
    PROVE  Sound'
<1>1. /\ RunType /\ CkptType /\ OneAtATime
      /\ Asking /\ Waiting /\ Fitting /\ Chains(ckpt.next, ckpt.ch)
  BY DEF TypeInv, Serial, Sound
<1>2. Alone(r) /\ run[r].pc = "idle" /\ UNCHANGED erp
  BY AllIdle DEF Chat, ChatFresh, ChatNotParked, ChatExpired, ChatReply, ChatReask, TakesRequest
<1>3. ~Working
  BY <1>2 DEF Working, Alone
<1>4. CASE ChatFresh(r) \/ ChatNotParked(r)
  BY <1>2, <1>4, InvokeSound DEF ChatFresh, ChatNotParked
<1>5. CASE ChatExpired(r) \/ ChatReply(r)
  <2>1. ckpt.ask # None
    BY <1>1, <1>3, <1>5 DEF ChatExpired, ChatReply, IsParked, Waiting
  <2>2. ckpt.ask.kind \in {"confirm", "pick"}
    BY <1>1, <2>1 DEF CkptType, Questions
  <2>3. PICK x : /\ run' = [run EXCEPT ![r] = x] /\ ckpt' = ckpt /\ x.pc = "resume"
                 /\ Fits(x.resume, ckpt.ask)
    <3>1. CASE ChatExpired(r)
      <4> DEFINE x == [IdleRun EXCEPT !.pc = "resume", !.resume = ExpiredAs,
                                      !.reply = "late", !.again = TRUE]
      <4>1. x.pc = "resume" /\ x.resume = "no"
        BY DEF IdleRun, ExpiredAs
      <4>2. run' = [run EXCEPT ![r] = x] /\ ckpt' = ckpt
        BY <3>1 DEF ChatExpired
      <4>3. Fits("no", ckpt.ask)
        BY DEF Fits
      <4> QED
        BY <4>1, <4>2, <4>3
    <3>2. CASE ChatReply(r)
      <4>1. PICK v \in Decisions(ckpt.ask) :
              run' = [run EXCEPT ![r] = [IdleRun EXCEPT !.pc = "resume",
                                           !.resume = v, !.reply = v]]
        BY <3>2 DEF ChatReply
      <4> DEFINE x == [IdleRun EXCEPT !.pc = "resume", !.resume = v, !.reply = v]
      <4>2. x.pc = "resume" /\ x.resume = v
        BY DEF IdleRun
      <4>3. run' = [run EXCEPT ![r] = x] /\ ckpt' = ckpt
        BY <3>2, <4>1 DEF ChatReply
      <4>4. Fits(v, ckpt.ask)
        BY <2>1, <2>2, <4>1 DEF Fits, Decisions
      <4> QED
        BY <4>2, <4>3, <4>4
    <3> QED
      BY <1>5, <3>1, <3>2
  <2>4. run'[r] = x /\ Others(r)
    BY <1>1, <1>2, <2>3, ReplaceAlone
  <2>5. Fitting' /\ Waiting'
    BY <2>1, <2>3, <2>4 DEF Fitting, Waiting, Others, Fits
  <2> QED
    BY <1>1, <1>2, <2>3, <2>5 DEF Sound, Asking, ConfirmAt, Chains, ShownChain
<1>6. CASE ChatReask(r)
  BY <1>1, <1>2, <1>6 DEF ChatReask, Sound, Asking, Waiting, Fitting, Fits, Working,
     ConfirmAt, Chains, ShownChain
<1> QED
  BY <1>4, <1>5, <1>6 DEF Chat

LEMMA StepSound ==
    ASSUME Faults = {}, ChainsShown, TypeInv, Serial, Certain, Sound, [Next]_vars
    PROVE  Sound'
<1>1. /\ RunType /\ CkptType /\ Asking /\ Waiting /\ Fitting /\ Chains(ckpt.next, ckpt.ch)
  BY DEF TypeInv, Sound
<1>2. CASE UNCHANGED vars \/ ToggleGate
  BY <1>1, <1>2 DEF vars, ToggleGate, Sound, Asking, Waiting, Fitting, Fits, Working,
     ConfirmAt, Chains, ShownChain
<1>3. CASE ErpChanges
  <2>1. ckpt.ask = None /\ UNCHANGED <<ckpt, run>>
    BY <1>3 DEF ErpChanges
  <2> QED
    BY <1>1, <2>1 DEF Sound, Asking, Waiting, Fitting, Fits, Working, Chains, ShownChain
<1>4. CASE Expire
  <2>1. /\ ckpt'.next = ckpt.next /\ ckpt'.ask = ckpt.ask /\ ckpt'.answers = ckpt.answers
        /\ ckpt'.ch = ckpt.ch /\ run' = run /\ erp' = erp
    BY <1>1, <1>4 DEF Expire, CkptType
  <2>2. Asking' /\ Waiting' /\ Fitting'
    BY <1>1, <2>1 DEF Asking, Waiting, Fitting, Fits, Working, ConfirmAt, ShownChain
  <2> QED
    BY <1>1, <2>1, <2>2 DEF Sound, Chains, ShownChain
<1>5. ~Die /\ \A r \in Requests : ~Raise(r)
  BY DEF Die, Raise
<1> QED
  BY <1>2, <1>3, <1>4, <1>5, ServeSound, ChatSound DEF Next

-----------------------------------------------------------------------------
(* What the abstract gate still owes                                       *)

\* A set of numbers has a least one.
LEMMA LeastNumber ==
    ASSUME NEW T \in SUBSET Nat, T # {}
    PROVE  \E m \in T : \A n \in T : m <= n
<1> DEFINE R == OpToRel(<, Nat)
<1>1. IsWellFoundedOn(R, Nat)
  BY NatLessThanWellFounded DEF OpToRel
<1>2. PICK m \in T : \A n \in T : <<n, m>> \notin R
  <2> HIDE DEF R
  <2> QED
    BY <1>1, WFMin
<1>3. ASSUME NEW n \in T, n < m
      PROVE  FALSE
  BY <1>2, <1>3 DEF OpToRel
<1> QED
  BY <1>3

Step(tool, args) == [tool |-> tool, args |-> args, draft |-> None]

\* n steps of the note run unasked, and no more.
Unasked(note, n) ==
    /\ n \in 0..Len(note)
    /\ \A i \in 1..n : note[i] \notin ConfirmInChain
    /\ n < Len(note) => note[n + 1] \in ConfirmInChain

LEMMA UnaskedExists ==
    ASSUME NEW note \in Seq(Tools)
    PROVE  \E n : Unasked(note, n)
<1> DEFINE stops == {i \in 1..Len(note) : note[i] \in ConfirmInChain}
<1>1. CASE stops = {}
  <2>1. Len(note) \in Nat /\ \A i \in 1..Len(note) : note[i] \notin ConfirmInChain
    BY <1>1
  <2>2. Unasked(note, Len(note))
    BY <2>1 DEF Unasked
  <2> QED
    BY <2>2
<1>2. CASE stops # {}
  <2>1. stops \in SUBSET Nat
    OBVIOUS
  <2>2. PICK m \in stops : \A i \in stops : m <= i
    <3> HIDE DEF stops
    <3> QED
      BY <1>2, <2>1, LeastNumber
  <2>3. m \in 1..Len(note) /\ note[m] \in ConfirmInChain /\ Len(note) \in Nat
    OBVIOUS
  <2>4. \A i \in 1..(m - 1) : note[i] \notin ConfirmInChain
    BY <2>2, <2>3
  <2> HIDE DEF stops
  <2>5. Unasked(note, m - 1)
    BY <2>3, <2>4 DEF Unasked
  <2> QED
    BY <2>5
<1> QED
  BY <1>1, <1>2

LEMMA AutoAre ==
    ASSUME NEW note \in Seq(Tools), NEW args, NEW n, Unasked(note, n)
    PROVE  /\ C!AutoSteps(note, args) = [i \in 1..n |-> Step(note[i], args)]
           /\ Promise!AutoSteps(note, args) = C!AutoSteps(note, args)
<1> DEFINE stops == {i \in 1..Len(note) : note[i] \in ConfirmInChain}
           m == IF stops = {} THEN Len(note)
                ELSE (CHOOSE i \in stops : \A j \in stops : i <= j) - 1
<1>1. n \in Nat /\ n <= Len(note) /\ Len(note) \in Nat
  BY DEF Unasked
<1>2. m = n
  <2>1. CASE n = Len(note)
    <3>1. stops = {}
      BY <2>1 DEF Unasked
    <3> QED
      BY <2>1, <3>1
  <2>2. CASE n # Len(note)
    <3>1. n + 1 \in stops
      BY <1>1, <2>2 DEF Unasked
    <3>2. \A j \in stops : n + 1 <= j
      BY <1>1 DEF Unasked
    <3>3. \A i \in stops : (\A j \in stops : i <= j) => i = n + 1
      BY <1>1, <3>1, <3>2
    <3>4. (CHOOSE i \in stops : \A j \in stops : i <= j) = n + 1
      <4> HIDE DEF stops
      <4> QED
        BY <3>1, <3>2, <3>3
    <3>5. stops # {} /\ (n + 1) - 1 = n
      BY <1>1, <3>1
    <3> HIDE DEF stops
    <3> QED
      BY <3>4, <3>5
  <2> QED
    BY <2>1, <2>2
<1>3. /\ C!AutoSteps(note, args) = [i \in 1..m |-> Step(note[i], args)]
      /\ Promise!AutoSteps(note, args) = [i \in 1..m |-> Step(note[i], args)]
  BY DEF C!AutoSteps, Promise!AutoSteps, Step
<1> HIDE DEF m
<1> QED
  BY <1>2, <1>3

LEMMA AutoNone ==
    ASSUME NEW note \in Seq(Tools), NEW args, NoAuto(note)
    PROVE  C!AutoSteps(note, args) = <<>>
<1>1. Unasked(note, 0)
  BY DEF Unasked, NoAuto
<1>2. C!AutoSteps(note, args) = [i \in 1..0 |-> Step(note[i], args)]
  BY <1>1, AutoAre
<1> QED
  BY <1>2

LEMMA AutoHead ==
    ASSUME NEW note \in Seq(Tools), NEW args, note # <<>>, note[1] \notin ConfirmInChain
    PROVE  C!AutoSteps(note, args)
             = <<Step(note[1], args)>> \o C!AutoSteps(Tail(note), args)
<1>1. PICK n : Unasked(note, n)
  BY UnaskedExists
<1>2. n \in Nat /\ n <= Len(note) /\ Len(note) \in Nat /\ Len(note) >= 1
  BY <1>1 DEF Unasked
<1>3. n >= 1
  BY <1>1, <1>2 DEF Unasked
<1>4. /\ Tail(note) \in Seq(Tools) /\ Len(Tail(note)) = Len(note) - 1
      /\ \A i \in 1..(Len(note) - 1) : Tail(note)[i] = note[i + 1]
  BY <1>2
<1>5. Unasked(Tail(note), n - 1)
  <2>1. n - 1 \in 0..Len(Tail(note))
    BY <1>2, <1>3, <1>4
  <2>2. \A i \in 1..(n - 1) : Tail(note)[i] \notin ConfirmInChain
    <3> SUFFICES ASSUME NEW i \in 1..(n - 1)
                 PROVE  Tail(note)[i] \notin ConfirmInChain
      OBVIOUS
    <3>1. i + 1 \in 1..n /\ i \in 1..(Len(note) - 1)
      BY <1>2
    <3> QED
      BY <1>1, <1>4, <3>1 DEF Unasked
  <2>3. n - 1 < Len(Tail(note)) => Tail(note)[(n - 1) + 1] \in ConfirmInChain
    <3> SUFFICES ASSUME n - 1 < Len(Tail(note))
                 PROVE  Tail(note)[(n - 1) + 1] \in ConfirmInChain
      OBVIOUS
    <3>1. (n - 1) + 1 = n /\ n \in 1..(Len(note) - 1) /\ n < Len(note)
      BY <1>2, <1>3, <1>4
    <3> QED
      BY <1>1, <1>4, <3>1 DEF Unasked
  <2> QED
    BY <2>1, <2>2, <2>3 DEF Unasked
<1>6. /\ C!AutoSteps(note, args) = [i \in 1..n |-> Step(note[i], args)]
      /\ C!AutoSteps(Tail(note), args) = [i \in 1..(n - 1) |-> Step(Tail(note)[i], args)]
  BY <1>1, <1>4, <1>5, AutoAre
<1> DEFINE a == [i \in 1..n |-> Step(note[i], args)]
           b == [i \in 1..(n - 1) |-> Step(Tail(note)[i], args)]
           S == {Step(t, args) : t \in Tools}
<1>7. \A i \in 1..(n - 1) : b[i] = a[i + 1]
  <2> SUFFICES ASSUME NEW i \in 1..(n - 1)
               PROVE  b[i] = a[i + 1]
    OBVIOUS
  <2>1. i + 1 \in 1..n /\ i \in 1..(Len(note) - 1)
    BY <1>2
  <2> QED
    BY <1>4, <2>1
<1>8. a \in Seq(S) /\ Len(a) = n /\ b \in Seq(S) /\ Len(b) = n - 1
  <2>1. \A i \in 1..n : note[i] \in Tools
    BY <1>2
  <2>2. \A i \in 1..(n - 1) : Tail(note)[i] \in Tools
    BY <1>2, <1>4
  <2> QED
    BY <1>2, <1>3, <2>1, <2>2
<1>9. a[1] = Step(note[1], args) /\ Step(note[1], args) \in S
  BY <1>2, <1>3
<1>10. a = <<a[1]>> \o b
  <2> HIDE DEF a, b, S
  <2>1. a[1] \in S
    BY <1>9
  <2>2. <<a[1]>> \o b \in Seq(S) /\ Len(<<a[1]>> \o b) = n
    BY <1>2, <1>8, <2>1
  <2>3. \A i \in 1..n : a[i] = (<<a[1]>> \o b)[i]
    <3> SUFFICES ASSUME NEW i \in 1..n
                 PROVE  a[i] = (<<a[1]>> \o b)[i]
      OBVIOUS
    <3>1. CASE i = 1
      BY <1>8, <2>1, <3>1
    <3>2. CASE i # 1
      <4>1. i - 1 \in 1..(n - 1) /\ (i - 1) + 1 = i
        BY <1>2, <3>2
      <4>2. (<<a[1]>> \o b)[i] = b[i - 1]
        BY <1>2, <1>8, <2>1, <3>2
      <4> QED
        BY <1>7, <4>1, <4>2
    <3> QED
      BY <3>1, <3>2
  <2> QED
    BY <1>2, <1>8, <2>2, <2>3
<1> QED
  BY <1>6, <1>9, <1>10

LEMMA AutoTyped ==
    ASSUME NEW note \in Seq(Tools), NEW args \in Args
    PROVE  C!AutoSteps(note, args) \in Seq(Writes)
<1>1. PICK n : Unasked(note, n)
  BY UnaskedExists
<1>2. \A i \in 1..n : Step(note[i], args) \in Writes
  BY <1>1 DEF Unasked, Step, Writes
<1>3. C!AutoSteps(note, args) = [i \in 1..n |-> Step(note[i], args)]
  BY <1>1, AutoAre
<1>4. n \in Nat
  BY <1>1 DEF Unasked
<1> QED
  BY <1>2, <1>3, <1>4

\* Without the prefix: the head and the tail of what a yes stands for.
LEMMA PrefixIs ==
    ASSUME NEW x, NEW S, x \in S, NEW s \in Seq(S)
    PROVE  /\ <<x>> \o s \in Seq(S) /\ <<x>> \o s # <<>>
           /\ Head(<<x>> \o s) = x /\ Tail(<<x>> \o s) = s
<1>1. <<x>> \o s \in Seq(S) /\ Len(<<x>> \o s) = Len(s) + 1 /\ (<<x>> \o s)[1] = x
  OBVIOUS
<1>2. \A i \in 1..Len(s) : (<<x>> \o s)[i + 1] = s[i]
  OBVIOUS
<1>3. /\ Tail(<<x>> \o s) \in Seq(S) /\ Len(Tail(<<x>> \o s)) = Len(s)
      /\ \A i \in 1..Len(s) : Tail(<<x>> \o s)[i] = s[i]
  BY <1>1, <1>2
<1> QED
  BY <1>1, <1>3

\* AgreedOf, one equation per place a run can be at.
AgreedAt(r) ==
    LET me == run[r] IN
    /\ me.pc = "resume" =>
          AgreedOf(r) = IF me.resume = "yes" THEN C!Promised(ckpt.ask) ELSE <<>>
    /\ me.pc = "run" /\ me.node \in Parks =>
          AgreedOf(r) = IF me.resume = "yes" THEN C!Promised(me.ask) ELSE <<>>
    /\ me.pc = "run" /\ me.node = "executor" =>
          AgreedOf(r) = IF Truthy(me.ch.confirmed)
                        THEN <<Head1(me.ch.pending)>>
                             \o C!AutoSteps(me.ch.chain, me.ch.pending.args)
                        ELSE <<>>
    /\ me.pc = "wrote" =>
          AgreedOf(r) = IF me.result = "envelope"
                        THEN C!AutoSteps(me.ch.chain, me.ch.pending.args) ELSE <<>>
    /\ me.pc = "run" /\ me.node = "continuation" =>
          AgreedOf(r) = IF InChain(me.ch)
                        THEN C!AutoSteps(me.ch.chain, me.ch.last.args) ELSE <<>>
    /\ me.pc = "run" /\ me.node = "router" => AgreedOf(r) = <<>>

LEMMA AgreedIs == ASSUME NEW r \in Requests PROVE AgreedAt(r)
BY DEF AgreedAt, AgreedOf, At, Parks

LEMMA AgreedIsNext == ASSUME NEW r \in Requests PROVE AgreedAt(r)'
BY AgreedIs, PTL

\* With one run at most, the screen and the agreement are that run's.
ScreenAt(r) ==
    /\ QuestionOnScreen = IF Answering(r) THEN None ELSE ckpt.ask
    /\ Agreed = IF Answering(r) THEN AgreedOf(r) ELSE <<>>

LEMMA ScreenIs == ASSUME NEW r \in Requests PROVE Alone(r) => ScreenAt(r)
<1> SUFFICES ASSUME Alone(r) PROVE ScreenAt(r)
  OBVIOUS
<1>1. \A s \in Requests : Answering(s) => s = r
  BY DEF Alone, Answering
<1>2. Answering(r) => (CHOOSE s \in Requests : Answering(s)) = r
  BY <1>1
<1> QED
  BY <1>1, <1>2 DEF QuestionOnScreen, Agreed, ScreenAt

LEMMA ScreenIsNext == ASSUME NEW r \in Requests PROVE Alone(r)' => ScreenAt(r)'
BY ScreenIs, PTL

\* What is shown and owed after the step of the only run.
LEMMA Shown ==
    ASSUME NEW r \in Requests, Others(r)
    PROVE  /\ QuestionOnScreen' = IF run'[r].pc \in {"resume", "run", "wrote"}
                                  THEN None ELSE ckpt'.ask
           /\ run'[r].pc \notin {"resume", "run", "wrote"} => Agreed' = <<>>
           /\ run'[r].pc = "resume" =>
                 Agreed' = IF run'[r].resume = "yes" THEN C!Promised(ckpt'.ask) ELSE <<>>
           /\ run'[r].pc = "run" /\ run'[r].node \in Parks =>
                 Agreed' = IF run'[r].resume = "yes" THEN C!Promised(run'[r].ask) ELSE <<>>
           /\ run'[r].pc = "run" /\ run'[r].node = "executor" =>
                 Agreed' = IF Truthy(run'[r].ch.confirmed)
                           THEN <<Head1(run'[r].ch.pending)>>
                                \o C!AutoSteps(run'[r].ch.chain, run'[r].ch.pending.args)
                           ELSE <<>>
           /\ run'[r].pc = "wrote" =>
                 Agreed' = IF run'[r].result = "envelope"
                           THEN C!AutoSteps(run'[r].ch.chain, run'[r].ch.pending.args)
                           ELSE <<>>
           /\ run'[r].pc = "run" /\ run'[r].node = "continuation" =>
                 Agreed' = IF InChain(run'[r].ch)
                           THEN C!AutoSteps(run'[r].ch.chain, run'[r].ch.last.args)
                           ELSE <<>>
           /\ run'[r].pc = "run" /\ run'[r].node = "router" => Agreed' = <<>>
<1>1. Alone(r)'
  BY DEF Others, Alone
<1>2. ScreenAt(r)' /\ AgreedAt(r)'
  BY <1>1, ScreenIsNext, AgreedIsNext
<1> QED
  BY <1>2 DEF ScreenAt, AgreedAt, Answering, Parks, C!Promised, Truthy, Head1

-----------------------------------------------------------------------------
(* Every step is a step of the abstract gate                               *)

\* A step that agrees to nothing new.
Quietly ==
    \/ Promise!Ask \/ Promise!Withdraw \/ Promise!Perform \/ Promise!Abandon
    \/ UNCHANGED Promise!vars

LEMMA Settles ==
    ASSUME QuestionOnScreen' = QuestionOnScreen, log' = log, Agreed' \in {Agreed, <<>>}
    PROVE  Quietly
BY DEF Quietly, Promise!Abandon, Promise!vars

LEMMA Withdraws ==
    ASSUME Agreed' = Agreed, log' = log, QuestionOnScreen' = None
    PROVE  Quietly
BY DEF Quietly, Promise!Withdraw, Promise!vars

\* A node that commits leaves no question behind.
LEMMA CommitSettles ==
    ASSUME TypeInv, Serial, NEW r \in Requests, run[r].pc \in {"run", "wrote"},
           NEW next, NEW ch, Commit(r, next, ch), log' = log,
           \/ next = "end"
           \/ next \in Parks \cup {"executor", "continuation"} /\ Agreed' \in {Agreed, <<>>}
    PROVE  Quietly
<1>1. RunType /\ OneAtATime
  BY DEF TypeInv, Serial
<1>2. /\ ckpt'.ask = None /\ Alone(r) /\ Others(r)
      /\ run'[r].pc = IF next = "end" THEN "finish" ELSE "run"
  BY <1>1, CommitAlone
<1>3. QuestionOnScreen = None /\ QuestionOnScreen' = None
  BY <1>2, ScreenIs, Shown DEF ScreenAt, Answering
<1>4. next = "end" => Agreed' = <<>>
  BY <1>2, Shown
<1> QED
  BY <1>3, <1>4, Settles

LEMMA ParkAsks ==
    ASSUME TypeInv, Serial, NEW r \in Requests, run[r].pc = "run",
           run[r].node \in Parks, run[r].resume # "yes",
           NEW q \in Questions, Park(r, q), log' = log
    PROVE  Quietly
<1>1. RunType /\ CkptType /\ OneAtATime /\ run[r].tip
  BY DEF TypeInv, Serial, Aligned
<1>2. ckpt'.ask = q /\ run'[r].pc = "finish" /\ Alone(r) /\ Others(r)
  BY <1>1, ParkAlone
<1>3. QuestionOnScreen = None /\ Agreed = <<>>
  BY <1>2, ScreenIs, AgreedIs DEF ScreenAt, AgreedAt, Answering
<1>4. QuestionOnScreen' = q /\ Agreed' = <<>>
  BY <1>2, Shown
<1> QED
  BY <1>3, <1>4 DEF Quietly, Promise!Ask

LEMMA CallPerforms ==
    ASSUME TypeInv, Serial, NEW r \in Requests, run[r].pc = "run",
           NEW w \in Writes, Call(r, w),
           NEW s \in Seq(Writes), Agreed = <<w>> \o s,
           C!AutoSteps(run[r].ch.chain, run[r].ch.pending.args) \in {s, <<>>}
    PROVE  Quietly
<1>1. RunType /\ OneAtATime
  BY DEF TypeInv, Serial
<1>2. /\ run'[r].pc = "wrote" /\ run'[r].ch = run[r].ch /\ ckpt' = ckpt
      /\ \/ log' = log /\ run'[r].result # "envelope"
         \/ log' = Append(log, w)
      /\ Alone(r) /\ Others(r)
  BY <1>1, CallAlone
<1>3. QuestionOnScreen = None /\ QuestionOnScreen' = None
  BY <1>2, ScreenIs, Shown DEF ScreenAt, Answering
<1>4. Agreed' = IF run'[r].result = "envelope"
                THEN C!AutoSteps(run[r].ch.chain, run[r].ch.pending.args) ELSE <<>>
  BY <1>2, Shown
<1>5. Agreed # <<>> /\ Head(Agreed) = w /\ Tail(Agreed) = s
  BY PrefixIs
<1>6. CASE log' = log /\ run'[r].result # "envelope"
  BY <1>3, <1>4, <1>6, Settles
<1>7. CASE log' = Append(log, w)
  BY <1>3, <1>4, <1>5, <1>7 DEF Quietly, Promise!Perform
<1> QED
  BY <1>2, <1>6, <1>7

\* The answer that sends a coordinator's draft is a yes to that draft.
LEMMA YesDraft ==
    ASSUME TypeInv, Serial, Certain, Sound, NEW r \in Requests, CoordinatorCalls(r)
    PROVE  /\ run[r].resume = "yes"
           /\ run[r].ask \in Questions /\ run[r].ask.draft = DraftNow(r)
           /\ run[r].ask.tool = run[r].ch.pending.tool
           /\ run[r].ask.args = run[r].ch.pending.args
           /\ run[r].ask.note = ShownChain(run[r].ch.pending)
<1>1. /\ run[r].pc = "run" /\ run[r].node = "coordinator" /\ Picked(r)
      /\ Len(Inputs(r)) >= ConfirmAt /\ Truthy(Inputs(r)[ConfirmAt])
  BY DEF CoordinatorCalls, At
<1>2. /\ ckpt.next = "coordinator" /\ run[r].ch = ckpt.ch
      /\ run[r].answers = ckpt.answers /\ run[r].ask = ckpt.ask
  BY <1>1 DEF Serial, Aligned
<1>3. Asking /\ Fitting /\ Placed /\ CkptType
  BY DEF Sound, Certain, TypeInv
<1>4. Len(ckpt.answers) \in Nat /\ Len(ckpt.answers) < ConfirmAt /\ ConfirmAt \in Nat
  BY <1>2, <1>3, InputsAre DEF Placed, ConfirmAt
<1>5. run[r].resume # None
  BY <1>1, <1>2, <1>4, InputsAre
<1>6. /\ Len(Inputs(r)) = Len(ckpt.answers) + 1
      /\ Inputs(r)[Len(ckpt.answers) + 1] = run[r].resume
      /\ \A i \in 1..Len(ckpt.answers) : Inputs(r)[i] = ckpt.answers[i]
  BY <1>2, <1>5, InputsAre
<1>7. ConfirmAt = Len(ckpt.answers) + 1
  BY <1>1, <1>4, <1>6
<1>8. ckpt.ask # None /\ ckpt.ask \in Questions /\ Fits(run[r].resume, ckpt.ask)
  BY <1>1, <1>3, <1>5 DEF Fitting, CkptType
<1>9. ~(ckpt.ask.kind = "pick" /\ erp.ambiguous /\ ckpt.answers = <<>>)
  BY <1>7 DEF ConfirmAt
<1>10. /\ ckpt.ask.kind = "confirm"
       /\ ckpt.ask.tool = ckpt.ch.pending.tool /\ ckpt.ask.args = ckpt.ch.pending.args
       /\ ckpt.ask.draft = [pick  |-> IF erp.ambiguous THEN ckpt.answers[1] ELSE None,
                            price |-> erp.price]
       /\ ckpt.ask.note = ShownChain(ckpt.ch.pending)
  BY <1>2, <1>3, <1>8, <1>9 DEF Asking
<1>11. run[r].resume = "yes"
  BY <1>1, <1>6, <1>7, <1>8, <1>10 DEF Fits, Truthy
<1>12. erp.ambiguous => Inputs(r)[1] = ckpt.answers[1]
  <2>1. erp.ambiguous => 1 \in 1..Len(ckpt.answers)
    BY <1>7 DEF ConfirmAt
  <2> QED
    BY <1>6, <2>1
<1>13. ckpt.ask.draft = DraftNow(r)
  BY <1>10, <1>12 DEF DraftNow
<1> QED
  BY <1>2, <1>8, <1>10, <1>11, <1>13

LEMMA NoYesYet ==
    ASSUME TypeInv, Serial, Certain, Sound, NEW r \in Requests,
           CoordinatorAsksPick(r) \/ CoordinatorAsksConfirm(r)
    PROVE  run[r].resume # "yes"
<1> SUFFICES ASSUME run[r].resume = "yes"
             PROVE  FALSE
  OBVIOUS
<1>1. run[r].pc = "run" /\ run[r].node = "coordinator"
  BY DEF CoordinatorAsksPick, CoordinatorAsksConfirm, At
<1>2. ckpt.next = "coordinator" /\ run[r].answers = ckpt.answers
  BY <1>1 DEF Serial, Aligned
<1>3. Asking /\ Fitting /\ CkptType
  BY DEF Sound, TypeInv
<1>4. run[r].resume # None
  BY AnswerAssumption DEF Answers
<1>5. Len(Inputs(r)) = Len(ckpt.answers) + 1 /\ Len(ckpt.answers) \in Nat
  BY <1>2, <1>4, InputsAre
<1>6. Inputs(r) # <<>>
  BY <1>5
<1>7. CoordinatorAsksConfirm(r) /\ Len(Inputs(r)) = ConfirmAt - 1 /\ ConfirmAt \in {1, 2}
  BY <1>6 DEF CoordinatorAsksPick, CoordinatorAsksConfirm, ConfirmAt
<1>8. ckpt.ask # None /\ Fits("yes", ckpt.ask)
  BY <1>1, <1>3, <1>4 DEF Fitting
<1>9. ckpt.ask.kind = "confirm"
  BY <1>8, AnswerAssumption DEF Fits
<1>10. Len(ckpt.answers) = ConfirmAt - 1
  BY <1>2, <1>3, <1>8, <1>9 DEF Asking
<1> QED
  BY <1>5, <1>7, <1>10

LEMMA ShownTyped ==
    ASSUME NEW p \in [tool : Tools, args : Args, note : Notes]
    PROVE  ShownChain(p) \in Seq(Tools) /\ p.note \in Seq(Tools)
<1>1. p.note \in Seq(Tools)
  BY NotesAreSeqs
<1> QED
  BY <1>1 DEF ShownChain

\* After a call: what its envelope left of the chain is what goes on.
LEMMA ReturnKeeps ==
    ASSUME TypeInv, Serial, NEW r \in Requests, run[r].pc = "wrote",
           NEW ch, Commit(r, "continuation", ch), log' = log,
           ch.chain = run[r].ch.chain, run[r].ch.pending # None,
           ch.last \in {None, Handle(r)}
    PROVE  Quietly
<1>1. RunType /\ OneAtATime
  BY DEF TypeInv, Serial
<1>2. /\ run'[r].pc = "run" /\ run'[r].node = "continuation" /\ run'[r].ch = ch
      /\ Alone(r) /\ Others(r)
  BY <1>1, CommitAlone
<1>3. Agreed = IF run[r].result = "envelope"
               THEN C!AutoSteps(run[r].ch.chain, run[r].ch.pending.args) ELSE <<>>
  BY <1>2, ScreenIs, AgreedIs DEF ScreenAt, AgreedAt, Answering
<1>4. Agreed' = IF InChain(ch) THEN C!AutoSteps(ch.chain, ch.last.args) ELSE <<>>
  BY <1>2, Shown
<1>5. ch.last = None => ~InChain(ch)
  BY DEF InChain, NextStep
<1>6. ch.last # None => run[r].result = "envelope" /\ ch.last.args = run[r].ch.pending.args
  BY DEF Handle
<1>7. Agreed' \in {Agreed, <<>>}
  BY <1>3, <1>4, <1>5, <1>6
<1> QED
  BY <1>7, CommitSettles

\* The plan the user said yes to is the one the executor gets.
LEMMA AnsweredKeeps ==
    ASSUME "replan" \notin Faults, TypeInv, Serial, Certain, Sound,
           NEW r \in Requests, PlannerAnswered(r)
    PROVE  Quietly
<1>1. /\ RunType /\ CkptType /\ OneAtATime /\ Aligned /\ Placed /\ Asking /\ Fitting
      /\ run[r].ch \in Channels
  BY RunTyped DEF TypeInv, Serial, Certain, Sound
<1>2. PICK p \in PlansFor(r) :
        Commit(r, "executor", [run[r].ch EXCEPT !.pending = p, !.chain = p.note,
                                                !.confirmed = Inputs(r)[1]])
  BY DEF PlannerAnswered
<1> DEFINE ch == [run[r].ch EXCEPT !.pending = p, !.chain = p.note,
                                   !.confirmed = Inputs(r)[1]]
<1>3. ch.pending = p /\ ch.chain = p.note /\ ch.confirmed = Inputs(r)[1]
  BY <1>1 DEF Channels
<1>4. run[r].pc = "run" /\ run[r].node = "planner" /\ Inputs(r) # <<>> /\ log' = log
  BY DEF PlannerAnswered, At
<1>5. /\ ckpt.next = "planner" /\ run[r].answers = <<>> /\ run[r].ask = ckpt.ask
  BY <1>1, <1>4 DEF Aligned, Placed
<1>6. run[r].resume # None /\ Inputs(r)[1] = run[r].resume
  <2>1. Len(run[r].answers) = 0
    BY <1>5
  <2> QED
    BY <1>4, <1>5, <2>1, InputsAre
<1>7. ckpt.ask # None /\ Fits(run[r].resume, ckpt.ask)
  BY <1>1, <1>4, <1>6 DEF Fitting
<1>8. ckpt.ask.kind = "confirm" /\ ckpt.ask.draft = None
  BY <1>1, <1>5, <1>7 DEF Asking
<1>9. run[r].resume \in {"yes", "no"}
  BY <1>7, <1>8 DEF Fits
<1>10. Repeats(p, ckpt.ask)
  BY <1>5, <1>7 DEF PlansFor
<1> HIDE DEF ch
<1>11. /\ run'[r].pc = "run" /\ run'[r].node = "executor" /\ run'[r].ch = ch
       /\ Alone(r) /\ Others(r)
  BY <1>1, <1>2, <1>4, CommitAlone DEF ch
<1>12. Agreed = IF run[r].resume = "yes" THEN C!Promised(ckpt.ask) ELSE <<>>
  BY <1>4, <1>5, <1>11, ScreenIs, AgreedIs DEF ScreenAt, AgreedAt, Answering, Parks
<1>13. Agreed' = IF Truthy(ch.confirmed)
                 THEN <<Head1(ch.pending)>> \o C!AutoSteps(ch.chain, ch.pending.args)
                 ELSE <<>>
  BY <1>11, Shown
<1>14. C!Promised(ckpt.ask) = <<Head1(p)>> \o C!AutoSteps(p.note, p.args)
  BY <1>8, <1>10 DEF C!Promised, Head1, Repeats
<1>15. Agreed' \in {Agreed, <<>>}
  BY <1>3, <1>6, <1>9, <1>12, <1>13, <1>14 DEF Truthy
<1> QED
  BY <1>2, <1>4, <1>15, CommitSettles DEF ch

LEMMA ExecutorPerforms ==
    ASSUME TypeInv, Serial, NEW r \in Requests, ExecutorCalls(r)
    PROVE  Quietly
<1>1. run[r].ch \in Channels /\ RunType /\ OneAtATime
  BY RunTyped DEF TypeInv, Serial
<1>2. run[r].pc = "run" /\ run[r].node = "executor" /\ Truthy(run[r].ch.confirmed)
  BY DEF ExecutorCalls, At
<1>3. run[r].ch.pending \in [tool : Tools, args : Args, note : Notes]
  BY <1>1, <1>2 DEF TypeInv, PendingOK, Writers, Channels
<1> DEFINE w == Head1(run[r].ch.pending)
           s == C!AutoSteps(run[r].ch.chain, run[r].ch.pending.args)
<1>4. w \in Writes /\ Call(r, w)
  BY <1>3 DEF ExecutorCalls, Head1, Writes
<1>5. s \in Seq(Writes)
  BY <1>1, <1>3, AutoTyped DEF Channels
<1>6. Alone(r)
  BY <1>1, <1>2 DEF OneAtATime, Alone
<1>7. Agreed = <<w>> \o s
  BY <1>2, <1>6, ScreenIs, AgreedIs DEF ScreenAt, AgreedAt, Answering
<1> HIDE DEF w
<1> QED
  BY <1>2, <1>4, <1>5, <1>7, CallPerforms

LEMMA CoordinatorPerforms ==
    ASSUME TypeInv, Serial, Certain, Sound, NEW r \in Requests, CoordinatorCalls(r)
    PROVE  Quietly
<1>1. run[r].ch \in Channels /\ RunType /\ OneAtATime /\ Aligned
  BY RunTyped DEF TypeInv, Serial
<1>2. run[r].pc = "run" /\ run[r].node = "coordinator" /\ Picked(r)
  BY DEF CoordinatorCalls, At
<1>3. run[r].ch.pending \in [tool : Tools, args : Args, note : Notes]
  BY <1>1, <1>2 DEF TypeInv, PendingOK, Writers, Channels
<1> DEFINE w == [tool |-> run[r].ch.pending.tool, args |-> run[r].ch.pending.args,
                 draft |-> DraftNow(r)]
           s == C!AutoSteps(ShownChain(run[r].ch.pending), run[r].ch.pending.args)
<1>4. Call(r, w)
  BY DEF CoordinatorCalls
<1>5. w \in Writes
  <2>1. erp \in [ambiguous : BOOLEAN, price : Prices]
    BY DEF TypeInv, RestType
  <2>2. DraftNow(r) \in Drafts
    BY <1>2, <2>1 DEF Picked, DraftNow, Drafts
  <2> QED
    BY <1>3, <2>2 DEF Writes
<1>6. s \in Seq(Writes)
  BY <1>3, ShownTyped, AutoTyped
<1>7. Alone(r)
  BY <1>1, <1>2 DEF OneAtATime, Alone
<1>8. Agreed = C!Promised(run[r].ask)
  BY <1>2, <1>7, YesDraft, ScreenIs, AgreedIs DEF ScreenAt, AgreedAt, Answering, Parks
<1>9. Agreed = <<w>> \o s
  BY <1>8, YesDraft DEF C!Promised
<1>10. run[r].ch.chain = ShownChain(run[r].ch.pending) \/ NoAuto(run[r].ch.chain)
  BY <1>1, <1>2 DEF Sound, Chains, Aligned
<1>11. C!AutoSteps(run[r].ch.chain, run[r].ch.pending.args) \in {s, <<>>}
  BY <1>1, <1>10, AutoNone DEF Channels
<1> HIDE DEF w, s
<1> QED
  BY <1>2, <1>4, <1>5, <1>6, <1>9, <1>11, CallPerforms

LEMMA AdvanceKeeps ==
    ASSUME TypeInv, Serial, NEW r \in Requests, ContinuationAdvances(r)
    PROVE  Quietly
<1>1. run[r].ch \in Channels /\ RunType /\ OneAtATime
  BY RunTyped DEF TypeInv, Serial
<1> DEFINE ch == run[r].ch
           t == NextStep(ch)
           next == IF AsksAgain(t) THEN "coordinator" ELSE "executor"
<1>2. /\ run[r].pc = "run" /\ run[r].node = "continuation" /\ InChain(ch) /\ log' = log
      /\ Commit(r, next, Advance(ch))
  BY DEF ContinuationAdvances, At
<1>3. ch.chain \in Seq(Tools) /\ ch.chain # <<>> /\ ch.chain[1] = t
  BY <1>1, <1>2 DEF InChain, Channels
<1>4. /\ Advance(ch).pending.tool = t /\ Advance(ch).pending.args = ch.last.args
      /\ Advance(ch).chain = Tail(ch.chain)
      /\ ~AsksAgain(t) => Advance(ch).confirmed = "yes"
  BY DEF Advance
<1> HIDE DEF ch, t
<1>5. /\ run'[r].pc = "run" /\ run'[r].node = next /\ run'[r].ch = Advance(ch)
      /\ run'[r].resume = None /\ Alone(r) /\ Others(r)
  BY <1>1, <1>2, CommitAlone
<1>6. Agreed = C!AutoSteps(ch.chain, ch.last.args)
  BY <1>2, <1>5, ScreenIs, AgreedIs DEF ScreenAt, AgreedAt, Answering, ch
<1>7. CASE AsksAgain(t)
  <2>1. None # "yes"
    BY AnswerAssumption DEF Answers
  <2>2. Agreed' = <<>>
    BY <1>5, <1>7, <2>1, Shown DEF Parks
  <2> QED
    BY <1>2, <1>7, <2>2, CommitSettles DEF Parks
<1>8. CASE ~AsksAgain(t)
  <2>1. Truthy("yes")
    BY AnswerAssumption DEF Truthy, Answers
  <2>2. Agreed' = <<Head1(Advance(ch).pending)>>
                  \o C!AutoSteps(Advance(ch).chain, Advance(ch).pending.args)
    BY <1>4, <1>5, <1>8, <2>1, Shown
  <2>3. Agreed' = <<Step(t, ch.last.args)>> \o C!AutoSteps(Tail(ch.chain), ch.last.args)
    BY <1>4, <2>2 DEF Head1, Step
  <2>4. Agreed' = Agreed
    BY <1>3, <1>6, <1>8, <2>3, AutoHead DEF AsksAgain
  <2> QED
    BY <1>2, <1>8, <2>4, CommitSettles
<1> QED
  BY <1>7, <1>8

LEMMA ResumeKeeps ==
    ASSUME TypeInv, Serial, Certain, Sound, NEW r \in Requests, Resume(r)
    PROVE  Quietly
<1>1. /\ RunType /\ OneAtATime /\ Placed /\ Fitting
  BY DEF TypeInv, Serial, Certain, Sound
<1>2. run[r].pc = "resume" /\ ckpt.ask # None
  BY <1>1 DEF Resume, Fitting
<1>3. ckpt.next \in Parks /\ ckpt.next # "end"
  BY <1>1, <1>2 DEF Placed, Parks
<1>4. /\ run'[r].pc = "run" /\ run'[r].node = ckpt.next /\ run'[r].ask = ckpt.ask
      /\ run'[r].resume = run[r].resume /\ log' = log /\ Alone(r) /\ Others(r)
  BY <1>1, <1>3, ResumeAlone
<1>5. QuestionOnScreen = None /\ QuestionOnScreen' = None
  BY <1>2, <1>4, ScreenIs, Shown DEF ScreenAt, Answering
<1>6. Agreed = IF run[r].resume = "yes" THEN C!Promised(ckpt.ask) ELSE <<>>
  BY <1>2, <1>4, ScreenIs, AgreedIs DEF ScreenAt, AgreedAt, Answering
<1>7. Agreed' = IF run[r].resume = "yes" THEN C!Promised(ckpt.ask) ELSE <<>>
  BY <1>3, <1>4, Shown
<1> QED
  BY <1>4, <1>5, <1>6, <1>7, Settles

\* A turn that starts afresh leaves the question behind.
LEMMA InvokeWithdraws ==
    ASSUME TypeInv, NEW r \in Requests, Alone(r), run[r].pc \in {"idle", "finish"},
           NEW ch, Invoke(r, ch), log' = log
    PROVE  Quietly
<1>1. run'[r].pc = "run" /\ run'[r].node = "router" /\ Others(r)
  BY InvokeAlone DEF TypeInv
<1>2. QuestionOnScreen' = None /\ Agreed' = <<>>
  BY <1>1, Shown
<1>3. Agreed = <<>>
  BY ScreenIs DEF ScreenAt, Answering
<1> QED
  BY <1>2, <1>3, Withdraws

LEMMA ServePromise ==
    ASSUME "replan" \notin Faults, TypeInv, Serial, Certain, Sound,
           NEW r \in Requests, Serve(r)
    PROVE  Quietly
<1>1. /\ RunType /\ OneAtATime /\ Consumed /\ run[r].ch \in Channels
  BY RunTyped DEF TypeInv, Serial
<1>2. run[r].ch.last # None => run[r].node = "continuation"
  BY <1>1 DEF Consumed, HandleConsumed
<1>3. run[r].pc \in {"run", "wrote"} /\ run[r].node \in Writers => run[r].ch.pending # None
  BY DEF TypeInv, PendingOK
<1>4. CASE Finish(r)
  <2>1. run[r].pc = "finish" /\ Alone(r) /\ log' = log
    BY <1>1, <1>4 DEF Finish, OneAtATime, Alone
  <2>2. CASE run[r].again
    BY <1>4, <2>1, <2>2, InvokeWithdraws DEF Finish
  <2>3. CASE ~run[r].again
    <3>1. run' = [run EXCEPT ![r] = IdleRun] /\ ckpt' = ckpt
      BY <1>4, <2>3 DEF Finish
    <3>2. run'[r] = IdleRun /\ Others(r)
      BY <1>1, <2>1, <3>1, ReplaceAlone
    <3>3. run'[r].pc = "idle"
      BY <3>2 DEF IdleRun
    <3>4. QuestionOnScreen' = ckpt.ask /\ Agreed' = <<>>
      BY <3>1, <3>2, <3>3, Shown
    <3>5. QuestionOnScreen = ckpt.ask
      BY <2>1, ScreenIs DEF ScreenAt, Answering
    <3> QED
      BY <2>1, <3>4, <3>5, Settles
  <2> QED
    BY <2>2, <2>3
<1>5. CASE Router(r)
  <2>1. PICK next \in {"planner", "end"} : Commit(r, next, run[r].ch)
    BY <1>5 DEF Router
  <2>2. run[r].pc = "run" /\ log' = log
    BY <1>5 DEF Router, At
  <2>3. /\ run'[r].pc = IF next = "end" THEN "finish" ELSE "run"
        /\ run'[r].node = next /\ run'[r].resume = None /\ Others(r)
    BY <1>1, <2>1, <2>2, CommitAlone
  <2>4. None # "yes"
    BY AnswerAssumption DEF Answers
  <2>5. Agreed' = <<>>
    BY <2>3, <2>4, Shown DEF Parks
  <2> QED
    BY <2>1, <2>2, <2>5, CommitSettles DEF Parks
<1>6. CASE PlannerRefuses(r) \/ ContinuationEnds(r)
  <2>1. PICK ch : Commit(r, "end", ch)
    BY <1>6 DEF PlannerRefuses, ContinuationEnds
  <2>2. run[r].pc = "run" /\ log' = log
    BY <1>6 DEF PlannerRefuses, ContinuationEnds, At
  <2> QED
    BY <2>1, <2>2, CommitSettles
<1>7. CASE PlannerHandsOver(r)
  <2>1. PICK ch : Commit(r, "coordinator", ch)
    BY <1>7 DEF PlannerHandsOver
  <2>2. run[r].pc = "run" /\ log' = log
    BY <1>7 DEF PlannerHandsOver, At
  <2>3. /\ run'[r].pc = "run" /\ run'[r].node = "coordinator"
        /\ run'[r].resume = None /\ Others(r)
    BY <1>1, <2>1, <2>2, CommitAlone
  <2>4. None # "yes"
    BY AnswerAssumption DEF Answers
  <2>5. Agreed' = <<>>
    BY <2>3, <2>4, Shown DEF Parks
  <2> QED
    BY <2>1, <2>2, <2>5, CommitSettles DEF Parks
<1>8. CASE PlannerAsks(r)
  <2>1. PICK p \in PlansFor(r) : Park(r, PlanQuestion(p))
    BY <1>8 DEF PlannerAsks
  <2>2. PlanQuestion(p) \in Questions
    BY PlanTyped
  <2>3. run[r].pc = "run" /\ run[r].node = "planner" /\ log' = log /\ Inputs(r) = <<>>
    BY <1>8 DEF PlannerAsks, At
  <2>4. run[r].resume # "yes"
    <3>1. None # "yes" /\ Len(Inputs(r)) = 0
      BY <2>3, AnswerAssumption DEF Answers
    <3> QED
      BY <3>1, InputsAre
  <2> QED
    BY <2>1, <2>2, <2>3, <2>4, ParkAsks DEF Parks
<1>9. CASE CoordinatorAsksPick(r) \/ CoordinatorAsksConfirm(r)
  <2>1. PICK q \in Questions : Park(r, q)
    BY <1>9, CoordinatorAsks
  <2>2. run[r].pc = "run" /\ run[r].node = "coordinator" /\ log' = log
    BY <1>9 DEF CoordinatorAsksPick, CoordinatorAsksConfirm, At
  <2>3. run[r].resume # "yes"
    BY <1>9, NoYesYet
  <2> QED
    BY <2>1, <2>2, <2>3, ParkAsks DEF Parks
<1>10. CASE ExecutorCancels(r) \/ CoordinatorStops(r)
  <2>1. PICK ch : Commit(r, "continuation", ch) /\ ch.last = None
    <3>1. CASE ExecutorCancels(r)
      <4> DEFINE ch == Cleared(run[r].ch, None)
      <4>1. Commit(r, "continuation", ch) /\ ch.last = None
        BY <1>1, <3>1 DEF ExecutorCancels, Cleared, Channels
      <4> QED
        BY <4>1
    <3>2. CASE CoordinatorStops(r)
      BY <1>2, <3>2 DEF CoordinatorStops, At
    <3> QED
      BY <1>10, <3>1, <3>2
  <2>2. run[r].pc = "run" /\ log' = log
    BY <1>10 DEF ExecutorCancels, CoordinatorStops, At
  <2>3. /\ run'[r].pc = "run" /\ run'[r].node = "continuation" /\ run'[r].ch = ch
        /\ Others(r)
    BY <1>1, <2>1, <2>2, CommitAlone
  <2>4. ~InChain(ch)
    BY <2>1 DEF InChain, NextStep
  <2>5. Agreed' = <<>>
    BY <2>3, <2>4, Shown
  <2> QED
    BY <2>1, <2>2, <2>5, CommitSettles
<1>11. CASE ExecutorReturns(r)
  <2> DEFINE ch == Cleared(run[r].ch, Handle(r))
  <2>1. run[r].pc = "wrote" /\ run[r].node = "executor" /\ log' = log
        /\ Commit(r, "continuation", ch)
    BY <1>11 DEF ExecutorReturns
  <2>2. ch.chain = run[r].ch.chain /\ ch.last = Handle(r)
    BY <1>1 DEF Cleared, Channels
  <2> HIDE DEF ch
  <2> QED
    BY <1>3, <2>1, <2>2, ReturnKeeps DEF Writers
<1>12. CASE CoordinatorReturns(r)
  <2>1. PICK ch : /\ Commit(r, "continuation", ch)
                  /\ ch \in {run[r].ch, [run[r].ch EXCEPT !.pending = None, !.last = Handle(r)]}
    BY <1>12 DEF CoordinatorReturns
  <2>2. run[r].pc = "wrote" /\ run[r].node = "coordinator" /\ log' = log
    BY <1>12 DEF CoordinatorReturns
  <2>3. ch.last \in {None, Handle(r)} /\ ch.chain = run[r].ch.chain
    BY <1>1, <1>2, <2>1, <2>2 DEF Channels
  <2> QED
    BY <1>3, <2>1, <2>2, <2>3, ReturnKeeps DEF Writers
<1> QED
  BY <1>4, <1>5, <1>6, <1>7, <1>8, <1>9, <1>10, <1>11, <1>12, ResumeKeeps, AnsweredKeeps,
     ExecutorPerforms, CoordinatorPerforms, AdvanceKeeps DEF Serve

\* A yes on screen is the one step that agrees; the history has it.
YesTo(q) ==
    /\ Promise!Agree /\ q \in Questions /\ q = QuestionOnScreen
    /\ said' = Append(said, [ask |-> q, reply |-> "yes"])

LEMMA ChatPromise ==
    ASSUME "overlap" \notin Faults, TypeInv, Serial, Certain, Sound,
           NEW r \in Requests, Chat(r)
    PROVE  Quietly \/ \E q : YesTo(q)
<1>1. /\ RunType /\ CkptType /\ OneAtATime /\ Waiting
  BY DEF TypeInv, Serial, Sound
<1>2. Alone(r) /\ run[r].pc = "idle" /\ log' = log
  BY AllIdle DEF Chat, ChatFresh, ChatNotParked, ChatExpired, ChatReply, ChatReask, TakesRequest
<1>3. QuestionOnScreen = ckpt.ask /\ Agreed = <<>>
  BY <1>2, ScreenIs DEF ScreenAt, Answering
<1>4. ~Working
  BY <1>2 DEF Working, Alone
<1>5. CASE ChatFresh(r) \/ ChatNotParked(r)
  BY <1>2, <1>5, InvokeWithdraws DEF ChatFresh, ChatNotParked
<1>6. CASE ChatExpired(r)
  <2> DEFINE x == [IdleRun EXCEPT !.pc = "resume", !.resume = ExpiredAs,
                                  !.reply = "late", !.again = TRUE]
  <2>1. x.pc = "resume" /\ x.resume = "no"
    BY DEF IdleRun, ExpiredAs
  <2>2. run' = [run EXCEPT ![r] = x] /\ ckpt' = ckpt
    BY <1>6 DEF ChatExpired
  <2> HIDE DEF x
  <2>3. run'[r] = x /\ Others(r)
    BY <1>1, <1>2, <2>2, ReplaceAlone
  <2>4. QuestionOnScreen' = None /\ Agreed' = <<>>
    BY <2>1, <2>3, Shown
  <2> QED
    BY <1>2, <1>3, <2>4, Withdraws
<1>7. CASE ChatReply(r)
  <2>1. PICK v \in Decisions(ckpt.ask) :
          /\ run' = [run EXCEPT ![r] = [IdleRun EXCEPT !.pc = "resume",
                                          !.resume = v, !.reply = v]]
          /\ said' = IF Truthy(v) THEN Append(said, [ask |-> ckpt.ask, reply |-> v])
                     ELSE said
    BY <1>7 DEF ChatReply
  <2> DEFINE x == [IdleRun EXCEPT !.pc = "resume", !.resume = v, !.reply = v]
  <2>2. x.pc = "resume" /\ x.resume = v
    BY DEF IdleRun
  <2>3. run' = [run EXCEPT ![r] = x] /\ ckpt' = ckpt
    BY <1>7, <2>1 DEF ChatReply
  <2> HIDE DEF x
  <2>4. run'[r] = x /\ Others(r)
    BY <1>1, <1>2, <2>3, ReplaceAlone
  <2>5. /\ QuestionOnScreen' = None
        /\ Agreed' = IF v = "yes" THEN C!Promised(ckpt.ask) ELSE <<>>
    BY <2>2, <2>3, <2>4, Shown
  <2>6. ckpt.ask # None /\ ckpt.ask \in Questions
    BY <1>1, <1>4, <1>7 DEF ChatReply, IsParked, Waiting, CkptType
  <2>7. CASE v = "yes"
    <3>1. ckpt.ask.kind = "confirm"
      <4>1. ckpt.ask.kind \in {"confirm", "pick"}
        BY <2>6 DEF Questions
      <4> QED
        BY <2>1, <2>6, <2>7, <4>1, AnswerAssumption DEF Decisions
    <3>2. said' = Append(said, [ask |-> ckpt.ask, reply |-> "yes"])
      <4>1. Truthy("yes")
        BY AnswerAssumption DEF Truthy, Answers
      <4> QED
        BY <2>1, <2>7, <4>1
    <3>3. C!Promised(ckpt.ask) = Promise!Promised(ckpt.ask)
      <4>1. ckpt.ask.note \in Seq(Tools)
        BY <2>6, NotesAreSeqs DEF Questions
      <4>2. PICK n : Unasked(ckpt.ask.note, n)
        BY <4>1, UnaskedExists
      <4>3. Promise!AutoSteps(ckpt.ask.note, ckpt.ask.args)
              = C!AutoSteps(ckpt.ask.note, ckpt.ask.args)
        BY <4>1, <4>2, AutoAre
      <4> QED
        BY <4>3 DEF C!Promised, Promise!Promised
    <3>4. Promise!Agree
      BY <1>2, <1>3, <2>5, <2>6, <2>7, <3>1, <3>3 DEF Promise!Agree
    <3>5. YesTo(ckpt.ask)
      BY <1>3, <2>6, <3>2, <3>4 DEF YesTo
    <3> QED
      BY <3>5
  <2>8. CASE v # "yes"
    BY <1>2, <1>3, <2>5, <2>8, Withdraws
  <2> QED
    BY <2>7, <2>8
<1>8. CASE ChatReask(r)
  <2>1. UNCHANGED <<ckpt, run>>
    BY <1>8 DEF ChatReask
  <2>2. QuestionOnScreen' = QuestionOnScreen /\ Agreed' = <<>>
    <3>1. Others(r) /\ run'[r].pc = "idle"
      BY <1>2, <2>1 DEF Others, Alone
    <3> QED
      BY <1>3, <2>1, <3>1, Shown
  <2> QED
    BY <1>2, <2>2, Settles
<1> QED
  BY <1>5, <1>6, <1>7, <1>8 DEF Chat

LEMMA StepPromise ==
    ASSUME Faults = {}, TypeInv, Serial, Certain, Sound, [Next]_vars
    PROVE  Quietly \/ \E q : YesTo(q)
<1>1. CASE UNCHANGED vars \/ ToggleGate \/ ErpChanges
  <2>1. UNCHANGED <<ckpt, run, log>>
    BY <1>1 DEF vars, ToggleGate, ErpChanges
  <2>2. QuestionOnScreen' = QuestionOnScreen
    BY <2>1 DEF QuestionOnScreen, Answering
  <2>3. Agreed' = Agreed
    BY <2>1 DEF Agreed, AgreedOf, Answering, At, C!Promised
  <2> QED
    BY <2>1, <2>2, <2>3, Settles
<1>2. CASE Expire
  <2>1. ckpt'.ask = ckpt.ask /\ UNCHANGED <<run, log>>
    BY <1>2 DEF Expire, TypeInv, CkptType
  <2>2. QuestionOnScreen' = QuestionOnScreen
    BY <2>1 DEF QuestionOnScreen, Answering
  <2>3. Agreed' = Agreed
    BY <2>1 DEF Agreed, AgreedOf, Answering, At, C!Promised
  <2> QED
    BY <2>1, <2>2, <2>3, Settles
<1>3. ~Die /\ \A r \in Requests : ~Raise(r)
  BY DEF Die, Raise
<1> QED
  BY <1>1, <1>2, <1>3, ServePromise, ChatPromise DEF Next

LEMMA InitAll == Init => Serial /\ Certain /\ Sound
<1> SUFFICES ASSUME Init PROVE Serial /\ Certain /\ Sound
  OBVIOUS
<1>1. /\ ckpt.ch.last = None /\ ckpt.next = "end" /\ ckpt.ask = None /\ ckpt.answers = <<>>
      /\ \A s \in Requests : run[s].pc = "idle" /\ run[s].ch.last = None /\ run[s].reply = None
  BY NoLast DEF Init, Checkpoint, IdleRun
<1>2. Serial
  BY <1>1 DEF Serial, OneAtATime, Aligned, Consumed, HandleConsumed
<1>3. Denied
  BY <1>1, AnswerAssumption DEF Denied, Refused, Answers
<1>4. Placed
  BY <1>1 DEF Placed, ConfirmAt
<1>5. Sound
  BY <1>1 DEF Sound, Asking, Waiting, Fitting, Chains
<1> QED
  BY <1>2, <1>3, <1>4, <1>5 DEF Certain

LEMMA ScreenInit == Init => QuestionOnScreen = None /\ Agreed = <<>> /\ log = <<>>
<1> SUFFICES ASSUME Init PROVE QuestionOnScreen = None /\ Agreed = <<>> /\ log = <<>>
  OBVIOUS
<1>1. ckpt.ask = None /\ \A s \in Requests : run[s].pc = "idle"
  BY DEF Init, Checkpoint, IdleRun
<1> QED
  BY <1>1 DEF Init, QuestionOnScreen, Agreed, Answering

\* The inductive invariant of the whole protocol.
THEOREM ProtocolSound ==
    ASSUME Faults = {}, ChainsShown
    PROVE  Spec => [](TypeInv /\ Serial /\ Certain /\ Sound)
<1>1. Init => Serial /\ Certain /\ Sound
  BY InitAll
<1>2. TypeInv /\ Serial /\ Certain /\ Sound /\ [Next]_vars => (Serial /\ Certain /\ Sound)'
  BY StepSerial, StepCertain, StepSound
<1> QED
  BY <1>1, <1>2, TypeInvariant, PTL DEF Spec

\* Without faults, whatever the registry and the workers, the graph behind the
\* confirmation gate does what the gate promises: the ERP receives the writes a
\* question has shown, after a yes to it, in the order shown, each at most once
\* (nodes.py, executor and continuation; order.py and its kin).
THEOREM PromiseAlwaysKept ==
    ASSUME Faults = {}, ChainsShown
    PROVE  Spec => KeepsPromise
<1>1. Init => Promise!Init
  BY ScreenInit DEF Promise!Init
<1>2. TypeInv /\ Serial /\ Certain /\ Sound /\ [Next]_vars => [Promise!Next]_(Promise!vars)
  BY StepPromise DEF Quietly, YesTo, Promise!Next
<1> QED
  BY <1>1, <1>2, ProtocolSound, PTL DEF Spec, KeepsPromise, Promise!Spec

-----------------------------------------------------------------------------
(* What was agreed to had been shown                                       *)

Kept ==
    /\ Agreed \in Seq(Writes)
    /\ \A i \in 1..Len(Agreed) : Approved(Agreed[i])
    /\ ApprovedWrites

LEMMA SaidGrows ==
    ASSUME [Next]_vars
    PROVE  said' = said \/ \E x : said' = Append(said, x)
<1>1. ASSUME NEW r \in Requests, Chat(r)
      PROVE  said' = said \/ \E x : said' = Append(said, x)
  <2>1. CASE ChatReply(r)
    BY <2>1 DEF ChatReply
  <2> QED
    BY <1>1, <2>1 DEF Chat, ChatFresh, ChatNotParked, ChatExpired, ChatReask
<1>2. ASSUME NEW r \in Requests, Serve(r)
      PROVE  said' = said
  <2>1. CASE ExecutorCalls(r) \/ CoordinatorCalls(r)
    BY <2>1 DEF ExecutorCalls, CoordinatorCalls, Call
  <2> QED
    BY <1>2, <2>1 DEF Serve, Resume, Finish, Router, PlannerRefuses, PlannerHandsOver,
       PlannerAsks, PlannerAnswered, ExecutorCancels, ExecutorReturns,
       CoordinatorStops, CoordinatorAsksPick, CoordinatorAsksConfirm,
       CoordinatorReturns, ContinuationEnds, ContinuationAdvances
<1> QED
  BY <1>1, <1>2 DEF Next, vars, Raise, Expire, ToggleGate, ErpChanges, Die

LEMMA ApprovedStays ==
    ASSUME said \in Seq(Replies), [Next]_vars, NEW w, Approved(w)
    PROVE  \E j \in 1..Len(said') : said'[j].reply = "yes" /\ Shows(said'[j].ask, w)
<1>1. PICK j \in 1..Len(said) : said[j].reply = "yes" /\ Shows(said[j].ask, w)
  BY DEF Approved
<1>2. j \in 1..Len(said') /\ said'[j] = said[j]
  <2>1. CASE said' = said
    BY <2>1
  <2>2. ASSUME NEW x, said' = Append(said, x)
        PROVE  j \in 1..Len(said') /\ said'[j] = said[j]
    BY <2>2
  <2> QED
    BY <2>1, <2>2, SaidGrows
<1> QED
  BY <1>1, <1>2

LEMMA PromisedShown ==
    ASSUME NEW q \in Questions, q.kind = "confirm"
    PROVE  /\ Promise!Promised(q) \in Seq(Writes)
           /\ \A i \in 1..Len(Promise!Promised(q)) : Shows(q, Promise!Promised(q)[i])
<1>1. q.note \in Seq(Tools) /\ q.args \in Args /\ q # None
  BY NotesAreSeqs, AnswerAssumption DEF Questions
<1>2. PICK n : Unasked(q.note, n)
  BY <1>1, UnaskedExists
<1> DEFINE first == [tool |-> q.tool, args |-> q.args, draft |-> q.draft]
           rest == [i \in 1..n |-> Step(q.note[i], q.args)]
<1>3. Promise!Promised(q) = <<first>> \o rest
  BY <1>1, <1>2, AutoAre DEF Promise!Promised
<1>4. n \in Nat /\ n <= Len(q.note) /\ Len(q.note) \in Nat
  BY <1>1, <1>2 DEF Unasked
<1>5. \A i \in 1..n : q.note[i] \in Tools /\ q.note[i] \notin ConfirmInChain
  BY <1>1, <1>2, <1>4 DEF Unasked
<1>6. first \in Writes /\ Shows(q, first)
  BY <1>1 DEF Writes, Questions, Shows
<1>7. rest \in Seq(Writes) /\ Len(rest) = n
  <2>1. \A i \in 1..n : Step(q.note[i], q.args) \in Writes
    BY <1>1, <1>5 DEF Step, Writes
  <2> QED
    BY <1>4, <2>1
<1>8. \A i \in 1..n : Shows(q, rest[i])
  <2> SUFFICES ASSUME NEW i \in 1..n PROVE Shows(q, Step(q.note[i], q.args))
    OBVIOUS
  <2>1. i \in 1..Len(q.note)
    BY <1>4
  <2> QED
    BY <1>1, <1>5, <2>1 DEF Shows, Step
<1> HIDE DEF first, rest
<1>9. <<first>> \o rest \in Seq(Writes) /\ Len(<<first>> \o rest) = n + 1
  BY <1>4, <1>6, <1>7
<1>10. \A i \in 1..(n + 1) : Shows(q, (<<first>> \o rest)[i])
  <2> SUFFICES ASSUME NEW i \in 1..(n + 1) PROVE Shows(q, (<<first>> \o rest)[i])
    OBVIOUS
  <2>1. CASE i = 1
    BY <1>6, <1>7, <2>1
  <2>2. CASE i # 1
    <3>1. i - 1 \in 1..n /\ (<<first>> \o rest)[i] = rest[i - 1]
      BY <1>4, <1>6, <1>7, <2>2
    <3> QED
      BY <1>8, <3>1
  <2> QED
    BY <2>1, <2>2
<1> QED
  BY <1>3, <1>9, <1>10

LEMMA StepKept ==
    ASSUME Faults = {}, TypeInv, Serial, Certain, Sound, Kept, [Next]_vars
    PROVE  Kept'
<1>1. log \in Seq(Writes) /\ said \in Seq(Replies)
  BY DEF TypeInv, RestType
<1>2. /\ Agreed \in Seq(Writes) /\ \A i \in 1..Len(Agreed) : Approved(Agreed[i])
      /\ \A i \in 1..Len(log) : Approved(log[i])
  BY DEF Kept, ApprovedWrites
<1> DEFINE Now(w) == \E j \in 1..Len(said') :
                        said'[j].reply = "yes" /\ Shows(said'[j].ask, w)
<1>3. \A w : Approved(w) => Now(w)
  BY <1>1, ApprovedStays
<1> HIDE DEF Now
<1>4. <<>> \in Seq(Writes) /\ Len(<<>>) = 0
  OBVIOUS
<1>5. SUFFICES /\ Agreed' \in Seq(Writes)
               /\ \A i \in 1..Len(Agreed') : Now(Agreed'[i])
               /\ \A i \in 1..Len(log') : Now(log'[i])
  BY DEF Now, Kept, ApprovedWrites, Approved
<1>6. CASE \E q : YesTo(q)
  <2>1. PICK q : YesTo(q)
    BY <1>6
  <2>2. /\ q \in Questions /\ q.kind = "confirm" /\ Agreed' = Promise!Promised(q)
        /\ log' = log /\ said' = Append(said, [ask |-> q, reply |-> "yes"])
    BY <2>1 DEF YesTo, Promise!Agree
  <2>3. \A w : Shows(q, w) => Now(w)
    <3>1. Len(said) + 1 \in 1..Len(said') /\ said'[Len(said) + 1] = [ask |-> q, reply |-> "yes"]
      BY <1>1, <2>2
    <3> QED
      BY <3>1 DEF Now
  <2> QED
    BY <1>2, <1>3, <2>2, <2>3, PromisedShown
<1>7. CASE Promise!Perform
  <2>1. /\ Agreed # <<>> /\ log' = Append(log, Head(Agreed))
        /\ Agreed' \in {Tail(Agreed), <<>>}
    BY <1>7 DEF Promise!Perform
  <2>2. 1 \in 1..Len(Agreed) /\ Head(Agreed) = Agreed[1] /\ Head(Agreed) \in Writes
    BY <1>2, <2>1
  <2>3. Now(Head(Agreed))
    BY <1>2, <1>3, <2>2
  <2>4. \A i \in 1..Len(log') : Now(log'[i])
    <3> SUFFICES ASSUME NEW i \in 1..Len(log') PROVE Now(log'[i])
      OBVIOUS
    <3>1. CASE i \in 1..Len(log)
      BY <1>1, <1>2, <1>3, <2>1, <3>1
    <3>2. CASE i = Len(log) + 1
      BY <1>1, <2>1, <2>3, <3>2
    <3> QED
      BY <1>1, <2>1, <3>1, <3>2
  <2>5. /\ Tail(Agreed) \in Seq(Writes)
        /\ \A i \in 1..Len(Tail(Agreed)) : i + 1 \in 1..Len(Agreed) /\ Tail(Agreed)[i] = Agreed[i + 1]
    BY <1>2, <2>1
  <2>6. \A i \in 1..Len(Tail(Agreed)) : Now(Tail(Agreed)[i])
    BY <1>2, <1>3, <2>5
  <2>7. /\ Agreed' \in Seq(Writes)
        /\ \A i \in 1..Len(Agreed') : Now(Agreed'[i])
    <3>1. CASE Agreed' = <<>>
      BY <1>4, <3>1
    <3>2. CASE Agreed' = Tail(Agreed)
      BY <2>5, <2>6, <3>2
    <3> QED
      BY <2>1, <3>1, <3>2
  <2> QED
    BY <2>4, <2>7
<1>8. CASE Promise!Ask \/ Promise!Withdraw \/ Promise!Abandon \/ UNCHANGED Promise!vars
  <2>1. log' = log /\ Agreed' \in {Agreed, <<>>}
    BY <1>8 DEF Promise!Ask, Promise!Withdraw, Promise!Abandon, Promise!vars
  <2>2. /\ Agreed' \in Seq(Writes)
        /\ \A i \in 1..Len(Agreed') : Now(Agreed'[i])
    <3>1. CASE Agreed' = <<>>
      BY <1>4, <3>1
    <3>2. CASE Agreed' = Agreed
      BY <1>2, <1>3, <3>2
    <3> QED
      BY <2>1, <3>1, <3>2
  <2>3. \A i \in 1..Len(log') : Now(log'[i])
    BY <1>2, <1>3, <2>1
  <2> QED
    BY <2>2, <2>3
<1> QED
  BY <1>6, <1>7, <1>8, StepPromise DEF Quietly

\* Every write the ERP has received had been shown, as written, in a question
\* the user answered with a yes (nodes.py: "the user always sees the real ref
\* before the yes").
THEOREM WritesAlwaysApproved ==
    ASSUME Faults = {}, ChainsShown
    PROVE  Spec => []ApprovedWrites
<1>1. Init => Kept
  <2> SUFFICES ASSUME Init PROVE Kept
    OBVIOUS
  <2>1. Agreed = <<>> /\ log = <<>>
    BY ScreenInit
  <2> QED
    BY <2>1 DEF Kept, ApprovedWrites
<1>2. TypeInv /\ Serial /\ Certain /\ Sound /\ Kept /\ [Next]_vars => Kept'
  BY StepKept
<1>3. Kept => ApprovedWrites
  BY DEF Kept
<1> QED
  BY <1>1, <1>2, <1>3, ProtocolSound, PTL DEF Spec
=============================================================================
