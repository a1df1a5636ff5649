------------------------------ MODULE WriteFlow ------------------------------
(***************************************************************************)
(* One conversation thread of the assistant and the graph runs that serve  *)
(* its chat requests: planner, executor, write coordinators, continuation, *)
(* the confirmation interrupts between them, and the checkpoint in which   *)
(* the thread survives from one request to the next.                       *)
(*                                                                         *)
(* A graph run works on a copy of the checkpoint's channels and saves a    *)
(* new checkpoint after every node.  An interrupt parks the thread on a    *)
(* question; the next request classifies the user's reply and RE-RUNS the  *)
(* parked node from its first line, the stored answers replacing its       *)
(* interrupts one after the other.                                         *)
(***************************************************************************)
EXTENDS Naturals, Sequences

CONSTANTS
    Tools,           \* write tools
    NextTool,        \* NEXT_STEPS: the tool that may follow, or None
    Coordinated,     \* tools with a coordinator node of their own
    ConfirmInChain,  \* chain steps that always ask again
    RendersChain,    \* coordinators whose question shows the declared chain
    Args,            \* what a plan can be about (a customer, an order, ...)
    Options,         \* candidates offered by a disambiguation question
    Prices,          \* what the ERP may answer when a draft is built
    Requests,        \* workers serving chat requests
    Faults,          \* what the environment may do wrong
    MaxChain,        \* bound: longest declared chain
    MaxTurns,        \* bound: chat requests
    MaxWrites,       \* bound: writes the ERP receives
    None

ASSUME ToolAssumption ==
    /\ NextTool \in [Tools -> Tools \cup {None}]
    /\ Coordinated \subseteq Tools
    /\ ConfirmInChain \subseteq Coordinated
    /\ RendersChain \subseteq Coordinated

ASSUME FaultAssumption ==
    Faults \subseteq {"replan", "raise", "die", "overlap", "drift"}

ASSUME BoundAssumption ==
    MaxChain \in Nat /\ MaxTurns \in Nat /\ MaxWrites \in Nat

IsChain(tool, note) ==
    /\ note # <<>>
    /\ note[1] = NextTool[tool]
    /\ \A i \in 1..(Len(note) - 1) : note[i + 1] = NextTool[note[i]]

Notes == UNION {[1..n -> Tools] : n \in 0..MaxChain}

\* What the planner may hold after its deterministic gates: the tool, its
\* arguments and the chain declared with it (<<>>: a single step).
Plans == {p \in [tool : Tools, args : Args, note : Notes] :
             p.note = <<>> \/ IsChain(p.tool, p.note)}

\* None stands for "no value": it is none of the values.
ASSUME NoneAssumption ==
    /\ None \notin Tools
    /\ None \notin [pick : Options \cup {None}, price : Prices]
    /\ None \notin [tool : Tools, args : Args, note : Notes]
    /\ None \notin [tool : Tools, args : Args]

Drafts == [pick : Options \cup {None}, price : Prices]
Writes == [tool : Tools, args : Args, draft : Drafts \cup {None}]
Questions == [kind : {"confirm", "pick"}, tool : Tools, args : Args,
              draft : Drafts \cup {None}, note : Notes]
Answers == {"yes", "no"} \cup Options

\* A pick is resumed with the id of a record, a yes and a no with a boolean:
\* neither is the other (_decide_resume).
ASSUME AnswerAssumption ==
    /\ None \notin Questions /\ None \notin Answers \cup {"late"}
    /\ Options \cap {"yes", "no", "late"} = {}

Channels == [pending   : [tool : Tools, args : Args, note : Notes] \cup {None},
             confirmed : Answers \cup {None},
             chain     : Seq(Tools),
             last      : [tool : Tools, args : Args] \cup {None}]

EmptyChannels == [pending |-> None, confirmed |-> None, chain |-> <<>>,
                  last |-> None]

Nodes == {"router", "planner", "executor", "coordinator", "continuation"}

VARIABLES
    ckpt,      \* latest checkpoint of the thread
    run,       \* the graph run of each worker
    erp,       \* what a coordinator's reads would return now
    gate,      \* write_actions_enabled
    log,       \* writes the ERP has received, in order
    said,      \* history: each reply taken as a yes or a pick, with its question
    turns      \* chat requests so far

vars == <<ckpt, run, erp, gate, log, said, turns>>

IdleRun == [pc |-> "idle", node |-> "end", ch |-> EmptyChannels,
            resume |-> None, answers |-> <<>>, ask |-> None,
            reply |-> None, again |-> FALSE, tip |-> FALSE, result |-> None]

Checkpoint(next, ch) == [next |-> next, ch |-> ch, ask |-> None,
                         late |-> FALSE, answers |-> <<>>]

\* Mutants are named after the definition they replace: <definition>_<bug>.
Truthy_AnyAnswer(v) == v # None
Truthy(v) == v \notin {None, "no"}

\* The values the interrupts of a re-run node return, in order: the answers
\* stored with the checkpoint, then the one this run was resumed with.
Inputs(r) == run[r].answers \o
             (IF run[r].resume = None THEN <<>> ELSE <<run[r].resume>>)

At(r, node) == run[r].pc = "run" /\ run[r].node = node

-----------------------------------------------------------------------------
(* Runs and checkpoints. *)

\* The end of a node: its update is saved and the next node is scheduled.
\* Whichever run saves last owns the tip of the thread; the unused part of a
\* resume value goes with the checkpoint it was given for.
Commit(r, next, ch) ==
    /\ ckpt' = Checkpoint(next, ch)
    /\ run' = [s \in Requests |->
                 IF s = r
                 THEN [run[r] EXCEPT !.pc = IF next = "end" THEN "finish" ELSE "run",
                                     !.node = next, !.ch = ch, !.resume = None,
                                     !.answers = <<>>, !.ask = None, !.tip = TRUE,
                                     !.result = None]
                 ELSE [run[s] EXCEPT !.tip = FALSE]]

\* interrupt(): the question and the answers used so far are attached to the
\* checkpoint the run stands on.
Park(r, q) ==
    /\ ckpt' = IF run[r].tip
               THEN [ckpt EXCEPT !.ask = q, !.late = FALSE, !.answers = Inputs(r)]
               ELSE ckpt
    /\ run' = [run EXCEPT ![r].pc = "finish"]

Invoke_KeepsAgain(r, ch) ==
    /\ ckpt' = Checkpoint("router", ch)
    /\ run' = [s \in Requests |->
                 IF s = r
                 THEN [run[r] EXCEPT !.pc = "run", !.node = "router", !.ch = ch,
                                     !.resume = None, !.tip = TRUE]
                 ELSE [run[s] EXCEPT !.tip = FALSE]]

\* A new turn starts on the channels ch, from the router.
Invoke(r, ch) ==
    /\ ckpt' = Checkpoint("router", ch)
    /\ run' = [s \in Requests |->
                 IF s = r
                 THEN [IdleRun EXCEPT !.pc = "run", !.node = "router",
                                      !.ch = ch, !.tip = TRUE]
                 ELSE [run[s] EXCEPT !.tip = FALSE]]

-----------------------------------------------------------------------------
(* ERPAgent.chat *)

IsParked == ckpt.ask # None \/ ckpt.next # "end"

TakesRequest(r) ==
    /\ run[r].pc = "idle"
    /\ turns < MaxTurns
    /\ "overlap" \in Faults \/ \A s \in Requests : run[s].pc = "idle"
    /\ turns' = turns + 1
    /\ UNCHANGED <<erp, gate, log>>

\* A one-message turn of a full-history client: the old thread is deleted.
ChatFresh(r) ==
    /\ TakesRequest(r)
    /\ Invoke(r, EmptyChannels)
    /\ UNCHANGED said

ChatNotParked(r) ==
    /\ TakesRequest(r)
    /\ ~IsParked
    /\ Invoke(r, ckpt.ch)
    /\ UNCHANGED said

\* The value an expired question is resumed with.
ExpiredAs_Confirmed == "yes"
ExpiredAs == "no"

\* The question is older than its TTL: resume with False, then run the turn.
ChatExpired(r) ==
    /\ TakesRequest(r)
    /\ IsParked /\ ckpt.late
    /\ run' = [run EXCEPT ![r] = [IdleRun EXCEPT !.pc = "resume", !.resume = ExpiredAs,
                                                !.reply = "late", !.again = TRUE]]
    /\ UNCHANGED <<ckpt, said>>

\* _decide_resume: which resume values a reply can be classified into.
Decisions_NoReask(q) == IF q # None /\ q.kind = "pick" THEN Options
                        ELSE {"yes", "no", "unclear"}
Decisions(q) == IF q # None /\ q.kind = "pick" THEN Options ELSE {"yes", "no"}

ChatReply(r) ==
    /\ TakesRequest(r)
    /\ IsParked /\ ~ckpt.late
    /\ \E v \in Decisions(ckpt.ask) :
         /\ run' = [run EXCEPT ![r] = [IdleRun EXCEPT !.pc = "resume", !.resume = v,
                                                     !.reply = v]]
         /\ said' = IF Truthy(v) THEN Append(said, [ask |-> ckpt.ask, reply |-> v])
                    ELSE said
    /\ UNCHANGED ckpt

\* An unclear reply: ask again, leave the thread parked.
ChatReask(r) ==
    /\ TakesRequest(r)
    /\ IsParked /\ ~ckpt.late
    /\ UNCHANGED <<ckpt, run, said>>

\* graph.ainvoke(Command(resume=...)): continue from the checkpoint as it is
\* NOW, not as it was when the reply was classified.
Resume(r) ==
    /\ run[r].pc = "resume"
    /\ run' = [run EXCEPT ![r] =
                 IF ckpt.next = "end"
                 THEN [@ EXCEPT !.pc = "finish"]
                 ELSE [@ EXCEPT !.pc = "run", !.node = ckpt.next, !.ch = ckpt.ch,
                                !.answers = ckpt.answers, !.ask = ckpt.ask,
                                !.tip = TRUE]]
    /\ UNCHANGED <<ckpt, erp, gate, log, said, turns>>

\* The reply goes out; after an expired question the turn is run afresh.
Finish(r) ==
    /\ run[r].pc = "finish"
    /\ IF run[r].again
       THEN Invoke(r, ckpt.ch)
       ELSE run' = [run EXCEPT ![r] = IdleRun] /\ UNCHANGED ckpt
    /\ UNCHANGED <<erp, gate, log, said, turns>>

-----------------------------------------------------------------------------
(* intent_router and erp_write_planner *)

Router(r) ==
    /\ At(r, "router")
    /\ \E next \in {"planner", "end"} : Commit(r, next, run[r].ch)
    /\ UNCHANGED <<erp, gate, log, said, turns>>

\* The language model is asked again when the parked planner is re-run.
\* Unless it may answer differently, it finds the plan of its own question.
Repeats(p, q) == p.tool = q.tool /\ p.args = q.args /\ p.note = q.note

PlansFor(r) ==
    IF "replan" \in Faults \/ run[r].ask = None THEN Plans
    ELSE {p \in Plans : Repeats(p, run[r].ask)}

PlanQuestion(p) == [kind |-> "confirm", tool |-> p.tool, args |-> p.args,
                    draft |-> None, note |-> p.note]

\* Writes disabled, no plan found, or the role may not do it.
PlannerRefuses(r) ==
    /\ At(r, "planner")
    /\ ~gate \/ "replan" \in Faults \/ run[r].ask = None
    /\ Commit(r, "end", [run[r].ch EXCEPT !.pending = None, !.chain = <<>>])
    /\ UNCHANGED <<erp, gate, log, said, turns>>

PlannerHandsOver(r) ==
    /\ At(r, "planner") /\ gate
    /\ \E p \in PlansFor(r) :
         /\ p.tool \in Coordinated
         /\ Commit(r, "coordinator", [run[r].ch EXCEPT !.pending = p, !.chain = p.note])
    /\ UNCHANGED <<erp, gate, log, said, turns>>

PlannerAsks(r) ==
    /\ At(r, "planner") /\ gate
    /\ Inputs(r) = <<>>
    /\ \E p \in PlansFor(r) : p.tool \notin Coordinated /\ Park(r, PlanQuestion(p))
    /\ UNCHANGED <<erp, gate, log, said, turns>>

PlannerAnswered(r) ==
    /\ At(r, "planner") /\ gate
    /\ Inputs(r) # <<>>
    /\ \E p \in PlansFor(r) :
         /\ p.tool \notin Coordinated
         /\ Commit(r, "executor", [run[r].ch EXCEPT !.pending = p, !.chain = p.note,
                                                    !.confirmed = Inputs(r)[1]])
    /\ UNCHANGED <<erp, gate, log, said, turns>>

-----------------------------------------------------------------------------
(* Writing to the ERP *)

\* The tool call.  The MCP gateway checks the toggle again.  A call that
\* raises may or may not have reached the ERP.
Call(r, w) ==
    /\ Len(log) < MaxWrites
    /\ \E result \in {"envelope", "text", "error"}, reached \in BOOLEAN :
         /\ reached => gate
         /\ result = "envelope" => reached
         /\ log' = IF reached THEN Append(log, w) ELSE log
         /\ run' = [run EXCEPT ![r].pc = "wrote",
                               ![r].result = result]
    /\ UNCHANGED <<ckpt, erp, gate, said, turns>>

Cleared(ch, last) == [ch EXCEPT !.pending = None, !.confirmed = None, !.last = last]

\* last_write: the handle of a write that returned an envelope.
Handle(r) == IF run[r].result = "envelope"
             THEN [tool |-> run[r].ch.pending.tool, args |-> run[r].ch.pending.args]
             ELSE None

ExecutorCancels(r) ==
    /\ At(r, "executor")
    /\ ~Truthy(run[r].ch.confirmed)
    /\ Commit(r, "continuation", Cleared(run[r].ch, None))
    /\ UNCHANGED <<erp, gate, log, said, turns>>

ExecutorCalls(r) ==
    /\ At(r, "executor")
    /\ Truthy(run[r].ch.confirmed)
    /\ Call(r, [tool |-> run[r].ch.pending.tool, args |-> run[r].ch.pending.args,
                draft |-> None])

ExecutorReturns(r) ==
    /\ run[r].pc = "wrote" /\ run[r].node = "executor"
    /\ Commit(r, "continuation", Cleared(run[r].ch, Handle(r)))
    /\ UNCHANGED <<erp, gate, log, said, turns>>

-----------------------------------------------------------------------------
(* A write coordinator: look the records up, let the user pick, show the   *)
(* draft, write it.  All of it runs again at every resume.                 *)

PickQuestion(p) == [kind |-> "pick", tool |-> p.tool, args |-> p.args,
                    draft |-> None, note |-> <<>>]

DraftNow(r) == [pick  |-> IF erp.ambiguous THEN Inputs(r)[1] ELSE None,
                price |-> erp.price]

ShownChain_Forgotten(p) == <<>>
ShownChain(p) == IF p.tool \in RendersChain THEN p.note ELSE <<>>

DraftQuestion(r) ==
    LET p == run[r].ch.pending
    IN  [kind |-> "confirm", tool |-> p.tool, args |-> p.args,
         draft |-> DraftNow(r), note |-> ShownChain(p)]

\* Position of the confirm interrupt among the node's interrupts.
ConfirmAt == IF erp.ambiguous THEN 2 ELSE 1

Picked(r) == erp.ambiguous => Inputs(r) # <<>> /\ Inputs(r)[1] \in Options

\* Writes disabled, a lookup without result, incomplete arguments, a reply
\* that names no candidate, or a "no" to the draft: a message, no write.
CoordinatorStops(r) ==
    /\ At(r, "coordinator")
    /\ Commit(r, "continuation", run[r].ch)
    /\ UNCHANGED <<erp, gate, log, said, turns>>

CoordinatorAsksPick(r) ==
    /\ At(r, "coordinator") /\ gate
    /\ erp.ambiguous /\ Inputs(r) = <<>>
    /\ Park(r, PickQuestion(run[r].ch.pending))
    /\ UNCHANGED <<erp, gate, log, said, turns>>

CoordinatorAsksConfirm(r) ==
    /\ At(r, "coordinator") /\ gate
    /\ Picked(r) /\ Len(Inputs(r)) = ConfirmAt - 1
    /\ Park(r, DraftQuestion(r))
    /\ UNCHANGED <<erp, gate, log, said, turns>>

CoordinatorCalls(r) ==
    /\ At(r, "coordinator") /\ gate
    /\ Picked(r) /\ Len(Inputs(r)) >= ConfirmAt
    /\ Truthy(Inputs(r)[ConfirmAt])
    /\ Call(r, [tool |-> run[r].ch.pending.tool, args |-> run[r].ch.pending.args,
                draft |-> DraftNow(r)])

CoordinatorReturns(r) ==
    /\ run[r].pc = "wrote" /\ run[r].node = "coordinator"
    /\ Commit(r, "continuation",
              IF run[r].result = "error" THEN run[r].ch
              ELSE [run[r].ch EXCEPT !.pending = None, !.last = Handle(r)])
    /\ UNCHANGED <<erp, gate, log, said, turns>>

-----------------------------------------------------------------------------
(* write_continuation: the only reader of last_write *)

\* The next step is in the declared chain exactly when it heads the queue.
NextStep(ch) == IF ch.last = None THEN None ELSE NextTool[ch.last.tool]

InChain(ch) == NextStep(ch) # None /\ ch.chain # <<>> /\ Head(ch.chain) = NextStep(ch)

\* Every branch that does not go on clears the four write channels.
Settled_KeepsHandle(ch) == [EmptyChannels EXCEPT !.last = ch.last]
Settled(ch) == EmptyChannels

ContinuationEnds(r) ==
    /\ At(r, "continuation")
    /\ ~InChain(run[r].ch)
    /\ Commit(r, "end", Settled(run[r].ch))
    /\ UNCHANGED <<erp, gate, log, said, turns>>

AsksAgain_Never(tool) == FALSE
AsksAgain(tool) == tool \in ConfirmInChain

Advance(ch) ==
    [pending   |-> [tool |-> NextStep(ch), args |-> ch.last.args, note |-> <<>>],
     confirmed |-> IF AsksAgain(NextStep(ch)) THEN None ELSE "yes",
     chain     |-> Tail(ch.chain),
     last      |-> None]

ContinuationAdvances(r) ==
    /\ At(r, "continuation")
    /\ InChain(run[r].ch)
    /\ Commit(r,
              IF AsksAgain(NextStep(run[r].ch)) THEN "coordinator" ELSE "executor",
              Advance(run[r].ch))
    /\ UNCHANGED <<erp, gate, log, said, turns>>

-----------------------------------------------------------------------------
(* What happens around the runs *)

\* The question's TTL runs out.
Expire ==
    /\ ckpt.ask # None /\ ~ckpt.late
    /\ ckpt' = [ckpt EXCEPT !.late = TRUE]
    /\ UNCHANGED <<run, erp, gate, log, said, turns>>

ToggleGate ==
    /\ gate' = ~gate
    /\ UNCHANGED <<ckpt, run, erp, log, said, turns>>

\* Somebody else changes the ERP: between conversations always, while a
\* question is pending only with the fault "drift".
ErpChanges ==
    /\ \/ "drift" \in Faults
       \/ ckpt.ask = None /\ \A r \in Requests : run[r].pc = "idle"
    /\ erp' \in [ambiguous : BOOLEAN, price : Prices]
    /\ UNCHANGED <<ckpt, run, gate, log, said, turns>>

\* An uncaught exception of a node, before its first interrupt: the request
\* fails, the checkpoint still schedules the node.
Raise(r) ==
    /\ "raise" \in Faults
    /\ run[r].pc = "run" /\ run[r].node \in {"router", "planner", "coordinator"}
    /\ run' = [run EXCEPT ![r] = IdleRun]
    /\ UNCHANGED <<ckpt, erp, gate, log, said, turns>>

\* The backend process stops and is started again.
Die ==
    /\ "die" \in Faults
    /\ \E r \in Requests : run[r].pc # "idle"
    /\ run' = [r \in Requests |-> IdleRun]
    /\ UNCHANGED <<ckpt, erp, gate, log, said, turns>>

Init ==
    /\ ckpt = Checkpoint("end", EmptyChannels)
    /\ run = [r \in Requests |-> IdleRun]
    /\ erp \in [ambiguous : BOOLEAN, price : Prices]
    /\ gate \in BOOLEAN
    /\ log = <<>>
    /\ said = <<>>
    /\ turns = 0

Chat(r) == ChatFresh(r) \/ ChatNotParked(r) \/ ChatExpired(r) \/ ChatReply(r) \/ ChatReask(r)

\* A step of the run of r, once its request was taken.
Serve(r) ==
    \/ Resume(r) \/ Finish(r) \/ Router(r)
    \/ PlannerRefuses(r) \/ PlannerHandsOver(r) \/ PlannerAsks(r) \/ PlannerAnswered(r)
    \/ ExecutorCancels(r) \/ ExecutorCalls(r) \/ ExecutorReturns(r)
    \/ CoordinatorStops(r) \/ CoordinatorAsksPick(r) \/ CoordinatorAsksConfirm(r)
    \/ CoordinatorCalls(r) \/ CoordinatorReturns(r)
    \/ ContinuationEnds(r) \/ ContinuationAdvances(r)

Next ==
    \/ \E r \in Requests : Chat(r) \/ Serve(r) \/ Raise(r)
    \/ Expire \/ ToggleGate \/ ErpChanges \/ Die

Spec == Init /\ [][Next]_vars

\* The event loop keeps running a request it has taken.
FairSpec == Spec /\ \A r \in Requests : WF_vars(Serve(r))

-----------------------------------------------------------------------------
RunState == [pc : {"idle", "resume", "run", "wrote", "finish"},
             node : Nodes \cup {"end"}, ch : Channels,
             resume : Answers \cup {None}, answers : Seq(Answers),
             ask : Questions \cup {None}, reply : Answers \cup {"late", None},
             again : BOOLEAN, tip : BOOLEAN,
             result : {"envelope", "text", "error", None}]

Replies == [ask : Questions \cup {None}, reply : Answers]

TypeOK ==
    /\ ckpt \in [next : Nodes \cup {"end"}, ch : Channels,
                 ask : Questions \cup {None}, late : BOOLEAN,
                 answers : Seq(Answers)]
    /\ run \in [Requests -> RunState]
    /\ erp \in [ambiguous : BOOLEAN, price : Prices]
    /\ gate \in BOOLEAN
    /\ log \in Seq(Writes)
    /\ said \in Seq(Replies)
    /\ turns \in Nat

\* A question shows write w: as its own draft, or as a step of the chain it
\* spells out -- unless that step is one that must ask again.
Shows(q, w) ==
    /\ q # None /\ q.kind = "confirm" /\ q.args = w.args
    /\ \/ q.tool = w.tool /\ q.draft = w.draft
       \/ /\ w.draft = None /\ w.tool \notin ConfirmInChain
          /\ \E i \in 1..Len(q.note) : q.note[i] = w.tool

\* Every write the ERP received had been shown, exactly as written, in a
\* question the user answered with a yes (nodes.py: "the user always sees the
\* real ref before the yes").
Approved(w) ==
    \E j \in 1..Len(said) : said[j].reply = "yes" /\ Shows(said[j].ask, w)

ApprovedWrites == \A i \in 1..Len(log) : Approved(log[i])

\* A money or mail step of a declared chain stopped and was confirmed on its
\* own draft before it was written (write_registry.py: such a step "MUST stop
\* and ask again with a summary").
MoneyApproved ==
    \A i \in 1..Len(log) : log[i].tool \in ConfirmInChain => Approved(log[i])

\* Whatever goes wrong, the ERP receives nothing before the user has agreed
\* to something in this conversation.
NothingUninvited == log # <<>> => said # <<>>

\* Whatever goes wrong, money and mail steps are only written by the
\* coordinator that builds a draft of them, never by the plain executor, not
\* even in the middle of a declared chain (CONFIRM_IN_CHAIN).
MoneyOnlyFromDraft ==
    \A i \in 1..Len(log) : log[i].tool \in ConfirmInChain => log[i].draft # None

\* A stored last_write is always about to be consumed: no later request can
\* find an old handle and offer, or run, the next step of an old record.
HandleConsumed ==
    /\ ckpt.ch.last # None => ckpt.next = "continuation"
    /\ \A r \in Requests : run[r].ch.last # None => run[r].node = "continuation"

\* A request whose reply was a no, or that came after the TTL, writes nothing.
NoMeansNo ==
    [][\A r \in Requests :
          /\ run[r].pc = "run" /\ run'[r].pc = "wrote"
          /\ log' # log
          => run[r].reply \notin {"no", "late"}]_vars

\* Every request that was taken is answered: the declared chain is finite and
\* each of its steps is consumed.
RequestsEnd == \A r \in Requests : run[r].pc # "idle" ~> run[r].pc = "idle"
=============================================================================
