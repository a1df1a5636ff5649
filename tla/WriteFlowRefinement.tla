------------------------- MODULE WriteFlowRefinement -------------------------
(***************************************************************************)
(* WriteFlow, served by one request at a time and without faults,          *)
(* implements ConfirmedWrites.                                             *)
(***************************************************************************)
EXTENDS WriteFlow

C == INSTANCE ConfirmedWrites WITH question <- None, agreed <- <<>>, done <- log

Answering(r) == run[r].pc \in {"resume", "run", "wrote"}

\* The question is on screen until a request starts to answer it.
QuestionOnScreen == IF \E r \in Requests : Answering(r) THEN None ELSE ckpt.ask

Head1(p) == [tool |-> p.tool, args |-> p.args, draft |-> None]

\* What a run still has the user's agreement to write.
AgreedOf(r) ==
    LET me == run[r] IN
    CASE me.pc = "resume" /\ me.resume = "yes" -> C!Promised(ckpt.ask)
      [] At(r, "planner") /\ me.resume = "yes" -> C!Promised(me.ask)
      [] At(r, "coordinator") /\ me.resume = "yes" -> C!Promised(me.ask)
      [] At(r, "executor") /\ Truthy(me.ch.confirmed) ->
            <<Head1(me.ch.pending)>> \o C!AutoSteps(me.ch.chain, me.ch.pending.args)
      [] me.pc = "wrote" /\ me.result = "envelope" ->
            C!AutoSteps(me.ch.chain, me.ch.pending.args)
      [] At(r, "continuation") /\ InChain(me.ch) ->
            C!AutoSteps(me.ch.chain, me.ch.last.args)
      [] OTHER -> <<>>

Agreed == IF \E r \in Requests : Answering(r)
          THEN AgreedOf(CHOOSE r \in Requests : Answering(r))
          ELSE <<>>

Promise == INSTANCE ConfirmedWrites
           WITH question <- QuestionOnScreen, agreed <- Agreed, done <- log

\* What the registry must see to: a step that runs unasked follows one whose
\* question has spelled it out.  return_order is the coordinator that breaks it.
ChainsShown ==
    \A t \in Tools : NextTool[t] \notin ConfirmInChain \cup {None} =>
        t \notin ConfirmInChain /\ (t \in Coordinated => t \in RendersChain)

\* The gate keeps its promise: shown, agreed, in order, at most once each.
KeepsPromise == Promise!Spec
=============================================================================
