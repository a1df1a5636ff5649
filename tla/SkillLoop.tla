------------------------------ MODULE SkillLoop ------------------------------
(***************************************************************************)
(* A procedure (SKILL.md) at work: the loop in which the language model    *)
(* calls the tools of the procedure, the gate inside every write tool, and *)
(* the node behind the loop that hands the result to the next turns.       *)
(*                                                                         *)
(* The loop is a graph inside the graph, with a checkpoint of its own that *)
(* advances with every model and tool step, while the question asked last  *)
(* stays with the outer checkpoint until the whole skill node is done.     *)
(* The value a request is resumed with waits for the first interrupt that  *)
(* the loop reaches, whichever tool that is in.                            *)
(***************************************************************************)
EXTENDS Naturals, Sequences, SequencesExt

CONSTANTS
    SkillRefs,    \* orders or customers a call may name
    Totals,       \* what a quotation's customer and prices may come to
    MaxSteps,     \* max_steps of the skill: steps of one request
    MaxRequests,  \* bound: chat requests of the thread
    MaxShifts     \* bound: changes of the prices

\* A quotation that comes to 0 is one whose prices could not be read.
ASSUME SkAssumption == Totals \subseteq Nat \ {0} /\ Totals # {}

\* What the three procedures may write with.
SkillTools == [nhap_kho  |-> {"receive_order", "flag_order_for_review"},
               giao_hang |-> {"deliver_order"},
               bao_gia_chiet_khau |-> {"create_discount_quote"}]

VARIABLES
    skill,      \* the procedure the turn was routed to
    loop,       \* the checkpoint inside the skill node
    asked,      \* the question the outer checkpoint holds
    request,    \* the request being served
    total,      \* what a quotation comes to now
    saved,      \* history: the writes sent, with the answer each rests on
    context,    \* working_context: the order the thread is about, or None
    ended,      \* the last turn the sync node closed: what it wrote and said
    shifts

skVars == <<skill, loop, asked, request, total, saved, context, ended, shifts>>

NoCall == [tool |-> "none", ref |-> "none"]
AskHuman == [tool |-> "ask_human", ref |-> "none"]
ReadCall == [tool |-> "read", ref |-> "none"]

\* ask_human comes with every procedure, a tool that reads with two of them.
SkillCalls ==
    [tool : SkillTools[skill], ref : SkillRefs] \cup {AskHuman}
        \cup {c \in {ReadCall} : skill # "bao_gia_chiet_khau"}

Prices(call) == call.tool = "create_discount_quote"

NotAsked == [kind |-> "none", call |-> NoCall, total |-> 0, late |-> FALSE,
             left |-> FALSE, moved |-> FALSE]

Resting == [next |-> "idle", call |-> NoCall, orders |-> <<>>, leaks |-> FALSE]

FreshLoop == [Resting EXCEPT !.next = "model"]

NoRequest == [on |-> FALSE, n |-> 0, value |-> "none", of |-> NotAsked, again |-> FALSE,
              missed |-> FALSE, steps |-> 0]

-----------------------------------------------------------------------------
(* ERPAgent.chat, as far as a skill is concerned. *)

InTurn == loop.next # "idle"

Serves(n) ==
    /\ ~request.on
    /\ request.n < MaxRequests
    /\ n = request.n + 1
    /\ UNCHANGED <<skill, total, saved, shifts>>

\* A turn routed to the skill: nothing is parked, or the client opens a new
\* chat under the thread's name and the thread is deleted first.
TurnStarts ==
    \E opens \in BOOLEAN :
        /\ opens \/ ~InTurn
        /\ Serves(request.n + 1)
        /\ loop' = FreshLoop /\ asked' = NotAsked
        /\ request' = [NoRequest EXCEPT !.on = TRUE, !.n = request.n + 1]
        /\ IF opens THEN context' = "none" /\ ended' = [orders |-> <<>>, said |-> "words"]
           ELSE UNCHANGED <<context, ended>>

\* _decide_resume: open questions take the text as it is, everything else is
\* classified, also when nothing was asked.
Readings == IF asked.kind = "free_text" THEN {"text"} ELSE {"yes", "no"}

ReplyComes ==
    /\ InTurn /\ ~asked.late
    /\ Serves(request.n + 1)
    /\ \E v \in Readings :
         request' = [NoRequest EXCEPT !.on = TRUE, !.n = request.n + 1, !.value = v,
                                      !.of = asked]
    /\ UNCHANGED <<loop, asked, context, ended>>

\* What an expired question is resumed with before the message is run afresh.
ExpiredWith == "no"

ReplyIsLate ==
    /\ InTurn /\ asked.late
    /\ Serves(request.n + 1)
    /\ request' = [NoRequest EXCEPT !.on = TRUE, !.n = request.n + 1,
                                    !.value = ExpiredWith, !.of = asked, !.again = TRUE]
    /\ UNCHANGED <<loop, asked, context, ended>>

\* Only a confirm carries expires_at.
QuestionExpires ==
    /\ ~request.on
    /\ asked.kind = "confirm" /\ ~asked.late
    /\ asked' = [asked EXCEPT !.late = TRUE]
    /\ UNCHANGED <<skill, loop, request, total, saved, context, ended, shifts>>

Done == [NoRequest EXCEPT !.n = request.n]

\* The recursion limit, a model chain that is exhausted, a tool that raises, a
\* process that dies: the user reads a fixed sentence, the loop stays where it
\* is, and the question asked last stays with the thread.
StopsShort(tools) ==
    /\ request.on
    /\ request' = Done
    /\ asked' = [asked EXCEPT !.left = TRUE]
    /\ tools
    /\ UNCHANGED <<skill, total, context, ended, shifts>>

\* The node is through, or parks; a message that found its question expired is
\* then run as a turn of its own, on the skill or elsewhere.
Returns(then, question) ==
    IF request.again
    THEN \E here \in BOOLEAN :
           /\ loop' = IF here THEN FreshLoop ELSE Resting
           /\ asked' = NotAsked
           /\ request' = IF here THEN [Done EXCEPT !.on = TRUE] ELSE Done
    ELSE loop' = then /\ asked' = question /\ request' = Done

-----------------------------------------------------------------------------
(* The loop of create_agent under its recursion_limit. *)

MayStep == request.on /\ request.steps < MaxSteps
Stepped == [request EXCEPT !.steps = @ + 1]

OutOfSteps ==
    /\ request.steps = MaxSteps /\ loop.next \in {"model", "tools"}
    /\ StopsShort(UNCHANGED <<loop, saved>>)

LoopFails == StopsShort(UNCHANGED <<loop, saved>>)

ModelCalls ==
    /\ MayStep /\ loop.next = "model"
    /\ \E c \in SkillCalls :
         loop' = [loop EXCEPT !.next = "tools", !.call = c]
    /\ request' = Stepped
    /\ UNCHANGED <<skill, asked, total, saved, context, ended, shifts>>

\* Its last words, which may name a tool.
ModelAnswers ==
    /\ MayStep /\ loop.next = "model"
    /\ \E leaks \in BOOLEAN : loop' = [loop EXCEPT !.next = "sync", !.leaks = leaks]
    /\ request' = Stepped
    /\ UNCHANGED <<skill, asked, total, saved, context, ended, shifts>>

AtTool(tools) == MayStep /\ loop.next = "tools" /\ loop.call.tool \in tools

AfterTool == [loop EXCEPT !.next = "model", !.call = NoCall]

ToolAnswers ==
    /\ loop' = AfterTool
    /\ UNCHANGED <<skill, asked, total, saved, context, ended, shifts>>

ReadTool == AtTool({"read"}) /\ ToolAnswers /\ request' = Stepped

-----------------------------------------------------------------------------
(* interrupt(): the request's value if it is still there, else a question. *)

Consumed_Kept == Stepped
Consumed == [Stepped EXCEPT !.value = "none"]

Parks(question) ==
    /\ request.value = "none"
    /\ Returns(loop, question)
    /\ UNCHANGED <<skill, total, saved, context, ended, shifts>>

HumanAsked ==
    /\ AtTool({"ask_human"})
    /\ Parks([NotAsked EXCEPT !.kind = "free_text", !.call = loop.call])

HumanAnswered ==
    /\ AtTool({"ask_human"}) /\ request.value # "none"
    /\ ToolAnswers /\ request' = Consumed

AtGate == AtTool(SkillTools[skill])

\* create_discount_quote looks customer and products up on every run of the
\* call, before the question: an unknown tier, a name without or with several
\* matches, a failed lookup end the call, and the value stays where it is.
GateMissed ==
    /\ AtGate /\ Prices(loop.call)
    /\ ToolAnswers
    /\ request' = [Stepped EXCEPT !.missed = TRUE]

\* What the draft comes to; a price that cannot be read counts as 0.
Sums(call) == IF Prices(call) THEN {total, 0} ELSE {0}

GateAsks ==
    /\ AtGate
    /\ \E f \in Sums(loop.call) :
         Parks([NotAsked EXCEPT !.kind = "confirm", !.call = loop.call, !.total = f])

\* answer is True
Approves(v) == v = "yes"

GateRefuses ==
    /\ AtGate /\ request.value # "none" /\ ~Approves(request.value)
    /\ ToolAnswers /\ request' = Consumed

Sent(f) ==
    saved' = Append(saved, [call |-> loop.call, total |-> f, n |-> request.n,
                            of |-> request.of, missed |-> request.missed,
                            late |-> request.again,
                            moved |-> asked.moved \/ (Prices(loop.call) /\ f # total)])

\* The call reaches Odoo or is turned away there, and its envelope names an
\* order or not.
GateWrites ==
    /\ AtGate /\ Approves(request.value)
    /\ \E f \in Sums(loop.call) :
         \/ /\ Sent(f)
            /\ \E o \in {<<>>, <<loop.call.ref>>} :
                 loop' = [AfterTool EXCEPT !.orders = @ \o o]
            /\ request' = Consumed
            /\ UNCHANGED <<skill, asked, total, context, ended, shifts>>
         \/ ToolAnswers /\ request' = Consumed

\* The declared tools pass an exception of the call on, written or not.
GateRaises ==
    /\ AtGate /\ Approves(request.value) /\ ~Prices(loop.call)
    /\ StopsShort(UNCHANGED loop /\ (Sent(0) \/ UNCHANGED saved))

-----------------------------------------------------------------------------
(* agentic_context_sync, the last node of the turn. *)

NewestOrder(orders) == Last(orders)

\* Words that name a tool are replaced by the display of the write, if any.
Spoken(orders, leaks) ==
    IF ~leaks THEN "words" ELSE IF orders = <<>> THEN "fallback" ELSE "display"

ContextSync ==
    /\ request.on /\ loop.next = "sync"
    /\ context' = IF loop.orders = <<>> THEN context ELSE NewestOrder(loop.orders)
    /\ ended' = [orders |-> loop.orders, said |-> Spoken(loop.orders, loop.leaks)]
    /\ Returns(Resting, NotAsked)
    /\ UNCHANGED <<skill, total, saved, shifts>>

\* Only a quotation has prices.
PricesShift ==
    /\ "create_discount_quote" \in SkillTools[skill]
    /\ shifts < MaxShifts /\ shifts' = shifts + 1
    /\ \E t \in Totals \ {total} : total' = t
    /\ asked' = [asked EXCEPT !.moved = TRUE]
    /\ UNCHANGED <<skill, loop, request, saved, context, ended>>

SkInit ==
    /\ skill \in DOMAIN SkillTools
    /\ loop = Resting /\ asked = NotAsked /\ request = NoRequest
    /\ total = CHOOSE t \in Totals : TRUE
    /\ saved = <<>> /\ context = "none"
    /\ ended = [orders |-> <<>>, said |-> "words"]
    /\ shifts = 0

SkNext ==
    \/ TurnStarts \/ ReplyComes \/ ReplyIsLate \/ QuestionExpires
    \/ OutOfSteps \/ LoopFails \/ ModelCalls \/ ModelAnswers \/ ReadTool
    \/ HumanAsked \/ HumanAnswered
    \/ GateMissed \/ GateAsks \/ GateRefuses \/ GateWrites \/ GateRaises
    \/ ContextSync \/ PricesShift

SkSpec == SkInit /\ [][SkNext]_skVars

-----------------------------------------------------------------------------
(* Properties *)

\* A write of a skill rests on a yes: not on the text given to an open question,
\* not on a question that was out of time, and no yes serves two writes.
YesOnce ==
    \A i \in DOMAIN saved :
        /\ saved[i].of.kind # "free_text" /\ ~saved[i].late
        /\ \A j \in DOMAIN saved : saved[i].n = saved[j].n => i = j

\* Unless the loop was stopped between question and answer, or the call was
\* dropped on its replay and another one came to the gate, the yes was given to
\* the question of this very call, with the total it now writes, as long as the
\* prices stood still and could be read.
WritesWhatItAsked ==
    \A i \in DOMAIN saved :
        LET w == saved[i] IN
        ~w.of.left /\ ~w.missed =>
            /\ w.of.kind = "confirm" /\ w.of.call = w.call
            /\ w.of.total = w.total \/ w.moved \/ w.of.total = 0

\* After a turn the thread is about the order the turn wrote last, and a turn
\* that wrote one does not tell the user that it got stuck.
ToldAndKept ==
    ended.orders # <<>> => context = Last(ended.orders) /\ ended.said # "fallback"

\* agentic_gate.py:3: a write is reached only past the confirm of its own tool,
\* and what it did is what the next turn starts from.
SkillsKeepGate == YesOnce /\ WritesWhatItAsked /\ ToldAndKept
=============================================================================
