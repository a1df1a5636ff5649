----------------------------- MODULE Coordinators -----------------------------
(***************************************************************************)
(* The write coordinators one by one: which records each looks up and in   *)
(* which order, when it lets the user pick one, what must hold before it   *)
(* shows the draft, and what it then writes.  A coordinator keeps nothing: *)
(* at every resume it runs again from its first line, and its interrupts   *)
(* take the stored answers by position.  Between two runs the ERP belongs  *)
(* to everybody.                                                           *)
(*                                                                         *)
(* WriteFlow has one coordinator inside the whole conversation; this       *)
(* module has all of them, and only the turn they are in.                  *)
(***************************************************************************)
EXTENDS Naturals, Sequences, FiniteSets

CONSTANTS
    Ids,          \* records a look-up may return
    Figures,      \* amount, price or stock shown with the draft
    MaxDrift,     \* bound: changes of the ERP by others
    NoQuestion

MaxLooks == 3     \* bound: look-ups of one coordinator (one line per order)

VARIABLES
    plan,         \* pending_action: the tool, and how its record is named
    erp,          \* what the reads return now
    enabled,      \* the write toggle
    answers,      \* resume values stored with the checkpoint
    question,     \* the interrupt the thread is parked on
    stage,        \* "run", "parked" or "over"
    written,      \* calls the ERP received
    agreed,       \* history: drafts answered with a yes
    shown,        \* history: questions asked so far
    drifts

coVars == <<plan, erp, enabled, answers, question, stage, written, agreed, shown, drifts>>

-----------------------------------------------------------------------------
(* What a run of a node comes to. *)

StopRun == [do |-> "stop"]

WalkOutcomes(t, walk) ==
    [do |-> walk.out, tool |-> t, picks |-> walk.picks, from |-> walk.from]

FreshWalk == [out |-> "go", used |-> 0, picks |-> <<>>, from |-> {}]

Took(walk, r) == [walk EXCEPT !.picks = Append(@, r)]

\* _by_id: the stored answer must still be one of the candidates.
PickAt(walk, hits) ==
    IF answers[walk.used + 1] \in hits
    THEN [Took(walk, answers[walk.used + 1]) EXCEPT !.used = @ + 1]
    ELSE [walk EXCEPT !.out = "stop"]

AskPick(walk, hits) == [walk EXCEPT !.out = "pick", !.from = hits]

\* Several candidates: the next stored answer decides, or the user is asked.
Several(walk, hits) ==
    IF walk.used = Len(answers) THEN AskPick(walk, hits) ELSE PickAt(walk, hits)

\* One look-up.  mode says what several candidates mean: "ask", "refuse" (a
\* code must be unique), or "first" (a code is matched, the first hit taken).
LookUp(walk, i, mode) ==
    LET hits == erp.found[i]
    IN  CASE walk.out # "go"                    -> walk
          [] walk.out = "go" /\ hits = {}       -> [walk EXCEPT !.out = "stop"]
          [] walk.out = "go" /\ Cardinality(hits) = 1 ->
                 Took(walk, CHOOSE r \in hits : TRUE)
          [] OTHER ->
                 CASE mode = "ask"    -> Several(walk, hits)
                   [] mode = "refuse" -> [walk EXCEPT !.out = "stop"]
                   [] mode = "first"  -> Took(walk, CHOOSE r \in hits : TRUE)

\* The look-ups of a node, one after the other.
Lookups(modes) ==
    LET one == LookUp(FreshWalk, 1, modes[1])
        two == LookUp(one, 2, modes[2])
    IN  CASE Len(modes) = 1 -> one
          [] Len(modes) = 2 -> two
          [] Len(modes) = 3 -> LookUp(two, 3, modes[3])

Agrees_Truthy(t, v) == v # "no"

\* `if not confirmed`: any id is truthy.  close_activity alone wants a True.
Agrees(t, v) == IF t = "close_activity" THEN v = "yes" ELSE v # "no"

Confirm_FirstAnswer(t, walk) ==
    IF walk.out # "go" THEN WalkOutcomes(t, walk)
    ELSE IF answers = <<>> THEN WalkOutcomes(t, [walk EXCEPT !.out = "confirm"])
    ELSE IF Agrees(t, answers[1]) THEN WalkOutcomes(t, [walk EXCEPT !.out = "write"])
    ELSE StopRun

\* The confirm interrupt comes after the ones the walk has used.
Confirm(t, walk) ==
    LET at == walk.used + 1
    IN  IF walk.out # "go" THEN WalkOutcomes(t, walk)
        ELSE IF Len(answers) < at THEN WalkOutcomes(t, [walk EXCEPT !.out = "confirm"])
        ELSE IF Agrees(t, answers[at]) THEN WalkOutcomes(t, [walk EXCEPT !.out = "write"])
        ELSE StopRun

-----------------------------------------------------------------------------
(* The nodes. *)

\* Partner, then the product of each line.
OrderNode == Confirm(plan.tool, Lookups(<<"ask", "ask">>))

\* An order that is no longer a draft cannot be edited: the node offers to
\* leave an internal note instead, with a confirm of its own.
EditNode ==
    IF erp.fit THEN Confirm(plan.tool, Lookups(<<"refuse", "ask">>))
    ELSE Confirm("flag_order_for_review", Lookups(<<"refuse">>))

InventoryNode == Confirm("inventory_adjustment", Lookups(<<"ask">>))
TransferNode == Confirm("internal_transfer", Lookups(<<"ask">>))
ScrapNode == Confirm("scrap_product", Lookups(<<"ask">>))

\* Look-ups for duplicates only add a warning to the draft.
CreateLeadNode == Confirm("create_lead", FreshWalk)
CreateVendorNode == Confirm("create_vendor", FreshWalk)

ConvertLeadNode == Confirm("convert_lead", Lookups(<<"ask">>))

\* _resolve_doc: leads are searched by name, everything else by its code.
DocMode == IF plan.by = "name" THEN "ask" ELSE "refuse"

LogActivityNode ==
    IF plan.by = "none" THEN StopRun ELSE Confirm("log_activity", Lookups(<<DocMode>>))

\* The open activities of a document, or all of the caller's.
CloseActivityNode ==
    Confirm("close_activity",
            IF plan.by = "none" THEN Lookups(<<"ask">>) ELSE Lookups(<<DocMode, "ask">>))

BomMode == IF plan.by = "code" THEN "first" ELSE "ask"

CreateMoNode == Confirm("create_manufacturing_order", Lookups(<<"ask", BomMode>>))

\* Product, then its components; a product is no component of itself.
CreateBomNode ==
    LET walk == Lookups(<<"ask", "ask">>)
    IN  IF walk.out = "go" /\ walk.picks[1] = walk.picks[2] THEN StopRun
        ELSE Confirm("create_bom", walk)

\* Product, its recipe, the component of each change; the changes must apply.
UpdateBomNode ==
    LET walk == Lookups(<<"ask", BomMode, "ask">>)
    IN  IF walk.out = "go" /\ ~erp.fit THEN StopRun
        ELSE Confirm("update_bom_lines", walk)

\* The delivery to return, then the product of each line.
ReturnOrderNode == Confirm("return_order", Lookups(<<"ask", "ask">>))

CreditMemoNode == Confirm("create_credit_memo", Lookups(<<"refuse">>))

VendorPricingNode == Confirm("update_vendor_pricing", Lookups(<<"ask", "ask">>))

\* Two vendors, one line.
BulkRfqNode == Confirm("create_bulk_rfq", Lookups(<<"ask", "ask", "ask">>))

\* An invoice given by its id is not looked up; its state is checked before
\* anything is shown.
InvoiceNode(t) ==
    LET walk == IF plan.by = "code" THEN FreshWalk ELSE Lookups(<<"ask">>)
    IN  IF plan.by = "none" \/ (walk.out = "go" /\ ~erp.fit) THEN StopRun
        ELSE Confirm(t, walk)

PostInvoiceNode == InvoiceNode("post_invoice")
RegisterPaymentNode == InvoiceNode("register_payment")

Run ==
    CASE plan.tool \in {"create_quotation", "create_rfq"} -> OrderNode
      [] plan.tool \in {"update_quotation_lines", "update_rfq_lines"} -> EditNode
      [] plan.tool = "inventory_adjustment" -> InventoryNode
      [] plan.tool = "internal_transfer" -> TransferNode
      [] plan.tool = "scrap_product" -> ScrapNode
      [] plan.tool = "create_lead" -> CreateLeadNode
      [] plan.tool = "create_vendor" -> CreateVendorNode
      [] plan.tool = "convert_lead" -> ConvertLeadNode
      [] plan.tool = "log_activity" -> LogActivityNode
      [] plan.tool = "close_activity" -> CloseActivityNode
      [] plan.tool = "create_manufacturing_order" -> CreateMoNode
      [] plan.tool = "create_bom" -> CreateBomNode
      [] plan.tool = "update_bom_lines" -> UpdateBomNode
      [] plan.tool = "return_order" -> ReturnOrderNode
      [] plan.tool = "create_credit_memo" -> CreditMemoNode
      [] plan.tool = "update_vendor_pricing" -> VendorPricingNode
      [] plan.tool = "create_bulk_rfq" -> BulkRfqNode
      [] plan.tool = "post_invoice" -> PostInvoiceNode
      [] plan.tool = "register_payment" -> RegisterPaymentNode

SingleNodeTools ==
    {"create_quotation", "create_rfq", "update_quotation_lines", "update_rfq_lines",
     "inventory_adjustment", "internal_transfer", "scrap_product", "create_lead",
     "create_vendor", "convert_lead", "log_activity", "close_activity",
     "create_manufacturing_order", "create_bom", "update_bom_lines", "return_order",
     "create_credit_memo", "update_vendor_pricing", "create_bulk_rfq",
     "post_invoice", "register_payment"}

\* Tools whose plan may name the record in more than one way.
NamedBy(t) ==
    CASE t \in {"log_activity", "close_activity", "post_invoice", "register_payment"} ->
             {"name", "code", "none"}
      [] t \in {"create_manufacturing_order", "update_bom_lines"} -> {"name", "code"}
      [] OTHER -> {"name"}

Plans == {p \in [tool : SingleNodeTools, by : {"name", "code", "none"}] :
             p.by \in NamedBy(p.tool)}

-----------------------------------------------------------------------------
(* The thread around the node. *)

Drafted(o, fig) == [tool |-> o.tool, picks |-> o.picks, figure |-> fig]

\* An interrupt: a pick among candidates, or the draft to confirm.
Interrupts ==
    [kind : {"pick"}, options : SUBSET Ids] \cup
    [kind : {"confirm"},
     draft : [tool : SingleNodeTools \cup {"flag_order_for_review"},
              picks : Seq(Ids), figure : Figures]]

ASSUME CoordinatorAssumption == MaxDrift \in Nat /\ NoQuestion \notin Interrupts

\* Resume: the new value goes behind the stored ones.
Resumed(v) == Append(answers, v)

CoInit ==
    /\ plan \in Plans
    /\ erp \in [found : [1..MaxLooks -> SUBSET Ids], fit : BOOLEAN, figure : Figures]
    /\ enabled \in BOOLEAN
    /\ answers = <<>> /\ question = NoQuestion /\ stage = "run"
    /\ written = <<>> /\ agreed = {} /\ shown = 0 /\ drifts = 0

Stops ==
    /\ stage = "run"
    /\ ~enabled \/ Run.do = "stop"
    /\ stage' = "over"
    /\ UNCHANGED <<plan, erp, enabled, answers, question, written, agreed, shown, drifts>>

AsksPick ==
    /\ stage = "run" /\ enabled /\ Run.do = "pick"
    /\ question' = [kind |-> "pick", options |-> Run.from]
    /\ stage' = "parked" /\ shown' = shown + 1
    /\ UNCHANGED <<plan, erp, enabled, answers, written, agreed, drifts>>

AsksConfirm ==
    /\ stage = "run" /\ enabled /\ Run.do = "confirm"
    /\ question' = [kind |-> "confirm", draft |-> Drafted(Run, erp.figure)]
    /\ stage' = "parked" /\ shown' = shown + 1
    /\ UNCHANGED <<plan, erp, enabled, answers, written, agreed, drifts>>

\* The tool call.  The ERP applies it to the figures it has now.
WritesDraft ==
    /\ stage = "run" /\ enabled /\ Run.do = "write"
    /\ \E reached \in BOOLEAN :
         written' = IF reached THEN Append(written, Drafted(Run, erp.figure)) ELSE written
    /\ stage' = "over"
    /\ UNCHANGED <<plan, erp, enabled, answers, question, agreed, shown, drifts>>

\* A late reply is resumed as a no, whatever was asked.
Values == IF question.kind = "pick" THEN question.options \cup {"no"} ELSE {"yes", "no"}

Replies ==
    /\ stage = "parked"
    /\ \E v \in Values :
         /\ answers' = Resumed(v)
         /\ agreed' = IF v = "yes" THEN agreed \cup {question.draft} ELSE agreed
    /\ question' = NoQuestion /\ stage' = "run"
    /\ UNCHANGED <<plan, erp, enabled, written, shown, drifts>>

\* Somebody else works in the ERP while the thread is parked.
Drifts ==
    /\ stage = "parked" /\ drifts < MaxDrift
    /\ drifts' = drifts + 1
    /\ \/ \E i \in 1..MaxLooks, hits \in SUBSET Ids : erp' = [erp EXCEPT !.found[i] = hits]
       \/ erp' = [erp EXCEPT !.fit = ~@]
       \/ \E f \in Figures : erp' = [erp EXCEPT !.figure = f]
    /\ UNCHANGED <<plan, enabled, answers, question, stage, written, agreed, shown>>

Toggles ==
    /\ stage = "parked"
    /\ enabled' = ~enabled
    /\ UNCHANGED <<plan, erp, answers, question, stage, written, agreed, shown, drifts>>

CoNext == Stops \/ AsksPick \/ AsksConfirm \/ WritesDraft \/ Replies \/ Drifts \/ Toggles

CoSpec == CoInit /\ [][CoNext]_coVars

-----------------------------------------------------------------------------
(* Properties. *)

\* Types: a thread is parked exactly while a question is open, and what is
\* stored as an answer is a decision, never the text of the reply.
CoTypeOK ==
    /\ plan \in Plans
    /\ erp \in [found : [1..MaxLooks -> SUBSET Ids], fit : BOOLEAN, figure : Figures]
    /\ enabled \in BOOLEAN
    /\ stage \in {"run", "parked", "over"}
    /\ question \in Interrupts \cup {NoQuestion}
    /\ stage = "parked" <=> question # NoQuestion
    /\ answers \in Seq(Ids \cup {"yes", "no"})
    /\ drifts \in 0..MaxDrift

\* While nobody else changes the ERP, what a coordinator writes is the draft
\* the user said yes to, record by record and figure by figure, however many
\* replays lie between (create_order.py: "the created order is built from
\* resolved IDs so it matches the confirmed draft").
DraftIsWritten ==
    drifts = 0 => \A i \in 1..Len(written) : written[i] \in agreed

\* close_activity writes nothing without a yes to a confirm question, even
\* when the look-up shrinks and its interrupts change places (crm_write.py:357).
CloseNeedsYes ==
    (plan.tool = "close_activity" /\ written # <<>>) => agreed # {}

\* A picked record that has disappeared from the candidates is not written:
\* the write names records the ERP still offers at that moment.
PicksStillOffered ==
    \A i \in 1..Len(written') : i > Len(written) =>
        \A k \in 1..Len(written'[i].picks) :
            \E j \in 1..MaxLooks : written'[i].picks[k] \in erp.found[j]

\* No coordinator asks in circles: every reply is kept, so that a turn has at
\* most one question per look-up and the confirm, whatever the ERP does.
QuestionsBounded == shown <= MaxLooks + 1

\* Although a coordinator runs again from its first line, and the ERP offers more,
\* fewer or other records by then: an activity is not closed without a yes, a pick
\* that is gone is not written, and no reply is asked for for ever.  In the other
\* coordinators a pick can come to stand where the yes was expected, and is read
\* as one (Agrees); the run that refutes NoMeansNo of WriteFlow is that case.
RepliesKeepPlace ==
    [][(CoTypeOK /\ CloseNeedsYes /\ QuestionsBounded)' /\ PicksStillOffered]_coVars
=============================================================================
