------------------------------ MODULE OdooTools ------------------------------
(***************************************************************************)
(* The write tools of the MCP server.  A tool is a fixed sequence of Odoo  *)
(* calls with plain code between them; there is no transaction around it.  *)
(* Each call may fault, may take effect and lose its answer, or may ask    *)
(* for a wizard the API cannot show; between two calls the same document   *)
(* may be changed by another tool or by a person in Odoo.                  *)
(*                                                                         *)
(* A tool is written as its program: the sequence of its steps.  What the  *)
(* steps do to a document is Odoo's part and is as weak as the code's own  *)
(* guards assume.  The question is what a tool's answer is worth.          *)
(***************************************************************************)
EXTENDS Naturals, Sequences, FiniteSets, SequencesExt

CONSTANTS
    Calls,        \* tool calls, each used once; a retry is a later call
    MaxOthers     \* bound: changes of the document by people in Odoo

ASSUME OdooAssumption == MaxOthers \in Nat

VARIABLES
    kind,         \* what the document is
    doc,          \* the document the calls work on
    tool,         \* the tool of each call
    at,           \* the step a call is in
    saw,          \* the document as its first read returned it
    reply,        \* "none" until the tool answers
    log,          \* history: effects on Odoo in order, with their call
    since,        \* history: length of the log when a call began
    met,          \* history: pairs of calls that ran at the same time
    others

otVars == <<kind, doc, tool, at, saw, reply, log, since, met, others>>

Picks == 1..2     \* bound: transfers of one order

-----------------------------------------------------------------------------
(* The steps a program is made of. *)

\* Look a document up by its number and test its state.
Find(gate) == [do |-> "find", what |-> gate]

\* Read the row to overwrite, if there is one.
Look == [do |-> "look", what |-> ""]

\* Look another record up; unknown or not unique ends the tool.
Resolve == [do |-> "resolve", what |-> ""]

\* A call that writes.
Do(e) == [do |-> "write", what |-> e]

\* A call that writes, or returns a dict: the wizard it would open.
Try(e) == [do |-> "try", what |-> e]

\* A call whose return value is not believed: it may have done nothing.
Ask(e) == [do |-> "ask", what |-> e]

\* Read again what was written, and refuse if it is not there.
Check(e) == [do |-> "check", what |-> e]

\* A read whose result only goes into the answer.
Tell == [do |-> "tell", what |-> ""]

\* Put back the customer, and the assignee, if there is either.
Restore == [do |-> "restore", what |-> ""]

\* Transfer i of the order, when the list read earlier had it ready.
Validate(i) == [do |-> "pick", what |-> i]

\* Read the transfers; none pending ends well, none ready is refused.
Pickings == [do |-> "pickings", what |-> ""]

\* Read the raw moves; when all are reserved the next two steps are skipped.
Moves(last) == [do |-> "moves", what |-> last]

-----------------------------------------------------------------------------
(* The tools. *)

\* _validate_order_pickings: the ready ones one after the other.
ValidateOrderPickings == <<Pickings, Validate(1), Validate(2)>>

\* _apply_line_ops: one write of all line commands, on a draft only.
ApplyLineOps == <<Find("draft"), Do("lines")>>

ConfirmSaleOrder == <<Find("draft"), Do("confirm")>>
DeliverOrder == <<Find("confirmed")>> \o ValidateOrderPickings
CreateQuotation == <<Resolve, Resolve, Do("create"), Tell>>
UpdateQuotationLines == ApplyLineOps
FlagOrderForReview == <<Find("any"), Do("note")>>

ConfirmPurchaseOrder == <<Find("draft"), Do("confirm")>>
ReceiveOrder == <<Find("confirmed")>> \o ValidateOrderPickings
CreateBillFromPo == <<Find("billable"), Ask("invoice"), Check("invoice"), Do("date")>>
CreateRfq == <<Resolve, Resolve, Do("create"), Tell>>
UpdateRfqLines == ApplyLineOps

\* Both vendors and the product first, then one order per vendor.
CreateBulkRfq ==
    <<Resolve, Resolve, Resolve, Do("create"), Tell, Do("create"), Tell>>

PostInvoice_Ungated == <<Find("any"), Do("post"), Tell>>
PostInvoice == <<Find("draft"), Do("post"), Tell>>

\* Wizard with the order as its context; its result cannot be marshalled.
CreateInvoiceFromOrder ==
    <<Find("billable"), Do("wizard"), Ask("invoice"), Check("invoice")>>

\* Journal, the context of the wizard, the wizard, its amount, the payment.
RegisterPayment ==
    <<Find("payable"), Resolve, Do("ask_to_pay"), Do("wizard"), Tell, Do("pay"), Tell>>

CreateCreditMemo ==
    <<Find("posted"), Do("wizard"), Ask("refund"), Check("refund"), Tell>>

CreateVendor == <<Do("create")>>

\* One price per vendor and product: overwrite the row, or make it.
UpdateVendorPricing == <<Resolve, Resolve, Look, Do("row")>>

ValidatePicking == <<Find("assigned"), Try("validate")>>

\* The counted quantity goes on the quant, made if missing, and is applied.
InventoryAdjustment ==
    <<Resolve, Resolve, Look, Do("row"), Try("apply"), Tell>>

\* A transfer of its own: created, confirmed, reserved, read, validated.
InternalTransfer ==
    <<Resolve, Resolve, Resolve, Resolve, Do("create"), Do("confirm_own"),
      Do("assign_own"), Check("assigned"), Try("validate_own")>>

ScrapProduct == <<Resolve, Resolve, Do("create"), Try("validate_own")>>

\* The wizard's lines are set one call each, then it makes the return.
ReturnOrder ==
    <<Find("returnable"), Do("wizard"), Tell, Tell, Do("wizard_line"), Resolve,
      Do("wizard_line"), Ask("return"), Check("return"), Tell>>

CreateManufacturingOrder == <<Resolve, Resolve, Do("create"), Tell>>
ConfirmManufacturingOrder == <<Find("draft"), Do("confirm")>>

CompleteManufacturingOrder_Trusting ==
    <<Find("open"), Moves(FALSE), Do("assign"), Moves(TRUE), Ask("complete")>>

\* Reserve once if material is short, then close and read back.
CompleteManufacturingOrder ==
    <<Find("open"), Moves(FALSE), Do("assign"), Moves(TRUE), Ask("complete"),
      Check("complete")>>

CreateBom == <<Resolve, Do("create"), Tell>>
UpdateBomLines == <<Find("any"), Resolve, Do("lines"), Tell>>

CreateLead == <<Do("create")>>

\* The assignee first; converting wipes the customer, which is put back.
ConvertLead ==
    <<Find("draft"), Resolve, Ask("convert"), Restore, Check("convert")>>

\* Document, activity type, assignee, model id; then the activity.
LogActivity == <<Resolve, Resolve, Resolve, Resolve, Do("create")>>

CloseActivity == <<Find("mine"), Do("feedback")>>

ToolsFor ==
    [sale     |-> {"confirm_sale_order", "deliver_order", "update_quotation_lines",
                   "flag_order_for_review", "create_invoice_from_order"},
     purchase |-> {"confirm_purchase_order", "receive_order", "update_rfq_lines",
                   "create_bill_from_po"},
     mo       |-> {"confirm_manufacturing_order", "complete_manufacturing_order"},
     invoice  |-> {"post_invoice", "register_payment", "create_credit_memo"},
     picking  |-> {"validate_picking", "return_order"},
     lead     |-> {"convert_lead"},
     activity |-> {"close_activity"},
     other    |-> {"create_quotation", "create_rfq", "create_bulk_rfq", "create_vendor",
                   "update_vendor_pricing", "inventory_adjustment", "internal_transfer",
                   "scrap_product", "create_manufacturing_order", "create_bom",
                   "update_bom_lines", "create_lead", "log_activity"}]

Kinds == DOMAIN ToolsFor
Tools == UNION {ToolsFor[k] : k \in Kinds}

Program ==
    [confirm_sale_order |-> ConfirmSaleOrder, deliver_order |-> DeliverOrder,
     update_quotation_lines |-> UpdateQuotationLines,
     flag_order_for_review |-> FlagOrderForReview,
     create_invoice_from_order |-> CreateInvoiceFromOrder,
     confirm_purchase_order |-> ConfirmPurchaseOrder, receive_order |-> ReceiveOrder,
     update_rfq_lines |-> UpdateRfqLines, create_bill_from_po |-> CreateBillFromPo,
     confirm_manufacturing_order |-> ConfirmManufacturingOrder,
     complete_manufacturing_order |-> CompleteManufacturingOrder,
     post_invoice |-> PostInvoice, register_payment |-> RegisterPayment,
     create_credit_memo |-> CreateCreditMemo, validate_picking |-> ValidatePicking,
     return_order |-> ReturnOrder, convert_lead |-> ConvertLead,
     close_activity |-> CloseActivity, create_quotation |-> CreateQuotation,
     create_rfq |-> CreateRfq, create_bulk_rfq |-> CreateBulkRfq,
     create_vendor |-> CreateVendor, update_vendor_pricing |-> UpdateVendorPricing,
     inventory_adjustment |-> InventoryAdjustment, internal_transfer |-> InternalTransfer,
     scrap_product |-> ScrapProduct,
     create_manufacturing_order |-> CreateManufacturingOrder, create_bom |-> CreateBom,
     update_bom_lines |-> UpdateBomLines, create_lead |-> CreateLead,
     log_activity |-> LogActivity]

-----------------------------------------------------------------------------
(* Odoo's part. *)

States == {"draft", "open", "in_payment", "done", "cancel"}

\* due: there is something to invoice; rows: the invoices, or the price row;
\* stocked: raw material is reserved; partner: the lead has its customer.
Docs == [st : States, due : BOOLEAN, rows : Nat,
         picks : [Picks -> {"waiting", "assigned", "done"}],
         stocked : BOOLEAN, partner : BOOLEAN]

\* Odoo sets no document back: confirming or paying one that is further along
\* leaves it there.
Advance(d, from, to) == [d EXCEPT !.st = IF @ \in from THEN to ELSE @]

\* What one effect makes of the document.  Nothing here repairs a wrong call:
\* confirming twice is possible, and is then in the log twice.
Effect(e, d, seen) ==
    CASE e \in {"confirm", "post"} -> Advance(d, {"draft", "cancel"}, "open")
      [] e = "pay"      -> Advance(d, {"draft", "cancel", "open"}, "in_payment")
      [] e \in {"complete", "feedback", "validate"} -> [d EXCEPT !.st = "done"]
      [] e = "invoice"  -> [d EXCEPT !.due = FALSE, !.rows = @ + 1]
      [] e = "convert"  -> [Advance(d, {"draft", "cancel"}, "open") EXCEPT !.partner = FALSE]
      [] e = "restore"  -> [d EXCEPT !.partner = seen.partner]
      [] e = "row"      -> [d EXCEPT !.rows = IF seen.rows > 0 THEN @ ELSE @ + 1]
      [] e = "validate1" -> [d EXCEPT !.picks[1] = "done", !.due = TRUE]
      [] e = "validate2" -> [d EXCEPT !.picks[2] = "done", !.due = TRUE]
      [] OTHER          -> d

\* The payment wizard refuses an invoice with nothing left to pay.
Takes(e, d) == e # "ask_to_pay" \/ d.st = "open"

\* Calls that only touch Odoo's transient wizards, or read.
Transient == {"none", "wizard", "wizard_line", "ask_to_pay"}

Gate(g, d) ==
    CASE g = "any"        -> TRUE
      [] g = "draft"      -> d.st = "draft"
      [] g \in {"open", "assigned", "mine"} -> d.st = "open"
      [] g = "posted"     -> d.st \in {"open", "in_payment", "done"}
      [] g = "payable"    -> d.st \in {"open", "in_payment"}
      [] g = "confirmed"  -> d.st \in {"open", "done"}
      [] g = "billable"   -> d.st \in {"open", "done"} /\ d.due
      [] g = "returnable" -> d.st = "done"

-----------------------------------------------------------------------------
(* One step of a call. *)

Made(c) == {log[i].eff : i \in {j \in 1..Len(log) : log[j].by = c}}

Since(c) == {log[i].eff : i \in since[c] + 1..Len(log)}

There(e, c) ==
    CASE e = "invoice"  -> doc.rows > saw[c].rows
      [] e = "complete" -> doc.st = "done"
      [] e = "convert"  -> doc.st = "open"
      [] OTHER          -> e \in Made(c)

\* An outcome: the effect on Odoo, and how the tool goes on.  "skip" leaves
\* out the two steps that reserve material.
Out(e, then) == [eff |-> e, then |-> then]

PickName == <<"validate1", "validate2">>

PickOutcomes(i, c) ==
    IF saw[c].picks[i] # "assigned" THEN {Out("none", "go")}
    ELSE {Out(PickName[i], "go"), Out("none", "wizard")}

ListOutcomes(d) ==
    IF \A i \in Picks : d.picks[i] = "done" THEN {Out("none", "ok")}
    ELSE IF \A i \in Picks : d.picks[i] # "assigned" THEN {Out("none", "refused")}
    ELSE {Out("none", "go")}

CheckOutcomes(e, c) ==
    IF e = "assigned" THEN {Out("none", "go"), Out("none", "left")}
    ELSE {Out("none", IF There(e, c) THEN "go" ELSE "refused")}

Outcomes(s, c) ==
    CASE s.do = "find"     -> {Out("none", "refused")} \cup
                              (IF Gate(s.what, doc) THEN {Out("none", "go")} ELSE {})
      [] s.do = "resolve"  -> {Out("none", "refused"), Out("none", "go")}
      [] s.do = "write"    -> IF Takes(s.what, doc) THEN {Out(s.what, "go")} ELSE {}
      [] s.do = "try"      -> {Out(s.what, "go"), Out("none", "wizard")}
      [] s.do = "ask"      -> {Out(s.what, "go"), Out("none", "go")}
      [] s.do = "check"    -> CheckOutcomes(s.what, c)
      [] s.do = "restore"  -> {Out("restore", "go")} \cup
                              (IF saw[c].partner THEN {} ELSE {Out("none", "go")})
      [] s.do \in {"tell", "look"} -> {Out("none", "go")}
      [] s.do = "pickings" -> ListOutcomes(doc)
      [] s.do = "pick"     -> PickOutcomes(s.what, c)
      [] s.do = "moves"    -> {Out("none", IF doc.stocked
                                           THEN (IF s.what THEN "go" ELSE "skip")
                                           ELSE (IF s.what THEN "refused" ELSE "go"))}

\* The answer to an exception.  log_activity has a try of its own around its
\* first call; close_activity has a text of its own.
Failed(c) ==
    CASE tool[c] = "close_activity"               -> "try_again"
      [] tool[c] = "log_activity" /\ at[c] = 1    -> "refused"
      [] OTHER                                    -> "unfinished"

Running(c) == tool[c] # "none" /\ reply[c] = "none"

StepOf(c) == Program[tool[c]][at[c]]

Applies(c, e) ==
    /\ doc' = Effect(e, doc, saw[c])
    /\ log' = IF e \in Transient THEN log ELSE Append(log, [by |-> c, eff |-> e])

Answers(c, r) == reply' = [reply EXCEPT ![c] = r]

GoesOn(c, n) ==
    /\ at' = [at EXCEPT ![c] = n]
    /\ IF n > Len(Program[tool[c]]) THEN Answers(c, "ok") ELSE UNCHANGED reply

Remembers(c) ==
    saw' = IF StepOf(c).do \in {"find", "look", "pickings"} THEN [saw EXCEPT ![c] = doc] ELSE saw

\* A step that Odoo answers.
Step(c) ==
    /\ Running(c)
    /\ \E o \in Outcomes(StepOf(c), c) :
         /\ Applies(c, o.eff)
         /\ CASE o.then = "go"   -> GoesOn(c, at[c] + 1)
              [] o.then = "skip" -> GoesOn(c, at[c] + 3)
              [] OTHER           -> Answers(c, o.then) /\ UNCHANGED at
    /\ Remembers(c)
    /\ UNCHANGED <<kind, tool, since, met, others>>

\* A call that fails: a fault of Odoo, the rate limit, the write gate, the net.
Fault(c) ==
    /\ Running(c)
    /\ Answers(c, Failed(c))
    /\ UNCHANGED <<kind, doc, tool, at, saw, log, since, met, others>>

\* A call Odoo has carried out, but whose answer never arrives.
Lost(c) ==
    /\ Running(c)
    /\ \E o \in Outcomes(StepOf(c), c) : o.eff # "none" /\ Applies(c, o.eff)
    /\ Answers(c, Failed(c))
    /\ UNCHANGED <<kind, tool, at, saw, since, met, others>>

\* The same process serves several calls, and each role has a process.
Begin(c) ==
    /\ tool[c] = "none"
    /\ \E t \in ToolsFor[kind] : tool' = [tool EXCEPT ![c] = t]
    /\ since' = [since EXCEPT ![c] = Len(log)]
    /\ met' = met \cup {{c, b} : b \in {x \in Calls : Running(x)}}
    /\ UNCHANGED <<kind, doc, at, saw, reply, log, others>>

\* People in Odoo: a draft is cancelled, or goods arrive.
Others ==
    /\ others < MaxOthers
    /\ others' = others + 1
    /\ \/ doc.st = "draft" /\ doc' = [doc EXCEPT !.st = "cancel"]
       \/ \E i \in Picks : /\ doc.picks[i] = "waiting"
                           /\ doc' = [doc EXCEPT !.picks[i] = "assigned"]
       \/ ~doc.stocked /\ doc' = [doc EXCEPT !.stocked = TRUE]
    /\ UNCHANGED <<kind, tool, at, saw, reply, log, since, met>>

-----------------------------------------------------------------------------

\* Of each kind, the fields it does not have stay at a fixed value.
Begins ==
    {d \in [st : {"draft", "open", "done"}, due : BOOLEAN, rows : {0},
            picks : [Picks -> {"waiting", "assigned", "done"}],
            stocked : BOOLEAN, partner : BOOLEAN] :
        /\ kind \notin {"sale", "purchase"} => d.picks = [i \in Picks |-> "done"] /\ ~d.due
        /\ kind # "mo" => d.stocked
        /\ kind # "lead" => ~d.partner}

OtInit ==
    /\ kind \in Kinds
    /\ doc \in Begins
    /\ tool = [c \in Calls |-> "none"]
    /\ at = [c \in Calls |-> 1]
    /\ saw = [c \in Calls |-> doc]
    /\ reply = [c \in Calls |-> "none"]
    /\ log = <<>>
    /\ since = [c \in Calls |-> 0]
    /\ met = {}
    /\ others = 0

OtNext ==
    \/ \E c \in Calls : Begin(c) \/ Step(c) \/ Fault(c) \/ Lost(c)
    \/ Others

OtSpec == OtInit /\ [][OtNext]_otVars

-----------------------------------------------------------------------------
(* Properties. *)

\* Types.  An answer comes from the fixed list of answers, and a call is never
\* past the end of its program without having answered.
OtTypeOK ==
    /\ kind \in Kinds
    /\ doc \in Docs
    /\ \A c \in Calls :
         /\ tool[c] \in ToolsFor[kind] \cup {"none"}
         /\ reply[c] \in {"none", "ok", "refused", "wizard", "left", "unfinished",
                          "try_again"}
         /\ Running(c) => at[c] \in 1..Len(Program[tool[c]])
    /\ others \in 0..MaxOthers

\* What the success message of a tool says was done.
Goal(c) ==
    LET t == tool[c]
    IN  CASE t \in {"confirm_sale_order", "confirm_purchase_order",
                    "confirm_manufacturing_order"} -> {"confirm"}
          [] t \in {"update_quotation_lines", "update_rfq_lines", "update_bom_lines"} -> {"lines"}
          [] t = "create_invoice_from_order"    -> {"invoice"}
          [] t = "create_bill_from_po"          -> {"invoice", "date"}
          [] t = "post_invoice"                 -> {"post"}
          [] t = "register_payment"             -> {"pay"}
          [] t = "create_credit_memo"           -> {"refund"}
          [] t = "complete_manufacturing_order" -> {"complete"}
          [] t = "convert_lead" -> {"convert"} \cup (IF saw[c].partner THEN {"restore"} ELSE {})
          [] t = "close_activity"               -> {"feedback"}
          [] t = "validate_picking"             -> {"validate"}
          [] t = "return_order"                 -> {"return"}
          [] t = "inventory_adjustment"         -> {"row", "apply"}
          [] t \in {"internal_transfer", "scrap_product"} -> {"create", "validate_own"}
          [] t = "update_vendor_pricing"        -> {"row"}
          [] t = "flag_order_for_review"        -> {"note"}
          [] t \in {"deliver_order", "receive_order"} ->
                 {PickName[i] : i \in {j \in Picks : saw[c].picks[j] = "assigned"}}
          [] OTHER                              -> {"create"}

\* Success is never invented: when a tool reports it, everything the sentence
\* names has happened in Odoo since the call began, also where Odoo's return
\* value says nothing and where another call works on the same document.
OkMeansEffect ==
    \A c \in Calls : reply[c] = "ok" => Goal(c) \subseteq Since(c)

\* The tools that promise to stop before they leave half an order (unclear
\* names, an unknown assignee, one change of several that does not apply).
AllOrNothing ==
    {"create_quotation", "create_rfq", "create_bulk_rfq", "update_bom_lines",
     "convert_lead", "create_manufacturing_order", "create_bom", "log_activity"}

\* A refusal of one of these tools has changed nothing; only a conversion Odoo
\* did not carry out may have given the lead an assignee.
CleanRefusal ==
    \A c \in Calls :
        tool[c] \in AllOrNothing /\ reply[c] = "refused" => Made(c) \subseteq {"restore"}

\* A tool that changed Odoo and did not finish says that it may be unfinished,
\* names the transfer it left, or sends the user to Odoo; a plain refusal
\* leaves at most reserved material, or the assignee of an unconverted lead.
HalfDoneIsSaid ==
    \A c \in Calls : reply[c] = "refused" => Made(c) \subseteq {"assign", "restore"}

Twice(i, j) == i < j /\ log[i].eff = log[j].eff /\ log[i].by # log[j].by

\* Asking again after an error does not do it again: an effect behind a state
\* gate is repeated by another call only if the two calls overlapped (or, for an
\* invoice, something more was delivered in between).
GatedOnce ==
    \A i, j \in 1..Len(log) :
        /\ Twice(i, j)
        /\ log[i].eff \in {"confirm", "post", "complete", "convert", "pay", "invoice",
                           "feedback", "validate", "validate1", "validate2"}
        => \/ {log[i].by, log[j].by} \in met
           \/ \E k \in i..j : log[i].eff = "invoice" /\ log[k].eff \in {"validate1", "validate2"}

\* The answer of a tool is what happened in Odoo: done, not touched, or said to
\* be half done, wherever the calls behind it failed (odoo_call.py:104).
AnswersAreTrue == OtTypeOK /\ OkMeansEffect /\ CleanRefusal /\ HalfDoneIsSaid
=============================================================================
