--------------------------- MODULE OdooTools_proofs ---------------------------
(***************************************************************************)
(* What the write tools answer is what happened in Odoo, and what a state  *)
(* gate guards is not done twice: for any number of calls that overlap,    *)
(* fail and lose their answers, on a document others change meanwhile.     *)
(***************************************************************************)
EXTENDS OdooTools, TLAPS

-----------------------------------------------------------------------------
(* What an answer of an MCP write tool is worth, for any number of calls.    *)
(* First what the programs of the tools have in common.                      *)

Writing == {"write", "try", "ask"}
Silent == {"find", "look", "resolve", "check", "tell", "pickings", "moves"}

\* What a step may add to the log.
Logs(s) ==
  IF s.do \in Writing THEN {s.what} \ Transient
  ELSE IF s.do = "restore" THEN {"restore"}
  ELSE IF s.do = "pick" THEN {PickName[s.what]}
  ELSE {}

\* What has happened once a step has been passed.
Sure(s) ==
  IF s.do \in {"write", "try"} THEN {s.what} \ Transient
  ELSE IF s.do = "check" THEN {s.what} \ {"assigned"}
  ELSE IF s.do = "restore" THEN {"restore"}
  ELSE IF s.do = "pick" THEN {PickName[s.what]}
  ELSE {}

Rereads(s) == s.do \in {"find", "look", "pickings"}

MayRefuse(s) == s.do \in {"find", "resolve", "pickings", "check", "moves"}

PickNames == {"validate1", "validate2"}

\* The effects behind a state gate.
Once == {"confirm", "post", "complete", "convert", "pay", "invoice", "feedback",
         "validate"} \cup PickNames

Effects ==
  Once \cup {"assign", "restore", "create", "lines", "note", "date", "refund", "return",
             "row", "apply", "validate_own", "confirm_own", "assign_own"}

\* Where a program tests whether e has been done already, and how.
GateAt(e) == IF e = "pay" THEN 3 ELSE IF e \in PickNames THEN 2 ELSE 1

GateOf(e) ==
  CASE e = "complete" -> "open"
    [] e = "feedback" -> "mine"
    [] e = "validate" -> "assigned"
    [] e = "invoice"  -> "billable"
    [] OTHER          -> "draft"

GateStep(s, e) ==
  IF e = "pay" THEN s.do = "write" /\ s.what = "ask_to_pay"
  ELSE IF e \in PickNames THEN s.do = "pickings"
  ELSE s.do = "find" /\ s.what = GateOf(e)

\* The first read of the raw moves leaves out the next two steps if it can.
Skips(s) == s.do = "moves" /\ ~s.what

\* The step is of a kind there is.
Plain(s) ==
  /\ s.do \in Writing \cup Silent \cup {"restore", "pick"}
  /\ s.do \in Writing => s.what \in Effects \cup Transient
  /\ s.do = "pick" => s.what \in Picks

\* Reserving material is left out as a pair.
Shaped(prog) ==
  /\ Len(prog) \in Nat \ {0}
  /\ \A p \in 1..Len(prog) : Plain(prog[p])
  /\ \A p \in 1..Len(prog) :
       Skips(prog[p]) =>
         p + 2 <= Len(prog) /\ Sure(prog[p + 1]) = {"assign"} /\ Sure(prog[p + 2]) = {}

\* An effect that is done once is behind its gate, and no skip leads past that.
GatesFit(prog) ==
  \A p \in 1..Len(prog) : \A e \in Logs(prog[p]) \cap Once :
    /\ GateAt(e) < p /\ GateStep(prog[GateAt(e)], e)
    /\ \A q \in 1..Len(prog) : prog[q].do = "moves" => GateAt(e) < q
    /\ e \in PickNames => /\ prog[p].do = "pick"
                          /\ \A q \in 1..Len(prog) : Rereads(prog[q]) => q <= 2

\* A program reads before it puts anything back or validates a transfer.
ReadsFirst(prog) ==
  \A p, q \in 1..Len(prog) :
    Rereads(prog[q]) /\ p < q => Sure(prog[p]) \cap ({"restore"} \cup PickNames) = {}

\* A tool refuses before it has done anything, or where it has looked whether
\* it did.
RefusesFirst(t, prog) ==
  \A p, q \in 1..Len(prog) : MayRefuse(prog[p]) /\ q < p =>
    \A e \in Logs(prog[q]) :
      \/ e \in {"assign", "restore"} /\ (t \in AllOrNothing => e # "assign")
      \/ prog[p].do = "check" /\ prog[p].what \in {e, "assigned"}

Billing == {"create_invoice_from_order", "create_bill_from_po"}
Watching == Billing \cup {"complete_manufacturing_order", "convert_lead"}
Making == {"confirm_manufacturing_order", "complete_manufacturing_order"}
Stocking == {"inventory_adjustment", "update_vendor_pricing"}

\* What is read back can be told from what the first read returned.
ChecksFit(t, prog) ==
  \A p \in 1..Len(prog) : prog[p].do = "check" =>
    /\ prog[p].what \in {"invoice", "complete", "convert", "refund", "return", "assigned"}
    /\ p > 1
    /\ prog[p].what = "invoice" => t \in Billing
    /\ prog[p].what = "complete" => t = "complete_manufacturing_order"
    /\ prog[p].what = "convert" => t = "convert_lead"

\* What the tools of a kind do to its documents.
EffectsFit(t, prog) ==
  \A p \in 1..Len(prog) : \A e \in Logs(prog[p]) :
    /\ t \in Making => e \in {"confirm", "assign", "complete"}
    /\ t = "convert_lead" => e \in {"convert", "restore"}
    /\ e = "row" => t \in Stocking
    /\ e = "invoice" => t \in Billing

\* Tools that are told apart by their name.
NamesFit(t, prog) ==
  /\ t \in Watching => prog[1].do = "find" /\ \A q \in 1..Len(prog) : Rereads(prog[q]) => q = 1
  /\ t = "complete_manufacturing_order" => prog[1].what = "open"
  /\ t = "convert_lead" => prog[1].what = "draft"
  /\ t = "log_activity" => prog[1].do = "resolve"
  /\ \A p \in 1..Len(prog) : prog[p].do = "pickings" => t \in {"deliver_order", "receive_order"}
  /\ ~Rereads(prog[Len(prog)])

\* A passed step that need not have happened: material is reserved already,
\* the lead has no customer to put back, the transfer was not ready.
Excused(c, e) ==
  \/ e = "assign"
  \/ e = "restore" /\ ~saw[c].partner
  \/ \E i \in Picks : e = PickName[i] /\ saw[c].picks[i] # "assigned"

\* A program that was passed has done what its success message says.
GoalFits(t, prog) ==
  \A c \in Calls : tool[c] = t =>
    \A e \in Goal(c) : ~Excused(c, e) /\ \E p \in 1..Len(prog) : e \in Sure(prog[p])

Fits(t, prog) ==
  /\ Shaped(prog) /\ GatesFit(prog) /\ ReadsFirst(prog) /\ RefusesFirst(t, prog)
  /\ ChecksFit(t, prog) /\ EffectsFit(t, prog) /\ NamesFit(t, prog)
  /\ GoalFits(t, prog)

LEMMA Joined ==
  ASSUME NEW a, NEW b, NEW c, NEW d, NEW prog, prog = <<a>> \o <<b, c, d>>
  PROVE  Len(prog) = 4 /\ prog[1] = a /\ prog[2] = b /\ prog[3] = c /\ prog[4] = d
<1>1. <<a>> \in Seq({a, b, c, d}) /\ <<b, c, d>> \in Seq({a, b, c, d})
  OBVIOUS
<1> QED
  BY <1>1

LEMMA SkipsMoves == \A s : Skips(s) => s.do = "moves"
  BY DEF Skips

LEMMA ConfirmSaleOrderFits ==
  /\ Fits("confirm_sale_order", ConfirmSaleOrder)
  /\ Fits("confirm_purchase_order", ConfirmPurchaseOrder)
  /\ Fits("confirm_manufacturing_order", ConfirmManufacturingOrder)
<1> SUFFICES ASSUME NEW prog, prog \in {ConfirmSaleOrder, ConfirmPurchaseOrder, ConfirmManufacturingOrder},
                    NEW t \in {"confirm_sale_order", "confirm_purchase_order", "confirm_manufacturing_order"}
             PROVE  Fits(t, prog)
  OBVIOUS
<1>1. /\ Len(prog) = 2 /\ prog[1].do = "find" /\ prog[1].what = "draft"
      /\ prog[2].do = "write" /\ prog[2].what = "confirm"
  <2>1. prog = <<Find("draft"), Do("confirm")>>
    BY DEF ConfirmSaleOrder, ConfirmPurchaseOrder, ConfirmManufacturingOrder
  <2> QED
    BY <2>1 DEF Find, Do
<1>2. /\ Logs(prog[1]) = {} /\ Sure(prog[1]) = {}
      /\ Logs(prog[2]) = {"confirm"} /\ Sure(prog[2]) = {"confirm"}
  BY <1>1 DEF Logs, Sure, Writing, Transient, PickName
<1>3. 1..Len(prog) = {1, 2}
  BY <1>1
<1>4. Shaped(prog)
  BY <1>1, <1>2, <1>3, SkipsMoves DEF Shaped, Plain, Writing, Silent, Picks, Effects, Once, PickNames, Transient
<1>5. GatesFit(prog) /\ ReadsFirst(prog) /\ RefusesFirst(t, prog)
  BY <1>1, <1>2, <1>3 DEF GatesFit, GateAt, GateStep, GateOf, Once, PickNames, ReadsFirst,
     RefusesFirst, Rereads, MayRefuse, AllOrNothing
<1>6. ChecksFit(t, prog) /\ EffectsFit(t, prog) /\ NamesFit(t, prog)
  BY <1>1, <1>2, <1>3 DEF ChecksFit, EffectsFit, NamesFit, Billing, Watching, Making, Stocking, Rereads
<1>7. GoalFits(t, prog)
  BY <1>1, <1>2, <1>3 DEF GoalFits, Goal, Excused, Picks, PickName
<1> QED
  BY <1>4, <1>5, <1>6, <1>7 DEF Fits

LEMMA DeliverOrderFits ==
  /\ Fits("deliver_order", DeliverOrder)
  /\ Fits("receive_order", ReceiveOrder)
<1> SUFFICES ASSUME NEW prog, prog \in {DeliverOrder, ReceiveOrder},
                    NEW t \in {"deliver_order", "receive_order"}
             PROVE  Fits(t, prog)
  OBVIOUS
<1>1. /\ Len(prog) = 4 /\ prog[1].do = "find" /\ prog[1].what = "confirmed"
      /\ prog[2].do = "pickings" /\ prog[3].do = "pick" /\ prog[3].what = 1
      /\ prog[4].do = "pick" /\ prog[4].what = 2
  <2> DEFINE a == Find("confirmed")
             b == Pickings
             c == Validate(1)
             d == Validate(2)
  <2>1. prog = <<a>> \o <<b, c, d>>
    BY DEF DeliverOrder, ReceiveOrder, ValidateOrderPickings
  <2> HIDE DEF a, b, c, d
  <2>2. Len(prog) = 4 /\ prog[1] = a /\ prog[2] = b /\ prog[3] = c /\ prog[4] = d
    BY <2>1, Joined
  <2>3. a.do = "find" /\ a.what = "confirmed" /\ b.do = "pickings"
    BY DEF a, b, Find, Pickings
  <2>4. c.do = "pick" /\ c.what = 1 /\ d.do = "pick" /\ d.what = 2
    BY DEF c, d, Validate
  <2> QED
    BY <2>2, <2>3, <2>4
<1>2. /\ Logs(prog[1]) = {} /\ Sure(prog[1]) = {} /\ Logs(prog[2]) = {} /\ Sure(prog[2]) = {}
      /\ Logs(prog[3]) = {"validate1"} /\ Sure(prog[3]) = {"validate1"}
      /\ Logs(prog[4]) = {"validate2"} /\ Sure(prog[4]) = {"validate2"}
  BY <1>1 DEF Logs, Sure, Writing, Transient, PickName
<1>3. 1..Len(prog) = {1, 2, 3, 4}
  BY <1>1
<1>4. Shaped(prog)
  BY <1>1, <1>2, <1>3, SkipsMoves DEF Shaped, Plain, Writing, Silent, Picks, Effects, Once, PickNames, Transient
<1>5. GatesFit(prog) /\ ReadsFirst(prog) /\ RefusesFirst(t, prog)
  BY <1>1, <1>2, <1>3 DEF GatesFit, GateAt, GateStep, GateOf, Once, PickNames, ReadsFirst,
     RefusesFirst, Rereads, MayRefuse, AllOrNothing
<1>6. ChecksFit(t, prog) /\ EffectsFit(t, prog) /\ NamesFit(t, prog)
  BY <1>1, <1>2, <1>3 DEF ChecksFit, EffectsFit, NamesFit, Billing, Watching, Making, Stocking, Rereads
<1>7. GoalFits(t, prog)
  BY <1>1, <1>2, <1>3 DEF GoalFits, Goal, Excused, Picks, PickName
<1> QED
  BY <1>4, <1>5, <1>6, <1>7 DEF Fits

LEMMA UpdateQuotationLinesFits ==
  /\ Fits("update_quotation_lines", UpdateQuotationLines)
  /\ Fits("update_rfq_lines", UpdateRfqLines)
<1> SUFFICES ASSUME NEW prog, prog \in {UpdateQuotationLines, UpdateRfqLines},
                    NEW t \in {"update_quotation_lines", "update_rfq_lines"}
             PROVE  Fits(t, prog)
  OBVIOUS
<1>1. /\ Len(prog) = 2 /\ prog[1].do = "find" /\ prog[1].what = "draft"
      /\ prog[2].do = "write" /\ prog[2].what = "lines"
  <2>1. prog = <<Find("draft"), Do("lines")>>
    BY DEF UpdateQuotationLines, UpdateRfqLines, ApplyLineOps
  <2> QED
    BY <2>1 DEF Find, Do
<1>2. /\ Logs(prog[1]) = {} /\ Sure(prog[1]) = {}
      /\ Logs(prog[2]) = {"lines"} /\ Sure(prog[2]) = {"lines"}
  BY <1>1 DEF Logs, Sure, Writing, Transient, PickName
<1>3. 1..Len(prog) = {1, 2}
  BY <1>1
<1>4. Shaped(prog)
  BY <1>1, <1>2, <1>3, SkipsMoves DEF Shaped, Plain, Writing, Silent, Picks, Effects, Once, PickNames, Transient
<1>5. GatesFit(prog) /\ ReadsFirst(prog) /\ RefusesFirst(t, prog)
  BY <1>1, <1>2, <1>3 DEF GatesFit, GateAt, GateStep, GateOf, Once, PickNames, ReadsFirst,
     RefusesFirst, Rereads, MayRefuse, AllOrNothing
<1>6. ChecksFit(t, prog) /\ EffectsFit(t, prog) /\ NamesFit(t, prog)
  BY <1>1, <1>2, <1>3 DEF ChecksFit, EffectsFit, NamesFit, Billing, Watching, Making, Stocking, Rereads
<1>7. GoalFits(t, prog)
  BY <1>1, <1>2, <1>3 DEF GoalFits, Goal, Excused, Picks, PickName
<1> QED
  BY <1>4, <1>5, <1>6, <1>7 DEF Fits

LEMMA FlagOrderForReviewFits == Fits("flag_order_for_review", FlagOrderForReview)
<1> SUFFICES ASSUME NEW prog, prog = FlagOrderForReview PROVE Fits("flag_order_for_review", prog)
  OBVIOUS
<1>1. /\ Len(prog) = 2 /\ prog[1].do = "find" /\ prog[1].what = "any"
      /\ prog[2].do = "write" /\ prog[2].what = "note"
  BY DEF FlagOrderForReview, Find, Do
<1>2. /\ Logs(prog[1]) = {} /\ Sure(prog[1]) = {}
      /\ Logs(prog[2]) = {"note"} /\ Sure(prog[2]) = {"note"}
  BY <1>1 DEF Logs, Sure, Writing, Transient, PickName
<1>3. 1..Len(prog) = {1, 2}
  BY <1>1
<1>4. Shaped(prog)
  BY <1>1, <1>2, <1>3, SkipsMoves DEF Shaped, Plain, Writing, Silent, Picks, Effects, Once, PickNames, Transient
<1>5. GatesFit(prog) /\ ReadsFirst(prog) /\ RefusesFirst("flag_order_for_review", prog)
  BY <1>1, <1>2, <1>3 DEF GatesFit, GateAt, GateStep, GateOf, Once, PickNames, ReadsFirst,
     RefusesFirst, Rereads, MayRefuse, AllOrNothing
<1>6. ChecksFit("flag_order_for_review", prog) /\ EffectsFit("flag_order_for_review", prog) /\ NamesFit("flag_order_for_review", prog)
  BY <1>1, <1>2, <1>3 DEF ChecksFit, EffectsFit, NamesFit, Billing, Watching, Making, Stocking, Rereads
<1>7. GoalFits("flag_order_for_review", prog)
  BY <1>1, <1>2, <1>3 DEF GoalFits, Goal, Excused, Picks, PickName
<1> QED
  BY <1>4, <1>5, <1>6, <1>7 DEF Fits

LEMMA CreateInvoiceFromOrderFits == Fits("create_invoice_from_order", CreateInvoiceFromOrder)
<1> SUFFICES ASSUME NEW prog, prog = CreateInvoiceFromOrder PROVE Fits("create_invoice_from_order", prog)
  OBVIOUS
<1>1. /\ Len(prog) = 4 /\ prog[1].do = "find" /\ prog[1].what = "billable"
      /\ prog[2].do = "write" /\ prog[2].what = "wizard"
      /\ prog[3].do = "ask" /\ prog[3].what = "invoice"
      /\ prog[4].do = "check" /\ prog[4].what = "invoice"
  BY DEF CreateInvoiceFromOrder, Find, Do, Ask, Check
<1>2. /\ Logs(prog[1]) = {} /\ Sure(prog[1]) = {} /\ Logs(prog[2]) = {} /\ Sure(prog[2]) = {}
      /\ Logs(prog[3]) = {"invoice"} /\ Sure(prog[3]) = {}
      /\ Logs(prog[4]) = {} /\ Sure(prog[4]) = {"invoice"}
  BY <1>1 DEF Logs, Sure, Writing, Transient, PickName
<1>3. 1..Len(prog) = {1, 2, 3, 4}
  BY <1>1
<1>4. Shaped(prog)
  BY <1>1, <1>2, <1>3, SkipsMoves DEF Shaped, Plain, Writing, Silent, Picks, Effects, Once, PickNames, Transient
<1>5. GatesFit(prog) /\ ReadsFirst(prog) /\ RefusesFirst("create_invoice_from_order", prog)
  BY <1>1, <1>2, <1>3 DEF GatesFit, GateAt, GateStep, GateOf, Once, PickNames, ReadsFirst,
     RefusesFirst, Rereads, MayRefuse, AllOrNothing
<1>6. ChecksFit("create_invoice_from_order", prog) /\ EffectsFit("create_invoice_from_order", prog) /\ NamesFit("create_invoice_from_order", prog)
  BY <1>1, <1>2, <1>3 DEF ChecksFit, EffectsFit, NamesFit, Billing, Watching, Making, Stocking, Rereads
<1>7. GoalFits("create_invoice_from_order", prog)
  BY <1>1, <1>2, <1>3 DEF GoalFits, Goal, Excused, Picks, PickName
<1> QED
  BY <1>4, <1>5, <1>6, <1>7 DEF Fits

LEMMA CreateBillFromPoFits == Fits("create_bill_from_po", CreateBillFromPo)
<1> SUFFICES ASSUME NEW prog, prog = CreateBillFromPo PROVE Fits("create_bill_from_po", prog)
  OBVIOUS
<1>1. /\ Len(prog) = 4 /\ prog[1].do = "find" /\ prog[1].what = "billable"
      /\ prog[2].do = "ask" /\ prog[2].what = "invoice"
      /\ prog[3].do = "check" /\ prog[3].what = "invoice"
      /\ prog[4].do = "write" /\ prog[4].what = "date"
  BY DEF CreateBillFromPo, Find, Do, Ask, Check
<1>2. /\ Logs(prog[1]) = {} /\ Sure(prog[1]) = {}
      /\ Logs(prog[2]) = {"invoice"} /\ Sure(prog[2]) = {}
      /\ Logs(prog[3]) = {} /\ Sure(prog[3]) = {"invoice"}
      /\ Logs(prog[4]) = {"date"} /\ Sure(prog[4]) = {"date"}
  BY <1>1 DEF Logs, Sure, Writing, Transient, PickName
<1>3. 1..Len(prog) = {1, 2, 3, 4}
  BY <1>1
<1>4. Shaped(prog)
  BY <1>1, <1>2, <1>3, SkipsMoves DEF Shaped, Plain, Writing, Silent, Picks, Effects, Once, PickNames, Transient
<1>5. GatesFit(prog) /\ ReadsFirst(prog) /\ RefusesFirst("create_bill_from_po", prog)
  BY <1>1, <1>2, <1>3 DEF GatesFit, GateAt, GateStep, GateOf, Once, PickNames, ReadsFirst,
     RefusesFirst, Rereads, MayRefuse, AllOrNothing
<1>6. ChecksFit("create_bill_from_po", prog) /\ EffectsFit("create_bill_from_po", prog) /\ NamesFit("create_bill_from_po", prog)
  BY <1>1, <1>2, <1>3 DEF ChecksFit, EffectsFit, NamesFit, Billing, Watching, Making, Stocking, Rereads
<1>7. GoalFits("create_bill_from_po", prog)
  BY <1>1, <1>2, <1>3 DEF GoalFits, Goal, Excused, Picks, PickName
<1> QED
  BY <1>4, <1>5, <1>6, <1>7 DEF Fits

LEMMA CompleteManufacturingOrderFits == Fits("complete_manufacturing_order", CompleteManufacturingOrder)
<1> SUFFICES ASSUME NEW prog, prog = CompleteManufacturingOrder PROVE Fits("complete_manufacturing_order", prog)
  OBVIOUS
<1>1. /\ Len(prog) = 6 /\ prog[1].do = "find" /\ prog[1].what = "open"
      /\ prog[2].do = "moves" /\ Skips(prog[2]) /\ prog[3].do = "write" /\ prog[3].what = "assign"
      /\ prog[4].do = "moves" /\ ~Skips(prog[4])
      /\ prog[5].do = "ask" /\ prog[5].what = "complete"
      /\ prog[6].do = "check" /\ prog[6].what = "complete"
  BY DEF CompleteManufacturingOrder, Find, Do, Ask, Check, Moves, Skips
<1>2. /\ Logs(prog[1]) = {} /\ Sure(prog[1]) = {} /\ Logs(prog[2]) = {} /\ Sure(prog[2]) = {}
      /\ Logs(prog[3]) = {"assign"} /\ Sure(prog[3]) = {"assign"}
      /\ Logs(prog[4]) = {} /\ Sure(prog[4]) = {}
      /\ Logs(prog[5]) = {"complete"} /\ Sure(prog[5]) = {}
      /\ Logs(prog[6]) = {} /\ Sure(prog[6]) = {"complete"}
  BY <1>1 DEF Logs, Sure, Writing, Transient, PickName
<1>3. 1..Len(prog) = {1, 2, 3, 4, 5, 6}
  BY <1>1
<1>4. Shaped(prog)
  BY <1>1, <1>2, <1>3, SkipsMoves DEF Shaped, Plain, Writing, Silent, Picks, Effects, Once, PickNames, Transient
<1>5. GatesFit(prog) /\ ReadsFirst(prog) /\ RefusesFirst("complete_manufacturing_order", prog)
  BY <1>1, <1>2, <1>3 DEF GatesFit, GateAt, GateStep, GateOf, Once, PickNames, ReadsFirst,
     RefusesFirst, Rereads, MayRefuse, AllOrNothing
<1>6. ChecksFit("complete_manufacturing_order", prog) /\ EffectsFit("complete_manufacturing_order", prog) /\ NamesFit("complete_manufacturing_order", prog)
  BY <1>1, <1>2, <1>3 DEF ChecksFit, EffectsFit, NamesFit, Billing, Watching, Making, Stocking, Rereads
<1>7. GoalFits("complete_manufacturing_order", prog)
  BY <1>1, <1>2, <1>3 DEF GoalFits, Goal, Excused, Picks, PickName
<1> QED
  BY <1>4, <1>5, <1>6, <1>7 DEF Fits

LEMMA PostInvoiceFits == Fits("post_invoice", PostInvoice)
<1> SUFFICES ASSUME NEW prog, prog = PostInvoice PROVE Fits("post_invoice", prog)
  OBVIOUS
<1>1. /\ Len(prog) = 3 /\ prog[1].do = "find" /\ prog[1].what = "draft"
      /\ prog[2].do = "write" /\ prog[2].what = "post" /\ prog[3].do = "tell"
  BY DEF PostInvoice, Find, Do, Tell
<1>2. /\ Logs(prog[1]) = {} /\ Sure(prog[1]) = {}
      /\ Logs(prog[2]) = {"post"} /\ Sure(prog[2]) = {"post"}
      /\ Logs(prog[3]) = {} /\ Sure(prog[3]) = {}
  BY <1>1 DEF Logs, Sure, Writing, Transient, PickName
<1>3. 1..Len(prog) = {1, 2, 3}
  BY <1>1
<1>4. Shaped(prog)
  BY <1>1, <1>2, <1>3, SkipsMoves DEF Shaped, Plain, Writing, Silent, Picks, Effects, Once, PickNames, Transient
<1>5. GatesFit(prog) /\ ReadsFirst(prog) /\ RefusesFirst("post_invoice", prog)
  BY <1>1, <1>2, <1>3 DEF GatesFit, GateAt, GateStep, GateOf, Once, PickNames, ReadsFirst,
     RefusesFirst, Rereads, MayRefuse, AllOrNothing
<1>6. ChecksFit("post_invoice", prog) /\ EffectsFit("post_invoice", prog) /\ NamesFit("post_invoice", prog)
  BY <1>1, <1>2, <1>3 DEF ChecksFit, EffectsFit, NamesFit, Billing, Watching, Making, Stocking, Rereads
<1>7. GoalFits("post_invoice", prog)
  BY <1>1, <1>2, <1>3 DEF GoalFits, Goal, Excused, Picks, PickName
<1> QED
  BY <1>4, <1>5, <1>6, <1>7 DEF Fits

LEMMA RegisterPaymentFits == Fits("register_payment", RegisterPayment)
<1> SUFFICES ASSUME NEW prog, prog = RegisterPayment PROVE Fits("register_payment", prog)
  OBVIOUS
<1>1. /\ Len(prog) = 7 /\ prog[1].do = "find" /\ prog[1].what = "payable"
      /\ prog[2].do = "resolve" /\ prog[3].do = "write" /\ prog[3].what = "ask_to_pay"
      /\ prog[4].do = "write" /\ prog[4].what = "wizard" /\ prog[5].do = "tell"
      /\ prog[6].do = "write" /\ prog[6].what = "pay" /\ prog[7].do = "tell"
  BY DEF RegisterPayment, Find, Resolve, Do, Tell
<1>2. /\ Logs(prog[1]) = {} /\ Sure(prog[1]) = {} /\ Logs(prog[2]) = {} /\ Sure(prog[2]) = {}
      /\ Logs(prog[3]) = {} /\ Sure(prog[3]) = {} /\ Logs(prog[4]) = {} /\ Sure(prog[4]) = {}
      /\ Logs(prog[5]) = {} /\ Sure(prog[5]) = {}
      /\ Logs(prog[6]) = {"pay"} /\ Sure(prog[6]) = {"pay"}
      /\ Logs(prog[7]) = {} /\ Sure(prog[7]) = {}
  BY <1>1 DEF Logs, Sure, Writing, Transient, PickName
<1>3. 1..Len(prog) = {1, 2, 3, 4, 5, 6, 7}
  BY <1>1
<1>4. Shaped(prog)
  BY <1>1, <1>2, <1>3, SkipsMoves DEF Shaped, Plain, Writing, Silent, Picks, Effects, Once, PickNames, Transient
<1>5. GatesFit(prog) /\ ReadsFirst(prog) /\ RefusesFirst("register_payment", prog)
  BY <1>1, <1>2, <1>3 DEF GatesFit, GateAt, GateStep, GateOf, Once, PickNames, ReadsFirst,
     RefusesFirst, Rereads, MayRefuse, AllOrNothing
<1>6. ChecksFit("register_payment", prog) /\ EffectsFit("register_payment", prog) /\ NamesFit("register_payment", prog)
  BY <1>1, <1>2, <1>3 DEF ChecksFit, EffectsFit, NamesFit, Billing, Watching, Making, Stocking, Rereads
<1>7. GoalFits("register_payment", prog)
  BY <1>1, <1>2, <1>3 DEF GoalFits, Goal, Excused, Picks, PickName
<1> QED
  BY <1>4, <1>5, <1>6, <1>7 DEF Fits

LEMMA CreateCreditMemoFits == Fits("create_credit_memo", CreateCreditMemo)
<1> SUFFICES ASSUME NEW prog, prog = CreateCreditMemo PROVE Fits("create_credit_memo", prog)
  OBVIOUS
<1>1. /\ Len(prog) = 5 /\ prog[1].do = "find" /\ prog[1].what = "posted"
      /\ prog[2].do = "write" /\ prog[2].what = "wizard"
      /\ prog[3].do = "ask" /\ prog[3].what = "refund"
      /\ prog[4].do = "check" /\ prog[4].what = "refund" /\ prog[5].do = "tell"
  BY DEF CreateCreditMemo, Find, Do, Ask, Check, Tell
<1>2. /\ Logs(prog[1]) = {} /\ Sure(prog[1]) = {} /\ Logs(prog[2]) = {} /\ Sure(prog[2]) = {}
      /\ Logs(prog[3]) = {"refund"} /\ Sure(prog[3]) = {}
      /\ Logs(prog[4]) = {} /\ Sure(prog[4]) = {"refund"}
      /\ Logs(prog[5]) = {} /\ Sure(prog[5]) = {}
  BY <1>1 DEF Logs, Sure, Writing, Transient, PickName
<1>3. 1..Len(prog) = {1, 2, 3, 4, 5}
  BY <1>1
<1>4. Shaped(prog)
  BY <1>1, <1>2, <1>3, SkipsMoves DEF Shaped, Plain, Writing, Silent, Picks, Effects, Once, PickNames, Transient
<1>5. GatesFit(prog) /\ ReadsFirst(prog) /\ RefusesFirst("create_credit_memo", prog)
  BY <1>1, <1>2, <1>3 DEF GatesFit, GateAt, GateStep, GateOf, Once, PickNames, ReadsFirst,
     RefusesFirst, Rereads, MayRefuse, AllOrNothing
<1>6. ChecksFit("create_credit_memo", prog) /\ EffectsFit("create_credit_memo", prog) /\ NamesFit("create_credit_memo", prog)
  BY <1>1, <1>2, <1>3 DEF ChecksFit, EffectsFit, NamesFit, Billing, Watching, Making, Stocking, Rereads
<1>7. GoalFits("create_credit_memo", prog)
  BY <1>1, <1>2, <1>3 DEF GoalFits, Goal, Excused, Picks, PickName
<1> QED
  BY <1>4, <1>5, <1>6, <1>7 DEF Fits

LEMMA ValidatePickingFits == Fits("validate_picking", ValidatePicking)
<1> SUFFICES ASSUME NEW prog, prog = ValidatePicking PROVE Fits("validate_picking", prog)
  OBVIOUS
<1>1. /\ Len(prog) = 2 /\ prog[1].do = "find" /\ prog[1].what = "assigned"
      /\ prog[2].do = "try" /\ prog[2].what = "validate"
  BY DEF ValidatePicking, Find, Try
<1>2. /\ Logs(prog[1]) = {} /\ Sure(prog[1]) = {}
      /\ Logs(prog[2]) = {"validate"} /\ Sure(prog[2]) = {"validate"}
  BY <1>1 DEF Logs, Sure, Writing, Transient, PickName
<1>3. 1..Len(prog) = {1, 2}
  BY <1>1
<1>4. Shaped(prog)
  BY <1>1, <1>2, <1>3, SkipsMoves DEF Shaped, Plain, Writing, Silent, Picks, Effects, Once, PickNames, Transient
<1>5. GatesFit(prog) /\ ReadsFirst(prog) /\ RefusesFirst("validate_picking", prog)
  BY <1>1, <1>2, <1>3 DEF GatesFit, GateAt, GateStep, GateOf, Once, PickNames, ReadsFirst,
     RefusesFirst, Rereads, MayRefuse, AllOrNothing
<1>6. ChecksFit("validate_picking", prog) /\ EffectsFit("validate_picking", prog) /\ NamesFit("validate_picking", prog)
  BY <1>1, <1>2, <1>3 DEF ChecksFit, EffectsFit, NamesFit, Billing, Watching, Making, Stocking, Rereads
<1>7. GoalFits("validate_picking", prog)
  BY <1>1, <1>2, <1>3 DEF GoalFits, Goal, Excused, Picks, PickName
<1> QED
  BY <1>4, <1>5, <1>6, <1>7 DEF Fits

LEMMA ReturnOrderFits == Fits("return_order", ReturnOrder)
<1> SUFFICES ASSUME NEW prog, prog = ReturnOrder PROVE Fits("return_order", prog)
  OBVIOUS
<1>1. /\ Len(prog) = 10 /\ prog[1].do = "find" /\ prog[1].what = "returnable"
      /\ prog[2].do = "write" /\ prog[2].what = "wizard" /\ prog[3].do = "tell"
      /\ prog[4].do = "tell" /\ prog[5].do = "write" /\ prog[5].what = "wizard_line"
      /\ prog[6].do = "resolve" /\ prog[7].do = "write" /\ prog[7].what = "wizard_line"
      /\ prog[8].do = "ask" /\ prog[8].what = "return"
      /\ prog[9].do = "check" /\ prog[9].what = "return" /\ prog[10].do = "tell"
  BY DEF ReturnOrder, Find, Resolve, Do, Ask, Check, Tell
<1>2. /\ Logs(prog[1]) = {} /\ Sure(prog[1]) = {} /\ Logs(prog[2]) = {} /\ Sure(prog[2]) = {}
      /\ Logs(prog[3]) = {} /\ Sure(prog[3]) = {} /\ Logs(prog[4]) = {} /\ Sure(prog[4]) = {}
      /\ Logs(prog[5]) = {} /\ Sure(prog[5]) = {} /\ Logs(prog[6]) = {} /\ Sure(prog[6]) = {}
      /\ Logs(prog[7]) = {} /\ Sure(prog[7]) = {}
      /\ Logs(prog[8]) = {"return"} /\ Sure(prog[8]) = {}
      /\ Logs(prog[9]) = {} /\ Sure(prog[9]) = {"return"}
      /\ Logs(prog[10]) = {} /\ Sure(prog[10]) = {}
  BY <1>1 DEF Logs, Sure, Writing, Transient, PickName
<1>3. 1..Len(prog) = {1, 2, 3, 4, 5, 6, 7, 8, 9, 10}
  BY <1>1
<1>4. Shaped(prog)
  BY <1>1, <1>2, <1>3, SkipsMoves DEF Shaped, Plain, Writing, Silent, Picks, Effects, Once, PickNames, Transient
<1>5. GatesFit(prog) /\ ReadsFirst(prog) /\ RefusesFirst("return_order", prog)
  BY <1>1, <1>2, <1>3 DEF GatesFit, GateAt, GateStep, GateOf, Once, PickNames, ReadsFirst,
     RefusesFirst, Rereads, MayRefuse, AllOrNothing
<1>6. ChecksFit("return_order", prog) /\ EffectsFit("return_order", prog) /\ NamesFit("return_order", prog)
  BY <1>1, <1>2, <1>3 DEF ChecksFit, EffectsFit, NamesFit, Billing, Watching, Making, Stocking, Rereads
<1>7. GoalFits("return_order", prog)
  BY <1>1, <1>2, <1>3 DEF GoalFits, Goal, Excused, Picks, PickName
<1> QED
  BY <1>4, <1>5, <1>6, <1>7 DEF Fits

LEMMA ConvertLeadFits == Fits("convert_lead", ConvertLead)
<1> SUFFICES ASSUME NEW prog, prog = ConvertLead PROVE Fits("convert_lead", prog)
  OBVIOUS
<1>1. /\ Len(prog) = 5 /\ prog[1].do = "find" /\ prog[1].what = "draft" /\ prog[2].do = "resolve"
      /\ prog[3].do = "ask" /\ prog[3].what = "convert" /\ prog[4].do = "restore"
      /\ prog[5].do = "check" /\ prog[5].what = "convert"
  BY DEF ConvertLead, Find, Resolve, Ask, Check, Restore
<1>2. /\ Logs(prog[1]) = {} /\ Sure(prog[1]) = {} /\ Logs(prog[2]) = {} /\ Sure(prog[2]) = {}
      /\ Logs(prog[3]) = {"convert"} /\ Sure(prog[3]) = {}
      /\ Logs(prog[4]) = {"restore"} /\ Sure(prog[4]) = {"restore"}
      /\ Logs(prog[5]) = {} /\ Sure(prog[5]) = {"convert"}
  BY <1>1 DEF Logs, Sure, Writing, Transient, PickName
<1>3. 1..Len(prog) = {1, 2, 3, 4, 5}
  BY <1>1
<1>4. Shaped(prog)
  BY <1>1, <1>2, <1>3, SkipsMoves DEF Shaped, Plain, Writing, Silent, Picks, Effects, Once, PickNames, Transient
<1>5. GatesFit(prog) /\ ReadsFirst(prog) /\ RefusesFirst("convert_lead", prog)
  BY <1>1, <1>2, <1>3 DEF GatesFit, GateAt, GateStep, GateOf, Once, PickNames, ReadsFirst,
     RefusesFirst, Rereads, MayRefuse, AllOrNothing
<1>6. ChecksFit("convert_lead", prog) /\ EffectsFit("convert_lead", prog) /\ NamesFit("convert_lead", prog)
  BY <1>1, <1>2, <1>3 DEF ChecksFit, EffectsFit, NamesFit, Billing, Watching, Making, Stocking, Rereads
<1>7. GoalFits("convert_lead", prog)
  BY <1>1, <1>2, <1>3 DEF GoalFits, Goal, Excused, Picks, PickName
<1> QED
  BY <1>4, <1>5, <1>6, <1>7 DEF Fits

LEMMA CloseActivityFits == Fits("close_activity", CloseActivity)
<1> SUFFICES ASSUME NEW prog, prog = CloseActivity PROVE Fits("close_activity", prog)
  OBVIOUS
<1>1. /\ Len(prog) = 2 /\ prog[1].do = "find" /\ prog[1].what = "mine"
      /\ prog[2].do = "write" /\ prog[2].what = "feedback"
  BY DEF CloseActivity, Find, Do
<1>2. /\ Logs(prog[1]) = {} /\ Sure(prog[1]) = {}
      /\ Logs(prog[2]) = {"feedback"} /\ Sure(prog[2]) = {"feedback"}
  BY <1>1 DEF Logs, Sure, Writing, Transient, PickName
<1>3. 1..Len(prog) = {1, 2}
  BY <1>1
<1>4. Shaped(prog)
  BY <1>1, <1>2, <1>3, SkipsMoves DEF Shaped, Plain, Writing, Silent, Picks, Effects, Once, PickNames, Transient
<1>5. GatesFit(prog) /\ ReadsFirst(prog) /\ RefusesFirst("close_activity", prog)
  BY <1>1, <1>2, <1>3 DEF GatesFit, GateAt, GateStep, GateOf, Once, PickNames, ReadsFirst,
     RefusesFirst, Rereads, MayRefuse, AllOrNothing
<1>6. ChecksFit("close_activity", prog) /\ EffectsFit("close_activity", prog) /\ NamesFit("close_activity", prog)
  BY <1>1, <1>2, <1>3 DEF ChecksFit, EffectsFit, NamesFit, Billing, Watching, Making, Stocking, Rereads
<1>7. GoalFits("close_activity", prog)
  BY <1>1, <1>2, <1>3 DEF GoalFits, Goal, Excused, Picks, PickName
<1> QED
  BY <1>4, <1>5, <1>6, <1>7 DEF Fits

LEMMA CreateQuotationFits ==
  /\ Fits("create_quotation", CreateQuotation)
  /\ Fits("create_rfq", CreateRfq)
  /\ Fits("create_manufacturing_order", CreateManufacturingOrder)
<1> SUFFICES ASSUME NEW prog, prog \in {CreateQuotation, CreateRfq, CreateManufacturingOrder},
                    NEW t \in {"create_quotation", "create_rfq", "create_manufacturing_order"}
             PROVE  Fits(t, prog)
  OBVIOUS
<1>1. /\ Len(prog) = 4 /\ prog[1].do = "resolve" /\ prog[2].do = "resolve"
      /\ prog[3].do = "write" /\ prog[3].what = "create" /\ prog[4].do = "tell"
  <2>1. prog = <<Resolve, Resolve, Do("create"), Tell>>
    BY DEF CreateQuotation, CreateRfq, CreateManufacturingOrder
  <2> QED
    BY <2>1 DEF Resolve, Do, Tell
<1>2. /\ Logs(prog[1]) = {} /\ Sure(prog[1]) = {} /\ Logs(prog[2]) = {} /\ Sure(prog[2]) = {}
      /\ Logs(prog[3]) = {"create"} /\ Sure(prog[3]) = {"create"}
      /\ Logs(prog[4]) = {} /\ Sure(prog[4]) = {}
  BY <1>1 DEF Logs, Sure, Writing, Transient, PickName
<1>3. 1..Len(prog) = {1, 2, 3, 4}
  BY <1>1
<1>4. Shaped(prog)
  BY <1>1, <1>2, <1>3, SkipsMoves DEF Shaped, Plain, Writing, Silent, Picks, Effects, Once, PickNames, Transient
<1>5. GatesFit(prog) /\ ReadsFirst(prog) /\ RefusesFirst(t, prog)
  BY <1>1, <1>2, <1>3 DEF GatesFit, GateAt, GateStep, GateOf, Once, PickNames, ReadsFirst,
     RefusesFirst, Rereads, MayRefuse, AllOrNothing
<1>6. ChecksFit(t, prog) /\ EffectsFit(t, prog) /\ NamesFit(t, prog)
  BY <1>1, <1>2, <1>3 DEF ChecksFit, EffectsFit, NamesFit, Billing, Watching, Making, Stocking, Rereads
<1>7. GoalFits(t, prog)
  BY <1>1, <1>2, <1>3 DEF GoalFits, Goal, Excused, Picks, PickName
<1> QED
  BY <1>4, <1>5, <1>6, <1>7 DEF Fits

LEMMA CreateBulkRfqFits == Fits("create_bulk_rfq", CreateBulkRfq)
<1> SUFFICES ASSUME NEW prog, prog = CreateBulkRfq PROVE Fits("create_bulk_rfq", prog)
  OBVIOUS
<1>1. /\ Len(prog) = 7 /\ prog[1].do = "resolve" /\ prog[2].do = "resolve"
      /\ prog[3].do = "resolve" /\ prog[4].do = "write" /\ prog[4].what = "create"
      /\ prog[5].do = "tell" /\ prog[6].do = "write" /\ prog[6].what = "create"
      /\ prog[7].do = "tell"
  BY DEF CreateBulkRfq, Resolve, Do, Tell
<1>2. /\ Logs(prog[1]) = {} /\ Sure(prog[1]) = {} /\ Logs(prog[2]) = {} /\ Sure(prog[2]) = {}
      /\ Logs(prog[3]) = {} /\ Sure(prog[3]) = {}
      /\ Logs(prog[4]) = {"create"} /\ Sure(prog[4]) = {"create"}
      /\ Logs(prog[5]) = {} /\ Sure(prog[5]) = {}
      /\ Logs(prog[6]) = {"create"} /\ Sure(prog[6]) = {"create"}
      /\ Logs(prog[7]) = {} /\ Sure(prog[7]) = {}
  BY <1>1 DEF Logs, Sure, Writing, Transient, PickName
<1>3. 1..Len(prog) = {1, 2, 3, 4, 5, 6, 7}
  BY <1>1
<1>4. Shaped(prog)
  BY <1>1, <1>2, <1>3, SkipsMoves DEF Shaped, Plain, Writing, Silent, Picks, Effects, Once, PickNames, Transient
<1>5. GatesFit(prog) /\ ReadsFirst(prog) /\ RefusesFirst("create_bulk_rfq", prog)
  BY <1>1, <1>2, <1>3 DEF GatesFit, GateAt, GateStep, GateOf, Once, PickNames, ReadsFirst,
     RefusesFirst, Rereads, MayRefuse, AllOrNothing
<1>6. ChecksFit("create_bulk_rfq", prog) /\ EffectsFit("create_bulk_rfq", prog) /\ NamesFit("create_bulk_rfq", prog)
  BY <1>1, <1>2, <1>3 DEF ChecksFit, EffectsFit, NamesFit, Billing, Watching, Making, Stocking, Rereads
<1>7. GoalFits("create_bulk_rfq", prog)
  BY <1>1, <1>2, <1>3 DEF GoalFits, Goal, Excused, Picks, PickName
<1> QED
  BY <1>4, <1>5, <1>6, <1>7 DEF Fits

LEMMA CreateVendorFits ==
  /\ Fits("create_vendor", CreateVendor)
  /\ Fits("create_lead", CreateLead)
<1> SUFFICES ASSUME NEW prog, prog \in {CreateVendor, CreateLead},
                    NEW t \in {"create_vendor", "create_lead"}
             PROVE  Fits(t, prog)
  OBVIOUS
<1>1. /\ Len(prog) = 1 /\ prog[1].do = "write" /\ prog[1].what = "create"
  <2>1. prog = <<Do("create")>>
    BY DEF CreateVendor, CreateLead
  <2> QED
    BY <2>1 DEF Do
<1>2. /\ Logs(prog[1]) = {"create"} /\ Sure(prog[1]) = {"create"}
  BY <1>1 DEF Logs, Sure, Writing, Transient, PickName
<1>3. 1..Len(prog) = {1}
  BY <1>1
<1>4. Shaped(prog)
  BY <1>1, <1>2, <1>3, SkipsMoves DEF Shaped, Plain, Writing, Silent, Picks, Effects, Once, PickNames, Transient
<1>5. GatesFit(prog) /\ ReadsFirst(prog) /\ RefusesFirst(t, prog)
  BY <1>1, <1>2, <1>3 DEF GatesFit, GateAt, GateStep, GateOf, Once, PickNames, ReadsFirst,
     RefusesFirst, Rereads, MayRefuse, AllOrNothing
<1>6. ChecksFit(t, prog) /\ EffectsFit(t, prog) /\ NamesFit(t, prog)
  BY <1>1, <1>2, <1>3 DEF ChecksFit, EffectsFit, NamesFit, Billing, Watching, Making, Stocking, Rereads
<1>7. GoalFits(t, prog)
  BY <1>1, <1>2, <1>3 DEF GoalFits, Goal, Excused, Picks, PickName
<1> QED
  BY <1>4, <1>5, <1>6, <1>7 DEF Fits

LEMMA UpdateVendorPricingFits == Fits("update_vendor_pricing", UpdateVendorPricing)
<1> SUFFICES ASSUME NEW prog, prog = UpdateVendorPricing PROVE Fits("update_vendor_pricing", prog)
  OBVIOUS
<1>1. /\ Len(prog) = 4 /\ prog[1].do = "resolve" /\ prog[2].do = "resolve" /\ prog[3].do = "look"
      /\ prog[4].do = "write" /\ prog[4].what = "row"
  BY DEF UpdateVendorPricing, Resolve, Do, Look
<1>2. /\ Logs(prog[1]) = {} /\ Sure(prog[1]) = {} /\ Logs(prog[2]) = {} /\ Sure(prog[2]) = {}
      /\ Logs(prog[3]) = {} /\ Sure(prog[3]) = {}
      /\ Logs(prog[4]) = {"row"} /\ Sure(prog[4]) = {"row"}
  BY <1>1 DEF Logs, Sure, Writing, Transient, PickName
<1>3. 1..Len(prog) = {1, 2, 3, 4}
  BY <1>1
<1>4. Shaped(prog)
  BY <1>1, <1>2, <1>3, SkipsMoves DEF Shaped, Plain, Writing, Silent, Picks, Effects, Once, PickNames, Transient
<1>5. GatesFit(prog) /\ ReadsFirst(prog) /\ RefusesFirst("update_vendor_pricing", prog)
  BY <1>1, <1>2, <1>3 DEF GatesFit, GateAt, GateStep, GateOf, Once, PickNames, ReadsFirst,
     RefusesFirst, Rereads, MayRefuse, AllOrNothing
<1>6. ChecksFit("update_vendor_pricing", prog) /\ EffectsFit("update_vendor_pricing", prog) /\ NamesFit("update_vendor_pricing", prog)
  BY <1>1, <1>2, <1>3 DEF ChecksFit, EffectsFit, NamesFit, Billing, Watching, Making, Stocking, Rereads
<1>7. GoalFits("update_vendor_pricing", prog)
  BY <1>1, <1>2, <1>3 DEF GoalFits, Goal, Excused, Picks, PickName
<1> QED
  BY <1>4, <1>5, <1>6, <1>7 DEF Fits

LEMMA InventoryAdjustmentFits == Fits("inventory_adjustment", InventoryAdjustment)
<1> SUFFICES ASSUME NEW prog, prog = InventoryAdjustment PROVE Fits("inventory_adjustment", prog)
  OBVIOUS
<1>1. /\ Len(prog) = 6 /\ prog[1].do = "resolve" /\ prog[2].do = "resolve" /\ prog[3].do = "look"
      /\ prog[4].do = "write" /\ prog[4].what = "row"
      /\ prog[5].do = "try" /\ prog[5].what = "apply" /\ prog[6].do = "tell"
  BY DEF InventoryAdjustment, Resolve, Do, Look, Try, Tell
<1>2. /\ Logs(prog[1]) = {} /\ Sure(prog[1]) = {} /\ Logs(prog[2]) = {} /\ Sure(prog[2]) = {}
      /\ Logs(prog[3]) = {} /\ Sure(prog[3]) = {}
      /\ Logs(prog[4]) = {"row"} /\ Sure(prog[4]) = {"row"}
      /\ Logs(prog[5]) = {"apply"} /\ Sure(prog[5]) = {"apply"}
      /\ Logs(prog[6]) = {} /\ Sure(prog[6]) = {}
  BY <1>1 DEF Logs, Sure, Writing, Transient, PickName
<1>3. 1..Len(prog) = {1, 2, 3, 4, 5, 6}
  BY <1>1
<1>4. Shaped(prog)
  BY <1>1, <1>2, <1>3, SkipsMoves DEF Shaped, Plain, Writing, Silent, Picks, Effects, Once, PickNames, Transient
<1>5. GatesFit(prog) /\ ReadsFirst(prog) /\ RefusesFirst("inventory_adjustment", prog)
  BY <1>1, <1>2, <1>3 DEF GatesFit, GateAt, GateStep, GateOf, Once, PickNames, ReadsFirst,
     RefusesFirst, Rereads, MayRefuse, AllOrNothing
<1>6. ChecksFit("inventory_adjustment", prog) /\ EffectsFit("inventory_adjustment", prog) /\ NamesFit("inventory_adjustment", prog)
  BY <1>1, <1>2, <1>3 DEF ChecksFit, EffectsFit, NamesFit, Billing, Watching, Making, Stocking, Rereads
<1>7. GoalFits("inventory_adjustment", prog)
  BY <1>1, <1>2, <1>3 DEF GoalFits, Goal, Excused, Picks, PickName
<1> QED
  BY <1>4, <1>5, <1>6, <1>7 DEF Fits

LEMMA InternalTransferFits == Fits("internal_transfer", InternalTransfer)
<1> SUFFICES ASSUME NEW prog, prog = InternalTransfer PROVE Fits("internal_transfer", prog)
  OBVIOUS
<1>1. /\ Len(prog) = 9 /\ prog[1].do = "resolve" /\ prog[2].do = "resolve"
      /\ prog[3].do = "resolve" /\ prog[4].do = "resolve"
      /\ prog[5].do = "write" /\ prog[5].what = "create"
      /\ prog[6].do = "write" /\ prog[6].what = "confirm_own"
      /\ prog[7].do = "write" /\ prog[7].what = "assign_own"
      /\ prog[8].do = "check" /\ prog[8].what = "assigned"
      /\ prog[9].do = "try" /\ prog[9].what = "validate_own"
  BY DEF InternalTransfer, Resolve, Do, Try, Check
<1>2. /\ Logs(prog[1]) = {} /\ Sure(prog[1]) = {} /\ Logs(prog[2]) = {} /\ Sure(prog[2]) = {}
      /\ Logs(prog[3]) = {} /\ Sure(prog[3]) = {} /\ Logs(prog[4]) = {} /\ Sure(prog[4]) = {}
      /\ Logs(prog[5]) = {"create"} /\ Sure(prog[5]) = {"create"}
      /\ Logs(prog[6]) = {"confirm_own"} /\ Sure(prog[6]) = {"confirm_own"}
      /\ Logs(prog[7]) = {"assign_own"} /\ Sure(prog[7]) = {"assign_own"}
      /\ Logs(prog[8]) = {} /\ Sure(prog[8]) = {}
      /\ Logs(prog[9]) = {"validate_own"} /\ Sure(prog[9]) = {"validate_own"}
  BY <1>1 DEF Logs, Sure, Writing, Transient, PickName
<1>3. 1..Len(prog) = {1, 2, 3, 4, 5, 6, 7, 8, 9}
  BY <1>1
<1>4. Shaped(prog)
  BY <1>1, <1>2, <1>3, SkipsMoves DEF Shaped, Plain, Writing, Silent, Picks, Effects, Once, PickNames, Transient
<1>5. GatesFit(prog) /\ ReadsFirst(prog) /\ RefusesFirst("internal_transfer", prog)
  BY <1>1, <1>2, <1>3 DEF GatesFit, GateAt, GateStep, GateOf, Once, PickNames, ReadsFirst,
     RefusesFirst, Rereads, MayRefuse, AllOrNothing
<1>6. ChecksFit("internal_transfer", prog) /\ EffectsFit("internal_transfer", prog) /\ NamesFit("internal_transfer", prog)
  BY <1>1, <1>2, <1>3 DEF ChecksFit, EffectsFit, NamesFit, Billing, Watching, Making, Stocking, Rereads
<1>7. GoalFits("internal_transfer", prog)
  BY <1>1, <1>2, <1>3 DEF GoalFits, Goal, Excused, Picks, PickName
<1> QED
  BY <1>4, <1>5, <1>6, <1>7 DEF Fits

LEMMA ScrapProductFits == Fits("scrap_product", ScrapProduct)
<1> SUFFICES ASSUME NEW prog, prog = ScrapProduct PROVE Fits("scrap_product", prog)
  OBVIOUS
<1>1. /\ Len(prog) = 4 /\ prog[1].do = "resolve" /\ prog[2].do = "resolve"
      /\ prog[3].do = "write" /\ prog[3].what = "create"
      /\ prog[4].do = "try" /\ prog[4].what = "validate_own"
  BY DEF ScrapProduct, Resolve, Do, Try
<1>2. /\ Logs(prog[1]) = {} /\ Sure(prog[1]) = {} /\ Logs(prog[2]) = {} /\ Sure(prog[2]) = {}
      /\ Logs(prog[3]) = {"create"} /\ Sure(prog[3]) = {"create"}
      /\ Logs(prog[4]) = {"validate_own"} /\ Sure(prog[4]) = {"validate_own"}
  BY <1>1 DEF Logs, Sure, Writing, Transient, PickName
<1>3. 1..Len(prog) = {1, 2, 3, 4}
  BY <1>1
<1>4. Shaped(prog)
  BY <1>1, <1>2, <1>3, SkipsMoves DEF Shaped, Plain, Writing, Silent, Picks, Effects, Once, PickNames, Transient
<1>5. GatesFit(prog) /\ ReadsFirst(prog) /\ RefusesFirst("scrap_product", prog)
  BY <1>1, <1>2, <1>3 DEF GatesFit, GateAt, GateStep, GateOf, Once, PickNames, ReadsFirst,
     RefusesFirst, Rereads, MayRefuse, AllOrNothing
<1>6. ChecksFit("scrap_product", prog) /\ EffectsFit("scrap_product", prog) /\ NamesFit("scrap_product", prog)
  BY <1>1, <1>2, <1>3 DEF ChecksFit, EffectsFit, NamesFit, Billing, Watching, Making, Stocking, Rereads
<1>7. GoalFits("scrap_product", prog)
  BY <1>1, <1>2, <1>3 DEF GoalFits, Goal, Excused, Picks, PickName
<1> QED
  BY <1>4, <1>5, <1>6, <1>7 DEF Fits

LEMMA CreateBomFits == Fits("create_bom", CreateBom)
<1> SUFFICES ASSUME NEW prog, prog = CreateBom PROVE Fits("create_bom", prog)
  OBVIOUS
<1>1. /\ Len(prog) = 3 /\ prog[1].do = "resolve"
      /\ prog[2].do = "write" /\ prog[2].what = "create" /\ prog[3].do = "tell"
  BY DEF CreateBom, Resolve, Do, Tell
<1>2. /\ Logs(prog[1]) = {} /\ Sure(prog[1]) = {}
      /\ Logs(prog[2]) = {"create"} /\ Sure(prog[2]) = {"create"}
      /\ Logs(prog[3]) = {} /\ Sure(prog[3]) = {}
  BY <1>1 DEF Logs, Sure, Writing, Transient, PickName
<1>3. 1..Len(prog) = {1, 2, 3}
  BY <1>1
<1>4. Shaped(prog)
  BY <1>1, <1>2, <1>3, SkipsMoves DEF Shaped, Plain, Writing, Silent, Picks, Effects, Once, PickNames, Transient
<1>5. GatesFit(prog) /\ ReadsFirst(prog) /\ RefusesFirst("create_bom", prog)
  BY <1>1, <1>2, <1>3 DEF GatesFit, GateAt, GateStep, GateOf, Once, PickNames, ReadsFirst,
     RefusesFirst, Rereads, MayRefuse, AllOrNothing
<1>6. ChecksFit("create_bom", prog) /\ EffectsFit("create_bom", prog) /\ NamesFit("create_bom", prog)
  BY <1>1, <1>2, <1>3 DEF ChecksFit, EffectsFit, NamesFit, Billing, Watching, Making, Stocking, Rereads
<1>7. GoalFits("create_bom", prog)
  BY <1>1, <1>2, <1>3 DEF GoalFits, Goal, Excused, Picks, PickName
<1> QED
  BY <1>4, <1>5, <1>6, <1>7 DEF Fits

LEMMA UpdateBomLinesFits == Fits("update_bom_lines", UpdateBomLines)
<1> SUFFICES ASSUME NEW prog, prog = UpdateBomLines PROVE Fits("update_bom_lines", prog)
  OBVIOUS
<1>1. /\ Len(prog) = 4 /\ prog[1].do = "find" /\ prog[1].what = "any" /\ prog[2].do = "resolve"
      /\ prog[3].do = "write" /\ prog[3].what = "lines" /\ prog[4].do = "tell"
  BY DEF UpdateBomLines, Find, Resolve, Do, Tell
<1>2. /\ Logs(prog[1]) = {} /\ Sure(prog[1]) = {} /\ Logs(prog[2]) = {} /\ Sure(prog[2]) = {}
      /\ Logs(prog[3]) = {"lines"} /\ Sure(prog[3]) = {"lines"}
      /\ Logs(prog[4]) = {} /\ Sure(prog[4]) = {}
  BY <1>1 DEF Logs, Sure, Writing, Transient, PickName
<1>3. 1..Len(prog) = {1, 2, 3, 4}
  BY <1>1
<1>4. Shaped(prog)
  BY <1>1, <1>2, <1>3, SkipsMoves DEF Shaped, Plain, Writing, Silent, Picks, Effects, Once, PickNames, Transient
<1>5. GatesFit(prog) /\ ReadsFirst(prog) /\ RefusesFirst("update_bom_lines", prog)
  BY <1>1, <1>2, <1>3 DEF GatesFit, GateAt, GateStep, GateOf, Once, PickNames, ReadsFirst,
     RefusesFirst, Rereads, MayRefuse, AllOrNothing
<1>6. ChecksFit("update_bom_lines", prog) /\ EffectsFit("update_bom_lines", prog) /\ NamesFit("update_bom_lines", prog)
  BY <1>1, <1>2, <1>3 DEF ChecksFit, EffectsFit, NamesFit, Billing, Watching, Making, Stocking, Rereads
<1>7. GoalFits("update_bom_lines", prog)
  BY <1>1, <1>2, <1>3 DEF GoalFits, Goal, Excused, Picks, PickName
<1> QED
  BY <1>4, <1>5, <1>6, <1>7 DEF Fits

LEMMA LogActivityFits == Fits("log_activity", LogActivity)
<1> SUFFICES ASSUME NEW prog, prog = LogActivity PROVE Fits("log_activity", prog)
  OBVIOUS
<1>1. /\ Len(prog) = 5 /\ prog[1].do = "resolve" /\ prog[2].do = "resolve"
      /\ prog[3].do = "resolve" /\ prog[4].do = "resolve"
      /\ prog[5].do = "write" /\ prog[5].what = "create"
  BY DEF LogActivity, Resolve, Do
<1>2. /\ Logs(prog[1]) = {} /\ Sure(prog[1]) = {} /\ Logs(prog[2]) = {} /\ Sure(prog[2]) = {}
      /\ Logs(prog[3]) = {} /\ Sure(prog[3]) = {} /\ Logs(prog[4]) = {} /\ Sure(prog[4]) = {}
      /\ Logs(prog[5]) = {"create"} /\ Sure(prog[5]) = {"create"}
  BY <1>1 DEF Logs, Sure, Writing, Transient, PickName
<1>3. 1..Len(prog) = {1, 2, 3, 4, 5}
  BY <1>1
<1>4. Shaped(prog)
  BY <1>1, <1>2, <1>3, SkipsMoves DEF Shaped, Plain, Writing, Silent, Picks, Effects, Once, PickNames, Transient
<1>5. GatesFit(prog) /\ ReadsFirst(prog) /\ RefusesFirst("log_activity", prog)
  BY <1>1, <1>2, <1>3 DEF GatesFit, GateAt, GateStep, GateOf, Once, PickNames, ReadsFirst,
     RefusesFirst, Rereads, MayRefuse, AllOrNothing
<1>6. ChecksFit("log_activity", prog) /\ EffectsFit("log_activity", prog) /\ NamesFit("log_activity", prog)
  BY <1>1, <1>2, <1>3 DEF ChecksFit, EffectsFit, NamesFit, Billing, Watching, Making, Stocking, Rereads
<1>7. GoalFits("log_activity", prog)
  BY <1>1, <1>2, <1>3 DEF GoalFits, Goal, Excused, Picks, PickName
<1> QED
  BY <1>4, <1>5, <1>6, <1>7 DEF Fits

LEMMA KindsAre ==
  Kinds = {"sale", "purchase", "mo", "invoice", "picking", "lead", "activity", "other"}
  BY DEF Kinds, ToolsFor

\* Every tool's program has these properties.
LEMMA ToolsFit == \A k \in Kinds : \A t \in ToolsFor[k] : Fits(t, Program[t])
<1> SUFFICES ASSUME NEW k \in Kinds, NEW t \in ToolsFor[k] PROVE Fits(t, Program[t])
  OBVIOUS
<1>1. CASE k \in {"sale", "purchase"}
  <2>1. t \in {"confirm_sale_order", "deliver_order", "update_quotation_lines",
               "flag_order_for_review", "create_invoice_from_order", "confirm_purchase_order",
               "receive_order", "update_rfq_lines", "create_bill_from_po"}
    BY <1>1 DEF ToolsFor
  <2> QED
    BY <2>1, ConfirmSaleOrderFits, DeliverOrderFits, UpdateQuotationLinesFits,
       FlagOrderForReviewFits, CreateInvoiceFromOrderFits, CreateBillFromPoFits DEF Program
<1>2. CASE k \in {"mo", "invoice", "picking", "lead", "activity"}
  <2>1. t \in {"confirm_manufacturing_order", "complete_manufacturing_order", "post_invoice",
               "register_payment", "create_credit_memo", "validate_picking", "return_order",
               "convert_lead", "close_activity"}
    BY <1>2 DEF ToolsFor
  <2> QED
    BY <2>1, ConfirmSaleOrderFits, CompleteManufacturingOrderFits, PostInvoiceFits,
       RegisterPaymentFits, CreateCreditMemoFits, ValidatePickingFits, ReturnOrderFits,
       ConvertLeadFits, CloseActivityFits DEF Program
<1>3. CASE k = "other"
  <2>1. t \in {"create_quotation", "create_rfq", "create_bulk_rfq", "create_vendor",
               "update_vendor_pricing", "inventory_adjustment", "internal_transfer",
               "scrap_product", "create_manufacturing_order", "create_bom",
               "update_bom_lines", "create_lead", "log_activity"}
    BY <1>3 DEF ToolsFor
  <2> QED
    BY <2>1, CreateQuotationFits, CreateBulkRfqFits, CreateVendorFits, UpdateVendorPricingFits,
       InventoryAdjustmentFits, InternalTransferFits, ScrapProductFits, CreateBomFits,
       UpdateBomLinesFits, LogActivityFits DEF Program
<1> QED
  BY <1>1, <1>2, <1>3, KindsAre

\* Which tools never meet on a document.
LEMMA KindsApart ==
  ASSUME NEW k \in Kinds
  PROVE  /\ "none" \notin ToolsFor[k]
         /\ "complete_manufacturing_order" \in ToolsFor[k] => ToolsFor[k] \subseteq Making
         /\ "convert_lead" \in ToolsFor[k] => ToolsFor[k] = {"convert_lead"}
         /\ ToolsFor[k] \cap Billing # {} => ToolsFor[k] \cap Stocking = {}
<1>1. CASE k \in {"sale", "purchase"}
  BY <1>1 DEF ToolsFor, Making, Billing, Stocking
<1>2. CASE k \in {"mo", "invoice", "picking", "lead", "activity"}
  BY <1>2 DEF ToolsFor, Making, Billing, Stocking
<1>3. CASE k = "other"
  BY <1>3 DEF ToolsFor, Making, Billing, Stocking
<1> QED
  BY <1>1, <1>2, <1>3, KindsAre

-----------------------------------------------------------------------------
(* What one step does. *)

Replies == {"none", "ok", "refused", "wizard", "left", "unfinished", "try_again"}
LogEntries == [by : Calls, eff : Effects]
Prog(c) == Program[tool[c]]

OtShape ==
  /\ kind \in Kinds /\ doc \in Docs
  /\ tool \in [Calls -> ToolsFor[kind] \cup {"none"}]
  /\ at \in [Calls -> Nat] /\ saw \in [Calls -> Docs] /\ reply \in [Calls -> Replies]
  /\ log \in Seq(LogEntries) /\ since \in [Calls -> Nat]
  /\ others \in 0..MaxOthers
  /\ \A c \in Calls : /\ at[c] > 0 /\ since[c] <= Len(log)
                      /\ Running(c) => at[c] <= Len(Prog(c))
                      /\ tool[c] = "none" => at[c] = 1 /\ reply[c] = "none"

LEMMA PickDone ==
  ASSUME NEW d \in Docs, NEW n,
         \/ n = [d EXCEPT !.picks[1] = "done", !.due = TRUE]
         \/ n = [d EXCEPT !.picks[2] = "done", !.due = TRUE]
  PROVE  n \in Docs
<1>1. CASE n = [d EXCEPT !.picks[1] = "done", !.due = TRUE]
  BY <1>1 DEF Docs, States, Picks
<1>2. CASE n = [d EXCEPT !.picks[2] = "done", !.due = TRUE]
  BY <1>2 DEF Docs, States, Picks
<1> QED
  BY <1>1, <1>2

\* The effect e makes n of d; no effect takes the document back.
Onward(e, d, n) ==
  /\ n \in Docs
  /\ e \in {"confirm", "post", "convert"} =>
       n.st = IF d.st \in {"draft", "cancel"} THEN "open" ELSE d.st
  /\ e = "pay" => n.st = IF d.st \in {"draft", "cancel", "open"} THEN "in_payment" ELSE d.st
  /\ e \in {"complete", "feedback", "validate"} => n.st = "done"
  /\ e \notin {"confirm", "post", "convert", "pay", "complete", "feedback", "validate"} =>
       n.st = d.st
  /\ n.due <=> e # "invoice" /\ (e \in PickNames \/ d.due)
  /\ n.rows >= d.rows
  /\ e = "invoice" => n.rows > d.rows
  /\ e \notin {"invoice", "row"} => n.rows = d.rows
  /\ \A i \in Picks : n.picks[i] = IF e = PickName[i] THEN "done" ELSE d.picks[i]

LEMMA EffectIs ==
  ASSUME NEW e, NEW d \in Docs, NEW seen \in Docs
  PROVE  Onward(e, d, Effect(e, d, seen))
<1> SUFFICES ASSUME NEW n, n = Effect(e, d, seen) PROVE Onward(e, d, n)
  OBVIOUS
<1>0. \/ n = [d EXCEPT !.picks[1] = "done", !.due = TRUE]
      \/ n = [d EXCEPT !.picks[2] = "done", !.due = TRUE]
      => n \in Docs
  BY PickDone
<1> USE DEF Onward, Docs, States, PickNames, PickName, Picks
<1>1. CASE e \in {"confirm", "post"}
  <2>1. n = Advance(d, {"draft", "cancel"}, "open")
    BY <1>1 DEF Effect
  <2> QED
    BY <1>1, <2>1 DEF Advance
<1>2. CASE e = "pay"
  <2>1. n = Advance(d, {"draft", "cancel", "open"}, "in_payment")
    BY <1>2 DEF Effect
  <2> QED
    BY <1>2, <2>1 DEF Advance
<1>3. CASE e \in {"complete", "feedback", "validate"}
  <2>1. n = [d EXCEPT !.st = "done"]
    BY <1>3 DEF Effect
  <2> QED
    BY <1>3, <2>1
<1>4. CASE e = "invoice"
  <2> DEFINE more == d.rows + 1
  <2>1. n = [d EXCEPT !.due = FALSE, !.rows = more] /\ more \in Nat
    BY <1>4 DEF Effect
  <2> HIDE DEF more
  <2>2. n.st = d.st /\ n.rows = more /\ n.picks = d.picks
    BY <2>1
  <2>3. ~n.due /\ n \in Docs
    BY <2>1
  <2> QED
    BY <1>4, <2>2, <2>3 DEF more
<1>5. CASE e = "convert"
  <2>1. n = [Advance(d, {"draft", "cancel"}, "open") EXCEPT !.partner = FALSE]
    BY <1>5 DEF Effect
  <2> DEFINE m == Advance(d, {"draft", "cancel"}, "open")
  <2>2. /\ m \in Docs /\ m.due = d.due /\ m.rows = d.rows /\ m.picks = d.picks
        /\ m.st = IF d.st \in {"draft", "cancel"} THEN "open" ELSE d.st
    BY DEF Advance
  <2> HIDE DEF m
  <2>3. n = [m EXCEPT !.partner = FALSE]
    BY <2>1 DEF m
  <2>4. n \in Docs /\ n.st = m.st /\ n.due = m.due /\ n.rows = m.rows /\ n.picks = m.picks
    BY <2>2, <2>3
  <2> QED
    BY <1>5, <2>2, <2>4
<1>6. CASE e = "restore"
  <2>1. n = [d EXCEPT !.partner = seen.partner]
    BY <1>6 DEF Effect
  <2> QED
    BY <1>6, <2>1
<1>7. CASE e = "row"
  <2>1. n = [d EXCEPT !.rows = IF seen.rows > 0 THEN @ ELSE @ + 1]
    BY <1>7 DEF Effect
  <2> QED
    BY <1>7, <2>1
<1>8. CASE e = "validate1"
  <2>1. n = [d EXCEPT !.picks[1] = "done", !.due = TRUE]
    BY <1>8 DEF Effect
  <2>2. n.st = d.st /\ n.rows = d.rows /\ n.picks = [d.picks EXCEPT ![1] = "done"]
    BY <2>1
  <2>3. n.due
    BY <2>1
  <2>4. n \in Docs
    BY <1>0, <2>1
  <2> QED
    BY <1>8, <2>2, <2>3, <2>4
<1>9. CASE e = "validate2"
  <2>1. n = [d EXCEPT !.picks[2] = "done", !.due = TRUE]
    BY <1>9 DEF Effect
  <2>2. n.st = d.st /\ n.rows = d.rows /\ n.picks = [d.picks EXCEPT ![2] = "done"]
    BY <2>1
  <2>3. n.due
    BY <2>1
  <2>4. n \in Docs
    BY <1>0, <2>1
  <2> QED
    BY <1>9, <2>2, <2>3, <2>4
<1>10. CASE e \notin {"confirm", "post", "pay", "complete", "feedback", "validate", "invoice",
                      "convert", "restore", "row", "validate1", "validate2"}
  <2>1. n = d
    BY <1>10 DEF Effect
  <2> QED
    BY <1>10, <2>1
<1> QED
  BY <1>1, <1>2, <1>3, <1>4, <1>5, <1>6, <1>7, <1>8, <1>9, <1>10

\* What an outcome says of the document and of what the call has seen.
OutcomeOf(s, c, o) ==
  /\ o.eff \in Transient \cup Logs(s)
  /\ o.then \in {"go", "skip", "refused", "ok", "wizard", "left"}
  /\ o.then = "skip" => Skips(s)
  /\ o.then = "ok" => s.do = "pickings" /\ \A i \in Picks : doc.picks[i] = "done"
  /\ o.then = "refused" => /\ MayRefuse(s)
                           /\ s.do = "check" => s.what # "assigned" /\ ~There(s.what, c)
  /\ s.do = "find" /\ o.then = "go" => Gate(s.what, doc)
  /\ s.do \in {"write", "try"} /\ o.then = "go" => o.eff = s.what
  /\ s.do = "write" => Takes(s.what, doc)
  /\ s.do = "check" /\ o.then = "go" => s.what = "assigned" \/ There(s.what, c)
  /\ s.do = "restore" /\ o.then = "go" => o.eff = "restore" \/ ~saw[c].partner
  /\ s.do = "pick" /\ o.eff # "none" => saw[c].picks[s.what] = "assigned"
  /\ s.do = "pick" /\ o.then = "go" =>
       o.eff = PickName[s.what] \/ saw[c].picks[s.what] # "assigned"

LEMMA OutcomesAre ==
  ASSUME NEW s, Plain(s), NEW c, NEW o \in Outcomes(s, c)
  PROVE  OutcomeOf(s, c, o)
<1> USE DEF Out
<1>1. CASE s.do = "find"
  <2>1. o = Out("none", "refused") \/ (o = Out("none", "go") /\ Gate(s.what, doc))
    BY <1>1 DEF Outcomes
  <2> QED
    BY <1>1, <2>1 DEF OutcomeOf, MayRefuse, Transient
<1>2. CASE s.do = "resolve"
  <2>1. o = Out("none", "refused") \/ o = Out("none", "go")
    BY <1>2 DEF Outcomes
  <2> QED
    BY <1>2, <2>1 DEF OutcomeOf, MayRefuse, Transient
<1>3. CASE s.do = "write"
  <2>1. o = Out(s.what, "go") /\ Takes(s.what, doc)
    BY <1>3 DEF Outcomes
  <2> QED
    BY <1>3, <2>1 DEF OutcomeOf, MayRefuse, Logs, Writing, Transient
<1>4. CASE s.do = "try"
  <2>1. o = Out(s.what, "go") \/ o = Out("none", "wizard")
    BY <1>4 DEF Outcomes
  <2> QED
    BY <1>4, <2>1 DEF OutcomeOf, MayRefuse, Logs, Writing, Transient
<1>5. CASE s.do = "ask"
  <2>1. o = Out(s.what, "go") \/ o = Out("none", "go")
    BY <1>5 DEF Outcomes
  <2> QED
    BY <1>5, <2>1 DEF OutcomeOf, MayRefuse, Logs, Writing, Transient
<1>6. CASE s.do = "check"
  <2>1. \/ o = Out("none", "go") /\ (s.what = "assigned" \/ There(s.what, c))
        \/ o = Out("none", "left")
        \/ o = Out("none", "refused") /\ s.what # "assigned" /\ ~There(s.what, c)
    BY <1>6 DEF Outcomes, CheckOutcomes
  <2> QED
    BY <1>6, <2>1 DEF OutcomeOf, MayRefuse, Transient
<1>7. CASE s.do = "restore"
  <2>1. o = Out("restore", "go") \/ (o = Out("none", "go") /\ ~saw[c].partner)
    BY <1>7 DEF Outcomes
  <2> QED
    BY <1>7, <2>1 DEF OutcomeOf, MayRefuse, Logs, Writing, Transient
<1>8. CASE s.do \in {"tell", "look"}
  <2>1. o = Out("none", "go")
    BY <1>8 DEF Outcomes
  <2> QED
    BY <1>8, <2>1 DEF OutcomeOf, MayRefuse, Transient
<1>9. CASE s.do = "pickings"
  <2>1. \/ o = Out("none", "ok") /\ \A i \in Picks : doc.picks[i] = "done"
        \/ o = Out("none", "refused") \/ o = Out("none", "go")
    BY <1>9 DEF Outcomes, ListOutcomes
  <2> QED
    BY <1>9, <2>1 DEF OutcomeOf, MayRefuse, Transient
<1>10. CASE s.do = "pick"
  <2>1. \/ o = Out("none", "go") /\ saw[c].picks[s.what] # "assigned"
        \/ o = Out("none", "wizard")
        \/ o = Out(PickName[s.what], "go") /\ saw[c].picks[s.what] = "assigned"
    BY <1>10 DEF Outcomes, PickOutcomes
  <2> QED
    BY <1>10, <2>1 DEF OutcomeOf, MayRefuse, Logs, Writing, Transient
<1>11. CASE s.do = "moves"
  <2>1. \/ o = Out("none", "go") \/ o = Out("none", "refused")
        \/ o = Out("none", "skip") /\ ~s.what
    BY <1>11 DEF Outcomes
  <2> QED
    BY <1>11, <2>1 DEF OutcomeOf, MayRefuse, Skips, Transient
<1> QED
  BY <1>1, <1>2, <1>3, <1>4, <1>5, <1>6, <1>7, <1>8, <1>9, <1>10, <1>11
     DEF Plain, Writing, Silent

\* The log grows by one effect of c.
Grown(c, e) ==
  /\ Len(log') = Len(log) + 1 /\ \A i \in 1..Len(log) : log'[i] = log[i]
  /\ log'[Len(log) + 1].by = c /\ log'[Len(log) + 1].eff = e

\* Odoo carries e out, or nothing.
Effected(c, s, e) ==
  /\ e \in Transient \cup Logs(s)
  /\ s.do = "pick" /\ e # "none" => saw[c].picks[s.what] = "assigned"
  /\ doc' = Effect(e, doc, saw[c])
  /\ IF e \in Transient THEN log' = log ELSE e \in Effects /\ Grown(c, e)

GoesTo(c, n) ==
  /\ at' = [at EXCEPT ![c] = n]
  /\ reply' = IF n > Len(Prog(c)) THEN [reply EXCEPT ![c] = "ok"] ELSE reply

Passes(c, s, e) ==
  /\ \E o : /\ OutcomeOf(s, c, o) /\ o.eff = e
            /\ \/ o.then = "go" /\ GoesTo(c, at[c] + 1)
               \/ o.then = "skip" /\ GoesTo(c, at[c] + 3)
  /\ saw' = IF Rereads(s) THEN [saw EXCEPT ![c] = doc] ELSE saw

Stops(c, s, e) ==
  /\ at' = at
  /\ saw' = saw \/ (Rereads(s) /\ saw' = [saw EXCEPT ![c] = doc])
  /\ \E r \in Replies \ {"none"} :
       /\ reply' = [reply EXCEPT ![c] = r]
       /\ r = "ok" => /\ s.do = "pickings" /\ \A i \in Picks : doc.picks[i] = "done"
                      /\ saw' = [saw EXCEPT ![c] = doc]
       /\ r = "refused" => /\ MayRefuse(s)
                           /\ s.do = "check" => s.what # "assigned" /\ ~There(s.what, c)

LEMMA InProgram ==
  ASSUME OtShape, NEW c \in Calls, Running(c)
  PROVE  /\ tool[c] \in ToolsFor[kind] /\ Fits(tool[c], Prog(c))
         /\ at[c] \in 1..Len(Prog(c)) /\ Plain(Prog(c)[at[c]])
         /\ StepOf(c) = Prog(c)[at[c]]
<1>1. tool[c] \in ToolsFor[kind] /\ kind \in Kinds
  BY DEF OtShape, Running
<1>2. Fits(tool[c], Prog(c))
  BY <1>1, ToolsFit DEF Prog
<1>3. at[c] \in 1..Len(Prog(c))
  BY <1>2 DEF OtShape, Fits, Shaped
<1> QED
  BY <1>1, <1>2, <1>3 DEF Fits, Shaped, StepOf, Prog

LEMMA Growth ==
  ASSUME OtShape, NEW c \in Calls, NEW e \in Effects, log' = Append(log, [by |-> c, eff |-> e])
  PROVE  Grown(c, e) /\ log' \in Seq(LogEntries)
<1> DEFINE entry == [by |-> c, eff |-> e]
<1>1. entry \in LogEntries /\ entry.by = c /\ entry.eff = e
  BY DEF LogEntries
<1> HIDE DEF entry
<1>2. log \in Seq(LogEntries)
  BY DEF OtShape
<1>3. log' = Append(log, entry)
  BY DEF entry
<1> QED
  BY <1>1, <1>2, <1>3 DEF Grown

LEMMA Applied ==
  ASSUME OtShape, NEW c \in Calls, NEW s, Plain(s), NEW e \in Transient \cup Logs(s),
         s.do = "pick" /\ e # "none" => saw[c].picks[s.what] = "assigned", Applies(c, e)
  PROVE  Effected(c, s, e) /\ log' \in Seq(LogEntries)
<1>1. CASE e \in Transient
  BY <1>1 DEF Applies, Effected, OtShape
<1>2. CASE e \notin Transient
  <2>1. e \in Effects
    BY <1>2 DEF Logs, Plain, Writing, PickName, Picks, Effects, Once, PickNames
  <2>2. doc' = Effect(e, doc, saw[c]) /\ log' = Append(log, [by |-> c, eff |-> e])
    BY <1>2 DEF Applies
  <2> QED
    BY <1>2, <2>1, <2>2, Growth DEF Effected
<1> QED
  BY <1>1, <1>2

\* A step of a call either passes its step or stops the call.
LEMMA Moved ==
  ASSUME OtShape, NEW c \in Calls, Step(c) \/ Fault(c) \/ Lost(c)
  PROVE  /\ Running(c) /\ log' \in Seq(LogEntries)
         /\ UNCHANGED <<kind, tool, since, met, others>>
         /\ \E e : /\ Effected(c, StepOf(c), e)
                   /\ Passes(c, StepOf(c), e) \/ Stops(c, StepOf(c), e)
<1>1. Running(c) /\ UNCHANGED <<kind, tool, since, met, others>>
  BY DEF Step, Fault, Lost
<1> DEFINE s == StepOf(c)
<1>2. Plain(s) /\ Fits(tool[c], Prog(c)) /\ s = Prog(c)[at[c]]
  BY <1>1, InProgram
<1>3. /\ Failed(c) \in Replies \ {"none", "ok"}
      /\ Failed(c) = "refused" => s.do = "resolve"
  BY <1>2 DEF Failed, Replies, Fits, NamesFit
<1> HIDE DEF s
<1>4. ASSUME Answers(c, Failed(c)), UNCHANGED <<at, saw>>, NEW e PROVE Stops(c, s, e)
  BY <1>3, <1>4 DEF Stops, Answers, MayRefuse
<1>5. CASE Fault(c)
  <2>1. doc' = doc /\ log' = log /\ Answers(c, Failed(c)) /\ UNCHANGED <<at, saw>>
    BY <1>5 DEF Fault
  <2>2. doc' = Effect("none", doc, saw[c])
    BY <2>1 DEF Effect
  <2>3. Effected(c, s, "none")
    BY <2>1, <2>2 DEF Effected, Transient
  <2> QED
    BY <1>1, <1>4, <2>1, <2>3 DEF s, OtShape
<1>6. CASE Lost(c)
  <2>1. PICK o \in Outcomes(s, c) : o.eff # "none" /\ Applies(c, o.eff)
    BY <1>6 DEF Lost, s
  <2>2. OutcomeOf(s, c, o)
    BY <1>2, <2>1, OutcomesAre
  <2>3. Effected(c, s, o.eff) /\ log' \in Seq(LogEntries)
    BY <1>2, <2>1, <2>2, Applied DEF OutcomeOf
  <2>4. Answers(c, Failed(c)) /\ UNCHANGED <<at, saw>>
    BY <1>6 DEF Lost
  <2> QED
    BY <1>1, <1>4, <2>3, <2>4 DEF s
<1>7. CASE Step(c)
  <2>1. PICK o \in Outcomes(s, c) :
           /\ Applies(c, o.eff)
           /\ CASE o.then = "go"   -> GoesOn(c, at[c] + 1)
                [] o.then = "skip" -> GoesOn(c, at[c] + 3)
                [] OTHER           -> Answers(c, o.then) /\ UNCHANGED at
    BY <1>7 DEF Step, s
  <2>2. OutcomeOf(s, c, o)
    BY <1>2, <2>1, OutcomesAre
  <2>3. Effected(c, s, o.eff) /\ log' \in Seq(LogEntries)
    BY <1>2, <2>1, <2>2, Applied DEF OutcomeOf
  <2>4. saw' = IF Rereads(s) THEN [saw EXCEPT ![c] = doc] ELSE saw
    BY <1>7 DEF Step, Remembers, Rereads, s
  <2>5. CASE o.then \in {"go", "skip"}
    <3>1. \/ o.then = "go" /\ GoesTo(c, at[c] + 1)
          \/ o.then = "skip" /\ GoesTo(c, at[c] + 3)
      BY <2>1, <2>5 DEF GoesOn, GoesTo, Answers, Prog
    <3>2. Passes(c, s, o.eff)
      BY <2>2, <2>4, <3>1 DEF Passes
    <3> QED
      BY <1>1, <2>3, <3>2 DEF s
  <2>6. CASE o.then \notin {"go", "skip"}
    <3>1. at' = at /\ reply' = [reply EXCEPT ![c] = o.then]
      BY <2>1, <2>6 DEF Answers
    <3>2. o.then \in Replies \ {"none"}
      BY <2>2, <2>6 DEF OutcomeOf, Replies
    <3>3. Stops(c, s, o.eff)
      BY <2>2, <2>4, <3>1, <3>2 DEF Stops, OutcomeOf, Rereads
    <3> QED
      BY <1>1, <2>3, <3>3 DEF s
  <2> QED
    BY <2>5, <2>6
<1> QED
  BY <1>5, <1>6, <1>7

LEMMA ShapeStarts == OtInit => OtShape
<1> SUFFICES ASSUME OtInit PROVE OtShape
  OBVIOUS
<1>1. doc \in Docs
  BY DEF OtInit, Begins, Docs, States
<1>2. log \in Seq(LogEntries) /\ Len(log) = 0
  BY DEF OtInit
<1>3. others \in 0..MaxOthers
  BY OdooAssumption DEF OtInit
<1>4. \A c \in Calls : tool[c] = "none" /\ at[c] = 1 /\ reply[c] = "none" /\ since[c] = 0
  BY DEF OtInit
<1>5. /\ tool \in [Calls -> ToolsFor[kind] \cup {"none"}] /\ at \in [Calls -> Nat]
      /\ saw \in [Calls -> Docs] /\ reply \in [Calls -> Replies] /\ since \in [Calls -> Nat]
  BY <1>1 DEF OtInit, Replies
<1>6. kind \in Kinds
  BY DEF OtInit
<1> QED
  BY <1>1, <1>2, <1>3, <1>4, <1>5, <1>6 DEF OtShape, Running

LEMMA ShapeKeptMoving ==
  ASSUME OtShape, NEW c \in Calls, Step(c) \/ Fault(c) \/ Lost(c)
  PROVE  OtShape'
<1>1. /\ Running(c) /\ log' \in Seq(LogEntries)
      /\ UNCHANGED <<kind, tool, since, met, others>>
  BY Moved
<1> DEFINE s == StepOf(c)
<1>2. PICK e : Effected(c, s, e) /\ (Passes(c, s, e) \/ Stops(c, s, e))
  BY Moved
<1>3. tool[c] # "none" /\ Fits(tool[c], Prog(c)) /\ at[c] \in 1..Len(Prog(c)) /\ s = Prog(c)[at[c]]
  BY <1>1, InProgram DEF Running
<1> HIDE DEF s
<1>4. doc' \in Docs
  <2>1. doc \in Docs /\ saw[c] \in Docs
    BY DEF OtShape
  <2>2. doc' = Effect(e, doc, saw[c])
    BY <1>2 DEF Effected
  <2> QED
    BY <2>1, <2>2, EffectIs DEF Onward
<1>5. saw' \in [Calls -> Docs]
  BY <1>2 DEF Passes, Stops, OtShape
<1>6. Len(log) <= Len(log')
  BY <1>2 DEF Effected, Grown, OtShape
<1>7. \A b \in Calls : Prog(b)' = Prog(b)
  BY <1>1 DEF Prog
<1>8. CASE Stops(c, s, e)
  <2>1. at' = at
    BY <1>8 DEF Stops
  <2>2. PICK r \in Replies \ {"none"} : reply' = [reply EXCEPT ![c] = r]
    BY <1>8 DEF Stops
  <2> QED
    BY <1>1, <1>3, <1>4, <1>5, <1>6, <1>7, <2>1, <2>2 DEF OtShape, Running
<1>9. CASE Passes(c, s, e)
  <2>1. PICK n \in {at[c] + 1, at[c] + 3} : GoesTo(c, n)
    BY <1>9 DEF Passes
  <2>2. Len(Prog(c)) \in Nat /\ n \in Nat /\ n > 0
    BY <1>3 DEF Fits, Shaped
  <2>3. at' \in [Calls -> Nat] /\ reply' \in [Calls -> Replies]
    BY <2>1, <2>2 DEF GoesTo, OtShape, Replies
  <2>4. \A b \in Calls : b # c => at'[b] = at[b] /\ reply'[b] = reply[b]
    BY <2>1 DEF GoesTo, OtShape
  <2>5. at'[c] = n /\ (reply'[c] = "none" => n <= Len(Prog(c)))
    BY <2>1, <2>2 DEF GoesTo, OtShape
  <2> QED
    BY <1>1, <1>3, <1>4, <1>5, <1>6, <1>7, <2>2, <2>3, <2>4, <2>5 DEF OtShape, Running
<1> QED
  BY <1>2, <1>8, <1>9

LEMMA ShapeKept == OtShape /\ [OtNext]_otVars => OtShape'
<1> SUFFICES ASSUME OtShape, [OtNext]_otVars PROVE OtShape'
  OBVIOUS
<1>1. ASSUME NEW c \in Calls, Begin(c) PROVE OtShape'
  <2>1. PICK t \in ToolsFor[kind] : tool' = [tool EXCEPT ![c] = t]
    BY <1>1 DEF Begin
  <2>2. /\ tool[c] = "none" /\ since' = [since EXCEPT ![c] = Len(log)]
        /\ UNCHANGED <<kind, doc, at, saw, reply, log, others>>
    BY <1>1 DEF Begin
  <2>3. Len(log) \in Nat /\ kind \in Kinds
    BY DEF OtShape
  <2>4. Fits(t, Program[t]) /\ t # "none"
    BY <2>3, ToolsFit, KindsApart
  <2>5. Len(Program[t]) \in Nat /\ Len(Program[t]) > 0
    BY <2>4 DEF Fits, Shaped
  <2>6. \A b \in Calls : b # c => Prog(b)' = Prog(b)
    BY <2>1 DEF Prog, OtShape
  <2>7. Prog(c)' = Program[t] /\ tool'[c] = t
    BY <2>1 DEF Prog, OtShape
  <2>8. \A b \in Calls : b # c => tool'[b] = tool[b] /\ since'[b] = since[b]
    BY <2>1, <2>2 DEF OtShape
  <2>9. /\ tool' \in [Calls -> ToolsFor[kind] \cup {"none"}] /\ since' \in [Calls -> Nat]
        /\ since'[c] = Len(log)
    BY <2>1, <2>2, <2>3 DEF OtShape
  <2>10. \A b \in Calls : /\ at'[b] > 0 /\ since'[b] <= Len(log')
                          /\ tool'[b] # "none" /\ reply'[b] = "none" => at'[b] <= Len(Prog(b)')
                          /\ tool'[b] = "none" => at'[b] = 1 /\ reply'[b] = "none"
    BY <2>2, <2>3, <2>4, <2>5, <2>6, <2>7, <2>8, <2>9 DEF OtShape, Running
  <2> QED
    BY <2>2, <2>9, <2>10 DEF OtShape, Running
<1>2. CASE Others
  <2>1. UNCHANGED <<kind, tool, at, saw, reply, log, since>> /\ others' \in 0..MaxOthers
    BY <1>2, OdooAssumption DEF Others, OtShape
  <2>2. \/ doc' = [doc EXCEPT !.st = "cancel"]
        \/ \E i \in Picks : doc' = [doc EXCEPT !.picks[i] = "assigned"]
        \/ doc' = [doc EXCEPT !.stocked = TRUE]
    BY <1>2 DEF Others
  <2>3. doc \in Docs
    BY DEF OtShape
  <2>4. ASSUME doc' = [doc EXCEPT !.st = "cancel"] PROVE doc' \in Docs
    BY <2>3, <2>4 DEF Docs, States
  <2>5. ASSUME NEW i \in Picks, doc' = [doc EXCEPT !.picks[i] = "assigned"] PROVE doc' \in Docs
    BY <2>3, <2>5 DEF Docs, States
  <2>6. ASSUME doc' = [doc EXCEPT !.stocked = TRUE] PROVE doc' \in Docs
    BY <2>3, <2>6 DEF Docs, States
  <2>7. doc' \in Docs
    BY <2>2, <2>4, <2>5, <2>6
  <2> QED
    BY <2>1, <2>7 DEF OtShape, Running, Prog
<1>3. CASE UNCHANGED otVars
  BY <1>3 DEF otVars, OtShape, Running, Prog
<1> QED
  BY <1>1, <1>2, <1>3, ShapeKeptMoving DEF OtNext

-----------------------------------------------------------------------------
(* An effect behind a gate is not repeated by a call that did not overlap. *)

MetOK == \A b, c \in Calls : b # c /\ Running(b) /\ Running(c) => {b, c} \in met

\* Something was delivered after the effect i.
Delivered(i) == \E k \in i..Len(log) : log[k].eff \in PickNames

\* What is left of an effect in the document, whatever came after it.
Spent(i) ==
  /\ log[i].eff \in {"confirm", "post", "convert", "pay", "complete", "feedback", "validate"} =>
       doc.st \notin {"draft", "cancel"}
  /\ log[i].eff = "pay" => doc.st \in {"in_payment", "done"}
  /\ log[i].eff \in {"complete", "feedback", "validate"} => doc.st = "done"
  /\ \A k \in Picks : log[i].eff = PickName[k] => doc.picks[k] = "done"
  /\ log[i].eff = "invoice" => ~doc.due \/ Delivered(i)

SpentOK == \A i \in 1..Len(log) : Spent(i)

\* c is past the gate of e, and may still do it.
MayDo(c, e) ==
  /\ Running(c) /\ at[c] > GateAt(e)
  /\ \E p \in 1..Len(Prog(c)) : e \in Logs(Prog(c)[p])

\* When a call has passed the gate of an effect, others that did it overlap it.
Cleared(c, e, i) ==
  MayDo(c, e) /\ log[i].eff = e /\ log[i].by # c =>
    \/ {log[i].by, c} \in met
    \/ e = "invoice" /\ Delivered(i)
    \/ \E k \in Picks : e = PickName[k] /\ saw[c].picks[k] # "assigned"

ClearedOK == \A c \in Calls : \A e \in Once : \A i \in 1..Len(log) : Cleared(c, e, i)

OnceInv == OtShape /\ MetOK /\ SpentOK /\ ClearedOK /\ GatedOnce

\* The effects are on the log, the later one by a call that overlaps neither.
LEMMA DeliveredStays ==
  ASSUME OtShape, NEW i \in 1..Len(log), Delivered(i),
         \/ log' = log
         \/ \E c, e : Grown(c, e)
  PROVE  Delivered(i)'
<1>1. Len(log) \in Nat
  BY DEF OtShape
<1>2. PICK k \in i..Len(log) : log[k].eff \in PickNames
  BY DEF Delivered
<1>3. k \in i..Len(log') /\ log'[k] = log[k]
  BY <1>1, <1>2 DEF Grown
<1> QED
  BY <1>2, <1>3 DEF Delivered

LEMMA SpentKept ==
  ASSUME OtShape, SpentOK, NEW c \in Calls, NEW s, Plain(s), NEW e, Effected(c, s, e)
  PROVE  SpentOK'
<1> DEFINE n == doc'
<1>1. doc \in Docs /\ saw[c] \in Docs /\ Len(log) \in Nat
  BY DEF OtShape
<1>2. n = Effect(e, doc, saw[c])
  BY DEF Effected
<1> HIDE DEF n
<1>3. Onward(e, doc, n)
  BY <1>1, <1>2, EffectIs
<1>4. doc.st \in States
  BY <1>1 DEF Docs
<1>5. ASSUME NEW i \in 1..Len(log) PROVE Spent(i)'
  <2>1. Spent(i)
    BY DEF SpentOK
  <2>2. log'[i] = log[i]
    BY DEF Effected, Grown
  <2>3. Delivered(i) => Delivered(i)'
    BY DeliveredStays DEF Effected
  <2>4. log[i].eff = "invoice" => ~n.due \/ Delivered(i)'
    <3>1. CASE e \notin PickNames
      BY <1>3, <2>1, <2>3, <3>1 DEF Spent, Onward
    <3>2. CASE e \in PickNames
      <4>1. Grown(c, e)
        BY <3>2 DEF Effected, PickNames, Transient
      <4>2. Len(log) + 1 \in i..Len(log') /\ log'[Len(log) + 1].eff \in PickNames
        BY <1>1, <3>2, <4>1 DEF Grown
      <4> QED
        BY <4>2 DEF Delivered
    <3> QED
      BY <3>1, <3>2
  <2>5. \A k \in Picks : log[i].eff = PickName[k] => n.picks[k] = "done"
    BY <1>3, <2>1 DEF Spent, Onward
  <2>6. /\ log[i].eff \in {"confirm", "post", "convert", "pay", "complete", "feedback", "validate"} =>
             n.st \notin {"draft", "cancel"}
        /\ log[i].eff = "pay" => n.st \in {"in_payment", "done"}
        /\ log[i].eff \in {"complete", "feedback", "validate"} => n.st = "done"
    BY <1>3, <1>4, <2>1 DEF Spent, States, Onward
  <2> QED
    BY <2>2, <2>4, <2>5, <2>6 DEF Spent, n
<1>6. CASE e \in Transient
  <2>1. log' = log
    BY <1>6 DEF Effected
  <2> QED
    BY <1>5, <2>1 DEF SpentOK
<1>7. CASE e \notin Transient
  <2>1. Grown(c, e)
    BY <1>7 DEF Effected
  <2>2. ASSUME NEW j \in 1..Len(log'), j = Len(log) + 1 PROVE Spent(j)'
    <3>1. log'[Len(log) + 1].eff = e /\ Len(log') = Len(log) + 1
      BY <2>1 DEF Grown
    <3>2. e = "invoice" => ~n.due
      BY <1>3 DEF Onward
    <3>3. \A k \in Picks : e = PickName[k] => n.picks[k] = "done"
      BY <1>3 DEF Onward
    <3>4. /\ e \in {"confirm", "post", "convert", "pay", "complete", "feedback", "validate"} =>
               n.st \notin {"draft", "cancel"}
          /\ e = "pay" => n.st \in {"in_payment", "done"}
          /\ e \in {"complete", "feedback", "validate"} => n.st = "done"
      BY <1>3, <1>4 DEF States, Onward
    <3>5. log'[j].eff = e
      BY <2>2, <3>1
    <3> QED
      BY <3>2, <3>3, <3>4, <3>5 DEF Spent, n
  <2> QED
    BY <1>1, <1>5, <2>1, <2>2 DEF SpentOK, Grown
<1> QED
  BY <1>6, <1>7

LEMMA OnceMoving ==
  ASSUME OnceInv, NEW c \in Calls, Step(c) \/ Fault(c) \/ Lost(c)
  PROVE  MetOK' /\ SpentOK' /\ ClearedOK' /\ GatedOnce'
<1>1. OtShape /\ MetOK /\ SpentOK /\ ClearedOK /\ GatedOnce
  BY DEF OnceInv
<1> DEFINE s == StepOf(c)
<1>2. Running(c) /\ UNCHANGED <<kind, tool, since, met, others>>
  BY <1>1, Moved
<1>3. PICK e : Effected(c, s, e) /\ (Passes(c, s, e) \/ Stops(c, s, e))
  BY <1>1, Moved
<1>4. /\ tool[c] # "none" /\ Fits(tool[c], Prog(c)) /\ Plain(s)
      /\ at[c] \in 1..Len(Prog(c)) /\ s = Prog(c)[at[c]]
  BY <1>1, <1>2, InProgram DEF Running
<1> HIDE DEF s
<1>5. Len(log) \in Nat /\ GatesFit(Prog(c))
  BY <1>1, <1>4 DEF OtShape, Fits
<1>6. \A b \in Calls : Prog(b)' = Prog(b)
  BY <1>2 DEF Prog
<1>7. \A b \in Calls : b # c => at'[b] = at[b] /\ reply'[b] = reply[b] /\ saw'[b] = saw[b]
  BY <1>1, <1>3 DEF Passes, Stops, GoesTo, OtShape
<1>8. \A b \in Calls : Running(b)' => Running(b)
  BY <1>2, <1>7 DEF Running
<1>9. MetOK'
  BY <1>1, <1>2, <1>8 DEF MetOK
<1>10. SpentOK'
  BY <1>1, <1>3, <1>4, SpentKept
<1>11. /\ \A i \in 1..Len(log) : log'[i] = log[i]
       /\ Len(log') = Len(log) \/ (/\ Len(log') = Len(log) + 1 /\ e \in Logs(s)
                                   /\ log'[Len(log) + 1].by = c
                                   /\ log'[Len(log) + 1].eff = e)
  BY <1>3 DEF Effected, Grown
<1>12. \A i \in 1..Len(log) : Delivered(i) => Delivered(i)'
  BY <1>1, <1>3, DeliveredStays DEF Effected
<1>13. ASSUME NEW b \in Calls, NEW f \in Once, NEW i \in 1..Len(log'),
              MayDo(b, f)', log'[i].eff = f, log'[i].by # b
       PROVE  \/ {log'[i].by, b} \in met'
              \/ f = "invoice" /\ Delivered(i)'
              \/ \E k \in Picks : f = PickName[k] /\ saw'[b].picks[k] # "assigned"
  <2>1. CASE b # c
    <3>1. MayDo(b, f)
      BY <1>6, <1>7, <1>8, <1>13, <2>1 DEF MayDo
    <3>2. CASE i \in 1..Len(log)
      <4>1. log[i].eff = f /\ log[i].by = log'[i].by
        BY <1>11, <1>13, <3>2
      <4>2. Cleared(b, f, i)
        BY <1>1, <3>2 DEF ClearedOK
      <4> QED
        BY <1>2, <1>7, <1>12, <1>13, <2>1, <3>1, <3>2, <4>1, <4>2 DEF Cleared
    <3>3. CASE i \notin 1..Len(log)
      <4>1. log'[i].by = c
        BY <1>5, <1>11, <3>3
      <4>2. {c, b} \in met
        BY <1>1, <1>2, <2>1, <3>1 DEF MetOK, MayDo
      <4> QED
        BY <1>2, <4>1, <4>2
    <3> QED
      BY <3>2, <3>3
  <2>2. CASE b = c
    <3>1. i \in 1..Len(log) /\ log[i].eff = f /\ log[i].by = log'[i].by
      BY <1>5, <1>11, <1>13, <2>2
    <3>2. Spent(i)
      BY <1>1, <3>1 DEF SpentOK
    <3>3. Passes(c, s, e)
      <4>1. ~Stops(c, s, e)
        BY <1>1, <1>13, <2>2 DEF Stops, MayDo, Running, OtShape
      <4> QED
        BY <1>3, <4>1
    <3>4. PICK o : /\ OutcomeOf(s, c, o) /\ o.eff = e
                   /\ \/ o.then = "go" /\ GoesTo(c, at[c] + 1)
                      \/ o.then = "skip" /\ GoesTo(c, at[c] + 3)
      BY <3>3 DEF Passes
    <3>5. saw' = IF Rereads(s) THEN [saw EXCEPT ![c] = doc] ELSE saw
      BY <3>3 DEF Passes
    <3>6. PICK p \in 1..Len(Prog(c)) : f \in Logs(Prog(c)[p])
      BY <1>6, <1>13, <2>2 DEF MayDo
    <3>7. /\ GateAt(f) < p /\ GateStep(Prog(c)[GateAt(f)], f)
          /\ \A q \in 1..Len(Prog(c)) : Prog(c)[q].do = "moves" => GateAt(f) < q
          /\ f \in PickNames => \A q \in 1..Len(Prog(c)) : Rereads(Prog(c)[q]) => q <= 2
      BY <1>5, <3>6 DEF GatesFit
    <3>8. at'[c] > GateAt(f) /\ GateAt(f) \in Nat /\ at[c] \in Nat
      BY <1>1, <1>13, <2>2 DEF MayDo, GateAt, OtShape
    <3>9. CASE at[c] > GateAt(f)
      <4>1. MayDo(c, f)
        BY <1>2, <3>6, <3>9 DEF MayDo
      <4>2. Cleared(c, f, i)
        BY <1>1, <3>1 DEF ClearedOK
      <4>3. f \in PickNames => saw' = saw
        BY <1>4, <3>5, <3>7, <3>8, <3>9 DEF GateAt, PickNames
      <4>4. \A k \in Picks : f = PickName[k] => f \in PickNames
        BY DEF Picks, PickName, PickNames
      <4> QED
        BY <1>2, <1>12, <1>13, <2>2, <3>1, <4>1, <4>2, <4>3, <4>4 DEF Cleared
    <3>10. CASE at[c] = GateAt(f)
      <4>1. GateStep(s, f)
        BY <1>4, <3>7, <3>10
      <4>2. o.then = "go"
        BY <3>4, <4>1, SkipsMoves DEF OutcomeOf, GateStep
      <4>3. CASE f = "pay"
        BY <3>1, <3>2, <3>4, <4>1, <4>3 DEF OutcomeOf, GateStep, Takes, Spent
      <4>4. CASE f \in PickNames
        <5>1. PICK k \in Picks : f = PickName[k]
          BY <4>4 DEF Picks, PickNames, PickName
        <5>2. doc.picks[k] = "done"
          BY <3>1, <3>2, <5>1 DEF Spent
        <5>3. saw'[c] = doc
          BY <1>1, <3>5, <4>1, <4>4 DEF GateStep, PickNames, Rereads, OtShape
        <5> QED
          BY <2>2, <5>1, <5>2, <5>3
      <4>5. CASE f # "pay" /\ f \notin PickNames
        <5>1. Gate(GateOf(f), doc)
          BY <3>4, <4>1, <4>2, <4>5 DEF OutcomeOf, GateStep
        <5>2. CASE f = "invoice"
          BY <1>12, <3>1, <3>2, <5>1, <5>2 DEF Gate, GateOf, Spent
        <5>3. CASE f \in {"complete", "feedback", "validate"}
          BY <3>1, <3>2, <5>1, <5>3 DEF Gate, GateOf, Spent
        <5>4. CASE f \in {"confirm", "post", "convert"}
          BY <3>1, <3>2, <5>1, <5>4 DEF Gate, GateOf, Spent
        <5> QED
          BY <4>5, <5>2, <5>3, <5>4 DEF Once
      <4> QED
        BY <4>3, <4>4, <4>5
    <3>11. CASE at[c] < GateAt(f)
      <4>1. s.do # "moves"
        BY <1>4, <3>7, <3>8, <3>11
      <4>2. at'[c] = at[c] + 1
        BY <1>1, <3>4, <4>1, SkipsMoves DEF OutcomeOf, GoesTo, OtShape
      <4> QED
        BY <3>8, <3>11, <4>2
    <3> QED
      BY <3>8, <3>9, <3>10, <3>11
  <2> QED
    BY <2>1, <2>2
<1>14. ClearedOK'
  BY <1>13 DEF ClearedOK, Cleared
<1>15. ASSUME NEW i \in 1..Len(log'), NEW j \in 1..Len(log'), Twice(i, j)', log'[i].eff \in Once
       PROVE  \/ {log'[i].by, log'[j].by} \in met'
              \/ \E k \in i..j : log'[i].eff = "invoice" /\ log'[k].eff \in PickNames
  <2>1. i < j /\ log'[i].eff = log'[j].eff /\ log'[i].by # log'[j].by
    BY <1>15 DEF Twice
  <2>2. i \in 1..Len(log) /\ log'[i] = log[i]
    BY <1>5, <1>11, <2>1
  <2>3. CASE j \in 1..Len(log)
    <3>1. Twice(i, j) /\ log[i].eff \in Once
      BY <1>11, <1>15, <2>1, <2>2, <2>3 DEF Twice
    <3>2. \/ {log[i].by, log[j].by} \in met
          \/ \E k \in i..j : log[i].eff = "invoice" /\ log[k].eff \in PickNames
      BY <1>1, <2>2, <2>3, <3>1 DEF GatedOnce, Once, PickNames
    <3>3. \A k \in i..j : log'[k] = log[k]
      BY <1>5, <1>11, <2>2, <2>3
    <3> QED
      BY <1>2, <1>11, <2>2, <2>3, <3>2, <3>3
  <2>4. CASE j \notin 1..Len(log)
    <3>1. j = Len(log) + 1 /\ e \in Logs(s) /\ log'[j].by = c /\ log'[j].eff = e
      BY <1>5, <1>11, <2>4
    <3>2. e \in Once /\ log[i].eff = e /\ log[i].by # c
      BY <1>15, <2>1, <2>2, <3>1
    <3>3. /\ GateAt(e) < at[c]
          /\ e \in PickNames => s.do = "pick"
      BY <1>4, <1>5, <3>1, <3>2 DEF GatesFit
    <3>4. MayDo(c, e)
      BY <1>2, <1>4, <3>1, <3>3 DEF MayDo, GateAt
    <3>5. Cleared(c, e, i)
      BY <1>1, <2>2, <3>2 DEF ClearedOK
    <3>6. ASSUME NEW k \in Picks, e = PickName[k] PROVE saw[c].picks[k] = "assigned"
      <4>1. e \in PickNames /\ e # "none"
        BY <3>6 DEF Picks, PickName, PickNames
      <4>2. s.do = "pick" /\ saw[c].picks[s.what] = "assigned"
        BY <1>3, <3>3, <4>1 DEF Effected
      <4>3. e = PickName[s.what] /\ s.what \in Picks
        BY <1>4, <3>1, <4>2 DEF Logs, Plain, Writing
      <4>4. s.what = k
        BY <3>6, <4>3 DEF Picks, PickName
      <4> QED
        BY <4>2, <4>4
    <3>7. \/ {log[i].by, c} \in met
          \/ e = "invoice" /\ Delivered(i)
      BY <3>2, <3>4, <3>5, <3>6 DEF Cleared
    <3>8. CASE {log[i].by, c} \in met
      BY <1>2, <2>2, <3>1, <3>8
    <3>9. CASE e = "invoice" /\ Delivered(i)
      <4>1. PICK k \in i..Len(log) : log[k].eff \in PickNames
        BY <3>9 DEF Delivered
      <4>2. k \in i..j /\ log'[k] = log[k]
        BY <1>5, <1>11, <2>2, <3>1, <4>1
      <4> QED
        BY <2>2, <3>2, <3>9, <4>1, <4>2
    <3> QED
      BY <3>7, <3>8, <3>9
  <2> QED
    BY <2>3, <2>4
<1>16. GatedOnce'
  BY <1>15 DEF GatedOnce, Once, PickNames
<1> QED
  BY <1>9, <1>10, <1>14, <1>16

LEMMA OnceStarts == OtInit => OnceInv
<1> SUFFICES ASSUME OtInit PROVE OnceInv
  OBVIOUS
<1>1. Len(log) = 0
  BY DEF OtInit
<1>2. \A c \in Calls : ~Running(c)
  BY DEF OtInit, Running
<1> QED
  BY <1>1, <1>2, ShapeStarts DEF OnceInv, MetOK, SpentOK, ClearedOK, GatedOnce

LEMMA OnceKept == OnceInv /\ [OtNext]_otVars => OnceInv'
<1> SUFFICES ASSUME OnceInv, [OtNext]_otVars PROVE MetOK' /\ SpentOK' /\ ClearedOK' /\ GatedOnce'
  BY ShapeKept DEF OnceInv
<1>1. OtShape /\ MetOK /\ SpentOK /\ ClearedOK /\ GatedOnce
  BY DEF OnceInv
<1>2. ASSUME log' = log PROVE \A i : Delivered(i)' <=> Delivered(i)
  BY <1>2 DEF Delivered
<1>3. ASSUME NEW c \in Calls, Begin(c) PROVE MetOK' /\ SpentOK' /\ ClearedOK' /\ GatedOnce'
  <2>1. PICK t \in ToolsFor[kind] : tool' = [tool EXCEPT ![c] = t]
    BY <1>3 DEF Begin
  <2>2. /\ tool[c] = "none" /\ UNCHANGED <<kind, doc, at, saw, reply, log, others>>
        /\ met' = met \cup {{c, b} : b \in {x \in Calls : Running(x)}}
    BY <1>3 DEF Begin
  <2>3. at'[c] = 1
    BY <1>1, <2>2 DEF OtShape
  <2>4. \A b \in Calls : b # c => (Running(b)' <=> Running(b)) /\ Prog(b)' = Prog(b)
    BY <1>1, <2>1, <2>2 DEF Running, Prog, OtShape
  <2>5. MetOK'
    BY <1>1, <2>2, <2>4 DEF MetOK
  <2>6. SpentOK' /\ GatedOnce'
    BY <1>1, <1>2, <2>2 DEF SpentOK, Spent, GatedOnce, Twice
  <2>7. ASSUME NEW b \in Calls, NEW f \in Once, NEW i \in 1..Len(log'), MayDo(b, f)'
        PROVE  b # c /\ MayDo(b, f)
    <3>1. b # c
      BY <2>3, <2>7 DEF MayDo, GateAt
    <3> QED
      BY <2>2, <2>4, <2>7, <3>1 DEF MayDo
  <2>8. ClearedOK'
    BY <1>1, <1>2, <2>2, <2>7 DEF ClearedOK, Cleared
  <2> QED
    BY <2>5, <2>6, <2>8
<1>4. CASE Others
  <2>1. UNCHANGED <<kind, tool, at, saw, reply, log, since, met>>
    BY <1>4 DEF Others
  <2>2. doc \in Docs
    BY <1>1 DEF OtShape
  <2>3. /\ doc'.st = doc.st \/ (doc.st = "draft" /\ doc'.st = "cancel")
        /\ doc'.due = doc.due
        /\ \A k \in Picks : doc.picks[k] = "done" => doc'.picks[k] = "done"
    <3>1. CASE doc.st = "draft" /\ doc' = [doc EXCEPT !.st = "cancel"]
      BY <2>2, <3>1 DEF Docs
    <3>2. ASSUME NEW k \in Picks, doc.picks[k] = "waiting",
                 doc' = [doc EXCEPT !.picks[k] = "assigned"]
          PROVE  /\ doc'.st = doc.st /\ doc'.due = doc.due
                 /\ \A l \in Picks : doc.picks[l] = "done" => doc'.picks[l] = "done"
      BY <2>2, <3>2 DEF Docs
    <3>3. CASE doc' = [doc EXCEPT !.stocked = TRUE]
      BY <2>2, <3>3 DEF Docs
    <3> QED
      BY <1>4, <3>1, <3>2, <3>3 DEF Others
  <2>4. SpentOK'
    <3>1. ASSUME NEW i \in 1..Len(log) PROVE Spent(i)'
      <4>1. Spent(i)
        BY <1>1 DEF SpentOK
      <4> QED
        BY <1>2, <2>1, <2>3, <4>1 DEF Spent
    <3> QED
      BY <2>1, <3>1 DEF SpentOK
  <2>5. MetOK' /\ GatedOnce'
    BY <1>1, <2>1 DEF MetOK, Running, GatedOnce, Twice
  <2>6. ClearedOK'
    BY <1>1, <1>2, <2>1 DEF ClearedOK, Cleared, MayDo, Running, Prog
  <2> QED
    BY <2>4, <2>5, <2>6
<1>5. CASE UNCHANGED otVars
  <2>1. UNCHANGED <<kind, doc, tool, at, saw, reply, log, since, met, others>>
    BY <1>5 DEF otVars
  <2>2. MetOK' /\ GatedOnce'
    BY <1>1, <2>1 DEF MetOK, Running, GatedOnce, Twice
  <2>3. SpentOK'
    BY <1>1, <1>2, <2>1 DEF SpentOK, Spent
  <2>4. ClearedOK'
    BY <1>1, <1>2, <2>1 DEF ClearedOK, Cleared, MayDo, Running, Prog
  <2> QED
    BY <2>2, <2>3, <2>4
<1> QED
  BY <1>3, <1>4, <1>5, OnceMoving DEF OtNext

\* An effect behind a state gate -- confirming, posting, paying, validating --
\* is repeated by another call only if the two overlapped, or for an invoice
\* something more was delivered in between: asking again after an error does
\* not do it again (sales.py:30, odoo_call.py:104).
THEOREM GatedAlwaysOnce == OtSpec => []GatedOnce
<1>1. OnceInv => GatedOnce
  BY DEF OnceInv
<1> QED
  BY OnceStarts, OnceKept, <1>1, PTL DEF OtSpec

-----------------------------------------------------------------------------
(* An answer is what happened in Odoo. *)

\* An effect is from a step of its call that was passed when the call went on,
\* and a refused call has had none but those a refusal may leave.
FromStep(i) ==
  LET c == log[i].by
  IN  /\ tool[c] # "none" /\ since[c] < i
      /\ \E q \in 1..Len(Prog(c)) : /\ log[i].eff \in Logs(Prog(c)[q])
                                    /\ Running(c) => q < at[c]
      /\ reply[c] = "refused" => /\ log[i].eff \in {"assign", "restore"}
                                 /\ tool[c] \in AllOrNothing => log[i].eff # "assign"

\* What the document says of the effects since the call's first read.
Witness(c) ==
  /\ tool[c] \in Billing =>
       /\ doc.rows > saw[c].rows => "invoice" \in Since(c)
       /\ \A i \in 1..Len(log) :
            log[i].by = c /\ log[i].eff = "invoice" => doc.rows > saw[c].rows
  /\ tool[c] = "complete_manufacturing_order" /\ doc.st = "done" => "complete" \in Since(c)
  /\ tool[c] = "convert_lead" => /\ doc.st \in {"draft", "open", "cancel"}
                                 /\ doc.st = "open" => "convert" \in Since(c)

\* The first n steps of c have done what they are there for.
Passed(c, n) ==
  \A p \in 1..n : \A e \in Sure(Prog(c)[p]) : Excused(c, e) \/ e \in Since(c)

TrueInv ==
  /\ OtShape /\ SpentOK
  /\ \A i \in 1..Len(log) : FromStep(i)
  /\ \A c \in Calls : saw[c].rows <= doc.rows
  /\ \A c \in Calls : Running(c) /\ at[c] > 1 => Witness(c)
  /\ \A c \in Calls : Running(c) => Passed(c, at[c] - 1)
  /\ OkMeansEffect

\* What the read back shows has happened since the call began.
LEMMA ThereIsSince ==
  ASSUME TrueInv, NEW c \in Calls, Running(c), NEW s, s = StepOf(c), s.do = "check",
         s.what # "assigned", There(s.what, c)
  PROVE  s.what \in Since(c)
<1>1. Fits(tool[c], Prog(c)) /\ at[c] \in 1..Len(Prog(c)) /\ s = Prog(c)[at[c]]
  BY InProgram DEF TrueInv
<1>2. /\ s.what \in {"invoice", "complete", "convert", "refund", "return"} /\ at[c] > 1
      /\ s.what = "invoice" => tool[c] \in Billing
      /\ s.what = "complete" => tool[c] = "complete_manufacturing_order"
      /\ s.what = "convert" => tool[c] = "convert_lead"
  BY <1>1 DEF Fits, ChecksFit
<1>3. Witness(c)
  BY <1>2 DEF TrueInv
<1>4. CASE s.what \in {"invoice", "complete", "convert"}
  BY <1>2, <1>3, <1>4 DEF There, Witness
<1>5. CASE s.what \in {"refund", "return"}
  <2>1. s.what \in Made(c)
    BY <1>5 DEF There
  <2>2. PICK i \in 1..Len(log) : log[i].by = c /\ log[i].eff = s.what
    BY <2>1 DEF Made
  <2>3. since[c] < i /\ since[c] \in Nat /\ Len(log) \in Nat
    BY <2>2 DEF TrueInv, FromStep, OtShape
  <2> QED
    BY <2>2, <2>3 DEF Since
<1> QED
  BY <1>2, <1>4, <1>5

\* A call is refused only where what it did is none of the effects it names.
LEMMA RefusalIsClean ==
  ASSUME TrueInv, NEW c \in Calls, Running(c), NEW s, s = StepOf(c), MayRefuse(s),
         s.do = "check" => s.what # "assigned" /\ ~There(s.what, c),
         NEW i \in 1..Len(log), log[i].by = c
  PROVE  /\ log[i].eff \in {"assign", "restore"}
         /\ tool[c] \in AllOrNothing => log[i].eff # "assign"
<1>1. /\ Fits(tool[c], Prog(c)) /\ at[c] \in 1..Len(Prog(c)) /\ s = Prog(c)[at[c]]
  BY InProgram DEF TrueInv
<1>2. PICK q \in 1..Len(Prog(c)) : log[i].eff \in Logs(Prog(c)[q]) /\ q < at[c]
  BY DEF TrueInv, FromStep
<1>3. \/ /\ log[i].eff \in {"assign", "restore"}
         /\ tool[c] \in AllOrNothing => log[i].eff # "assign"
      \/ s.do = "check" /\ s.what \in {log[i].eff, "assigned"}
  BY <1>1, <1>2 DEF Fits, RefusesFirst
<1>4. ASSUME s.do = "check", s.what = log[i].eff PROVE FALSE
  <2>1. /\ s.what \in {"invoice", "complete", "convert", "refund", "return"} /\ at[c] > 1
        /\ s.what = "invoice" => tool[c] \in Billing
        /\ s.what = "convert" => tool[c] = "convert_lead"
    BY <1>1, <1>4 DEF Fits, ChecksFit
  <2>2. Witness(c) /\ Spent(i)
    BY <2>1 DEF TrueInv, SpentOK
  <2>3. CASE s.what = "invoice"
    BY <1>4, <2>1, <2>2, <2>3 DEF Witness, There
  <2>4. CASE s.what = "complete"
    BY <1>4, <2>2, <2>4 DEF Spent, There
  <2>5. CASE s.what = "convert"
    BY <1>4, <2>1, <2>2, <2>5 DEF Spent, Witness, There
  <2>6. CASE s.what \in {"refund", "return"}
    BY <1>4, <2>6 DEF There, Made
  <2> QED
    BY <2>1, <2>3, <2>4, <2>5, <2>6
<1> QED
  BY <1>3, <1>4

LEMMA TrueMoving ==
  ASSUME TrueInv, NEW c \in Calls, Step(c) \/ Fault(c) \/ Lost(c), OtShape'
  PROVE  TrueInv'
<1>1. /\ OtShape /\ SpentOK /\ OkMeansEffect
      /\ \A i \in 1..Len(log) : FromStep(i)
      /\ \A b \in Calls : saw[b].rows <= doc.rows
      /\ \A b \in Calls : Running(b) /\ at[b] > 1 => Witness(b)
      /\ \A b \in Calls : Running(b) => Passed(b, at[b] - 1)
  BY DEF TrueInv
<1> DEFINE s == StepOf(c)
<1>2. Running(c) /\ UNCHANGED <<kind, tool, since, met, others>>
  BY <1>1, Moved
<1>3. PICK e : Effected(c, s, e) /\ (Passes(c, s, e) \/ Stops(c, s, e))
  BY <1>1, Moved
<1>4. /\ tool[c] \in ToolsFor[kind] /\ Fits(tool[c], Prog(c)) /\ Plain(s)
      /\ at[c] \in 1..Len(Prog(c)) /\ s = Prog(c)[at[c]]
  BY <1>1, <1>2, InProgram
<1>5. kind \in Kinds /\ tool[c] # "none" /\ Len(log) \in Nat /\ Len(Prog(c)) \in Nat
  BY <1>1, <1>2, <1>4 DEF OtShape, Running, Fits, Shaped
<1>6. s.do = "check" /\ s.what # "assigned" /\ There(s.what, c) => s.what \in Since(c)
  BY <1>2, ThereIsSince
<1>7. MayRefuse(s) /\ (s.do = "check" => s.what # "assigned" /\ ~There(s.what, c)) =>
        \A i \in 1..Len(log) : log[i].by = c =>
          /\ log[i].eff \in {"assign", "restore"}
          /\ tool[c] \in AllOrNothing => log[i].eff # "assign"
  BY <1>2, RefusalIsClean
<1> HIDE DEF s
<1>8. \A b \in Calls : Prog(b)' = Prog(b)
  BY <1>2 DEF Prog
<1>9. \A b \in Calls : b # c => at'[b] = at[b] /\ reply'[b] = reply[b] /\ saw'[b] = saw[b]
  BY <1>1, <1>3 DEF Passes, Stops, GoesTo, OtShape
<1>10. \A b \in Calls : Running(b)' => Running(b)
  BY <1>2, <1>9 DEF Running
<1>11. SpentOK'
  BY <1>1, <1>3, <1>4, SpentKept
<1>12. /\ \A i \in 1..Len(log) : log'[i] = log[i]
       /\ \/ e \in Transient /\ log' = log
          \/ /\ Len(log') = Len(log) + 1 /\ e \in Logs(s)
             /\ log'[Len(log) + 1].by = c /\ log'[Len(log) + 1].eff = e
  BY <1>3 DEF Effected, Grown
<1>13. Onward(e, doc, doc')
  <2>1. doc \in Docs /\ saw[c] \in Docs
    BY <1>1 DEF OtShape
  <2> QED
    BY <1>3, <2>1, EffectIs DEF Effected
<1>14. ASSUME NEW b \in Calls PROVE Since(b) \subseteq Since(b)'
  <2>1. since[b] \in Nat
    BY <1>1 DEF OtShape
  <2> QED
    BY <1>2, <1>5, <1>12, <2>1 DEF Since
<1>15. ASSUME NEW b \in Calls, e \notin Transient PROVE e \in Since(b)'
  <2>1. since'[b] = since[b] /\ since[b] \in Nat /\ since[b] <= Len(log)
    BY <1>1, <1>2 DEF OtShape
  <2>2. Len(log) + 1 \in since'[b] + 1..Len(log') /\ log'[Len(log) + 1].eff = e
    BY <1>5, <1>12, <1>15, <2>1
  <2> QED
    BY <2>2 DEF Since
<1>16. ASSUME Passes(c, s, e)
       PROVE  /\ at'[c] \in {at[c] + 1, at[c] + 3} /\ at'[c] > at[c]
              /\ saw' = IF Rereads(s) THEN [saw EXCEPT ![c] = doc] ELSE saw
              /\ reply'[c] = IF at'[c] > Len(Prog(c)) THEN "ok" ELSE "none"
  BY <1>1, <1>2, <1>4, <1>16 DEF Passes, GoesTo, OtShape, Running
<1>17. ASSUME Stops(c, s, e) PROVE reply'[c] # "none" /\ at' = at /\ ~Running(c)'
  BY <1>1, <1>17 DEF Stops, OtShape, Running
<1>18. ASSUME NEW i \in 1..Len(log') PROVE FromStep(i)'
  <2>1. CASE i \in 1..Len(log)
    <3>1. log'[i] = log[i] /\ FromStep(i)
      BY <1>1, <1>12, <2>1
    <3>2. PICK b \in Calls : b = log[i].by
      <4>1. log[i] \in LogEntries
        BY <1>1, <2>1 DEF OtShape
      <4> QED
        BY <4>1 DEF LogEntries
    <3>3. since'[b] = since[b] /\ tool'[b] = tool[b] /\ Prog(b)' = Prog(b)
      BY <1>2, <1>8, <3>2
    <3>4. PICK q \in 1..Len(Prog(b)) : /\ log[i].eff \in Logs(Prog(b)[q])
                                       /\ Running(b) => q < at[b]
      BY <3>1, <3>2 DEF FromStep
    <3>5. Running(b)' => q < at'[b]
      <4>1. CASE b # c
        BY <1>9, <1>10, <3>2, <3>4, <4>1
      <4>2. CASE b = c
        BY <1>2, <1>3, <1>4, <1>16, <1>17, <3>4, <4>2
      <4> QED
        BY <4>1, <4>2
    <3>6. reply'[b] = "refused" => /\ log[i].eff \in {"assign", "restore"}
                                   /\ tool[b] \in AllOrNothing => log[i].eff # "assign"
      <4>1. CASE b # c
        BY <1>9, <3>1, <3>2, <4>1 DEF FromStep
      <4>2. CASE b = c /\ Passes(c, s, e)
        BY <1>16, <4>2
      <4>3. CASE b = c /\ Stops(c, s, e)
        <5>1. reply'[c] = "refused" =>
                MayRefuse(s) /\ (s.do = "check" => s.what # "assigned" /\ ~There(s.what, c))
          BY <1>1, <4>3 DEF Stops, OtShape
        <5> QED
          BY <1>7, <2>1, <3>2, <4>3, <5>1
      <4> QED
        BY <1>3, <4>1, <4>2, <4>3
    <3> QED
      BY <3>1, <3>2, <3>3, <3>4, <3>5, <3>6 DEF FromStep
  <2>2. CASE i \notin 1..Len(log)
    <3>1. i = Len(log) + 1 /\ log'[i].by = c /\ log'[i].eff = e /\ e \in Logs(s)
      BY <1>5, <1>12, <2>2
    <3>2. tool'[c] # "none" /\ since'[c] < i
      BY <1>1, <1>2, <1>5, <3>1 DEF OtShape
    <3>3. at[c] \in 1..Len(Prog(c)') /\ e \in Logs(Prog(c)'[at[c]])
      BY <1>4, <1>8, <3>1
    <3>4. Running(c)' => at[c] < at'[c]
      BY <1>3, <1>16, <1>17
    <3>5. reply'[c] # "refused"
      <4>1. CASE Passes(c, s, e)
        BY <1>16, <4>1
      <4>2. CASE Stops(c, s, e)
        BY <1>1, <3>1, <4>2 DEF Stops, OtShape, MayRefuse, Logs, Writing
      <4> QED
        BY <1>3, <4>1, <4>2
    <3> QED
      BY <3>1, <3>2, <3>3, <3>4, <3>5 DEF FromStep
  <2> QED
    BY <2>1, <2>2
<1>19. ASSUME NEW b \in Calls PROVE saw'[b].rows <= doc'.rows
  <2>1. doc.rows <= doc'.rows /\ saw'[b] \in {saw[b], doc}
    BY <1>1, <1>3, <1>13 DEF Onward, Passes, Stops, OtShape
  <2>2. saw[b].rows \in Nat /\ doc.rows \in Nat /\ doc'.rows \in Nat
    BY <1>1, <1>13 DEF OtShape, Docs, Onward
  <2> QED
    BY <1>1, <2>1, <2>2
\* What an effect changes of the witnesses, it leaves on the log.
<1>20. /\ e \in {"complete", "feedback", "validate"} => e \notin Transient /\ e \in Logs(s)
       /\ e \in {"confirm", "post", "convert", "pay", "invoice", "row"} =>
            e \notin Transient /\ e \in Logs(s)
  BY <1>3 DEF Effected, Transient
<1>21. ASSUME NEW b \in Calls, Running(b)', Witness(b), saw'[b] = saw[b]
       PROVE  Witness(b)'
  <2>1. tool'[b] = tool[b] /\ tool[b] \in ToolsFor[kind]
    BY <1>1, <1>2, <1>10, <1>21, InProgram
  <2>2. doc.rows \in Nat /\ doc'.rows \in Nat /\ saw[b].rows \in Nat /\ doc'.rows >= doc.rows
    BY <1>1, <1>13 DEF OtShape, Docs, Onward
  <2>3. ASSUME tool[b] \in Billing
        PROVE  /\ doc'.rows > saw[b].rows => "invoice" \in Since(b)'
               /\ \A i \in 1..Len(log') :
                    log'[i].by = b /\ log'[i].eff = "invoice" => doc'.rows > saw[b].rows
    <3>1. e # "row"
      <4>1. tool[c] \notin Stocking
        BY <1>4, <1>5, <2>1, <2>3, KindsApart
      <4> QED
        BY <1>4, <1>20, <4>1 DEF Fits, EffectsFit
    <3>2. CASE e = "invoice"
      <4>1. doc'.rows > saw[b].rows
        BY <1>1, <1>13, <2>2, <3>2 DEF Onward
      <4>2. "invoice" \in Since(b)'
        BY <1>15, <1>20, <3>2
      <4> QED
        BY <4>1, <4>2
    <3>3. CASE e # "invoice"
      <4>1. doc'.rows = doc.rows
        BY <1>13, <3>1, <3>3 DEF Onward
      <4>2. \A i \in 1..Len(log') :
              log'[i].eff = "invoice" => i \in 1..Len(log) /\ log'[i] = log[i]
        BY <1>5, <1>12, <3>3
      <4> QED
        BY <1>14, <1>21, <2>3, <4>1, <4>2 DEF Witness
    <3> QED
      BY <3>2, <3>3
  <2>4. ASSUME tool[b] = "complete_manufacturing_order", doc'.st = "done"
        PROVE  "complete" \in Since(b)'
    <3>1. CASE doc.st = "done"
      BY <1>14, <1>21, <2>4, <3>1 DEF Witness
    <3>2. CASE doc.st # "done"
      <4>1. e \in {"complete", "feedback", "validate"}
        BY <1>13, <2>4, <3>2 DEF Onward
      <4>2. tool[c] \in Making
        BY <1>4, <1>5, <2>1, <2>4, KindsApart
      <4>3. e = "complete"
        BY <1>4, <1>20, <4>1, <4>2 DEF Fits, EffectsFit
      <4> QED
        BY <1>15, <1>20, <4>3
    <3> QED
      BY <3>1, <3>2
  <2>5. ASSUME tool[b] = "convert_lead"
        PROVE  /\ doc'.st \in {"draft", "open", "cancel"}
               /\ doc'.st = "open" => "convert" \in Since(b)'
    <3>1. tool[c] = "convert_lead"
      BY <1>4, <1>5, <2>1, <2>5, KindsApart
    <3>2. e \in Logs(s) => e \in {"convert", "restore"}
      BY <1>4, <3>1 DEF Fits, EffectsFit
    <3>3. CASE e = "convert"
      <4>1. "convert" \in Since(b)'
        BY <1>15, <1>20, <3>3
      <4> QED
        BY <1>13, <1>21, <2>5, <3>3, <4>1 DEF Onward, Witness
    <3>4. CASE e # "convert"
      <4>1. doc'.st = doc.st
        BY <1>13, <1>20, <3>2, <3>4 DEF Onward
      <4> QED
        BY <1>14, <1>21, <2>5, <4>1 DEF Witness
    <3> QED
      BY <3>3, <3>4
  <2> QED
    BY <1>21, <2>1, <2>3, <2>4, <2>5 DEF Witness
<1>22. ASSUME NEW b \in Calls, Running(b)', at'[b] > 1 PROVE Witness(b)'
  <2>1. CASE b # c
    BY <1>1, <1>9, <1>10, <1>21, <1>22, <2>1
  <2>2. tool'[c] = tool[c]
    BY <1>2
  <2>3. CASE b = c /\ tool[c] \notin Watching
    BY <2>2, <2>3 DEF Witness, Watching
  <2>4. CASE b = c /\ tool[c] \in Watching
    <3>1. Passes(c, s, e)
      BY <1>3, <1>17, <1>22, <2>4
    <3>2. Prog(c)[1].do = "find" /\ \A q \in 1..Len(Prog(c)) : Rereads(Prog(c)[q]) => q = 1
      BY <1>4, <2>4 DEF Fits, NamesFit
    <3>3. CASE at[c] > 1
      <4>1. saw' = saw
        BY <1>4, <1>16, <3>1, <3>2, <3>3
      <4> QED
        BY <1>1, <1>2, <1>21, <1>22, <2>4, <3>3, <4>1
    <3>4. CASE at[c] = 1
      <4>1. s.do = "find"
        BY <1>4, <3>2, <3>4
      <4>2. log' = log /\ e \in Transient
        BY <1>12, <4>1 DEF Logs, Writing
      <4>3. doc'.st = doc.st /\ doc'.rows = doc.rows
        BY <1>13, <4>2 DEF Onward, Transient
      <4>4. saw'[c] = doc
        BY <1>1, <1>16, <3>1, <4>1 DEF Rereads, OtShape
      <4>5. Gate(s.what, doc)
        BY <3>1, <4>1, SkipsMoves DEF Passes, OutcomeOf
      <4>6. /\ tool[c] = "complete_manufacturing_order" => s.what = "open"
            /\ tool[c] = "convert_lead" => s.what = "draft"
        BY <1>4, <3>4 DEF Fits, NamesFit
      <4>7. \A i \in 1..Len(log') : log'[i].by # c
        BY <1>1, <1>2, <3>4, <4>2 DEF FromStep
      <4>8. tool[c] = "complete_manufacturing_order" => doc'.st # "done"
        BY <4>3, <4>5, <4>6 DEF Gate
      <4>9. tool[c] = "convert_lead" => doc'.st = "draft"
        BY <4>3, <4>5, <4>6 DEF Gate
      <4>10. doc.rows \in Nat
        BY <1>1 DEF OtShape, Docs
      <4> QED
        BY <2>2, <2>4, <4>3, <4>4, <4>7, <4>8, <4>9, <4>10 DEF Witness
    <3> QED
      BY <1>4, <3>3, <3>4
  <2> QED
    BY <2>1, <2>3, <2>4
\* The steps passed before stay passed.
<1>23. ASSUME NEW b \in Calls, NEW n \in Nat, Passed(b, n), b # c \/ (n < at[c] /\ Passes(c, s, e))
       PROVE  Passed(b, n)'
  <2>1. ASSUME NEW p \in 1..n, NEW f \in Sure(Prog(b)[p])
        PROVE  Excused(b, f)' \/ f \in Since(b)'
    <3>1. Excused(b, f) \/ f \in Since(b)
      BY <1>23, <2>1 DEF Passed
    <3>2. CASE saw'[b] = saw[b]
      BY <1>14, <3>1, <3>2 DEF Excused
    <3>3. CASE saw'[b] # saw[b]
      <4>1. b = c /\ Rereads(s) /\ p < at[c] /\ p \in 1..Len(Prog(c))
        BY <1>4, <1>5, <1>9, <1>16, <1>23, <3>3
      <4>2. f \notin {"restore"} \cup PickNames
        BY <1>4, <2>1, <4>1 DEF Fits, ReadsFirst
      <4>3. \A k \in Picks : f # PickName[k]
        BY <4>2 DEF Picks, PickName, PickNames
      <4> QED
        BY <1>14, <3>1, <4>2, <4>3 DEF Excused
    <3> QED
      BY <3>2, <3>3
  <2> QED
    BY <1>8, <2>1 DEF Passed
<1>24. ASSUME Passes(c, s, e), NEW n \in Nat, at'[c] = n + 1 PROVE Passed(c, n)'
  <2>1. PICK m \in Nat : at[c] = m + 1 /\ Passed(c, m)'
    <3>1. PICK m \in Nat : m = at[c] - 1
      BY <1>4, <1>5
    <3>2. Passed(c, m) /\ m < at[c] /\ at[c] = m + 1
      BY <1>1, <1>2, <1>4, <1>5, <3>1
    <3> QED
      BY <1>23, <1>24, <3>2
  <2>2. PICK o : /\ OutcomeOf(s, c, o) /\ o.eff = e
                 /\ \/ o.then = "go" /\ GoesTo(c, at[c] + 1)
                    \/ o.then = "skip" /\ GoesTo(c, at[c] + 3)
    BY <1>24 DEF Passes
  <2>3. CASE o.then = "go"
    <3>1. n = at[c]
      BY <1>1, <1>4, <1>5, <1>24, <2>2, <2>3 DEF GoesTo, OtShape
    <3>2. ASSUME NEW f \in Sure(s) PROVE Excused(c, f)' \/ f \in Since(c)'
      <4>1. CASE s.do \in {"write", "try"}
        BY <1>15, <2>2, <2>3, <3>2, <4>1 DEF Sure, OutcomeOf
      <4>2. CASE s.do = "check"
        BY <1>6, <1>14, <2>2, <2>3, <3>2, <4>2 DEF Sure, OutcomeOf
      <4>3. CASE s.do = "restore"
        <5>1. f = "restore" /\ saw' = saw
          BY <1>16, <1>24, <3>2, <4>3 DEF Sure, Rereads
        <5>2. CASE e = "restore"
          BY <1>15, <5>1, <5>2 DEF Transient
        <5>3. CASE ~saw[c].partner
          BY <5>1, <5>3 DEF Excused
        <5> QED
          BY <2>2, <2>3, <4>3, <5>2, <5>3 DEF OutcomeOf
      <4>4. CASE s.do = "pick"
        <5>1. f = PickName[s.what] /\ s.what \in Picks /\ saw' = saw
          BY <1>4, <1>16, <1>24, <3>2, <4>4 DEF Sure, Rereads, Plain
        <5>2. CASE e = PickName[s.what]
          <6>1. e \notin Transient
            BY <5>1, <5>2 DEF Picks, PickName, Transient
          <6> QED
            BY <1>15, <5>1, <5>2, <6>1
        <5>3. CASE saw[c].picks[s.what] # "assigned"
          BY <5>1, <5>3 DEF Excused
        <5> QED
          BY <2>2, <2>3, <4>4, <5>2, <5>3 DEF OutcomeOf
      <4> QED
        BY <3>2, <4>1, <4>2, <4>3, <4>4 DEF Sure
    <3> QED
      BY <1>4, <1>5, <1>8, <2>1, <3>1, <3>2 DEF Passed
  <2>4. CASE o.then = "skip"
    <3>1. n = at[c] + 2 /\ Skips(s)
      BY <1>1, <1>4, <1>5, <1>24, <2>2, <2>4 DEF GoesTo, OtShape, OutcomeOf
    <3>2. Sure(s) = {}
      BY <3>1, SkipsMoves DEF Sure
    <3>3. Sure(Prog(c)[at[c] + 1]) = {"assign"} /\ Sure(Prog(c)[at[c] + 2]) = {}
      BY <1>4, <3>1 DEF Fits, Shaped
    <3>4. \A p \in 1..n : p \in 1..m \/ p \in {at[c], at[c] + 1, at[c] + 2}
      BY <2>1, <3>1
    <3>5. Excused(c, "assign")'
      BY DEF Excused
    <3> QED
      BY <1>4, <1>8, <2>1, <3>2, <3>3, <3>4, <3>5 DEF Passed
  <2> QED
    BY <2>2, <2>3, <2>4
<1>25. ASSUME NEW b \in Calls, Running(b)', NEW n \in Nat, at'[b] = n + 1 PROVE Passed(b, n)'
  <2>1. CASE b # c
    <3>1. at[b] = n + 1 /\ Passed(b, at[b] - 1)
      BY <1>1, <1>9, <1>10, <1>25, <2>1
    <3>2. at[b] - 1 = n
      BY <3>1
    <3> QED
      BY <1>23, <2>1, <3>1, <3>2
  <2>2. CASE b = c
    BY <1>3, <1>17, <1>24, <1>25, <2>2
  <2> QED
    BY <2>1, <2>2
<1>26. ASSUME NEW b \in Calls, reply'[b] = "ok" PROVE Goal(b)' \subseteq Since(b)'
  <2>1. ASSUME saw'[b] = saw[b] PROVE Goal(b)' = Goal(b)
    BY <1>2, <2>1 DEF Goal
  <2>2. CASE b # c
    BY <1>1, <1>9, <1>14, <1>26, <2>1, <2>2 DEF OkMeansEffect
  <2>3. CASE b = c /\ Passes(c, s, e)
    <3>1. at'[c] > Len(Prog(c)) /\ at'[c] \in Nat
      BY <1>4, <1>16, <1>26, <2>3
    <3>6. PICK n \in Nat : at'[c] = n + 1 /\ n >= Len(Prog(c))
      <4>1. PICK n \in Nat : n = at'[c] - 1
        BY <1>5, <3>1
      <4> QED
        BY <1>5, <3>1, <4>1
    <3>7. Passed(c, n)'
      BY <1>24, <2>3, <3>6
    <3>2. ~Rereads(s)
      <4>1. ~Rereads(Prog(c)[Len(Prog(c))])
        BY <1>4 DEF Fits, NamesFit
      <4>2. at'[c] = at[c] + 1 \/ Skips(s)
        BY <1>1, <2>3 DEF Passes, GoesTo, OtShape, OutcomeOf
      <4> QED
        BY <1>4, <1>5, <3>1, <4>1, <4>2, SkipsMoves DEF Rereads
    <3>3. saw' = saw
      BY <1>16, <2>3, <3>2
    <3>4. \A f \in Goal(c) : ~Excused(c, f) /\ \E p \in 1..Len(Prog(c)) : f \in Sure(Prog(c)[p])
      BY <1>4 DEF Fits, GoalFits
    <3>5. ASSUME NEW f \in Goal(c) PROVE f \in Since(c)'
      <4>1. PICK p \in 1..Len(Prog(c)) : f \in Sure(Prog(c)[p])
        BY <3>4
      <4>2. Excused(c, f)' \/ f \in Since(c)'
        BY <1>5, <1>8, <3>6, <3>7, <4>1 DEF Passed
      <4>3. ~Excused(c, f)'
        BY <3>3, <3>4 DEF Excused
      <4> QED
        BY <4>2, <4>3
    <3> QED
      BY <2>1, <2>3, <3>3, <3>5
  <2>4. CASE b = c /\ Stops(c, s, e)
    <3>1. s.do = "pickings" /\ saw'[c] = doc /\ \A i \in Picks : doc.picks[i] = "done"
      BY <1>1, <1>26, <2>4 DEF Stops, OtShape
    <3>2. tool'[c] \in {"deliver_order", "receive_order"}
      BY <1>2, <1>4, <3>1 DEF Fits, NamesFit
    <3>3. Goal(c)' = {}
      BY <3>1, <3>2 DEF Goal
    <3> QED
      BY <2>4, <3>3
  <2> QED
    BY <1>3, <2>2, <2>3, <2>4
<1>27. ASSUME NEW b \in Calls, Running(b)' PROVE Passed(b, at[b] - 1)'
  <2>1. PICK n \in Nat : at'[b] = n + 1
    <3>1. at'[b] \in Nat /\ at'[b] > 0
      BY DEF OtShape
    <3> QED
      BY <3>1
  <2> QED
    BY <1>25, <1>27, <2>1 DEF Passed
<1> QED
  BY <1>11, <1>18, <1>19, <1>22, <1>26, <1>27 DEF TrueInv, OkMeansEffect

LEMMA TrueStarts == OtInit => TrueInv
<1> SUFFICES ASSUME OtInit PROVE TrueInv
  OBVIOUS
<1>1. Len(log) = 0
  BY DEF OtInit
<1>2. \A c \in Calls : ~Running(c) /\ reply[c] = "none" /\ saw[c] = doc
  BY DEF OtInit, Running
<1>3. OtShape /\ doc.rows \in Nat
  BY ShapeStarts DEF OtInit, Begins
<1> QED
  BY <1>1, <1>2, <1>3 DEF TrueInv, SpentOK, OkMeansEffect

\* What others do to a document leaves what the effects left in it.
LEMMA TrueWithOthers ==
  ASSUME TrueInv, OtShape', Others
  PROVE  TrueInv'
<1>1. UNCHANGED <<kind, tool, at, saw, reply, log, since, met>>
  BY DEF Others
<1>2. doc \in Docs
  BY DEF TrueInv, OtShape
<1>3. /\ doc'.st = doc.st \/ (doc.st = "draft" /\ doc'.st = "cancel")
      /\ doc'.due = doc.due /\ doc'.rows = doc.rows
      /\ \A k \in Picks : doc.picks[k] = "done" => doc'.picks[k] = "done"
  <2>1. CASE doc.st = "draft" /\ doc' = [doc EXCEPT !.st = "cancel"]
    BY <1>2, <2>1 DEF Docs
  <2>2. ASSUME NEW k \in Picks, doc.picks[k] = "waiting",
               doc' = [doc EXCEPT !.picks[k] = "assigned"]
        PROVE  /\ doc'.st = doc.st /\ doc'.due = doc.due /\ doc'.rows = doc.rows
               /\ \A l \in Picks : doc.picks[l] = "done" => doc'.picks[l] = "done"
    BY <1>2, <2>2 DEF Docs
  <2>3. CASE doc' = [doc EXCEPT !.stocked = TRUE]
    BY <1>2, <2>3 DEF Docs
  <2> QED
    BY <2>1, <2>2, <2>3 DEF Others
<1>4. SpentOK'
  <2>1. ASSUME NEW i \in 1..Len(log) PROVE Spent(i)'
    <3>1. Spent(i) /\ (Delivered(i) => Delivered(i)')
      BY <1>1 DEF TrueInv, SpentOK, Delivered
    <3> QED
      BY <1>1, <1>3, <3>1 DEF Spent
  <2> QED
    BY <1>1, <2>1 DEF SpentOK
<1>5. \A i \in 1..Len(log') : FromStep(i)'
  BY <1>1 DEF TrueInv, FromStep, Running, Prog
<1>6. ASSUME NEW c \in Calls PROVE Since(c)' = Since(c) /\ Prog(c)' = Prog(c)
  BY <1>1 DEF Since, Prog
<1>7. ASSUME NEW c \in Calls, Running(c), at[c] > 1 PROVE Witness(c)'
  <2>1. Witness(c)
    BY <1>7 DEF TrueInv
  <2> QED
    BY <1>1, <1>3, <1>6, <2>1 DEF Witness
<1>8. \A c \in Calls : saw'[c].rows <= doc'.rows
  BY <1>1, <1>3 DEF TrueInv
<1>9. \A c \in Calls : Running(c)' => Passed(c, at[c] - 1)'
  BY <1>1, <1>6 DEF TrueInv, Running, Passed, Excused
<1>10. OkMeansEffect'
  BY <1>1, <1>6 DEF TrueInv, OkMeansEffect, Goal
<1>11. \A c \in Calls : Running(c)' /\ at'[c] > 1 => Witness(c)'
  BY <1>1, <1>7 DEF Running
<1> QED
  BY <1>4, <1>5, <1>8, <1>9, <1>10, <1>11 DEF TrueInv

\* A call that begins has done nothing yet.
LEMMA TrueBeginning ==
  ASSUME TrueInv, OtShape', NEW c \in Calls, Begin(c)
  PROVE  TrueInv'
<1>1. PICK t \in ToolsFor[kind] : tool' = [tool EXCEPT ![c] = t]
  BY DEF Begin
<1>2. /\ tool[c] = "none" /\ since' = [since EXCEPT ![c] = Len(log)]
      /\ UNCHANGED <<kind, doc, at, saw, reply, log, others>>
  BY DEF Begin
<1>3. OtShape
  BY DEF TrueInv
<1>4. at[c] = 1 /\ reply[c] = "none"
  BY <1>2, <1>3 DEF OtShape
<1>5. ASSUME NEW b \in Calls, b # c
      PROVE  /\ tool'[b] = tool[b] /\ since'[b] = since[b] /\ Prog(b)' = Prog(b)
             /\ (Running(b)' <=> Running(b)) /\ Since(b)' = Since(b)
  <2>1. tool'[b] = tool[b] /\ since'[b] = since[b]
    BY <1>1, <1>2, <1>3, <1>5 DEF OtShape
  <2> QED
    BY <1>2, <2>1 DEF Prog, Running, Since
<1>6. SpentOK'
  BY <1>2 DEF TrueInv, SpentOK, Spent, Delivered
<1>7. ASSUME NEW i \in 1..Len(log) PROVE FromStep(i)'
  <2>1. FromStep(i)
    BY DEF TrueInv
  <2>2. log[i] \in LogEntries
    BY <1>3 DEF OtShape
  <2>3. PICK b \in Calls : b = log[i].by
    BY <2>2 DEF LogEntries
  <2>4. b # c
    BY <1>2, <2>1, <2>3 DEF FromStep
  <2> QED
    BY <1>2, <1>5, <2>1, <2>3, <2>4 DEF FromStep
<1>8. ASSUME NEW b \in Calls, Running(b)', at'[b] > 1 PROVE Witness(b)'
  <2>1. b # c
    BY <1>2, <1>4, <1>8
  <2>2. Running(b) /\ Witness(b)
    BY <1>2, <1>5, <1>8, <2>1 DEF TrueInv
  <2> QED
    BY <1>2, <1>5, <2>1, <2>2 DEF Witness
<1>9. ASSUME NEW b \in Calls, Running(b)' PROVE Passed(b, at[b] - 1)'
  <2>1. CASE b = c
    BY <1>2, <1>4, <2>1 DEF Passed
  <2>2. CASE b # c
    <3>1. Passed(b, at[b] - 1)
      BY <1>5, <1>9, <2>2 DEF TrueInv
    <3> QED
      BY <1>2, <1>5, <2>2, <3>1 DEF Passed, Excused
  <2> QED
    BY <2>1, <2>2
<1>10. ASSUME NEW b \in Calls, reply'[b] = "ok" PROVE Goal(b)' \subseteq Since(b)'
  <2>1. b # c /\ reply[b] = "ok"
    BY <1>2, <1>4, <1>10
  <2>2. Goal(b) \subseteq Since(b)
    BY <2>1 DEF TrueInv, OkMeansEffect
  <2>3. Goal(b)' = Goal(b)
    BY <1>2, <1>5, <2>1 DEF Goal
  <2> QED
    BY <1>5, <2>1, <2>2, <2>3
<1> QED
  BY <1>2, <1>6, <1>7, <1>8, <1>9, <1>10 DEF TrueInv, OkMeansEffect

LEMMA TrueKept == TrueInv /\ [OtNext]_otVars => TrueInv'
<1> SUFFICES ASSUME TrueInv, [OtNext]_otVars PROVE TrueInv'
  OBVIOUS
<1>1. OtShape'
  BY ShapeKept DEF TrueInv
<1>2. ASSUME NEW c \in Calls, Step(c) \/ Fault(c) \/ Lost(c) PROVE TrueInv'
  BY <1>1, <1>2, TrueMoving
<1>3. ASSUME NEW c \in Calls, Begin(c) PROVE TrueInv'
  BY <1>1, <1>3, TrueBeginning
<1>4. CASE Others
  BY <1>1, <1>4, TrueWithOthers
<1>5. CASE UNCHANGED otVars
  <2>1. UNCHANGED <<kind, doc, tool, at, saw, reply, log, since, met, others>>
    BY <1>5 DEF otVars
  <2>2. SpentOK'
    BY <2>1 DEF TrueInv, SpentOK, Spent, Delivered
  <2>3. \A i \in 1..Len(log') : FromStep(i)'
    BY <2>1 DEF TrueInv, FromStep, Running, Prog
  <2>4. \A c \in Calls : Running(c)' /\ at'[c] > 1 => Witness(c)'
    BY <2>1 DEF TrueInv, Running, Witness, Since
  <2>5. ASSUME NEW c \in Calls
        PROVE  /\ Since(c)' = Since(c) /\ Prog(c)' = Prog(c) /\ Goal(c)' = Goal(c)
               /\ Running(c)' <=> Running(c)
    BY <2>1 DEF Since, Prog, Goal, Running
  <2>6. \A c \in Calls : Running(c)' => Passed(c, at[c] - 1)'
    BY <2>1, <2>5 DEF TrueInv, Passed, Excused
  <2>7. OkMeansEffect' /\ \A c \in Calls : saw'[c].rows <= doc'.rows
    BY <2>1, <2>5 DEF TrueInv, OkMeansEffect
  <2> QED
    BY <1>1, <2>2, <2>3, <2>4, <2>6, <2>7 DEF TrueInv
<1> QED
  BY <1>2, <1>3, <1>4, <1>5 DEF OtNext

\* The answer of a tool is what happened in Odoo, wherever the calls behind it
\* failed and whoever else was at the document: a success has done all that its
\* sentence names, a refusal has left nothing but what it may
\* (odoo_call.py:104, sales.py:30).
THEOREM AnswersAlwaysTrue == OtSpec => []AnswersAreTrue
<1>1. TrueInv => AnswersAreTrue
  <2> SUFFICES ASSUME TrueInv PROVE AnswersAreTrue
    OBVIOUS
  <2>1. OtTypeOK
    BY DEF TrueInv, OtShape, OtTypeOK, Replies, Running, Prog
  <2>2. ASSUME NEW c \in Calls, reply[c] = "refused"
        PROVE  /\ Made(c) \subseteq {"assign", "restore"}
               /\ tool[c] \in AllOrNothing => Made(c) \subseteq {"restore"}
    <3>1. ASSUME NEW i \in 1..Len(log), log[i].by = c
          PROVE  /\ log[i].eff \in {"assign", "restore"}
                 /\ tool[c] \in AllOrNothing => log[i].eff # "assign"
      BY <2>2, <3>1 DEF TrueInv, FromStep
    <3> QED
      BY <3>1 DEF Made
  <2> QED
    BY <2>1, <2>2 DEF TrueInv, AnswersAreTrue, CleanRefusal, HalfDoneIsSaid
<1> QED
  BY TrueStarts, TrueKept, <1>1, PTL DEF OtSpec
==============================================================================
