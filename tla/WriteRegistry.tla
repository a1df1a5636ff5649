---------------------------- MODULE WriteRegistry ----------------------------
(***************************************************************************)
(* The tables of write_registry.py and the walk that turns "do X, then go  *)
(* on until Y" into the list of steps of a declared chain.                 *)
(***************************************************************************)
EXTENDS Naturals, Sequences, FiniteSets, Functions

CONSTANT None

\* Tools whose row in NEXT_STEPS names a follower.
NEXT_STEPS ==
    [create_quotation            |-> "confirm_sale_order",
     update_quotation_lines      |-> "confirm_sale_order",
     confirm_sale_order          |-> "deliver_order",
     deliver_order               |-> "create_invoice_from_order",
     create_invoice_from_order   |-> "post_invoice",
     create_rfq                  |-> "confirm_purchase_order",
     update_rfq_lines            |-> "confirm_purchase_order",
     confirm_purchase_order      |-> "receive_order",
     receive_order               |-> "create_bill_from_po",
     create_bill_from_po         |-> "post_invoice",
     post_invoice                |-> "register_payment",
     create_lead                 |-> "convert_lead",
     create_manufacturing_order  |-> "confirm_manufacturing_order",
     confirm_manufacturing_order |-> "complete_manufacturing_order",
     return_order                |-> "validate_picking",
     create_credit_memo          |-> "post_invoice",
     create_vendor               |-> "update_vendor_pricing"]

MailTools == {"send_order_confirmation_email", "send_quotation_email",
              "send_rfq_email", "send_invoice_email", "send_delivery_email"}

COORDINATED_TOOLS ==
    {"create_quotation", "create_rfq", "update_quotation_lines",
     "update_rfq_lines", "inventory_adjustment", "internal_transfer",
     "scrap_product", "create_lead", "convert_lead", "log_activity",
     "close_activity", "create_manufacturing_order", "create_bom",
     "update_bom_lines", "return_order", "create_credit_memo",
     "create_vendor", "update_vendor_pricing", "create_bulk_rfq",
     "post_invoice", "register_payment"} \cup MailTools

CONFIRM_IN_CHAIN == {"post_invoice", "register_payment"} \cup MailTools

\* Coordinators that put chain_note into their confirm question.
RENDERS_CHAIN == {"create_quotation", "create_rfq", "update_quotation_lines",
                  "update_rfq_lines", "create_lead", "create_vendor",
                  "create_manufacturing_order"}

\* Every name a plan may carry; the planner model may also invent one.
AllTools == {"other"} \cup DOMAIN NEXT_STEPS \cup Range(NEXT_STEPS) \cup COORDINATED_TOOLS

Follower(tool) == IF tool \in DOMAIN NEXT_STEPS THEN NEXT_STEPS[tool] ELSE None

Depth == Cardinality(DOMAIN NEXT_STEPS)

\* The loop of expand_chain: n rounds left at tool `current`, `steps` so far.
Walk[n \in 0..Depth] ==
    [current \in AllTools, until \in AllTools |->
        LET nxt == Follower(current) IN
        IF n = 0 \/ nxt = None THEN None
        ELSE IF nxt = until THEN <<nxt>>
        ELSE LET rest == Walk[n - 1][nxt, until]
             IN  IF rest = None THEN None ELSE <<nxt>> \o rest]

expand_chain_OffByOne(first, until) ==
    IF until = None \/ until = first THEN None ELSE Walk[3][first, until]

\* The steps after first_tool up to chain_until, or None for a single step.
expand_chain(first, until) ==
    IF until = None \/ until = first THEN None ELSE Walk[Depth][first, until]
=============================================================================
