----------------------------- MODULE MCWriteFlow -----------------------------
(* Small instances of WriteFlow for TLC: excerpts of the real registry.      *)
EXTENDS WriteFlowRefinement

R == INSTANCE WriteRegistry

Excerpt(tools) == [t \in tools |-> IF R!Follower(t) \in tools THEN R!Follower(t) ELSE None]

\* The whole sale chain up to the invoice: its head is a coordinator, its
\* middle runs unasked, its end must ask again.
SaleTools == {"create_quotation", "confirm_sale_order", "deliver_order",
              "create_invoice_from_order", "post_invoice"}
SaleNext == Excerpt(SaleTools)
SaleCoordinated == SaleTools \cap R!COORDINATED_TOOLS
SaleMoney == SaleTools \cap R!CONFIRM_IN_CHAIN
SaleRenders == SaleTools \cap R!RENDERS_CHAIN

\* The shortest chain into a money step, for the runs with many faults.
MoneyTools == {"create_invoice_from_order", "post_invoice"}
MoneyNext == Excerpt(MoneyTools)
MoneyCoordinated == MoneyTools \cap R!COORDINATED_TOOLS
MoneyMoney == MoneyTools \cap R!CONFIRM_IN_CHAIN
MoneyRenders == MoneyTools \cap R!RENDERS_CHAIN

\* The short sale chain: a coordinator and one step that runs unasked.
QuoteTools == {"create_quotation", "confirm_sale_order"}
QuoteNext == Excerpt(QuoteTools)
QuoteCoordinated == QuoteTools \cap R!COORDINATED_TOOLS
QuoteMoney == QuoteTools \cap R!CONFIRM_IN_CHAIN
QuoteRenders == QuoteTools \cap R!RENDERS_CHAIN

\* The excerpts the passing runs use show their chains, and so does every row of
\* the registry but the one of return_order.
ASSUME ExcerptShown == "return_order" \in Tools \/ ChainsShown

ASSUME RegistryShown ==
    \A t \in R!AllTools \ {"return_order"} :
        R!Follower(t) \notin R!CONFIRM_IN_CHAIN \cup {None} =>
            /\ t \notin R!CONFIRM_IN_CHAIN
            /\ t \in R!COORDINATED_TOOLS => t \in R!RENDERS_CHAIN

\* The return chain: return_order does not show the step that follows it.
ReturnTools == {"return_order", "validate_picking"}
ReturnNext == Excerpt(ReturnTools)
ReturnCoordinated == ReturnTools \cap R!COORDINATED_TOOLS
ReturnMoney == ReturnTools \cap R!CONFIRM_IN_CHAIN
ReturnRenders == ReturnTools \cap R!RENDERS_CHAIN
=============================================================================
