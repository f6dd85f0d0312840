------------------------------- MODULE MCBilling -------------------------------
EXTENDS Billing, TLC

MCStatuses == {"active", "past_due", "canceled"}
MCPriceOf == [s \in Subs |-> CHOOSE p \in Prices : TRUE]

MCDeliveries == {<<1, 1>>, <<1, 2>>, <<2, 1>>}
================================================================================
