--------------------------- MODULE MCAlertManager ---------------------------
EXTENDS AlertManager

TwoHandlers == <<"first", "second">>

\* Price and uptime beyond their thresholds; both exactly at them.
TwoInputs ==
    {[price_deviation |-> 11, uptime |-> 98, cpu_usage |-> 80],
     [price_deviation |-> 10, uptime |-> 99]}

=============================================================================
