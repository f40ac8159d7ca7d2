------------------------------ MODULE MCMonitor ------------------------------
EXTENDS Monitor

LongAgo == -10

=============================================================================
