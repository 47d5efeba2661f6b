---------------------------- MODULE MCCallsClose ----------------------------
EXTENDS Calls
CONSTANTS main, co1, x

\* a function, and one that it calls
Flat == [t \in Threads |-> 2]
=============================================================================
