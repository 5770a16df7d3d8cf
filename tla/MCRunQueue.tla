----------------------------- MODULE MCRunQueue -----------------------------
EXTENDS RunQueue
=============================================================================
