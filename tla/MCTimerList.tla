----------------------------- MODULE MCTimerList -----------------------------
EXTENDS TimerList
==============================================================================
