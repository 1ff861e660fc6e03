---------------------------- MODULE MCTimersLost -----------------------------
EXTENDS TimerQueue
=============================================================================
