----------------------------- MODULE MCFeeClock -----------------------------
\* The instance of FeeClock that TLC checks: minutes of three seconds, hours
\* of four minutes, and time up to the third minute of the second hour.
EXTENDS FeeClock
=============================================================================
