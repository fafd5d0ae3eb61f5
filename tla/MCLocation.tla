----------------------------- MODULE MCLocation -----------------------------
\* The instance of Location that TLC checks.
EXTENDS Location
=============================================================================
