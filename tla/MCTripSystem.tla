---------------------------- MODULE MCTripSystem ----------------------------
\* The instance of TripSystem that TLC checks.
EXTENDS TripSystem
=============================================================================
