------------------------------ MODULE MCRoster ------------------------------
\* The instance of Roster that TLC checks.
EXTENDS Roster
=============================================================================
