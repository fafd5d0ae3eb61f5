------------------------------ MODULE MCWallet ------------------------------
\* The instance of Wallet that TLC checks.
EXTENDS Wallet
=============================================================================
