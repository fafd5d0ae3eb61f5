---------------------------- MODULE MCClientApp ----------------------------
(* The client's phone for TLC: the constants are given in the .cfg files.   *)
EXTENDS ClientApp
=============================================================================
