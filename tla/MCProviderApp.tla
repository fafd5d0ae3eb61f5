--------------------------- MODULE MCProviderApp ---------------------------
(* The provider's phone for TLC: the constants are given in the .cfg files. *)
EXTENDS ProviderApp
=============================================================================
