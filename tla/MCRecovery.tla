----------------------------- MODULE MCRecovery -----------------------------
(* Values for model-checking Recovery: the watchlist is a set of model     *)
(* values, and the rest is given by the configurations.                    *)
EXTENDS Recovery
CONSTANT SBER
=============================================================================
