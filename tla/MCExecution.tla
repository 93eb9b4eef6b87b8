---------------------------- MODULE MCExecution ----------------------------
(* Execution on small instances.  Nothing tells two tickers apart. *)
EXTENDS ExecutionLedger, TLC

TickerSymmetry == Permutations(Tickers)
=============================================================================
