----------------------------- MODULE MCSignals -----------------------------
(* Signals for TLC: init and one more process.  10 is SIGUSR1.             *)
EXTENDS Signals, TLC

CONSTANTS a, b
=============================================================================
