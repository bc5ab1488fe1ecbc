----------------------------- MODULE MCSignals -----------------------------
(* All scenarios, with handlers that nest and with handlers that do not.    *)
EXTENDS Signals

MCMasks == {{}, {HUP}, {USR2, TERM, CHLD}, Signal}
MCScenarios == 0 .. 9
=============================================================================
