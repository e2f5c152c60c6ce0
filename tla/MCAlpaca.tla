------------------------------ MODULE MCAlpaca ------------------------------
(* Instances of AlpacaWorker for TLC *)
EXTENDS AlpacaWorker

\* in time, a tick late, or never
MCDelays == {0, 1, Never}
=============================================================================
