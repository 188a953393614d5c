--------------------------- MODULE MCStatusMonitor ---------------------------
(* StatusMonitor with the transmitter line and two frequencies.            *)
EXTENDS StatusMonitor

OnlyTx == <<"tx">>
TwoFreqs == {1, 2}
=============================================================================
