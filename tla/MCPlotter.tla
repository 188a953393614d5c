------------------------------ MODULE MCPlotter ------------------------------
(* Plotter on a screen of two columns, with calls that halve the rate      *)
(* there was at the start.                                                 *)
EXTENDS Plotter

Screen == {[x |-> 0, zone |-> "XAXIS"], [x |-> 1, zone |-> "XAXIS"],
           [x |-> 2, zone |-> "outside"]}
Calls == {2}
Steps == {[num |-> 2, den |-> 1], [num |-> 1, den |-> 2]}
=============================================================================
