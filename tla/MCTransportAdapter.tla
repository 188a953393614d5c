------------------------- MODULE MCTransportAdapter -------------------------
(* TransportAdapter with a receiver and a transmitter call.                  *)
EXTENDS TransportAdapter

CONSTANTS rx, tx

BothRadios == {rx, tx}

\* What radios put into their words, with the lowest and the highest bit of
\* each field: a transmitter that is keyed, and a receiver whose squelch is
\* open.
Keyed == [ptt |-> {0, 2}, squ |-> {}, id |-> {5}, bss |-> {4}]
Open == [ptt |-> {}, squ |-> {0}, id |-> {0, 4}, bss |-> {0, 3}]
TwoRadios == {Keyed, Open}

\* Audio that, read as a word, shows a key, an id and a signal.
Loud == {0, 4, 7, 9, 15, 23, 30}
=============================================================================
