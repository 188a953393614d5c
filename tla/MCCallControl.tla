--------------------------- MODULE MCCallControl ---------------------------
(* CallControl on two slots, with the URI sets the runs use.      *)
EXTENDS CallControl, TLC

RxOnly == {"rx"}
TxOnly == {"tx"}
PhoneOnly == {"phone"}
TxAndPhone == {"tx", "phone"}
NoThread == {}
OnlyWindow == {"ui"}

\* Slots and adapter addresses are interchangeable.  Used by the safety run.
Symmetry == Permutations(Call) \cup Permutations(Adapter)
=============================================================================
