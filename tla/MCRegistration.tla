--------------------------- MODULE MCRegistration ---------------------------
(* Registration with a table of a few accounts.                            *)
EXTENDS Registration
=============================================================================
