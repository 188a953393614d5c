------------------------------ MODULE MCRtpTap ------------------------------
(* Spectra of two samples, packets of one and three, a text of two zeros.  *)
EXTENDS RtpTap

Sizes == {1, 3}
Hello == <<0, 0>>
=============================================================================
