------------------------------- MODULE MCDtalk -------------------------------
(* Two-sample chunks and one-sample caps.                                   *)
EXTENDS Dtalk

TwoSamples == {2}
TrimToOne  == {0, 1}
Three      == {3}
=============================================================================
