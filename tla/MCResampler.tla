----------------------------- MODULE MCResampler ------------------------------
EXTENDS Resampler

Rates == {2, 3, 4}
Calls == {1, 2, 8}
Utterances == {1, 4, 7}
=============================================================================
