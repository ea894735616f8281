---------------------------- MODULE MCRoundTrip ----------------------------
(* Small instances of RoundTrip.                                             *)
EXTENDS RoundTrip

CONSTANTS w1, e1, s1, s2
=============================================================================
