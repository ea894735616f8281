---------------------------- MODULE MCResultStore ----------------------------
(* Small instances of ResultStore.                                           *)
EXTENDS ResultStoreDouble

CONSTANTS w1, w2, k1, e1, e2
=============================================================================
