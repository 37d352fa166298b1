--------------------------- MODULE MCFlushManager ---------------------------
(* Instances of FlushManager for TLC.                                       *)
EXTENDS FlushManager
CONSTANTS w1, w2, s1, s2, c1
=============================================================================
