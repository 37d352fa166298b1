---------------------------- MODULE MCTableFlush ----------------------------
(* Instances of TableFlush for TLC.                                         *)
EXTENDS TableFlush

\* The empty key, and two that share a prefix.
MCKey == {<< >>, <<1, 1>>, <<1, 2>>}
MCValue == {<< >>, <<1, 1>>}
=============================================================================
