---------------------------- MODULE MCStreamSystem ----------------------------
(* StreamSystem on a small instance: two threads share a stream, one has a *)
(* stream of its own.                                                      *)
EXTENDS StreamSystem

CONSTANTS s1, s2, t1, t2, t3

MCStreamOf == [t \in {t1, t2, t3} |-> IF t = t3 THEN s2 ELSE s1]
===============================================================================
