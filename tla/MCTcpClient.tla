----------------------------- MODULE MCTcpClient -----------------------------
(* TcpClient on small instances. The calls are interchangeable.            *)
EXTENDS TcpClientProofs, TLC

Symmetry == Permutations(Calls)
===============================================================================
