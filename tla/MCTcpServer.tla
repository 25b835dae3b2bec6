----------------------------- MODULE MCTcpServer -----------------------------
(* TcpServer on small instances. The clients are interchangeable.          *)
EXTENDS TcpServerProofs, TLC

Symmetry == Permutations(Clients)
===============================================================================
