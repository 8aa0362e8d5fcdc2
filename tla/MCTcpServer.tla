----------------------------- MODULE MCTcpServer -----------------------------
(* Model-checking instance of TcpServer: interchangeable connections.      *)
EXTENDS TcpServer, TLC

ConnSymmetry == Permutations(Conns)
==============================================================================
