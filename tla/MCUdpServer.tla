----------------------------- MODULE MCUdpServer -----------------------------
(* Model-checking instance of UdpServer: interchangeable addresses and     *)
(* structs.                                                                *)
EXTENDS UdpServer, TLC

Symmetry == Permutations(Addrs) \cup Permutations(Objs)
ObjSymmetry == Permutations(Objs)
==============================================================================
