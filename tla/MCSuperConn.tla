----------------------------- MODULE MCSuperConn -----------------------------
(* Model-checking instances of SuperConn. *)
EXTENDS SuperConnInv, SuperConnDemux, TLC

MCSymmetry == Permutations(Addrs) \cup Permutations(Acceptors)
=============================================================================
