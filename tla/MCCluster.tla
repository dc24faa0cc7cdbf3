------------------------------ MODULE MCCluster ------------------------------
(***************************************************************************)
(* In MCAddresses the second node may come back with another address; in   *)
(* MCShared a fourth node comes up with the address the second one had.    *)
(***************************************************************************)
EXTENDS Cluster

CONSTANTS n1, n2, n3, n4, a1, a2, a3, b2

MCAddresses(n) ==
    CASE n = n1 -> {a1} [] n = n2 -> {a2, b2} [] OTHER -> {a3}

MCShared(n) ==
    CASE n = n1 -> {a1} [] n = n3 -> {a3} [] OTHER -> {a2}
=============================================================================
