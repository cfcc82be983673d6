----------------------------- MODULE MCBlobLru -----------------------------
(* Five keys whose values each fit the 7-byte budget while most pairs and  *)
(* triples do not, so Adds evict one, two or three older items;            *)
(* OversizeLen gives k5 a value longer than the whole budget.              *)
EXTENDS BlobLru

CONSTANTS k1, k2, k3, k4, k5

MCKeys == {k1, k2, k3, k4, k5}
MCLen == (k1 :> 1) @@ (k2 :> 2) @@ (k3 :> 2) @@ (k4 :> 3) @@ (k5 :> 4)
OversizeLen == [MCLen EXCEPT ![k5] = 8]
=============================================================================
