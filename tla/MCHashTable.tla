---------------------------- MODULE MCHashTable ----------------------------
(* Small tables for TLC: three keys in two buckets, two of them colliding, *)
(* and room for two blocks of bindings, so that the third key needs a      *)
(* second block and a failed allocation is met.                            *)
EXTENDS HashTable

CONSTANTS k1, k2, k3

(* k1 and k2 share a bucket of two; in a table of one all three collide. *)
MCHash == (k1 :> 0) @@ (k2 :> 2) @@ (k3 :> 3)
MCPrimes == <<2, 3>>
MCOnePrime == <<1, 5>>

(* The values are never compared with anything but each other. *)
Values == Permutations(Value)
=============================================================================
