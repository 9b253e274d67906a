------------------------------- MODULE MCAddr -------------------------------
(* Two addresses and one descriptor, which is closed and opened again. *)
EXTENDS Addr

(* A host with two addresses, and a name for an IPv4-mapped one. *)
Families == {<<"v6", "v4">>, <<"mapped">>}
Addresses == Permutations(Addr)
=============================================================================
