----------------------------- MODULE MCLibrary -----------------------------
(* A line of two characters; digits of two values; names that fit a key file and one that does not;   *)
(* pass phrases of 0 to 2 bytes.                                            *)
EXTENDS Library

TwoChars == <<"x", "y">>
Digits == <<"0", "1">>
Names == {<<"x">>, <<"x", "0">>, <<"x", "x", "x">>}
Secrets == {<<>>, <<1>>, <<2>>, <<3>>, <<1, 2>>}
=============================================================================
