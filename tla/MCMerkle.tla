------------------------------ MODULE MCMerkle ------------------------------
(* Values of the constants of Merkle: byte strings are tuples, as digests are. *)
EXTENDS Merkle

MCLeafBytes == {<<"a">>, <<"b">>}
=============================================================================
