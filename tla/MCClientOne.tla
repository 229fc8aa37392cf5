------------------------------ MODULE MCClientOne ------------------------------
(***************************************************************************)
(* Instances of ClientOne for TLC.  With a buffer of two bytes and sends   *)
(* of three, the sizes are a short report, a whole buffer, one send, and   *)
(* two sends of which the first ends in the middle of a buffer, as 1024    *)
(* bytes do in buffers of 100.  A partial send of one size leaves what a   *)
(* smaller one would.                                                      *)
(***************************************************************************)
EXTENDS ClientOne, TLC

Sizes == 1 .. 4
OneSize == {3}
Symmetry == Permutations(Clients)
=============================================================================
