------------------------------ MODULE MCServerBA ------------------------------
(***************************************************************************)
(* An instance of ServerBA for TLC.  With a buffer of two bytes the        *)
(* lengths are a short report, one of a whole buffer, and one of a buffer  *)
(* and a rest.                                                             *)
(***************************************************************************)
EXTENDS ServerBA

Lengths3 == 1 .. 3
=============================================================================
