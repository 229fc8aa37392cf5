------------------------------- MODULE MCClient -------------------------------
(***************************************************************************)
(* Instances of Client for TLC.  With a buffer of two bytes and reports of *)
(* three, a write_some takes less than a buffer, a whole one, or the whole *)
(* report.                                                                 *)
(***************************************************************************)
EXTENDS Client

OneSize == {3}
=============================================================================
