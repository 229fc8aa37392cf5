-------------------------- MODULE MCServerConnection --------------------------
(***************************************************************************)
(* Instances of ServerConnection for TLC.  With a buffer of 2 or 3 bytes   *)
(* the lengths 1 to 2 * BufSize + 1 reach every case there is: shorter     *)
(* than a buffer, a whole number of buffers, several buffers and a rest.   *)
(***************************************************************************)
EXTENDS ServerConnection

Lengths5 == 1 .. 5
Lengths7 == 1 .. 7
=============================================================================
