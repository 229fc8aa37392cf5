-------------------------- MODULE MCProducerConsumer --------------------------
(***************************************************************************)
(* Instances of ProducerConsumer for TLC: PC_queue.cfg gives its constants *)
(* model values.  Two producers contend for the mutex, one more than the   *)
(* program has.                                                            *)
(***************************************************************************)
EXTENDS ProducerConsumer
=============================================================================
