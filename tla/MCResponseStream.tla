-------------------------- MODULE MCResponseStream --------------------------
(* Instances of ResponseStream for TLC.  Its run checks liveness and takes *)
(* the senders as they are, without symmetry.                              *)
EXTENDS ResponseStream

=============================================================================
