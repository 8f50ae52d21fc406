------------------------- MODULE MCStreamedRequest -------------------------
(* Instances of StreamedRequest for TLC. *)
EXTENDS StreamedRequest, TLC

(* Producers are interchangeable. Not for the runs with liveness. *)
ProducerSymmetry == Permutations(Producers)
=============================================================================
