--------------------------- MODULE MCGrpcChannel ---------------------------
(* Instances of GrpcChannel for TLC. Channels are numbers, so that the     *)
(* choice of a free one in Connected is the smallest free number.          *)
EXTENDS GrpcChannel, TLC

CONSTANT ChannelCount

MCChannels == 1 .. ChannelCount

(* Requests are interchangeable: no request is named in the specification. *)
RequestSymmetry == Permutations(Requests)

(* As many identities as tasks can refer to at once, the holder and one to *)
(* spare: Connected is never refused for want of an identity.              *)
ASSUME EnoughChannels == ChannelCount >= Cardinality(Procs) + 2
=============================================================================
