-------------------------- MODULE MCRequestLatency --------------------------
(* Instances of RequestLatency for TLC; channels as in MCGrpcChannel. *)
EXTENDS RequestLatency

CONSTANT ChannelCount

MCChannels == 1 .. ChannelCount

(* Connected is never refused for want of an identity: see MCGrpcChannel. *)
ASSUME EnoughChannels == ChannelCount >= Cardinality(Procs) + 2
=============================================================================
