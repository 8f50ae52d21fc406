----------------------------- MODULE MCTelemetry -----------------------------
(* Instances of Telemetry for TLC: each kind of context, none to three ids. *)
EXTENDS Telemetry

MCOrigins ==
  {Single("7"), Multiple(<<>>), Multiple(<<"7">>), Multiple(<<"8", "7", "8">>), NoContext}

=============================================================================
