--------------------------- MODULE RequestLatency ---------------------------
(***************************************************************************)
(* How long a request can keep its caller waiting, counted in awaits under *)
(* tokio::time::timeout(request_timeout, ..): GrpcChannel with a history   *)
(* variable that counts, for each request, the connects and the calls that *)
(* it has awaited to their end.                                            *)
(***************************************************************************)
EXTENDS GrpcChannel

VARIABLE waits  \* awaits under request_timeout that a request has gone through

timedVars == <<vars, waits>>

(* The step ends an await of r under request_timeout: a turn of the loop of *)
(* create_channel, or the call of execute.                                  *)
EndsAwait(r) ==
  \/ pc[r] = "connect" /\ (pc'[r] # "connect" \/ connectNo'[r] # connectNo[r])
  \/ pc[r] = "call" /\ pc'[r] # "call"

TimedInit == Init /\ waits = [r \in Requests |-> 0]

TimedNext ==
  /\ Next
  /\ waits' = [r \in Requests |-> IF EndsAwait(r) THEN waits[r] + 1 ELSE waits[r]]

TimedSpec == TimedInit /\ [][TimedNext]_timedVars

(***************************************************************************)
(* In each attempt a request awaits at most LastConnectAttempt + 2 connects *)
(* and one call: with the 3 of the source and n attempts, its caller waits  *)
(* up to 6 * n times request_timeout, and never longer.  The readme's       *)
(* request_timeout_sec, "timeout of any grpc request", is a sixth of it.    *)
(***************************************************************************)
WaitsPerAttempt == LastConnectAttempt + 3

LatencyBound == \A r \in Requests : waits[r] <= Budget * WaitsPerAttempt

=============================================================================
