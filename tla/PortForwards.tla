---------------------------- MODULE PortForwards ----------------------------
(***************************************************************************)
(* Connections over ssh: the branch of create_channel that gets a session, *)
(* has a port forwarded to a unix socket and connects to that socket, and  *)
(* the global pool of port forwards that all clients of a process share.   *)
(*                                                                         *)
(* A task is a caller that needs a channel, a request or a ping loop. What *)
(* my_ssh does is external: sessions come, forwards start or fail, and a   *)
(* forward that runs may die, in any order.                                *)
(*                                                                         *)
(* All ssh hosts listen on the same port, which is left out, and the path  *)
(* of a socket is part of a well-formed uri; GrpcChannel has the others.   *)
(***************************************************************************)
EXTENDS Integers, SequencesExt

CONSTANTS
  Tasks,
  Endpoints,           \* urls over ssh: user and host of ssh, service and its port
  NoPort,              \* an endpoint without a port
  LastConnectAttempt   \* 3 in the source

(* Names are sequences of their parts; "-" is also a part of some of them. *)
ASSUME ConstantsAssumption ==
  /\ LastConnectAttempt \in Nat
  /\ Endpoints \subseteq [user : Seq(STRING), host : Seq(STRING), service : Seq(STRING),
                        port : STRING]

VARIABLES
  pc,         \* where a task is
  endpoint,   \* the url of its client
  connectNo,  \* attempt_no of connect_to_unix_socket
  target,     \* the service its channel leads to
  queue,      \* tasks that hold (first) or await the mutex of the pool
  forwards    \* port_forwards: a tunnel for each key

vars == <<pc, endpoint, connectNo, target, queue, forwards>>

(* The key under which the pool looks. *)
Id(e) == e.user \o <<"@">> \o e.host \o <<"->">> \o e.service \o <<":", e.port>>

(* Mutant: one socket for each ssh host. *)
SocketPerHost(e) == e.user \o <<"-">> \o e.host

(* generate_unix_socket_file: the key under which the pool stores. Here "--" *)
(* is all that comes between the two hosts, the port of the first included.  *)
Socket(e) == e.user \o <<"-">> \o e.host \o <<"--">> \o e.service \o <<"_", e.port>>

Keys == {Id(e) : e \in Endpoints} \union {Socket(e) : e \in Endpoints}

Over == {"idle", "connected", "failed", "panicked"}

Init ==
  /\ pc = [t \in Tasks |-> "idle"]
  /\ endpoint \in [Tasks -> Endpoints]
  /\ connectNo = [t \in Tasks |-> 0]
  /\ target = endpoint
  /\ queue = <<>>
  /\ forwards = <<>>

Holds(t) == queue # <<>> /\ Head(queue) = t
Unlock   == queue' = Tail(queue)
Goto(t, label) == pc' = [pc EXCEPT ![t] = label]

-----------------------------------------------------------------------------
(* What get_grpc_host returns is taken for the endpoint of a service. *)
Parses(e) == e.service # <<>>

(* A client that has no channel, or has dropped one, connects again. *)
CreateChannel(t) ==
  /\ pc[t] \in Over
  /\ Goto(t, IF Parses(endpoint[t]) THEN "session" ELSE "panicked")
  /\ target' = [target EXCEPT ![t] = endpoint[t]]
  /\ connectNo' = [connectNo EXCEPT ![t] = 0]
  /\ UNCHANGED <<endpoint, queue, forwards>>

(* get_ssh_session returns; start_port_forward asks for the mutex. *)
SessionReady(t) ==
  /\ pc[t] = "session"
  /\ Goto(t, "lock")
  /\ queue' = Append(queue, t)
  /\ UNCHANGED <<endpoint, connectNo, target, forwards>>

(* Mutant: the pool looks for what it has stored. *)
LookUpSocket(t) ==
  /\ pc[t] = "lock" /\ Holds(t)
  /\ IF Socket(endpoint[t]) \in DOMAIN forwards
     THEN Goto(t, "connect") /\ Unlock
     ELSE Goto(t, "start") /\ UNCHANGED queue
  /\ UNCHANGED <<endpoint, connectNo, target, forwards>>

(* Mutant: the mutex is not held while the forward starts. *)
LookUpUnlocks(t) ==
  /\ pc[t] = "lock" /\ Holds(t)
  /\ Goto(t, IF Id(endpoint[t]) \in DOMAIN forwards THEN "connect" ELSE "start")
  /\ Unlock
  /\ UNCHANGED <<endpoint, connectNo, target, forwards>>

(* The lookup is by another key than the insert, and finds nothing. *)
LookUp(t) ==
  /\ pc[t] = "lock" /\ Holds(t)
  /\ IF Id(endpoint[t]) \in DOMAIN forwards
     THEN Goto(t, "connect") /\ Unlock
     ELSE Goto(t, "start") /\ UNCHANGED queue
  /\ UNCHANGED <<endpoint, connectNo, target, forwards>>

(***************************************************************************)
(* The forward is started, and awaited, with the mutex held.  A forward    *)
(* that was stored under the socket before is dropped by the insert.       *)
(***************************************************************************)
ForwardStarted(t) ==
  /\ pc[t] = "start"
  /\ endpoint[t].port # NoPort
  /\ forwards' = [k \in DOMAIN forwards \union {Socket(endpoint[t])} |->
                    IF k = Socket(endpoint[t])
                    THEN [endpoint |-> endpoint[t], alive |-> TRUE]
                    ELSE forwards[k]]
  /\ Unlock
  /\ Goto(t, "connect")
  /\ UNCHANGED <<endpoint, connectNo, target>>

(* Mutant: the panic leaves the mutex locked. *)
ForwardPanicsLocked(t) ==
  /\ pc[t] = "start"
  /\ Goto(t, "panicked")
  /\ UNCHANGED <<endpoint, connectNo, target, queue, forwards>>

(***************************************************************************)
(* The endpoint has no port, or the session could not start the forward:   *)
(* a panic, whose unwinding unlocks the mutex.                             *)
(***************************************************************************)
ForwardPanics(t) ==
  /\ pc[t] = "start"
  /\ Goto(t, "panicked")
  /\ Unlock
  /\ UNCHANGED <<endpoint, connectNo, target, forwards>>

(* connect_to_unix_socket, with what listens on the socket then. *)
Connect(t) ==
  /\ pc[t] = "connect"
  /\ forwards[Socket(endpoint[t])].alive
  /\ target' = [target EXCEPT ![t] = forwards[Socket(endpoint[t])].endpoint]
  /\ Goto(t, "connected")
  /\ UNCHANGED <<endpoint, connectNo, queue, forwards>>

(* A connect fails, or lasts for request_timeout. *)
ConnectFails(t) ==
  /\ pc[t] = "connect"
  /\ IF connectNo[t] > LastConnectAttempt
     THEN Goto(t, "failed") /\ UNCHANGED connectNo
     ELSE connectNo' = [connectNo EXCEPT ![t] = @ + 1] /\ UNCHANGED pc
  /\ UNCHANGED <<endpoint, target, queue, forwards>>

(* The ssh connection of a tunnel breaks. *)
TunnelDies(k) ==
  /\ forwards[k].alive
  /\ forwards' = [forwards EXCEPT ![k].alive = FALSE]
  /\ UNCHANGED <<pc, endpoint, connectNo, target, queue>>

-----------------------------------------------------------------------------
SessionStep(t) == SessionReady(t) \/ ForwardStarted(t) \/ ForwardPanics(t)
ConnectStep(t) == Connect(t) \/ ConnectFails(t)

Next ==
  \/ \E t \in Tasks : CreateChannel(t) \/ SessionStep(t) \/ LookUp(t) \/ ConnectStep(t)
  \/ \E k \in DOMAIN forwards : TunnelDies(k)

Spec == Init /\ [][Next]_vars

(* tokio hands out the mutex and fires the timeouts of the connects. *)
FairSpec == Spec /\ \A t \in Tasks : WF_vars(LookUp(t)) /\ WF_vars(ConnectStep(t))

(* my_ssh answers, well or badly: no timeout of this code covers it. *)
SessionsAnswer == \A t \in Tasks : WF_vars(SessionStep(t))

-----------------------------------------------------------------------------
(* Properties.                                                             *)

Waits(t) == pc[t] \in {"lock", "start"}

(* The variables have their types, and who waits for the pool waits once. *)
TypeOK ==
  /\ pc \in [Tasks -> Over \union {"session", "lock", "start", "connect"}]
  /\ endpoint \in [Tasks -> Endpoints]
  /\ connectNo \in [Tasks -> 0 .. LastConnectAttempt + 1]
  /\ target \in [Tasks -> Endpoints]
  /\ forwards \in [DOMAIN forwards -> [endpoint : Endpoints, alive : BOOLEAN]]
  /\ DOMAIN forwards \subseteq Keys
  /\ queue \in Seq(Tasks)
  /\ IsInjective(queue) /\ ToSet(queue) = {t \in Tasks : Waits(t)}

(***************************************************************************)
(* A task begins to connect with a tunnel that is alive: that a forward of *)
(* the same socket was started before, and may have died, never keeps a    *)
(* new one from being started.                                             *)
(***************************************************************************)
ConnectsThroughLiveTunnel ==
  [][\A t \in Tasks : pc[t] # "connect" /\ pc'[t] = "connect"
                        => forwards'[Socket(endpoint[t])].alive]_vars

(* The two names of the ssh host, and they and the service, can be told apart. *)
Separable(e) == /\ ~Contains(e.user \o e.host, "-")
                /\ ~Contains(e.user \o e.host \o e.service, "--")

(***************************************************************************)
(* A channel leads to the service it was asked for, whichever tasks start  *)
(* forwards and replace each other's in between, unless the name of an ssh *)
(* user or host has a dash in it: then two of them may share a socket.     *)
(***************************************************************************)
ReachesOwnEndpoint ==
  \A t \in Tasks : pc[t] = "connected" /\ Separable(endpoint[t]) => target[t] = endpoint[t]

(* What is stored under a socket is a tunnel that listens on it. *)
StoredUnderSocket ==
  \A k \in DOMAIN forwards : k = Socket(forwards[k].endpoint)

(* The task that starts a forward has the pool for itself. *)
StartsAlone == \A t \in Tasks : pc[t] = "start" => Holds(t)

(* There is a tunnel for who connects, and it leads where its socket does. *)
TargetSharesSocket ==
  \A t \in Tasks :
    /\ pc[t] = "connect"   => Socket(endpoint[t]) \in DOMAIN forwards
    /\ pc[t] = "connected" => Socket(target[t]) = Socket(endpoint[t])

(* What every step preserves; the safety properties follow from it. *)
IInv == TypeOK /\ StoredUnderSocket /\ StartsAlone /\ TargetSharesSocket

(***************************************************************************)
(* Nobody stays in the pool: every task comes to a channel, an error or a  *)
(* panic of its own, whatever became of the tasks that had the mutex       *)
(* before, as long as my_ssh answers them.                                 *)
(***************************************************************************)
EveryConnectEnds == SessionsAnswer => \A t \in Tasks : pc[t] \notin Over ~> pc[t] \in Over

=============================================================================
