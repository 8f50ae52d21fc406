---------------------------- MODULE GrpcChannel ----------------------------
(***************************************************************************)
(* The client side of one generated gRPC client: the GrpcChannelHolder     *)
(* that caches one tonic channel, the requests that run on it with their   *)
(* timeouts and retries, and the ping loop that replaces a dead channel.   *)
(*                                                                         *)
(* Every method of the holder locks its mutex, makes one assignment and    *)
(* unlocks, so each of them is one step; everything between two of them is *)
(* open to the steps of the other tasks.                                   *)
(*                                                                         *)
(* execute and its three variants for streamed inputs and responses differ *)
(* in the call they make, and so do the loops of get_response and          *)
(* get_streamed_response around them; connect_to_unix_socket has the loop  *)
(* of create_channel with another connector.  One definition stands for    *)
(* all of its twins; what a streamed input adds is in StreamedRequest, and *)
(* what follows a streamed response that was started in ResponseStream.    *)
(***************************************************************************)
EXTENDS Integers, FiniteSets

CONSTANTS
  Requests,            \* calls of a generated client method, one task each
  Ping,                \* the task of ping_loop
  Channels,            \* identities of tonic channels, reused once nobody refers to them
  NoChannel,           \* the holder's None
  MaxAttempts,         \* max_attempts_amount; 1 is a request without with_retries
  LastConnectAttempt,  \* 3 in the source: a connect that fails with attempt_no > 3 is final
  WithTls,             \* the feature with-tls
  Urls                 \* the kinds of url the settings may return

Procs == Requests \union {Ping}

ASSUME ConstantsAssumption ==
  /\ Ping \notin Requests
  /\ NoChannel \notin Channels
  /\ MaxAttempts \in Nat
  /\ LastConnectAttempt \in Nat
  /\ WithTls \in BOOLEAN
  /\ Urls \subseteq {"plain", "tls", "malformed"}

VARIABLES
  held,        \* GrpcChannelHolder.channel
  enablePing,  \* GrpcChannelPool.enable_ping
  pc,          \* where each task is
  chan,        \* the channel a task uses; kept until its next one while it retries
  connectNo,   \* attempt_no of create_channel
  attemptNo,   \* attempt_no of get_response
  result,      \* the last outcome of each task
  sent,        \* attempts of a request that left on a working channel
  executed,    \* attempts of a request that the server has executed
  network,     \* whether the server accepts connections
  up,          \* the channels whose connection works
  url          \* what GrpcClientSettings returns now

clientVars == <<held, enablePing, pc, chan, connectNo, attemptNo, result, sent>>
envVars    == <<executed, network, up, url>>
vars       == <<clientVars, envVars>>

(***************************************************************************)
(* The loop of get_response leaves when attempt_no >= max_attempts_amount, *)
(* tested after the first failure: 0 and 1 both mean one attempt.          *)
(***************************************************************************)
Budget   == IF MaxAttempts = 0 THEN 1 ELSE MaxAttempts
Attempts == 0 .. Budget - 1

(***************************************************************************)
(* "lost" stands for GrpcReadError::Timeout, for the TransportError of a   *)
(* connect and for a TonicStatus with Code::Unknown: a task that meets one *)
(* of them has emptied the holder or has found it empty.  "status" is a    *)
(* TonicStatus with any other code, which leaves the channel cached.       *)
(***************************************************************************)
Errors == {"lost", "status"}

Init ==
  /\ held = NoChannel
  /\ enablePing = FALSE
  /\ pc = [p \in Procs |-> IF p = Ping THEN "sleep" ELSE "idle"]
  /\ chan = [p \in Procs |-> NoChannel]
  /\ connectNo = [p \in Procs |-> 0]
  /\ attemptNo = [r \in Requests |-> 0]
  /\ result = [p \in Procs |-> "none"]
  /\ sent = [r \in Requests |-> {}]
  /\ executed = [r \in Requests |-> {}]
  /\ network = "up"
  /\ up = {}
  /\ url \in Urls

-----------------------------------------------------------------------------
(* Pieces shared by the actions.                                           *)

Goto(p, label) == pc' = [pc EXCEPT ![p] = label]

(* Identities nobody refers to. *)
Free == Channels \ ({held} \union {chan[p] : p \in Procs})

(* Mutant: attempt_no > max_attempts_amount, one attempt too many. *)
AttemptFailedOnceMore(r, e) ==
  LET last == attemptNo[r] + 1 > MaxAttempts
  IN  /\ result' = [result EXCEPT ![r] = e]
      /\ attemptNo' = [attemptNo EXCEPT ![r] = @ + 1]
      /\ Goto(r, IF last THEN "done" ELSE "get")
      /\ chan' = IF last THEN [chan EXCEPT ![r] = NoChannel] ELSE chan

(* Mutant: only a lost channel is retried. *)
AttemptFailedStatusIsFinal(r, e) ==
  LET last == e = "status" \/ attemptNo[r] + 1 >= MaxAttempts
  IN  /\ result' = [result EXCEPT ![r] = e]
      /\ attemptNo' = [attemptNo EXCEPT ![r] = @ + 1]
      /\ Goto(r, IF last THEN "done" ELSE "get")
      /\ chan' = IF last THEN [chan EXCEPT ![r] = NoChannel] ELSE chan

(* get_response after an error: the next attempt, or the error is returned. *)
AttemptFailed(r, e) ==
  LET last == attemptNo[r] + 1 >= MaxAttempts
  IN  /\ result' = [result EXCEPT ![r] = e]
      /\ attemptNo' = [attemptNo EXCEPT ![r] = @ + 1]
      /\ Goto(r, IF last THEN "done" ELSE "get")
      /\ chan' = IF last THEN [chan EXCEPT ![r] = NoChannel] ELSE chan

(* The ping loop only logs an error and sleeps. *)
PingErr(e) ==
  /\ result' = [result EXCEPT ![Ping] = e]
  /\ Goto(Ping, "sleep")
  /\ UNCHANGED <<attemptNo, chan>>

Failed(p, e) ==
  \/ p = Ping /\ PingErr(e)
  \/ p \in Requests /\ AttemptFailed(p, e)

-----------------------------------------------------------------------------
(* A client method starts: GrpcChannelPool::get_channel.                   *)
Start(r) ==
  /\ pc[r] = "idle"
  /\ enablePing' = TRUE
  /\ Goto(r, "get")
  /\ UNCHANGED <<held, chan, connectNo, attemptNo, result, sent, envVars>>

(* The ping loop's turn comes and a request has been made before. *)
PingWake ==
  /\ pc[Ping] = "sleep"
  /\ enablePing
  /\ Goto(Ping, "get")
  /\ UNCHANGED <<held, enablePing, chan, connectNo, attemptNo, result, sent, envVars>>

(* GrpcChannelHolder::get returns a clone of the cached channel: the service *)
(* is created on it and the call starts.                                     *)
GetHeld(p) ==
  /\ pc[p] = "get"
  /\ held # NoChannel
  /\ chan' = [chan EXCEPT ![p] = held]
  /\ Goto(p, "call")
  /\ UNCHANGED <<held, enablePing, connectNo, attemptNo, result, sent, envVars>>

(* Mutant: the ping loop pings what is cached and leaves connecting to requests. *)
GetEmptyPingSleeps(p) ==
  /\ pc[p] = "get"
  /\ held = NoChannel
  /\ Goto(p, IF p = Ping THEN "sleep" ELSE "url")
  /\ UNCHANGED <<held, enablePing, chan, connectNo, attemptNo, result, sent, envVars>>

(* GrpcChannelHolder::get returns None: the task goes on to connect. *)
GetEmpty(p) ==
  /\ pc[p] = "get"
  /\ held = NoChannel
  /\ Goto(p, "url")
  /\ UNCHANGED <<held, enablePing, chan, connectNo, attemptNo, result, sent, envVars>>

(* The urls create_channel panics on. *)
PanicsOn(u) == u = "malformed" \/ (u = "tls" /\ WithTls)

(* create_channel starts with the url the settings return at this moment. *)
ReadUrl(p) ==
  /\ pc[p] = "url"
  /\ ~PanicsOn(url)
  /\ Goto(p, "connect")
  /\ UNCHANGED <<held, enablePing, chan, connectNo, attemptNo, result, sent, envVars>>

(* The panic unwinds the request's task, or the ping loop itself. *)
UrlPanic(p) ==
  /\ pc[p] = "url"
  /\ PanicsOn(url)
  /\ result' = [result EXCEPT ![p] = "panic"]
  /\ chan' = [chan EXCEPT ![p] = NoChannel]
  /\ Goto(p, "done")
  /\ UNCHANGED <<held, enablePing, connectNo, attemptNo, sent, envVars>>

(* end_point.connect() answers: the channel is known to this task only. *)
Connected(p) ==
  /\ pc[p] = "connect"
  /\ network = "up"
  /\ Free # {}
  /\ LET c == CHOOSE c \in Free : TRUE
     IN  /\ chan' = [chan EXCEPT ![p] = c]
         /\ up' = (up \ Free) \union {c}
  /\ connectNo' = [connectNo EXCEPT ![p] = 0]
  /\ Goto(p, "set")
  /\ UNCHANGED <<held, enablePing, attemptNo, result, sent, executed, network, url>>

(* Mutant: attempt_no is not incremented. *)
ConnectAgainUncounted(p) ==
  /\ pc[p] = "connect"
  /\ network = "down"
  /\ connectNo[p] <= LastConnectAttempt
  /\ UNCHANGED <<held, enablePing, pc, chan, connectNo, attemptNo, result, sent, envVars>>

(* Mutant: the bound is off by one. *)
ConnectAgainOnceMore(p) ==
  /\ pc[p] = "connect"
  /\ network = "down"
  /\ connectNo[p] <= LastConnectAttempt + 1
  /\ connectNo' = [connectNo EXCEPT ![p] = @ + 1]
  /\ UNCHANGED <<held, enablePing, pc, chan, attemptNo, result, sent, envVars>>

(* It fails or is still pending after request_timeout: once more. *)
ConnectAgain(p) ==
  /\ pc[p] = "connect"
  /\ network = "down"
  /\ connectNo[p] <= LastConnectAttempt
  /\ connectNo' = [connectNo EXCEPT ![p] = @ + 1]
  /\ UNCHANGED <<held, enablePing, pc, chan, attemptNo, result, sent, envVars>>

(* And it was the last time. *)
ConnectFailed(p) ==
  /\ pc[p] = "connect"
  /\ network = "down"
  /\ connectNo[p] > LastConnectAttempt
  /\ connectNo' = [connectNo EXCEPT ![p] = 0]
  /\ Failed(p, "lost")
  /\ UNCHANGED <<held, enablePing, sent, envVars>>

(* GrpcChannelHolder::set replaces whatever is cached by now; the call starts. *)
Set(p) ==
  /\ pc[p] = "set"
  /\ held' = chan[p]
  /\ Goto(p, "call")
  /\ UNCHANGED <<enablePing, chan, connectNo, attemptNo, result, sent, envVars>>

(* The response arrives within request_timeout. *)
CallOk(r) ==
  /\ pc[r] = "call"
  /\ attemptNo[r] \in executed[r]
  /\ chan[r] \in up
  /\ result' = [result EXCEPT ![r] = "ok"]
  /\ chan' = [chan EXCEPT ![r] = NoChannel]
  /\ Goto(r, "done")
  /\ UNCHANGED <<held, enablePing, connectNo, attemptNo, sent, envVars>>

(* Mutant: attempt_no counts lost channels only. *)
CallOtherStatusUncounted(r) ==
  /\ pc[r] = "call"
  /\ result' = [result EXCEPT ![r] = "status"]
  /\ Goto(r, "get")
  /\ UNCHANGED <<held, enablePing, chan, connectNo, attemptNo, sent, envVars>>

(* The call fails with a status other than Unknown: the channel stays cached. *)
CallOtherStatus(r) ==
  /\ pc[r] = "call"
  /\ AttemptFailed(r, "status")
  /\ UNCHANGED <<held, enablePing, connectNo, sent, envVars>>

(* The call fails with Code::Unknown or request_timeout expires. *)
CallFailed(r) ==
  /\ pc[r] = "call"
  /\ Goto(r, "drop")
  /\ UNCHANGED <<held, enablePing, chan, connectNo, attemptNo, result, sent, envVars>>

PingOk ==
  /\ pc[Ping] = "call"
  /\ chan[Ping] \in up
  /\ result' = [result EXCEPT ![Ping] = "ok"]
  /\ chan' = [chan EXCEPT ![Ping] = NoChannel]
  /\ Goto(Ping, "sleep")
  /\ UNCHANGED <<held, enablePing, connectNo, attemptNo, sent, envVars>>

(* Mutant: a failed ping is only logged. *)
PingFailedOnlyLogged ==
  /\ pc[Ping] = "call"
  /\ PingErr("lost")
  /\ UNCHANGED <<held, enablePing, connectNo, sent, envVars>>

(* Ping Timeout, or an error status: the spawned ping panics (Ping Panic). *)
PingFailed ==
  /\ pc[Ping] = "call"
  /\ Goto(Ping, "drop")
  /\ UNCHANGED <<held, enablePing, chan, connectNo, attemptNo, result, sent, envVars>>

(* Mutant: drop_channel reads the cached channel for its log and leaves it. *)
DropChannelOnlyLogged(p) ==
  /\ pc[p] = "drop"
  /\ Failed(p, "lost")
  /\ UNCHANGED <<held, enablePing, connectNo, sent, envVars>>

(* GrpcChannelHolder::drop_channel takes whatever is cached by now. *)
DropChannel(p) ==
  /\ pc[p] = "drop"
  /\ held' = NoChannel
  /\ Failed(p, "lost")
  /\ UNCHANGED <<enablePing, connectNo, sent, envVars>>

-----------------------------------------------------------------------------
(* The environment: tonic, the server, the network and the settings.       *)

(***************************************************************************)
(* tonic sends the call once the connection behind the channel works: at   *)
(* once, or after it was reopened while the call waits.  A call given up   *)
(* before that is never sent.  A ping has no effect on the server that is  *)
(* worth recording.                                                        *)
(***************************************************************************)
Send(r) ==
  /\ pc[r] = "call"
  /\ chan[r] \in up
  /\ attemptNo[r] \notin sent[r]
  /\ sent' = [sent EXCEPT ![r] = @ \union {attemptNo[r]}]
  /\ UNCHANGED <<held, enablePing, pc, chan, connectNo, attemptNo, result, envVars>>

(* The server executes an attempt it was sent, however late. *)
Execute(r) ==
  /\ \E a \in sent[r] \ executed[r] : executed' = [executed EXCEPT ![r] = @ \union {a}]
  /\ UNCHANGED <<clientVars, network, up, url>>

Outage   == network = "up" /\ network' = "down" /\ UNCHANGED <<clientVars, executed, up, url>>
Recovery == network = "down" /\ network' = "up" /\ UNCHANGED <<clientVars, executed, up, url>>

(* An outage breaks the connection of a channel that somebody still has. *)
Break(c) ==
  /\ network = "down"
  /\ c \in up \ Free
  /\ up' = up \ {c}
  /\ UNCHANGED <<clientVars, executed, network, url>>

(* tonic may reopen the connection behind a channel it has handed out. *)
Reopen(c) ==
  /\ network = "up"
  /\ c \in Channels \ (Free \union up)
  /\ up' = up \union {c}
  /\ UNCHANGED <<clientVars, executed, network, url>>

Reconfigure ==
  /\ url' \in Urls \ {url}
  /\ UNCHANGED <<clientVars, executed, network, up>>

-----------------------------------------------------------------------------
Connect(p) ==
  \/ GetHeld(p) \/ GetEmpty(p) \/ ReadUrl(p) \/ UrlPanic(p)
  \/ Connected(p) \/ ConnectAgain(p) \/ ConnectFailed(p) \/ Set(p)

RequestStep(r) ==
  Connect(r) \/ CallOk(r) \/ CallOtherStatus(r) \/ CallFailed(r) \/ DropChannel(r)

PingStep == PingWake \/ Connect(Ping) \/ PingOk \/ PingFailed \/ DropChannel(Ping)

Environment ==
  \/ \E r \in Requests : Send(r) \/ Execute(r)
  \/ Outage \/ Recovery \/ Reconfigure
  \/ \E c \in Channels : Break(c) \/ Reopen(c)

Next ==
  \/ \E r \in Requests : Start(r) \/ RequestStep(r)
  \/ PingStep
  \/ Environment

Spec == Init /\ [][Next]_vars

(***************************************************************************)
(* tokio runs every ready task and fires every timer, so a started request *)
(* and the ping loop always move on: whatever they wait for is answered or *)
(* given up.  Nothing is assumed of the server, the network or the         *)
(* settings: what a property needs of them is its own premise.             *)
(***************************************************************************)
Fairness == WF_vars(PingStep) /\ \A r \in Requests : WF_vars(RequestStep(r))

FairSpec == Spec /\ Fairness

-----------------------------------------------------------------------------
(* Properties.                                                             *)

Labels == {"idle", "sleep", "get", "url", "connect", "set", "call", "drop", "done"}

(* Every variable holds a value of its kind: no attempt beyond the budget, *)
(* no connect beyond the last one, and nothing executed that was not sent. *)
TypeOK ==
  /\ held \in Channels \union {NoChannel}
  /\ enablePing \in BOOLEAN
  /\ pc \in [Procs -> Labels]
  /\ chan \in [Procs -> Channels \union {NoChannel}]
  /\ connectNo \in [Procs -> 0 .. LastConnectAttempt + 1]
  /\ attemptNo \in [Requests -> 0 .. Budget]
  /\ result \in [Procs -> Errors \union {"none", "ok", "panic"}]
  /\ sent \in [Requests -> SUBSET Attempts]
  /\ executed \in [Requests -> SUBSET Attempts]
  /\ network \in {"up", "down"}
  /\ up \subseteq Channels
  /\ url \in Urls

(***************************************************************************)
(* A task that dropped a channel after a timeout, a Code::Unknown or a     *)
(* failed ping, or that found the holder empty, never finds the channel it *)
(* used before in the holder again, whatever the other tasks set and drop  *)
(* meanwhile: its next attempt runs on another connection.                 *)
(***************************************************************************)
FailedChannelStaysOut ==
  \A p \in Procs :
    /\ chan[p] # NoChannel
    /\ \/ pc[p] \in {"url", "connect"}
       \/ pc[p] \in {"get", "sleep"} /\ result[p] = "lost"
    => held # chan[p]

(* A request that may still try has budget left. *)
AttemptBound == \A r \in Requests : pc[r] # "done" => attemptNo[r] < Budget

(* A channel is known to the task that connected it alone until it is set. *)
PrivateChannel ==
  \A p \in Procs : pc[p] = "set" =>
    /\ chan[p] \in Channels
    /\ held # chan[p]
    /\ \A q \in Procs \ {p} : chan[q] # chan[p]

NoChannelBeforeStart == \A r \in Requests : pc[r] = "idle" => chan[r] = NoChannel

(***************************************************************************)
(* What makes FailedChannelStaysOut last.  The hazard is a set: a channel  *)
(* cached late, by a task that connected long ago, must not be one that    *)
(* another task has already given up.                                      *)
(***************************************************************************)
IInv ==
  /\ TypeOK
  /\ AttemptBound
  /\ PrivateChannel
  /\ NoChannelBeforeStart
  /\ FailedChannelStaysOut

(* Every request ends: each await of get_response is under a timeout and   *)
(* both loops around them count their turns.                               *)
RequestTerminates ==
  \A r \in Requests : pc[r] \notin {"idle", "done"} ~> pc[r] = "done"

(***************************************************************************)
(* The ping loop runs outside any handler of panics: UrlPanic, on a url    *)
(* that create_channel unwraps in vain, ends it for good.                  *)
(***************************************************************************)
PingLoopLives == [](pc[Ping] # "done")

(***************************************************************************)
(* The holder does not keep dead channels, even if no request ever uses    *)
(* the client again: the ping loop, for as long as it lives, gets them     *)
(* out, and what replaces them is not dead for ever either.                *)
(***************************************************************************)
DeadChannelRemoved == PingLoopLives => []<>(held \notin Channels \ up)

(***************************************************************************)
(* Once the server stays reachable, a client that was used once has a      *)
(* working channel cached again and again, with no request asking for it,  *)
(* whatever urls the settings return as long as none kills the ping loop.  *)
(***************************************************************************)
Reconnects ==
  PingLoopLives /\ <>[](enablePing /\ network = "up") => []<>(held \in up)

(***************************************************************************)
(* The readmes on retries: "reconnect/retry attempts on disconnect".  A    *)
(* request that has been sent is sent again only because its last attempt  *)
(* lost its channel.                                                       *)
(***************************************************************************)
RetryOnlyOnDisconnect ==
  [][\A r \in Requests :
       sent[r] # {} /\ sent'[r] # sent[r] => result[r] = "lost"]_vars

(* The client's readme on the ping loop, which is to "reconnect them in the *)
(* background": a bad url the settings once returned does not stop it.      *)
PingLoopReconnects ==
  <>[](enablePing /\ network = "up" /\ url = "plain") => []<>(held \in up)

(***************************************************************************)
(* The promise of a client method, RetriedCall, with the holder, the       *)
(* connections and the ping loop hidden.                                   *)
(***************************************************************************)
status == [r \in Requests |->
             IF pc[r] = "idle" THEN "idle"
             ELSE IF pc[r] # "done" THEN "pending"
             ELSE IF result[r] \in Errors THEN "error"
             ELSE result[r]]

RC == INSTANCE RetriedCall WITH attempt <- attemptNo, issued <- sent

(* Whatever the tasks and the network do, requests behave as RetriedCall. *)
ImplementsRetriedCall == RC!Spec

(* And they resolve every attempt as RetriedCall's fairness asks. *)
ImplementsFairRetriedCall == RC!FairSpec

=============================================================================
