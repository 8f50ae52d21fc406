# Specifications of my-grpc-extensions

TLA+ models of the run-time core of this workspace, the TLC runs that check them
and the proofs about them. Every definition is translated from the source under
`src/`; `PROJECT.json` maps each of them to its lines.

All paths below are relative to `src/my-grpc-extensions/src/` unless they start
with `src/`.

## The system

A generated gRPC client owns one `GrpcChannelPool`. Its calls and its ping loop
share one cached tonic channel; streams of requests and responses go through
bounded tokio channels between user code, the library and tonic.

| Component | State | Operations | Interacts with | What makes it correct |
|---|---|---|---|---|
| `GrpcChannelHolder` (`grpc_channel/grpc_channel_holder.rs`) | the cached channel, behind a mutex | `get`, `set` inside `create_channel`, `drop_channel`; connect loops for tcp and unix sockets | requests, ping loop, network | a channel given up by a task does not come back to it; a dead channel is replaced; connecting is bounded |
| `GrpcChannel` (`grpc_channel/grpc_channel.rs`) | none of its own | `get_channel`, four kinds of `execute`, `drop_channel_if_needed` | holder, settings, tonic | each call ends; timeouts and `Code::Unknown` empty the holder |
| `GrpcChannelPool`, `ping_loop` (`grpc_channel/grpc_channel_pool.rs`) | `enable_ping`, the loop's task | `get_channel` starts pinging; get or connect, ping, drop | holder, settings | the client is reconnected with no request asking |
| Request builders (`grpc_channel/request_builder*.rs`) | `attempt_no` | `get_response`, `get_streamed_response` with and without retries | `GrpcChannel` | at most the budget of attempts, an error only when it is spent |
| `StreamedRequest` (`streamed_request.rs`, `grpc_channel/streamed_request/`) | buffer or bound sender, behind a mutex held across awaits | `send`, drop of a producer, `get_consumer`/`set_sender` | producers, attempts, transport | no item lost, doubled or moved; the end arrives; nobody is stuck |
| Server streams (`grpc_server_streams.rs`, `streamed_response_writer.rs`, `server_stream_result.rs`) | bounded channel, clones of its sender | helpers that stream a collection, `send`, `send_error`, `get_result` | handler, tasks, transport | what the client takes for the whole is the whole |
| Readers (`grpc_channel/streamed_response.rs`, `read_grpc_stream.rs`, `streamed_request_reader.rs`) | what was read so far | collect, first, single, next; a timeout per message | transport | `Ok` only at a clean end |
| SSH tunnels (`ssh.rs`, `grpc_channel/port_forwards_pool.rs`) | map of port forwards of the whole process, behind a mutex held across an await | sessions, `start_port_forward`, connects to the socket | ssh branch of `create_channel`, my_ssh | a channel leads to its service, through a tunnel that is alive; nobody is stuck behind the mutex |
| `GrpcConnectUrl` (`grpc_channel/grpc_connect_url.rs`) | none | classify a url | `create_channel` | – |
| Telemetry (`grpc_client_interceptor.rs`, `grpc_server_telemetry_context.rs`) | the context of a call and of a handler | write and read the `process-id` header; report an event from a drop | generated clients and handlers, my_telemetry | ids survive each hop; each execution is in the trace, once |
| `proto-file-reader` (`src/proto-file-reader`) | a state machine over tokens | read a proto file | the macros | every rpc is found as it was declared |
| Macros (`src/my-grpc-client-macros`, `src/my-grpc-server-macros`) | none | generate clients and handlers | `proto-file-reader`, the compiler | the parts they generate fit together |

The hard behaviour is concurrency without long locks (the holder is unlocked
between the get and the set of one connect), timeouts that race late answers,
retries of effects the server may already have executed, a mutex that is held
while a bounded channel is awaited, tasks spawned from a drop or a
`get_consumer`, and ends of streams that are signalled by the last drop of a
sender. `PROJECT.json` lists the hazards with their lines and the properties that
cover them.

## Modules

| Module | What it is |
|---|---|
| `GrpcChannel` | holder, requests, retries, ping loop, outages, settings |
| `RetriedCall` | what a client method promises; `GrpcChannel` implements it |
| `RequestLatency` | `GrpcChannel` with a history variable that counts awaits |
| `GrpcChannelProofs`, `RequestLatencyProofs` | theorems of `GrpcChannel` and `RequestLatency` |
| `StreamedRequest` | a streamed request, its producers and its attempts |
| `ResponseStream` | a streamed response, its senders and its reader |
| `StreamDelivery` | what a stream promises to its reader; `ResponseStream` and the first attempt of `StreamedRequest` implement it |
| `PortForwards` | connections over ssh and the pool of port forwards |
| `Telemetry` | a telemetry context on its way through a chain of services |
| `ProtoFileReader` | a proto file as it is written, and the reader of its tokens |
| `GeneratedCode` | extends it: what the macros generate for each rpc |
| `StreamedRequestProofs`, `ResponseStreamProofs`, `PortForwardsProofs`, `TelemetryProofs`, `ProtoFileReaderProofs`, `GeneratedCodeProofs` | theorems of the module of that name |
| `MC*` | constants and symmetry sets for TLC |

### GrpcChannel

One task per request and one for the ping loop. `pc` follows the awaits of
`get_response` → `execute` → `get_service` → `get_channel` → `create_channel`,
and of `ping_loop` → `get_or_create_channel`; both share the actions from
`GetHeld` to `Set`. Each method of the holder takes the mutex for one
assignment, so it is one step. A channel is an identity with a working or broken
connection behind it; identities that nobody refers to are used again, and
`EnoughChannels`, an assumption of the `MC` module, makes sure that TLC never
runs out of them.

One definition stands for the twins of the source: `execute` and its variants for streamed
inputs and responses, the retry loops of the request builders, and the connect loops for tcp
and unix sockets differ in the call they make. A call waits in `"call"`; `Send` is tonic
handing it to a connection that works, which may be one that it reopens meanwhile, so a
call on a broken channel can still be executed. A call that was given up before is never sent.

Errors are abstracted to what the code tells apart: `"lost"` (timeouts, failed
connects, `Code::Unknown`: the holder is empty for the task that got it) and
`"status"` (every other code: the channel stays cached). The environment may
break and restore the network, break the connection of a channel, let tonic
reopen one, execute an attempt arbitrarily late and change the url that the
settings return. A url is plain, malformed or https; the last two panic, https
only with the feature `with-tls` (without it the source connects to it like to a
plain one). Spawning the ping and waiting for it is one step (`PingOk`,
`PingFailed`): nobody else can see its task.

`RetriedCall` hides all of it. A call makes attempts one after another, the
server executes each at most once and perhaps late, success means that the
current attempt was executed, an error is returned when the budget is spent.

### StreamedRequest

`StreamedRequestInner::AsStream` is under one tokio mutex. It is fair, so it is
modelled as the queue of the tasks that wait for it, whose head holds it; the
head keeps it while it awaits room in the channel. Items are numbered in the
order in which their sends get the mutex. Each attempt makes a channel and
spawns a binder; an attempt that fails leaves its binder, its receiver and its
channel behind, and the transport drops the receiver some time later. A server may
answer before it has read the end of the stream, or any of it (`AttemptSucceeds`): a call with
a streamed response returns at the headers, and no timeout of the client covers its body from
there on. A server whose reader times out gives up (`ReaderTimeout`), and the attempt ends
with an error. A `Sender` that was stored lives as long as the stream it is stored in:
`Owned` says who has that, the builder until its method returns, the producers with the
tasks that their drops spawn, and the binders.

`AsVec` keeps no state: `SendClone` is the task that each attempt spawns, which
sends its clone of the vector item by item until it is done or the receiver is gone.
Such tasks of attempts that are over run on beside later ones.

### ResponseStream

The sending side is either a helper's task, which stops after a failed send, or a
writer: up to all of `Senders` as producers, whose callers stop, go on or report an
error, and a handler that may send messages and errors through the writer before it returns
(`WriterSend`, `WriterSendError`). A mapping of the user that panics takes a helper's task down
(`MappingPanics`). A message is a chunk of the source;
the item-by-item helpers are chunks of one, `send_single_item_to_stream` is a
source of one. The transport takes up to `Window` messages out of the channel,
signals the end when no sender is left, and may break. The reader collects, takes
the first message, accepts a single one or is driven by its caller, with a timeout
for each message. No ratio between the timeouts of the two sides is assumed, so
every order of them is covered.

### StreamDelivery

Its three variables are what the producing side was told is sent, what the reader has,
and whether the reader reads, has seen the end or was left. `Deliver` takes the next
message, `End` is enabled only when all of them are delivered, `Leave` gives up every
promise. `ResponseStream` maps the acknowledged messages and those it received to it,
`StreamedRequest` the items of the first attempt, which is left when it is given up:
what later attempts get is the subject of `AttemptsSplitTheStream`. Its `Send` says what
it appends without listing `Item`, so that a set of messages TLC cannot enumerate may be
put for it.

### PortForwards

The ssh branch of `create_channel`: a session, the pool, up to five connects to the
socket of the forward. The mutex of the pool is the queue of the tasks that wait for
it, and its head keeps it while a forward starts. A key is a sequence of name parts, so that
`Id`, under which the pool looks, and `Socket`, under which it stores, are different
keys as they are in the code, and two hosts with dashes may share a socket. A panic
unwinds through the guard of a tokio mutex, which unlocks and is not poisoned. Sessions
that never come, forwards that fail and tunnels that die are my_ssh's.

### Telemetry

`exec` is the history of the executions of handlers, the first of them being the
process where all begins; each may call the next service in the chain up to
`MaxAttempts` times. Requests on the way may be lost and arrive in any order. A header
is the sequence of ids and commas that `to_string` writes, and `Numbers` takes the ids out
of one by their places, whatever else is in it. `EndHandler` is the drop of the
context, which is the same whether the handler returned, failed, panicked or was
dropped; `Report` is the task it spawns. Telemetry may be set up at any time.

### ProtoFileReader and GeneratedCode

The author writes statements and the reader takes their tokens one by one, with the
state machine and the variables of `read_proto_file`. A word is a sequence of segments
between dots; how bytes become words is left out (the brackets, braces and semicolons are
words wherever they stand, so spaces say nothing). A file may have services, fields and
comments anywhere, and rpcs once a service has begun. `Finish` is the end of the file, where
the macro panics if no service was mentioned. The tokens of a declaration are nested
(`RpcTokens`, `NameTokens`, `ParameterTokens`), so each place in one is the beginning of
what is left from there. `Seen` is the reference: it says
which declared rpcs the reader finds, from the statements alone (`Begun`: a semicolon has
come after each rpc before), and `Place` in which order. `IsNamed` is the reference for the
name of the service: of the statements that mention one where the reader is at its start
state, the last one gives it. `ParamType::parse` is `Parse`; the
place of the type's name is that of the first word that is not `stream`.

`StatementsAssumption` is the one about authors: the word `rpc` begins declarations and
nothing else outside of comments on lines of their own, the words of the syntax name no
service, rpc or type, a type has a name, and a comment behind code follows a complete
statement, mentions a service once at most and has no semicolon before that. A field may be
named `service`, and then the name of the service is the word behind it. A run and the
theorems make the same assumption.

`GeneratedCode` has one operator for each choice a generator makes: the methods of the
client (`Called`), the executors it implements (`Implemented`), the handlers of the server
(`Handler`), and the signatures of the library between the first two (`ExecutorOf`). For an
rpc without any parameter the client macro panics, which is `NotSupported`: it equals no call.

## Runs

Each run is a `.cfg` of the same name. `channel_*` use `MCGrpcChannel` or
`MCRequestLatency`, `stream_*` `MCStreamedRequest`, the others the `MC` module of
their component.

| Run | Bounds | Shows |
|---|---|---|
| `channel_two_requests` | 2 requests with a single attempt, a connect fails finally at the second try, plain and malformed urls; symmetric requests | the inductive invariant `IInv`, and that a channel given up never comes back |
| `channel_retries` | 1 request, 2 attempts of up to 3 connects, plain and malformed urls | `GrpcChannel` implements `RetriedCall`; the wait of the caller is bounded |
| `channel_liveness` | 1 request, 2 attempts, a connect fails finally at the second try, plain and malformed urls, fairness | requests end and attempts are resolved; while the ping loop lives, dead channels leave and the client reconnects |
| `stream_attempts` | a vector of 3 or up to 2 producers with 3 items each, channel of 2, 3 attempts; symmetric producers | the first attempt implements `StreamDelivery` and loses nothing, no doubles across attempts, ends; a vector is whole in each attempt that ends |
| `stream_liveness` | a vector of 2 or up to 2 producers with 2 items, channel of 1, 2 attempts, fairness | the inductive invariant `IInv`; nobody is stuck behind the mutex; the end arrives in the first attempt and in the one that was answered |
| `response_stream` | up to 2 senders with 5 items in chunks of 2, one send of the writer, channel and window of 1, all readers, fairness | the inductive invariant `IInv`; `StreamDelivery`; prefixes, whole collections, no false ends; every sending task ends; the response ends |
| `port_forwards` | 2 tasks, 6 urls over ssh, 5 connects as in the source, fairness | the inductive invariant `IInv`; each task reaches its service through a live tunnel, and leaves the pool |
| `telemetry` | 2 services, 2 attempts of each call, contexts of none to three ids, fairness | the inductive invariant `IInv`; ids survive; the trace is true and complete |
| `proto_file` | up to 4 statements out of 26, among them all kinds of rpcs, endings and comments, two services and a field named `service` | the inductive invariant `IInv`; what is found is what was declared; which service is found, or that the macro panics; generated parts fit together |

The bounds are small because the hazards are: two requests and the ping loop are
enough for a late `set` over a channel that another task dropped; three attempts
for two stale binders; a channel of two and three items for a drain that blocks in
the middle; five items in chunks of two for a full chunk that is lost between two
others and for a remainder; two tasks for a forward that is replaced while another
task connects to it; two services for a header that is written from a context that was
read; four statements for a service, an rpc that takes the next one's tokens and one after that.
The number of
attempts and connects is a constant of the source or of the caller, and the
theorems hold for all of them: with the connect limit 3 of the source `LatencyBound`
is six request timeouts per attempt, five connects and the call.

Symmetry is used in `channel_two_requests` and `stream_attempts` only, which check no
liveness. `stream_*`, `response_stream`, `telemetry` and `proto_file` switch the deadlock
check off because a stream, a chain of calls or a file really is over at some point;
`GrpcChannel` and `PortForwards` never stop, and their runs check it.

### Where the code and its documentation differ

Three runs state what a readme or a comment says and find a behaviour of the code
that does otherwise; `PROJECT.json` quotes the lines.

| Run | Statement | What happens |
|---|---|---|
| `channel_doc_retry` | retries are for disconnects | a request is sent, answered with a status of the application, and sent again over the same channel, which never failed |
| `channel_doc_ping` | the ping loop reconnects in the background | a malformed url ends the loop for good |
| `stream_doc_retry` | retries repeat the request | an attempt is answered with success whose server has read the end of the stream and nothing before it |

What follows needs no run of its own:

- `AttemptsSplitTheStream` means that a retry of a stream that is produced serves only
  what was sent after it bound: an earlier attempt has the rest. Only a vector is sent
  again.
- A re-bind forgets the end of the stream (`Bind` after `SendEof`). The server of such an
  attempt waits for an end that comes no earlier than the answer or the timeout of the
  attempt: the second half of `StreamEnds`.
- A server that answers with a stream and then neither reads the request nor closes the call
  keeps a producer waiting for room with the mutex in its hands, and all others behind it.
  No timeout of the client ends that; `ProducersFinish` holds under the premise
  `AnsweredIsServed`, that such a server does one or the other.
- A mapping that panics, like a send that times out, drops the sender of a helper, and the
  client sees a clean end of a truncated collection (`CutShort`).
- `src/my-grpc-client-macros/readme.md:30` calls `request_timeout_sec` the timeout of any
  request, while `LatencyBound` is the tight bound; and neither a session of ssh nor the
  start of a forward is under it (`SessionsAnswer` is a premise of `EveryConnectEnds`).
- A port forward is never found again (`LookUp`), so every reconnect starts one. The
  pool's early return is dead code unless an endpoint makes both keys equal. With
  the key repaired alone, a dead tunnel would be used again: that is the mutant of
  `ConnectsThroughLiveTunnel`.
- Users or hosts of ssh with a dash in their names may share a socket file, and then a
  channel may lead to the service of the other one (`Separable`).
- An rpc closed by braces takes the tokens up to the next semicolon, and the rpcs among
  them are not generated (`IsSeen`). `stream google.protobuf.Empty` becomes a single
  message on both sides (`Understood`).
- `src/README.md:27-28` lists the features `with-tls`, with which https urls panic
  (`grpc_channel_holder.rs:224`), and `adjust-server-stream`, which no source file
  looks at.

## Fairness

- `GrpcChannel`: weak fairness of each request and of the ping loop. tokio runs
  ready tasks and fires timers; every await on the way is under a timeout, except
  `get_grpc_url`, which belongs to the application and is assumed to return.
  Nothing is assumed of the server and the network, and for `RequestTerminates` and
  `ImplementsFairRetriedCall` nothing of the settings either: a request that meets a
  malformed url ends in a panic. `DeadChannelRemoved` and `Reconnects` are about the ping
  loop, which such a url ends for good (`channel_doc_ping`): both have the premise
  `PingLoopLives`, which settings that never return a url to panic on make true. A request
  that was never started need not start.
- `StreamedRequest`: `FairSpec` has the producers and the binders run, which are tokio
  tasks. The rest is a premise of each property. `ProducersFinish` needs `TimeoutsFire`
  (`request_timeout` ends each attempt that is not answered, and the transport lets go of
  the body of an attempt that was given up), and `AnsweredIsServed` of the server: one that has
  answered goes on reading or closes the call. Of a server that has not answered nothing
  is assumed. `StreamEnds` needs `ServerReads` and lets attempts last.
- `ResponseStream`: `FairSpec` has the senders run and their timeouts fire, which is
  all that `EverySenderEnds` needs; no task has to panic. `ResponseEnds` has the premise `Delivers`: a
  handler that returns, a transport that moves messages and a client that reads.
  Breaks and timeouts of the client stay optional.
- `PortForwards`: tokio hands out the mutex and fires the timeouts of connects. That my_ssh
  answers, well or badly, is the premise `SessionsAnswer` of `EveryConnectEnds`: no
  timeout of this code covers it.
- `Telemetry`: handlers come to an end and tokio runs the task that their drop spawns.
  Calls, arrivals and losses are not fair.

## Proofs

TLAPS checks eight modules of theorems, for every value of the constants that the
assumptions admit. Each `IInv` is an invariant of a run as well, and has three lemmas: it
holds initially, each action keeps it, and it implies the property.

`GrpcChannelProofs` and `RequestLatencyProofs`, from `ConstantsAssumption` alone: any number
of requests and channels, any budget, connect limit and set of urls.

- `Invariance`: `IInv` is inductive. `FailedChannelStaysOut` alone is not: a `set`
  could cache a channel that another task has given up. What excludes it is
  `PrivateChannel` (a channel that is being connected is known to its task only),
  which needs that identities are taken from `Free`. `AttemptBound` and
  `NoChannelBeforeStart` carry the types of the counters and of `chan`.
- `TypeCorrect`, `FailedChannelNeverReturns`: its conjuncts.
- `ClientImplementsRetriedCall`: the initial state maps to the initial state and each
  step to a step of `RetriedCall` or to a stutter. `StatusFrame` and `FailedResolves`
  say what the shared pieces of the actions do to the mapped variables; `Send` is the
  step that issues an attempt; `AttemptBound` decides between a retry and a failure.
- `LatencyIsBounded`: by a potential. The waits of a request never exceed those of
  the attempts it has finished plus what it has spent in the current one, and a
  step that ends an await spends at least one of it.

`StreamedRequestProofs`, for a finite set of producers, any number of items and attempts and
any channel size.

- `StreamInvariant`: what a stream has sent is numbered, so an attempt's part of it is
  stated by numbers: the buffer holds the items from `Unbuffered` on, in order
  (`items[i] = Unbuffered + i`), each attempt an unbroken run before them, and runs of two
  attempts do not overlap. The first attempt's run begins with item 1 and reaches up to the
  buffer until the attempt is left (`FirstIsLeft`, which stays true once it is). Neither
  half is inductive alone: a drain moves an item from the buffer to the end of a run, and
  needs both to see that it is the next one. Who holds the mutex, and that a binder of an
  attempt drains only what nobody else does, is part of it.
- `FirstAttemptIsComplete`, `AttemptsShareNothing` follow. `FirstEndIsTheEnd` needs
  `StreamIsOver` (after an end was read, nothing is buffered and no producer is left) and that a
  sole producer has sent `SendsEach` less what it has to do; `SoleProducerIsSafe` that
  nobody else can close the stream under it; `VectorEndIsTheEnd` that a clone is sent
  in the order of the vector and its channel ends only when it is done.
- `FirstAttemptDelivers`: the refinement of `StreamDelivery`, by the same reading of the
  first run.

`ResponseStreamProofs`, for any number of senders and items, any chunk and channel size
and any window.

- `ResponseInvariant`: while the client reads, the acknowledged messages are those it has
  received, then those on the way, then those in the channel (`OnTheWay`). That the end of a stream
  means a whole stream needs more: whatever a sender took from its source is in an acknowledged
  message, or a failure of that sender tells of it, or the receiver is gone and no end can come any more
  (`NothingSkipped`, `ClosedFails`, `EndMeansWhole`); and a helper that failed once
  takes nothing more (`HelperStops`). Items are stated by their senders and numbers (`HasItem`,
  `InOrder`, `NoGap`, `Whole`).
- `OkHasAcknowledged`, `OkIsWhole`, `HelperSendsPrefix` follow from it, and
  `ResponseDelivers` is the refinement of `StreamDelivery`: a delivery is the head of what is
  on the way, an end arrives when nothing is.

`PortForwardsProofs`, for any tasks and any set of endpoints whose parts are sequences of
strings.

- `PoolInvariant`: a task that starts a forward is the head of the queue; a forward that is stored under a
  socket was started for an endpoint with that socket (`StoredUnderSocket`), and so was the
  one that a task connects to (`TargetSharesSocket`).
- `LiveTunnels`: from `LookUpMisses`: no `Id` is a `Socket`, for a socket has more marks than an id can
  have; so `LookUp` always leads to a start. `PathParts` gives the places of the parts in a path.
- `OwnEndpoint`: `SeparableIsAlone`: where users and hosts have no dash, the first dash
  and the first double dash of a socket end the user and the host, so equal sockets have
  equal endpoints. The invariant says no more than that the sockets are equal, and the source
  guarantees no more.

`TelemetryProofs`, for chains of any length, any number of attempts and of ids, none of
which is a comma.

- `HeaderKeepsIds`: what `GetTelemetry` reads from `Header` has the ids of the context. The
  numbers of a joined list are at its odd places, and the number at place `2m - 1` has
  `m` of them up to it (`NumbersOfJoined`); no id, one id and several are the three branches of the code.
- `TraceInvariant`: the ids of executions, of headers on their way and of events are one
  invariant, for each comes from another of them. `IdsReachHandlers` and `OneEventEach`
  follow; in the latter an execution that reports is not among those that have, so the count of its
  service and the copies of its event grow together (`ReportStep`).

`ProtoFileReaderProofs`, for any file that `StatementsAssumption` admits, of any length.

- `ServiceIsLastMentioned`: a field named `service`, a comment behind code and a second
  service all give the service a name, so the theorem says which of them wins, and when the
  macro panics. `NameDue` is the part of `IInv` behind it: the name that `IsNamed` asks for is
  still among the tokens to be read, or the next one, or read; and a declaration that may end
  on a semicolon has no mention behind it (`NamesAreGiven`, `NamedStill`, `NamedNext`).
- `ReaderFollowsStatements`: `IInv` says that the reader is `Idle`, `Declaring` or `Waiting`,
  and in each that what was found are the rpcs seen so far (`Finds`). The properties speak
  of the moment when all tokens are read, so they say nothing of the steps in between:
  `Declaring` ties the state and both parameters to the tokens that are left, and `Waiting`
  keeps what was read of an rpc through all statements that its open end takes in.
  The lemmas follow the three: `IdleWrites` and `IdleReads`, `DeclaringStep` (one token of a parameter is `ParameterToken`, used for
  both), `WaitingWrites`, `WaitingReads` and `WaitingCloses`. `SeenBefore` and `SeenMeanwhile`
  say what a new statement changes in the reference, `FoundNext` that the rpc that is
  closed gets the place after those found before (`GreatestPlace`).
- `RpcsAreFound` follows, for at rest nothing is being declared and an rpc that waits
  is not in `Seen`. `DeclarationsAreFound` needs `ParsedAsDeclared` besides: what follows the type in
  the words of a parameter changes nothing.

`GeneratedCodeProofs`, under the same assumption.

- `HandlersServeClients`: by the four cases of streams, for whatever
  was found of an rpc: client and server agree with each other.
- `ClientKeepsDeclarations`: from the theorems of the reader, they agree with the author, and
  the macro implements the executor of each rpc. It panics for one without parameters
  (`CallsAreImplemented` excludes it), and what the reader finds always has a type.

Model-checked only: liveness and the fairness part of the refinements, for the prover takes
neither temporal arguments beyond invariants nor `ENABLED`, and the doc runs. Every
safety property of the passing runs has a theorem. What a filter or a fold computes for every
sequence takes an induction over data, which the prover cannot do; the modules with proofs
state collections by their places instead: `Joined` and `Numbers` are given item by item, and so
are the orders of items in `ResponseStream` and the place of an rpc among those seen.

## Not modelled

- `GrpcConnectUrl` classifies a string by its prefix, and my_ssh parses the rest. Its
  outcomes are constants of `GrpcChannel` (`Urls`) and `PortForwards` (`Endpoints`).
- The pool's drop, hosts and names for logs, ping intervals, the resolver of private keys.
- The parameters of the client macro, and the two attributes that edit handlers written by
  hand: they rewrite tokens at compile time. `into_snake_case` is used by both sides alike.
- Characters: tokenizing of lines, utf-8, numbers in headers (an id is its text).
- `external-dependencies` re-exports crates.

## Plan

Done: `GrpcChannel`, `RetriedCall`, `RequestLatency` with their proofs; `StreamedRequest`,
`ResponseStream` and `StreamDelivery`, which both implement; `PortForwards`; `Telemetry`;
`ProtoFileReader` and `GeneratedCode`; proofs of the safety properties of all of them.

1. A timed `ResponseStream` for the relation between `request_timeout` and the send
   timeout under which a truncated collection cannot be taken for a whole one.
