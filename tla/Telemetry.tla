------------------------------ MODULE Telemetry ------------------------------
(***************************************************************************)
(* The telemetry context of a process on its way through a chain of        *)
(* services: the client of each call writes it into a header, the server   *)
(* of the call reads it back, hands it to the handler and, when the        *)
(* handler is over, reports an event under it.                             *)
(*                                                                         *)
(* A call that is retried is executed as often as its attempts arrive, and *)
(* each execution may call the next service in turn.                       *)
(***************************************************************************)
EXTENDS Integers, SequencesExt

CONSTANTS
  Ids,          \* process ids, as they are printed; "," is none of them
  Origins,      \* contexts a process may begin with
  Depth,        \* services in the chain
  MaxAttempts   \* attempts of each call

VARIABLES
  setUp,   \* services whose telemetry is set up
  exec,    \* the process where it all began, then executions of handlers
  net,     \* requests that are on their way
  events   \* what was reported

vars == <<setUp, exec, net, events>>

Hops == 1 .. Depth

One(element) == SetToBag({element})

-----------------------------------------------------------------------------
(* MyTelemetryContext and its header.                                      *)

Context(kind, ids) == [is |-> kind, ids |-> ids]
Single(id)    == Context("Single", <<id>>)
Multiple(ids) == Context("Multiple", ids)
NoContext     == Context("Empty", <<>>)

Contexts == [is : {"Single"}, ids : {<<id>> : id \in Ids}]
              \union [is : {"Multiple"}, ids : Seq(Ids)] \union {NoContext}

ASSUME ConstantsAssumption ==
  /\ "," \notin Ids
  /\ Depth \in Nat /\ MaxAttempts \in Nat
  /\ Origins \subseteq Contexts

(* Mutant: the comma is forgotten. *)
JoinedWithoutComma(ids) == ids

(* The ids with a comma before each but the first. *)
Joined(ids) ==
  [i \in 1 .. 2 * Len(ids) - 1 |-> IF i % 2 = 1 THEN ids[(i + 1) \div 2] ELSE ","]

(* The value of "process-id", in a set that is empty when it is not there. *)
Header(ctx) ==
  CASE ctx.is = "Single"   -> {ctx.ids}
    [] ctx.is = "Multiple" -> {Joined(ctx.ids)}
    [] ctx.is = "Empty"    -> {}

(* What is between the commas: the n-th number has n of them up to it. *)
Numbers(value) ==
  LET places   == {i \in DOMAIN value : value[i] # ","}
      Place(n) == CHOOSE i \in places : Cardinality({j \in places : j <= i}) = n
  IN  [n \in 1 .. Cardinality(places) |-> value[Place(n)]]

(* Mutant: the value is read up to the first comma. *)
GetTelemetryUpToComma(header) ==
  IF header = {} THEN NoContext
  ELSE LET ids == Numbers(CHOOSE v \in header : TRUE)
       IN  IF ids = <<>> THEN NoContext ELSE Single(ids[1])

(***************************************************************************)
(* get_telemetry: with a comma the value is a list of all the numbers in   *)
(* it, without one it is a number, and what is no number is no context.    *)
(***************************************************************************)
GetTelemetry(header) ==
  IF header = {} THEN NoContext
  ELSE LET value == CHOOSE v \in header : TRUE
       IN  IF Contains(value, ",") THEN Multiple(Numbers(value))
           ELSE IF Len(value) = 1 THEN Single(value[1])
           ELSE NoContext

-----------------------------------------------------------------------------
Execution(hop, ctx) == [hop |-> hop, ctx |-> ctx, state |-> "running", attempts |-> 0]

Init ==
  /\ setUp \in SUBSET Hops
  /\ \E ctx \in Origins : exec = <<Execution(0, ctx)>>
  /\ net = EmptyBag
  /\ events = EmptyBag

SetUpTelemetry(n) ==
  /\ n \notin setUp
  /\ setUp' = setUp \union {n}
  /\ UNCHANGED <<exec, net, events>>

(* An attempt of the call to the next service, through the interceptor. *)
Call(x) ==
  /\ exec[x].state = "running" /\ exec[x].hop < Depth
  /\ exec[x].attempts < MaxAttempts
  /\ exec' = [exec EXCEPT ![x].attempts = @ + 1]
  /\ net' = net (+) One([hop |-> exec[x].hop + 1, header |-> Header(exec[x].ctx)])
  /\ UNCHANGED <<setUp, events>>

Lose(request) ==
  /\ net' = net (-) One(request)
  /\ UNCHANGED <<setUp, exec, events>>

(* The line that with_telemetry puts at the beginning of a handler. *)
StartHandler(request) ==
  /\ net' = net (-) One(request)
  /\ exec' = Append(exec, Execution(request.hop, GetTelemetry(request.header)))
  /\ UNCHANGED <<setUp, events>>

(* Mutant: only a handler that returns reports. *)
EndHandlerCancelled(x) ==
  /\ exec[x].state = "running" /\ exec[x].hop > 0
  /\ \E cancelled \in BOOLEAN :
       exec' = [exec EXCEPT ![x].state = IF exec[x].hop \in setUp /\ ~cancelled
                                         THEN "reporting" ELSE "unreported"]
  /\ UNCHANGED <<setUp, net, events>>

(***************************************************************************)
(* The handler returns, fails, panics or is dropped with its request: the  *)
(* drop of its context spawns the task that reports, in each of the cases. *)
(***************************************************************************)
EndHandler(x) ==
  /\ exec[x].state = "running" /\ exec[x].hop > 0
  /\ exec' = [exec EXCEPT ![x].state = IF exec[x].hop \in setUp
                                       THEN "reporting" ELSE "unreported"]
  /\ UNCHANGED <<setUp, net, events>>

Event(x) == [hop |-> exec[x].hop, ids |-> exec[x].ctx.ids]

(* Mutant: the context is not taken out of what is dropped. *)
ReportAgain(x) ==
  /\ exec[x].state = "reporting"
  /\ BagCardinality(events) < 3
  /\ events' = events (+) One(Event(x))
  /\ UNCHANGED <<setUp, exec, net>>

Report(x) ==
  /\ exec[x].state = "reporting"
  /\ exec' = [exec EXCEPT ![x].state = "reported"]
  /\ events' = events (+) One(Event(x))
  /\ UNCHANGED <<setUp, net>>

HandlerEnds(x) == EndHandler(x) \/ Report(x)

Next ==
  \/ \E n \in Hops : SetUpTelemetry(n)
  \/ \E x \in DOMAIN exec : Call(x) \/ HandlerEnds(x)
  \/ \E request \in BagToSet(net) : Lose(request) \/ StartHandler(request)

Spec == Init /\ [][Next]_vars

(* Executions there may be: one for each way of attempts down the chain. *)
MaxExecutions == 1 + FoldLeft(LAMBDA total, n : MaxAttempts * (1 + total), 0, [n \in Hops |-> n])

(* Every handler is over some time, and tokio runs the task it spawns. *)
FairSpec ==
  Spec /\ \A x \in 1 .. MaxExecutions : WF_vars(x \in DOMAIN exec /\ HandlerEnds(x))

-----------------------------------------------------------------------------
(* Properties.                                                             *)

Origin == exec[1].ctx.ids

Copies(element, bag) == IF BagIn(element, bag) THEN bag[element] ELSE 0

(***************************************************************************)
(* However deep in the chain and however often retried, a handler has the  *)
(* ids of the process that began, all of them and in their order, although *)
(* the header does not keep the kind of a context: several ids of which    *)
(* there is one are read as a single one, and none of them as no context.  *)
(***************************************************************************)
IdsSurvive == \A x \in DOMAIN exec : exec[x].ctx.ids = Origin

(***************************************************************************)
(* The trace has one event for each execution that reported, no more, and  *)
(* all of them under the ids of the process that began.                    *)
(***************************************************************************)
TraceIsTrue ==
  /\ \A n \in Hops : Copies([hop |-> n, ids |-> Origin], events)
                       = Cardinality({x \in DOMAIN exec : exec[x].hop = n /\ exec[x].state = "reported"})
  /\ \A e \in BagToSet(events) : e.ids = Origin

States == {"running", "reporting", "unreported", "reported"}

TypeOK ==
  /\ setUp \subseteq Hops
  /\ exec # <<>>
  /\ exec \in Seq([hop : 0 .. Depth, ctx : Contexts, state : States, attempts : 0 .. MaxAttempts])
  /\ IsABag(net) /\ \A request \in BagToSet(net) : request.hop \in Hops
  /\ IsABag(events)

(* A request carries the ids to the handler that it will start. *)
HeadersCarryIds ==
  \A request \in BagToSet(net) : /\ GetTelemetry(request.header) \in Contexts
                                /\ GetTelemetry(request.header).ids = Origin

(***************************************************************************)
(* The ids of executions go on into headers, those of headers into         *)
(* executions, and those of executions into events: together the           *)
(* invariants are inductive, while neither is without the others.          *)
(***************************************************************************)
IInv == TypeOK /\ IdsSurvive /\ HeadersCarryIds /\ TraceIsTrue

(***************************************************************************)
(* No execution is missing from the trace of a service that has telemetry: *)
(* neither one that failed nor one whose client had given it up.           *)
(***************************************************************************)
TraceIsComplete ==
  \A x \in 1 .. MaxExecutions :
    (x \in DOMAIN exec /\ exec[x].state = "running" /\ exec[x].hop \in setUp)
      ~> (x \in DOMAIN exec /\ exec[x].state = "reported")

=============================================================================
