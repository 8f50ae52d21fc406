--------------------------- MODULE ResponseStream ---------------------------
(***************************************************************************)
(* One streamed response: the tasks of the server that fill a bounded      *)
(* channel, the transport that empties it, and the client's reader.        *)
(*                                                                         *)
(* The server sides differ in who sends and in what follows a send that    *)
(* failed.  A helper of grpc_server_streams spawns one task, which stops.  *)
(* A StreamedResponseWriter gives producers to any number of tasks and can *)
(* send itself, GrpcServerStreamResult is one such producer, and both      *)
(* return the error to a caller that stops or goes on.  A producer may     *)
(* also send an error instead of an item.                                  *)
(*                                                                         *)
(* A send fails when it waited for room for the whole send timeout or when *)
(* the Receiver is gone.  Timeouts may fire early and late: a run of this  *)
(* model fixes no ratio between the timeouts of the two sides.             *)
(***************************************************************************)
EXTENDS Integers, Sequences, SequencesExt, FiniteSets

CONSTANTS
  Senders,      \* tasks of the server that may have a Sender
  ItemsEach,    \* the length of what each of them has to send
  ChunkSize,    \* chunk_size; 1 is a helper that sends item by item
  WriterSends,  \* sends of the handler through the writer before get_result
  ChannelSize,  \* 100 in the helpers, the argument of the writer's new
  Window,       \* items the transport has taken from the channel and not delivered
  Sides,        \* what may serve the response: "helper", "writer"
  Kinds,        \* how the client may read
  Handler       \* the name under which the handler sends

ASSUME ConstantsAssumption ==
  /\ Handler \notin Senders
  /\ {ItemsEach, ChunkSize, WriterSends} \subseteq Nat
  /\ {ChannelSize, Window} \subseteq Nat \ {0}
  /\ Sides \subseteq {"helper", "writer"}
  /\ Kinds \subseteq {"collect", "first", "single", "next"}

VARIABLES
  handler,   \* the handler that returns the stream
  toWrite,   \* sends it still makes through the writer
  side,      \* what serves the response
  sender,    \* whether a task has its Sender, or has had one
  taken,     \* items a task has taken from its source
  failures,  \* how sends of a task have failed, or "panic"
  channel,   \* the tokio channel
  accepted,  \* everything that was ever sent to it
  open,      \* the Receiver exists
  flight,    \* what the transport has of the response
  kind,      \* the reader
  result,    \* what the reader has come to
  received   \* the messages it has got

senderVars == <<sender, taken, failures>>
clientVars == <<kind, result, received>>
vars == <<handler, toWrite, side, senderVars, channel, accepted, open, flight, clientVars>>

Init ==
  /\ handler = "running"
  /\ side \in Sides
  /\ toWrite \in (IF side = "helper" THEN {0} ELSE 0 .. WriterSends)
  /\ \E tasks \in SUBSET Senders :
       /\ side = "helper" => Cardinality(tasks) = 1
       /\ sender = [s \in Senders |-> IF s \in tasks THEN "sending" ELSE "none"]
  /\ taken = [s \in Senders |-> 0]
  /\ failures = [s \in Senders |-> {}]
  /\ channel = <<>> /\ accepted = <<>>
  /\ open = TRUE
  /\ flight = <<>>
  /\ kind \in Kinds
  /\ result = "reading"
  /\ received = <<>>

(* What travels: a message of a sender, its error, or the end. *)
Message(s, items) == [is |-> "message", from |-> s, items |-> items]
Marker(what) == [is |-> what, from |-> Handler, items |-> <<>>]
Error  == Marker("error")
End    == Marker("end")
Status == Marker("status")

HasRoom == Len(channel) < ChannelSize

(* Mutant: what is left after the last full chunk is forgotten. *)
NextChunkFullOnly(n) ==
  LET size == IF ChunkSize = 0 THEN 1 ELSE ChunkSize
  IN  [i \in 1 .. (IF n + size <= ItemsEach THEN size ELSE 0) |-> n + i]

(***************************************************************************)
(* The next message after n items: items are pushed until the chunk has    *)
(* chunk_size of them, tested after the push, or the source is at its end. *)
(* <<>> when there is nothing to send.                                     *)
(***************************************************************************)
NextChunk(n) ==
  LET size == IF ChunkSize = 0 THEN 1 ELSE ChunkSize
      left == ItemsEach - n
  IN  [i \in 1 .. (IF left < size THEN left ELSE size) |-> n + i]

Put(m) ==
  /\ channel' = Append(channel, m)
  /\ accepted' = Append(accepted, m)

-----------------------------------------------------------------------------
(* The server.                                                             *)

(* StreamedResponseWriter::send in the handler. *)
WriterSend ==
  /\ handler = "running" /\ toWrite > 0
  /\ HasRoom
  /\ Put(Message(Handler, <<toWrite>>))
  /\ toWrite' = toWrite - 1
  /\ UNCHANGED <<handler, side, senderVars, open, flight, clientVars>>

(* StreamedResponseWriter::send_error in place of the next item. *)
WriterSendError ==
  /\ side = "writer"
  /\ handler = "running" /\ toWrite > 0
  /\ HasRoom
  /\ Put(Error)
  /\ toWrite' = toWrite - 1
  /\ UNCHANGED <<handler, side, senderVars, open, flight, clientVars>>

(***************************************************************************)
(* The Receiver is in the writer: nobody makes room, and the timeout makes *)
(* the unwrap of send, or of send_error, panic.                            *)
(***************************************************************************)
WriterPanics ==
  /\ handler = "running" /\ toWrite > 0
  /\ ~HasRoom
  /\ handler' = "panicked"
  /\ open' = FALSE
  /\ flight' = <<Status>>
  /\ UNCHANGED <<toWrite, side, senderVars, channel, accepted, clientVars>>

(* get_result gives the Receiver to the transport and drops the writer. *)
GetResult ==
  /\ handler = "running" /\ toWrite = 0
  /\ handler' = "returned"
  /\ UNCHANGED <<toWrite, side, senderVars, channel, accepted, open, flight, clientVars>>

Take(s) == taken' = [taken EXCEPT ![s] = @ + Len(NextChunk(@))]

(* Mutant: the loop ends and the Sender lives on. *)
LeaveWithoutDrop(s) == UNCHANGED sender

Leave(s) == sender' = [sender EXCEPT ![s] = "gone"]

Send(s) ==
  /\ sender[s] = "sending" /\ NextChunk(taken[s]) # <<>>
  /\ open /\ HasRoom
  /\ Put(Message(s, NextChunk(taken[s])))
  /\ Take(s)
  /\ UNCHANGED <<handler, toWrite, side, sender, failures, open, flight, clientVars>>

(* No room within the timeout, or no Receiver. *)
SendCannotBeDone == open => ~HasRoom

(* Mutant: a failed send is repeated. *)
SendFailsRepeated(s) ==
  /\ sender[s] = "sending" /\ NextChunk(taken[s]) # <<>>
  /\ SendCannotBeDone
  /\ failures' = [failures EXCEPT ![s] = @ \union {IF open THEN "timeout" ELSE "closed"}]
  /\ UNCHANGED <<handler, toWrite, side, sender, taken, channel, accepted, open, flight, clientVars>>

(* Mutant: the loop has no break. *)
SendFailsNoBreak(s) ==
  /\ sender[s] = "sending" /\ NextChunk(taken[s]) # <<>>
  /\ SendCannotBeDone
  /\ failures' = [failures EXCEPT ![s] = @ \union {IF open THEN "timeout" ELSE "closed"}]
  /\ Take(s)
  /\ UNCHANGED <<handler, toWrite, side, sender, channel, accepted, open, flight, clientVars>>

(* The message of a send that failed is dropped with it. *)
SendFails(s) ==
  /\ sender[s] = "sending" /\ NextChunk(taken[s]) # <<>>
  /\ SendCannotBeDone
  /\ failures' = [failures EXCEPT ![s] = @ \union {IF open THEN "timeout" ELSE "closed"}]
  /\ Take(s)
  /\ Leave(s) \/ (side = "writer" /\ UNCHANGED sender)
  /\ UNCHANGED <<handler, toWrite, side, channel, accepted, open, flight, clientVars>>

(* Mutant: the error does not get into the channel, and nobody is told. *)
SendErrorSwallowed(s) ==
  /\ side = "writer"
  /\ sender[s] = "sending" /\ NextChunk(taken[s]) # <<>>
  /\ Take(s)
  /\ UNCHANGED <<handler, toWrite, side, sender, failures, channel, accepted, open, flight, clientVars>>

(* StreamedResponseProducer::send_error in place of the next item. *)
SendError(s) ==
  /\ side = "writer"
  /\ sender[s] = "sending" /\ NextChunk(taken[s]) # <<>>
  /\ open /\ HasRoom
  /\ Put(Error)
  /\ Take(s)
  /\ UNCHANGED <<handler, toWrite, side, sender, failures, open, flight, clientVars>>

(* It unwraps: the panic drops the producer. *)
SendErrorPanics(s) ==
  /\ side = "writer"
  /\ sender[s] = "sending" /\ NextChunk(taken[s]) # <<>>
  /\ SendCannotBeDone
  /\ failures' = [failures EXCEPT ![s] = @ \union {IF open THEN "timeout" ELSE "closed"}]
  /\ Leave(s)
  /\ UNCHANGED <<handler, toWrite, side, taken, channel, accepted, open, flight, clientVars>>

(***************************************************************************)
(* The user's code that makes the next items panics in a helper's task:    *)
(* the Sender is dropped, with the part of a chunk that was collected.     *)
(***************************************************************************)
MappingPanics(s) ==
  /\ side = "helper"
  /\ sender[s] = "sending" /\ NextChunk(taken[s]) # <<>>
  /\ failures' = [failures EXCEPT ![s] = @ \union {"panic"}]
  /\ Leave(s)
  /\ UNCHANGED <<handler, toWrite, side, taken, channel, accepted, open, flight, clientVars>>

(* The source is at its end: the Sender is dropped. *)
SenderEnds(s) ==
  /\ sender[s] = "sending" /\ NextChunk(taken[s]) = <<>>
  /\ Leave(s)
  /\ UNCHANGED <<handler, toWrite, side, taken, failures, channel, accepted, open, flight, clientVars>>

-----------------------------------------------------------------------------
(* The transport: tonic on the server, the network, tonic on the client.   *)

(* A message goes out; an error is the last thing the client will see. *)
Pull ==
  /\ handler = "returned" /\ open
  /\ channel # <<>> /\ Len(flight) < Window
  /\ channel' = Tail(channel)
  /\ flight' = Append(flight, Head(channel))
  /\ open' = (Head(channel) # Error)
  /\ UNCHANGED <<handler, toWrite, side, senderVars, accepted, clientVars>>

(* The end goes out when no Sender is left and the channel is empty. *)
PullEnd ==
  /\ handler = "returned" /\ open
  /\ channel = <<>> /\ \A s \in Senders : sender[s] # "sending"
  /\ flight' = Append(flight, End)
  /\ open' = FALSE
  /\ UNCHANGED <<handler, toWrite, side, senderVars, channel, accepted, clientVars>>

(* The connection breaks: the client may still get a part of what is on its way. *)
Break ==
  /\ handler = "returned" /\ result = "reading"
  /\ \E n \in 0 .. Len(flight) - (IF open THEN 0 ELSE 1) :
       flight' = Append(SubSeq(flight, 1, n), Status)
  /\ open' = FALSE
  /\ UNCHANGED <<handler, toWrite, side, senderVars, channel, accepted, clientVars>>

(***************************************************************************)
(* The server learns that the client has let go of the response: the       *)
(* Receiver is dropped, and with it a handler that has not returned.       *)
(***************************************************************************)
Reset ==
  /\ result # "reading" /\ open
  /\ open' = FALSE
  /\ handler' = IF handler = "running" THEN "cancelled" ELSE handler
  /\ UNCHANGED <<toWrite, side, senderVars, channel, accepted, flight, clientVars>>

-----------------------------------------------------------------------------
(* The client.                                                             *)

(* What a reader does with its next message. *)
Outcome ==
  IF kind = "first" THEN "ok"
  ELSE IF kind = "single" /\ received # <<>> THEN "panic"
  ELSE "reading"

Receive ==
  /\ result = "reading" /\ flight # <<>>
  /\ Head(flight) \notin {Error, End, Status}
  /\ received' = Append(received, Head(flight))
  /\ result' = Outcome
  /\ flight' = Tail(flight)
  /\ UNCHANGED <<handler, toWrite, side, senderVars, channel, accepted, open, kind>>

(* Mutant: the loop over the messages stops at an error as at the end. *)
ReceiveErrorAsEnd ==
  /\ result = "reading" /\ flight # <<>>
  /\ Head(flight) \in {Error, End, Status}
  /\ result' = "ok"
  /\ flight' = Tail(flight)
  /\ UNCHANGED <<handler, toWrite, side, senderVars, channel, accepted, open, kind, received>>

ReceiveEnd ==
  /\ result = "reading" /\ flight # <<>>
  /\ Head(flight) \in {Error, End, Status}
  /\ result' = IF Head(flight) = End THEN "ok" ELSE "status"
  /\ flight' = Tail(flight)
  /\ UNCHANGED <<handler, toWrite, side, senderVars, channel, accepted, open, kind, received>>

(* Mutant: the loop over the messages ends as at the end of the stream. *)
ReadTimeoutIsEnd ==
  /\ result = "reading"
  /\ result' = "ok"
  /\ UNCHANGED <<handler, toWrite, side, senderVars, channel, accepted, open, flight, kind, received>>

(* The wait for one message took longer than the timeout. *)
ReadTimeout ==
  /\ result = "reading" /\ kind # "next"
  /\ result' = "timeout"
  /\ UNCHANGED <<handler, toWrite, side, senderVars, channel, accepted, open, flight, kind, received>>

(* get_next_item has returned, with a timeout or a message, to a caller that stops. *)
DropResponse ==
  /\ result = "reading" /\ kind = "next"
  /\ result' = "dropped"
  /\ UNCHANGED <<handler, toWrite, side, senderVars, channel, accepted, open, flight, kind, received>>

-----------------------------------------------------------------------------
Proceeds(s) ==
  \/ Send(s) \/ SendFails(s)
  \/ SendError(s) \/ SendErrorPanics(s)
  \/ SenderEnds(s)

SenderStep(s) == Proceeds(s) \/ MappingPanics(s)

HandlerStep == WriterSend \/ WriterSendError \/ WriterPanics \/ GetResult
ReaderStep  == Receive \/ ReceiveEnd \/ ReadTimeout \/ DropResponse
Transport   == Pull \/ PullEnd \/ Break \/ Reset

Next ==
  \/ HandlerStep
  \/ \E s \in Senders : SenderStep(s)
  \/ Transport
  \/ ReaderStep

Spec == Init /\ [][Next]_vars

(***************************************************************************)
(* tokio runs every ready task of the server and fires its timers, and the *)
(* user's code returns; the transport and the client owe nothing, and no   *)
(* task has to panic.                                                      *)
(***************************************************************************)
FairSpec == Spec /\ \A s \in Senders : WF_vars(Proceeds(s))

(* A handler that comes to its end, a working transport, a client that reads. *)
Delivers ==
  /\ WF_vars(HandlerStep)
  /\ WF_vars(Pull) /\ WF_vars(PullEnd)
  /\ WF_vars(Receive \/ ReceiveEnd)

-----------------------------------------------------------------------------
(* Properties.                                                             *)

Messages == {Message(s, NextChunk(n)) : s \in Senders, n \in 0 .. ItemsEach}
              \union {Message(Handler, <<n>>) : n \in 1 .. WriterSends}

(* Every variable holds a value of its kind, the two buffers within bounds. *)
TypeOK ==
  /\ handler \in {"running", "returned", "panicked", "cancelled"}
  /\ toWrite \in 0 .. WriterSends
  /\ side \in Sides
  /\ sender \in [Senders -> {"none", "sending", "gone"}]
  /\ taken \in [Senders -> 0 .. ItemsEach]
  /\ failures \in [Senders -> SUBSET {"timeout", "closed", "panic"}]
  /\ channel \in Seq(Messages \union {Error}) /\ Len(channel) <= ChannelSize
  /\ accepted \in Seq(Messages \union {Error})
  /\ open \in BOOLEAN
  /\ flight \in Seq(Messages \union {Error, End, Status}) /\ Len(flight) <= Window + 1
  /\ kind \in Kinds
  /\ result \in {"reading", "ok", "timeout", "status", "panic", "dropped"}
  /\ received \in Seq(Messages)

(* The reader has come to the end of the stream and found no error there. *)
SawEnd == result = "ok" /\ kind # "first"

(* A message of a sender has its n-th item. *)
HasItem(s, messages, n) ==
  \E i \in DOMAIN messages : messages[i].from = s /\ n \in ToSet(messages[i].items)

(* The items of a sender come in their order, none twice. *)
InOrder(s, messages) ==
  \A i, j \in DOMAIN messages : messages[i].from = s /\ messages[j].from = s =>
    \A a \in DOMAIN messages[i].items, b \in DOMAIN messages[j].items :
      i < j \/ (i = j /\ a < b) => messages[i].items[a] < messages[j].items[b]

(* What has item n of a sender has all that come before it. *)
NoGap(s, messages) ==
  \A n \in 1 .. ItemsEach :
    HasItem(s, messages, n) => \A m \in 1 .. n : HasItem(s, messages, m)

(* All a sender has to send, item by item. *)
Whole(s, messages) ==
  InOrder(s, messages) /\ \A n \in 1 .. ItemsEach : HasItem(s, messages, n)

(***************************************************************************)
(* A reader that returns Ok has every message whose send was acknowledged, *)
(* whoever sent it and in the order in which they were sent: no broken     *)
(* connection, cancelled handler or timeout of either side passes for the  *)
(* end of the stream.                                                      *)
(***************************************************************************)
AcknowledgedIsReceived == SawEnd => received = accepted

(* What the client gets is such a stream as StreamDelivery describes, until *)
(* it learns of a failure, drops the response or has enough of it.         *)
Delivered == IF result = "reading" \/ SawEnd THEN received ELSE <<>>
Phase     == IF SawEnd THEN "ended" ELSE IF result = "reading" THEN "reading" ELSE "left"

Delivery == INSTANCE StreamDelivery WITH
  Item <- Messages \union {Error}, sent <- accepted, delivered <- Delivered, phase <- Phase

(* The messages come in the order of their acknowledged sends, none is     *)
(* missing, and a clean end comes after the last send of all the tasks.    *)
ImplementsStreamDelivery == Delivery!Spec

(* A task has dropped an item and left the Receiver in its place. *)
CutShort(s) == failures[s] \intersect {"timeout", "panic"} # {}

(***************************************************************************)
(* A collection that a reader returns as Ok is the whole one unless a send *)
(* timed out or the task panicked, which only the server's log tells: the  *)
(* client sees a clean end after both.                                     *)
(***************************************************************************)
WholeUnlessCutShort ==
  SawEnd => \A s \in Senders : \/ sender[s] = "none"
                               \/ Whole(s, received)
                               \/ CutShort(s)

(***************************************************************************)
(* What the client gets of a helper's collection, whether it returns it or *)
(* an error, is a beginning of it: cut at chunk boundaries, with no item   *)
(* missing in between and none twice.                                      *)
(***************************************************************************)
ReceivedIsPrefix ==
  \A s \in Senders : side = "helper" => InOrder(s, received) /\ NoGap(s, received)

(* Nothing is behind an error or an end, and neither goes out before the *)
(* Receiver is dropped.                                                  *)
MarkIsLast ==
  \A i \in 1 .. Len(flight) : flight[i] \in {Error, End, Status} => i = Len(flight) /\ ~open

(* A handler at work has the Receiver, and nothing has gone out yet. *)
HandlerHoldsReceiver == handler = "running" => open /\ flight = <<>>

(***************************************************************************)
(* What was accepted is what is received, on its way and in the channel,   *)
(* one behind the other: all of it while the Receiver lives, a beginning   *)
(* afterwards.  An end on its way has nothing accepted behind it.          *)
(***************************************************************************)
OnTheWay ==
  /\ Len(received) <= Len(accepted)
  /\ \A i \in 1 .. Len(received) : received[i] = accepted[i]
  /\ open => Len(flight) <= Window
  /\ result = "reading" =>
       /\ \A i \in 1 .. Len(flight) :
            IF flight[i] = End THEN Len(accepted) + 1 = Len(received) + i
            ELSE flight[i] # Status => /\ Len(received) + i <= Len(accepted)
                                       /\ flight[i] = accepted[Len(received) + i]
       /\ open => /\ Len(accepted) = Len(received) + Len(flight) + Len(channel)
                  /\ \A i \in 1 .. Len(channel) :
                       channel[i] = accepted[Len(received) + Len(flight) + i]

(* Items are accepted in their order, and only those that were taken. *)
AcceptedInOrder ==
  \A s \in Senders :
    /\ InOrder(s, accepted)
    /\ \A n \in taken[s] + 1 .. ItemsEach : ~HasItem(s, accepted, n)

(* An item that is missing has left a trace: a failure or an error. *)
NothingSkipped ==
  \A s \in Senders : failures[s] = {} /\ Error \notin ToSet(accepted) =>
    /\ \A n \in 1 .. taken[s] : HasItem(s, accepted, n)
    /\ sender[s] = "gone" => taken[s] = ItemsEach

(* A helper stops after a failure, and sends no errors. *)
HelperStops ==
  side = "helper" =>
    /\ Error \notin ToSet(accepted)
    /\ \A s \in Senders : /\ sender[s] = "sending" => failures[s] = {}
                          /\ NoGap(s, accepted)

(* A send that finds the channel closed comes after the Receiver's drop. *)
ClosedFails == open => \A s \in Senders : "closed" \notin failures[s]

(***************************************************************************)
(* An end on its way, or seen, is the end of everything that the tasks had *)
(* to send, except for those that were cut short.                          *)
(***************************************************************************)
EndMeansWhole ==
  /\ SawEnd => received = accepted /\ ~open
  /\ SawEnd \/ (result = "reading" /\ End \in ToSet(flight)) =>
       \A s \in Senders : \/ sender[s] = "none"
                          \/ Whole(s, accepted)
                          \/ CutShort(s)

(* What every step preserves; the safety properties follow from it. *)
IInv ==
  /\ TypeOK
  /\ MarkIsLast /\ HandlerHoldsReceiver /\ OnTheWay
  /\ AcceptedInOrder /\ NothingSkipped /\ HelperStops /\ ClosedFails
  /\ EndMeansWhole

(***************************************************************************)
(* Every task of the server ends, although the client may stop reading and *)
(* keep the connection: a send waits no longer than its timeout.           *)
(***************************************************************************)
EverySenderEnds == \A s \in Senders : <>(sender[s] # "sending")

(***************************************************************************)
(* A client that reads on comes to an end of the response, whatever has    *)
(* failed before: no Sender outlives its task and the handler's writer.    *)
(***************************************************************************)
ResponseEnds == Delivers => <>(result # "reading")

=============================================================================
