--------------------------- MODULE StreamedRequest ---------------------------
(***************************************************************************)
(* A request whose input is a stream: StreamedRequestInner, the producers  *)
(* that fill it, and the attempts of one request that read it.             *)
(*                                                                         *)
(* AsVec has all its items from the start, and each attempt is sent clones *)
(* of them; nothing in it changes.  AsStream is still being produced.      *)
(* Everything in it is under one tokio Mutex, which a task keeps while it  *)
(* awaits room in a bounded channel.  The mutex is fair: waiting tasks get *)
(* it in the order in which they asked for it, so it is the sequence of    *)
(* these tasks, and the first of them holds it.                            *)
(*                                                                         *)
(* Items are numbered in the order in which their sends get the mutex.     *)
(***************************************************************************)
EXTENDS Integers, Sequences, FiniteSets

CONSTANTS
  Producers,     \* what get_producer may return, one task each
  SendsEach,     \* items each of them sends before it is dropped; the length of a vector
  MaxAttempts,   \* attempts of the request that get as far as get_consumer
  ChannelSize,   \* channel_size: 1024 unless set_channel_size is called
  NoSender       \* Initialized(None)

Attempts == 1 .. MaxAttempts

ASSUME ConstantsAssumption ==
  /\ MaxAttempts \in Nat \ {0}
  /\ ChannelSize \in Nat \ {0}
  /\ SendsEach \in Nat
  /\ IsFiniteSet(Producers)
  /\ Producers \intersect Attempts = {}
  /\ NoSender \notin Attempts

VARIABLES
  queue,     \* the tasks that hold (first) or await the mutex
  mode,      \* "buffering" is NotInitialized, "bound" is Initialized, "vector" is AsVec
  items,     \* NotInitialized.items, or the vector
  eos,       \* NotInitialized.has_end_of_stream
  sender,    \* the attempt whose Sender is in Initialized
  channel,   \* the items in the channel of each attempt
  open,      \* attempts whose Receiver exists
  binder,    \* the task that get_consumer spawns to call set_sender
  cur,       \* the attempt under way, or the last one
  outcome,   \* of the request
  received,  \* what the server has read in each attempt
  ended,     \* attempts in which the server has read the end of the stream
  producer,  \* what each producer is at
  todo,      \* sends each producer has left
  sends,     \* sends that got the mutex so far
  panicked   \* producers whose send panicked

innerVars   == <<mode, items, eos, sender>>
attemptVars == <<cur, outcome, received, ended>>
vars == <<queue, innerVars, channel, open, binder, attemptVars, producer, todo, sends, panicked>>

Upto(n) == [i \in 1 .. n |-> i]

Init ==
  /\ queue = <<>>
  /\ mode \in {"buffering", "vector"}
  /\ items = IF mode = "vector" THEN Upto(SendsEach) ELSE <<>>
  /\ eos = FALSE /\ sender = NoSender
  /\ channel = [k \in Attempts |-> <<>>]
  /\ open = {}
  /\ binder = [k \in Attempts |-> "none"]
  /\ cur = 0
  /\ outcome = "none"
  /\ received = [k \in Attempts |-> <<>>]
  /\ ended = {}
  /\ producer = [p \in Producers |-> "none"]
  /\ todo = [p \in Producers |-> SendsEach]
  /\ sends = 0
  /\ panicked = {}

Holds(t) == queue # <<>> /\ Head(queue) = t
Lock(t)  == queue' = Append(queue, t)
Unlock   == queue' = Tail(queue)

(* Mutant: a channel one longer than asked for. *)
HasRoomForOneMore(k) == Len(channel[k]) <= ChannelSize

HasRoom(k) == Len(channel[k]) < ChannelSize

(***************************************************************************)
(* Who has the Arc of the stream: the builder until get_response returns,  *)
(* the producers and the tasks that end the stream for them, the binders.  *)
(* With the last of them the stream goes, and with it a stored Sender.     *)
(***************************************************************************)
Owned ==
  \/ outcome \notin {"ok", "failed"}
  \/ \E p \in Producers : producer[p] \notin {"none", "gone"}
  \/ \E k \in Attempts : binder[k] \in {"spawned", "binding"}

(* Sender handles of attempt k: the binder's until it is stored or dropped. *)
HasSender(k) == (sender = k /\ Owned) \/ binder[k] \in {"spawned", "binding"}

-----------------------------------------------------------------------------
(* get_producer, StreamedRequestProducer::send and the drop of a producer. *)

(* The stream itself is not cloned: all its producers are made before the  *)
(* request takes it.                                                       *)
GetProducer(p) ==
  /\ producer[p] = "none" /\ cur = 0
  /\ producer' = [producer EXCEPT ![p] = "idle"]
  /\ UNCHANGED <<queue, innerVars, channel, open, binder, attemptVars, todo, sends, panicked>>

CallSend(p) ==
  /\ mode # "vector"
  /\ producer[p] = "idle" /\ todo[p] > 0
  /\ producer' = [producer EXCEPT ![p] = "send"]
  /\ Lock(p)
  /\ UNCHANGED <<innerVars, channel, open, binder, attemptVars, todo, sends, panicked>>

(* send returns to its caller, whether the item got anywhere or not. *)
SendReturns(p) ==
  /\ Unlock
  /\ sends' = sends + 1
  /\ todo' = [todo EXCEPT ![p] = @ - 1]
  /\ producer' = [producer EXCEPT ![p] = "idle"]

SendBuffers(p) ==
  /\ Holds(p) /\ producer[p] = "send"
  /\ mode = "buffering" /\ ~eos
  /\ items' = Append(items, sends + 1)
  /\ SendReturns(p)
  /\ UNCHANGED <<mode, eos, sender, channel, open, binder, attemptVars, panicked>>

(* Awaits room in the channel with the mutex held. *)
SendToChannel(p) ==
  /\ Holds(p) /\ producer[p] = "send"
  /\ sender \in open /\ HasRoom(sender)
  /\ channel' = [channel EXCEPT ![sender] = Append(@, sends + 1)]
  /\ SendReturns(p)
  /\ UNCHANGED <<innerVars, open, binder, attemptVars, panicked>>

(* Mutant: a send that fails is repeated until it succeeds. *)
SendInsists(p) ==
  /\ Holds(p) /\ producer[p] = "send"
  /\ sender \in Attempts \ open
  /\ UNCHANGED vars

(* The Receiver is gone: the error is printed and the item is lost. *)
SendLost(p) ==
  /\ Holds(p) /\ producer[p] = "send"
  /\ sender \in Attempts \ open
  /\ SendReturns(p)
  /\ UNCHANGED <<innerVars, channel, open, binder, attemptVars, panicked>>

(* "StreamedRequestInner is ended": the unwinding drops the producer. *)
SendPanics(p) ==
  /\ Holds(p) /\ producer[p] = "send"
  /\ \/ mode = "buffering" /\ eos
     \/ mode = "bound" /\ sender = NoSender
  /\ Unlock
  /\ panicked' = panicked \union {p}
  /\ todo' = [todo EXCEPT ![p] = 0]
  /\ producer' = [producer EXCEPT ![p] = "idle"]
  /\ UNCHANGED <<innerVars, channel, open, binder, attemptVars, sends>>

(* "Can not enqueue new item": a vector takes no sends and needs no mutex. *)
SendToVector(p) ==
  /\ mode = "vector"
  /\ producer[p] = "idle" /\ todo[p] > 0
  /\ panicked' = panicked \union {p}
  /\ todo' = [todo EXCEPT ![p] = 0]
  /\ UNCHANGED <<queue, innerVars, channel, open, binder, attemptVars, producer, sends>>

(* The send_eof of a vector does nothing. *)
DropVectorProducer(p) ==
  /\ mode = "vector"
  /\ producer[p] = "idle"
  /\ producer' = [producer EXCEPT ![p] = "gone"]
  /\ UNCHANGED <<queue, innerVars, channel, open, binder, attemptVars, todo, sends, panicked>>

(* The drop spawns a task that calls send_eof. *)
DropProducer(p) ==
  /\ mode # "vector"
  /\ producer[p] = "idle" /\ todo[p] = 0
  /\ producer' = [producer EXCEPT ![p] = "eof"]
  /\ Lock(p)
  /\ UNCHANGED <<innerVars, channel, open, binder, attemptVars, todo, sends, panicked>>

SendEof(p) ==
  /\ Holds(p) /\ producer[p] = "eof"
  /\ IF mode = "buffering"
     THEN eos' = TRUE /\ UNCHANGED sender
     ELSE sender' = NoSender /\ UNCHANGED eos
  /\ Unlock
  /\ producer' = [producer EXCEPT ![p] = "gone"]
  /\ UNCHANGED <<mode, items, channel, open, binder, attemptVars, todo, sends, panicked>>

-----------------------------------------------------------------------------
(* set_sender, in the task that get_consumer spawns.                       *)

(* What the attempt got out of the request, read or still in the channel. *)
Taken(k) == received[k] \o channel[k]

(* Mutant: the items of the vector are moved out of it. *)
SendCloneMoves(k) ==
  /\ mode = "vector" /\ binder[k] = "spawned" /\ items # <<>>
  /\ k \in open /\ HasRoom(k)
  /\ channel' = [channel EXCEPT ![k] = Append(@, Head(items))]
  /\ items' = Tail(items)
  /\ UNCHANGED <<queue, mode, eos, sender, open, binder, attemptVars, producer, todo,
                 sends, panicked>>

(* The loop over a vector: clones go into the channel, without a mutex. *)
SendClone(k) ==
  /\ mode = "vector" /\ binder[k] = "spawned"
  /\ Len(Taken(k)) < Len(items)
  /\ k \in open /\ HasRoom(k)
  /\ channel' = [channel EXCEPT ![k] = Append(@, items[Len(Taken(k)) + 1])]
  /\ UNCHANGED <<queue, innerVars, open, binder, attemptVars, producer, todo, sends, panicked>>

(* The Sender goes with the task, after the last item or without a Receiver. *)
CloneEnds(k) ==
  /\ mode = "vector" /\ binder[k] = "spawned"
  /\ Len(Taken(k)) = Len(items) \/ k \notin open
  /\ binder' = [binder EXCEPT ![k] = "done"]
  /\ UNCHANGED <<queue, innerVars, channel, open, attemptVars, producer, todo, sends, panicked>>

BindLock(k) ==
  /\ mode # "vector"
  /\ binder[k] = "spawned"
  /\ binder' = [binder EXCEPT ![k] = "binding"]
  /\ Lock(k)
  /\ UNCHANGED <<innerVars, channel, open, attemptVars, producer, todo, sends, panicked>>

BindReturns(k) ==
  /\ Unlock
  /\ binder' = [binder EXCEPT ![k] = "done"]

(* Mutant: the buffer is emptied from its end. *)
DrainLastItem(k) ==
  /\ Holds(k) /\ mode = "buffering" /\ items # <<>>
  /\ k \in open /\ HasRoom(k)
  /\ channel' = [channel EXCEPT ![k] = Append(@, items[Len(items)])]
  /\ items' = SubSeq(items, 1, Len(items) - 1)
  /\ UNCHANGED <<queue, mode, eos, sender, open, binder, attemptVars, producer, todo,
                 sends, panicked>>

(* The drain moves one item; it awaits room with the mutex held. *)
DrainItem(k) ==
  /\ Holds(k) /\ mode = "buffering" /\ items # <<>>
  /\ k \in open /\ HasRoom(k)
  /\ channel' = [channel EXCEPT ![k] = Append(@, Head(items))]
  /\ items' = Tail(items)
  /\ UNCHANGED <<queue, mode, eos, sender, open, binder, attemptVars, producer, todo,
                 sends, panicked>>

(* The Receiver is gone: the return drops the Drain and what is left in it. *)
DrainFails(k) ==
  /\ Holds(k) /\ mode = "buffering" /\ items # <<>>
  /\ k \notin open
  /\ items' = <<>>
  /\ BindReturns(k)
  /\ UNCHANGED <<mode, eos, sender, channel, open, attemptVars, producer, todo, sends, panicked>>

(* Mutant: has_end_of_stream is looked at before the buffer. *)
DrainEndsEarly(k) ==
  /\ Holds(k) /\ mode = "buffering" /\ eos
  /\ BindReturns(k)
  /\ UNCHANGED <<innerVars, channel, open, attemptVars, producer, todo, sends, panicked>>

(* Nothing is left and nothing will come: the Sender is dropped. *)
DrainEnds(k) ==
  /\ Holds(k) /\ mode = "buffering" /\ items = <<>> /\ eos
  /\ BindReturns(k)
  /\ UNCHANGED <<innerVars, channel, open, attemptVars, producer, todo, sends, panicked>>

(* Mutant: the buffer is not drained before the sender is stored. *)
BindUndrained(k) ==
  /\ Holds(k)
  /\ mode = "bound" \/ ~eos
  /\ mode' = "bound"
  /\ sender' = k
  /\ BindReturns(k)
  /\ UNCHANGED <<items, eos, channel, open, attemptVars, producer, todo, sends, panicked>>

(* Mutant: has_end_of_stream is not looked at. *)
BindAfterEos(k) ==
  /\ Holds(k)
  /\ mode = "bound" \/ items = <<>>
  /\ mode' = "bound"
  /\ sender' = k
  /\ BindReturns(k)
  /\ UNCHANGED <<items, eos, channel, open, attemptVars, producer, todo, sends, panicked>>

(* Mutant: the old sender is dropped and the new one is not stored. *)
BindForgets(k) ==
  /\ Holds(k)
  /\ mode = "bound" \/ (items = <<>> /\ ~eos)
  /\ mode' = "bound"
  /\ sender' = IF mode = "bound" THEN NoSender ELSE k
  /\ BindReturns(k)
  /\ UNCHANGED <<items, eos, channel, open, attemptVars, producer, todo, sends, panicked>>

(* Initialized(Some(sender)), in place of whatever was there. *)
Bind(k) ==
  /\ Holds(k)
  /\ mode = "bound" \/ (items = <<>> /\ ~eos)
  /\ mode' = "bound"
  /\ sender' = k
  /\ BindReturns(k)
  /\ UNCHANGED <<items, eos, channel, open, attemptVars, producer, todo, sends, panicked>>

-----------------------------------------------------------------------------
(* The request and, through the transport, the server.                     *)

(* execute_input_as_stream gets as far as get_consumer. *)
StartAttempt ==
  /\ outcome \in {"none", "retry"}
  /\ cur' = cur + 1
  /\ outcome' = "running"
  /\ open' = open \union {cur + 1}
  /\ binder' = [binder EXCEPT ![cur + 1] = "spawned"]
  /\ UNCHANGED <<queue, innerVars, channel, received, ended, producer, todo, sends, panicked>>

(* A timeout or an error status; the loop of get_response. *)
AttemptFails ==
  /\ outcome = "running"
  /\ outcome' = IF cur >= MaxAttempts THEN "failed" ELSE "retry"
  /\ UNCHANGED <<queue, innerVars, channel, open, binder, cur, received, ended, producer,
                 todo, sends, panicked>>

(* Mutant: the reader's loop ends as at the end of the stream. *)
ReaderTimeoutIsEnd ==
  /\ outcome = "running" /\ cur \in open \ ended
  /\ ended' = ended \union {cur}
  /\ UNCHANGED <<queue, innerVars, channel, open, binder, cur, outcome, received, producer,
                 todo, sends, panicked>>

(* get_next waited for an item longer than its timeout: the handler gives  *)
(* the reader up, and will answer with the error.                          *)
ReaderTimeout ==
  /\ outcome = "running" /\ cur \in open \ ended
  /\ open' = open \ {cur}
  /\ channel' = [channel EXCEPT ![cur] = <<>>]
  /\ UNCHANGED <<queue, innerVars, binder, attemptVars, producer, todo, sends, panicked>>

(***************************************************************************)
(* The answer comes in time: the response, or the headers of a streamed    *)
(* one.  A server need not have read the stream to its end for it, nor     *)
(* read on, and no timeout watches over the body from here on.             *)
(***************************************************************************)
AttemptSucceeds ==
  /\ outcome = "running"
  /\ outcome' = "ok"
  /\ UNCHANGED <<queue, innerVars, channel, open, binder, cur, received, ended, producer,
                 todo, sends, panicked>>

(***************************************************************************)
(* The transport lets go of the body of an attempt: one that was given up  *)
(* some time after the attempt, one that was answered when either side     *)
(* closes the call.  Until then it may go on reading.                      *)
(***************************************************************************)
DropReceiver(k) ==
  /\ k \in open
  /\ k < cur \/ outcome # "running"
  /\ open' = open \ {k}
  /\ channel' = [channel EXCEPT ![k] = <<>>]
  /\ UNCHANGED <<queue, innerVars, binder, attemptVars, producer, todo, sends, panicked>>

Receive(k) ==
  /\ k \in open /\ channel[k] # <<>>
  /\ received' = [received EXCEPT ![k] = Append(@, Head(channel[k]))]
  /\ channel' = [channel EXCEPT ![k] = Tail(@)]
  /\ UNCHANGED <<queue, innerVars, open, binder, cur, outcome, ended, producer, todo, sends,
                 panicked>>

ReceiveEnd(k) ==
  /\ k \in open \ ended /\ channel[k] = <<>> /\ ~HasSender(k)
  /\ ended' = ended \union {k}
  /\ UNCHANGED <<queue, innerVars, channel, open, binder, cur, outcome, received, producer,
                 todo, sends, panicked>>

-----------------------------------------------------------------------------
ProducerStep(p) ==
  \/ CallSend(p) \/ SendBuffers(p) \/ SendToChannel(p) \/ SendLost(p) \/ SendPanics(p)
  \/ SendToVector(p) \/ DropProducer(p) \/ DropVectorProducer(p) \/ SendEof(p)

BinderStep(k) ==
  \/ SendClone(k) \/ CloneEnds(k)
  \/ BindLock(k) \/ DrainItem(k) \/ DrainFails(k) \/ DrainEnds(k) \/ Bind(k)

Reads(k) == Receive(k) \/ ReceiveEnd(k)

Next ==
  \/ \E p \in Producers : GetProducer(p) \/ ProducerStep(p)
  \/ \E k \in Attempts : BinderStep(k) \/ DropReceiver(k) \/ Reads(k)
  \/ StartAttempt \/ ReaderTimeout \/ AttemptFails \/ AttemptSucceeds

Spec == Init /\ [][Next]_vars

(* tokio runs every task that is ready. Whether attempts end and whether   *)
(* the server reads is for each property to say.                           *)
FairSpec ==
  /\ Spec
  /\ \A p \in Producers : WF_vars(ProducerStep(p))
  /\ \A k \in Attempts : WF_vars(BinderStep(k))

(* request_timeout ends every attempt that is not answered, and with the    *)
(* future of the call the transport drops the body of the attempt.          *)
GivenUp(k) == k < cur \/ outcome \in {"retry", "failed"}

TimeoutsFire ==
  /\ WF_vars(AttemptFails \/ AttemptSucceeds)
  /\ \A k \in Attempts : WF_vars(GivenUp(k) /\ DropReceiver(k))

(* Nothing in the client makes a server that has answered read on, or close *)
(* the call: a server that does.                                            *)
AnsweredIsServed ==
  \A k \in Attempts : WF_vars(outcome = "ok" /\ (Reads(k) \/ DropReceiver(k)))

(* A server that reads what its transport brings. *)
ServerReads == \A k \in Attempts : WF_vars(Reads(k))

-----------------------------------------------------------------------------
(* Properties.                                                             *)

Elems(s) == {s[i] : i \in DOMAIN s}

(* Variables have their types; channels keep to their size. *)
TypeOK ==
  /\ queue \in Seq(Producers \union Attempts)
  /\ mode \in {"buffering", "bound", "vector"}
  /\ items \in Seq(Nat)
  /\ eos \in BOOLEAN
  /\ sender \in Attempts \union {NoSender}
  /\ channel \in [Attempts -> Seq(Nat)]
  /\ \A k \in Attempts : Len(channel[k]) <= ChannelSize
  /\ open \subseteq Attempts
  /\ binder \in [Attempts -> {"none", "spawned", "binding", "done"}]
  /\ cur \in 0 .. MaxAttempts
  /\ outcome \in {"none", "running", "retry", "ok", "failed"}
  /\ received \in [Attempts -> Seq(Nat)]
  /\ ended \subseteq Attempts
  /\ producer \in [Producers -> {"none", "idle", "send", "eof", "gone"}]
  /\ todo \in [Producers -> 0 .. SendsEach]
  /\ sends \in Nat
  /\ panicked \subseteq Producers

(***************************************************************************)
(* Until the first attempt is given up, by its client or by its server,    *)
(* also after it was answered with a stream of its own, no item is lost,   *)
(* duplicated or moved past another: what the server has read, what waits  *)
(* in the channel and what waits in the buffer are, in this order, all the *)
(* items ever sent, however the binder, the producers and their drops      *)
(* interleave.                                                             *)
(***************************************************************************)
FirstAttemptLosesNothing ==
  mode # "vector" /\ (cur = 0 \/ (cur = 1 /\ outcome \in {"running", "ok"} /\ 1 \in open))
    => received[1] \o channel[1] \o items = Upto(sends)

(***************************************************************************)
(* Each attempt gets one unbroken run of the items, and no item that was   *)
(* produced goes to two attempts, although binders may run late and out of *)
(* order.                                                                  *)
(***************************************************************************)
AttemptsSplitTheStream ==
  mode # "vector" => \A k \in Attempts :
    /\ \A i \in 1 .. Len(Taken(k)) - 1 : Taken(k)[i + 1] = Taken(k)[i] + 1
    /\ \A j \in Attempts \ {k} : Elems(Taken(j)) \intersect Elems(Taken(k)) = {}

Created == {p \in Producers : producer[p] # "none"}

(***************************************************************************)
(* With one producer, a server that reads the end of the stream in the     *)
(* first attempt, before or after it answers, has read all of it.          *)
(***************************************************************************)
FirstEndIsWhole ==
  mode # "vector" /\ Cardinality(Created) = 1 /\ cur = 1 /\ outcome \in {"running", "ok"} /\ 1 \in ended
    => received[1] = Upto(SendsEach)

(* A producer that has the stream for itself can always send, whatever     *)
(* happened to the attempts that read it.                                  *)
SoleProducerNeverPanics == mode # "vector" /\ Cardinality(Created) = 1 => panicked = {}

(***************************************************************************)
(* A vector can be retried: every attempt in which the server reads the    *)
(* end of the stream has read the whole vector, although the tasks of      *)
(* earlier attempts may still be sending theirs.                           *)
(***************************************************************************)
VectorEndIsWhole ==
  mode = "vector" => \A k \in ended : received[k] = Upto(SendsEach)

(***************************************************************************)
(* The first attempt is such a stream as StreamDelivery describes, until   *)
(* the client gives it up or its server does.                              *)
(***************************************************************************)
FirstIsLeft == cur > 1 \/ outcome \in {"retry", "failed"} \/ (cur = 1 /\ 1 \notin open \union ended)

SentItems == IF mode = "vector" THEN items ELSE Upto(sends)
Delivered == IF FirstIsLeft THEN <<>> ELSE received[1]
Phase     == IF FirstIsLeft THEN "left" ELSE IF 1 \in ended THEN "ended" ELSE "reading"

Delivery == INSTANCE StreamDelivery WITH
  Item <- Nat, sent <- SentItems, delivered <- Delivered, phase <- Phase

(* What a server reads in the first attempt are the items in their order,  *)
(* and the end only after the last of them and with no send to come.       *)
ImplementsStreamDelivery == Delivery!Spec

-----------------------------------------------------------------------------
(***************************************************************************)
(* The inductive invariant.                                                *)
(***************************************************************************)

(* Who waits for the mutex waits once, for a send, an end or a bind. *)
QueueDiscipline ==
  /\ \A i \in 1 .. Len(queue) :
       /\ queue[i] \in Producers => producer[queue[i]] \in {"send", "eof"}
       /\ queue[i] \in Attempts  => binder[queue[i]] = "binding"
  /\ \A i, j \in 1 .. Len(queue) : queue[i] = queue[j] => i = j

(* Attempts start one after another, and nothing of one is there before. *)
AttemptsInOrder ==
  /\ outcome = "none" <=> cur = 0
  /\ outcome = "retry" => cur < MaxAttempts
  /\ \A k \in Attempts : k > cur => /\ k \notin open \union ended /\ sender # k
                                     /\ binder[k] = "none"
                                     /\ received[k] = <<>> /\ channel[k] = <<>>
  /\ \A k \in Attempts : k <= cur => binder[k] # "none"

(* What is in a channel goes with its Receiver, and nothing follows an end. *)
EndsAreLast ==
  /\ \A k \in Attempts \ open : channel[k] = <<>>
  /\ \A k \in ended : channel[k] = <<>> /\ ~HasSender(k)

(* Which variables mean something in which mode. *)
ModeIsKept ==
  /\ mode # "bound"     => sender = NoSender
  /\ mode = "bound"     => items = <<>> /\ ~eos
  /\ mode = "buffering" => \A k \in open : (binder[k] = "done" => eos /\ items = <<>>)
  /\ sender \in Attempts => binder[sender] = "done"

(* Nothing will be sent any more. *)
StreamIsOver == \/ mode = "buffering" /\ eos /\ items = <<>>
                \/ mode = "bound" /\ (sender = NoSender \/ ~Owned)

(* Buffered items are the last ones sent. *)
Unbuffered == sends - Len(items)
BufferIsLast ==
  /\ Len(items) <= sends
  /\ \A i \in 1 .. Len(items) : items[i] = Unbuffered + i

(* What an attempt took is a run of items from before the buffer. *)
TakenBefore(k) ==
  \A i \in 1 .. Len(Taken(k)) : /\ Taken(k)[i] = Taken(k)[1] + (i - 1)
                                /\ Taken(k)[i] > 0 /\ Taken(k)[i] <= Unbuffered

Takes(k) == k \in open /\ (binder[k] = "binding" \/ sender = k)

(* While an attempt takes more, what it has reaches up to the buffer. *)
TakesTheNext(k) ==
  Takes(k) /\ Taken(k) # <<>> => Taken(k)[Len(Taken(k))] = Unbuffered

(* An attempt that is not bound yet took only what it drained. *)
OnlyHolderDrains(k) ==
  /\ binder[k] \in {"none", "spawned"} => Taken(k) = <<>>
  /\ binder[k] = "binding" /\ Taken(k) # <<>> => mode = "buffering" /\ Holds(k)

NothingTakenTwice ==
  \A j, k \in Attempts : \A i \in 1 .. Len(Taken(j)), n \in 1 .. Len(Taken(k)) :
    j # k => Taken(j)[i] # Taken(k)[n]

(* The items of a stream: runs, apart from each other, in front of the buffer. *)
TakenInRuns ==
  mode # "vector" =>
    /\ BufferIsLast
    /\ \A k \in Attempts : TakenBefore(k) /\ TakesTheNext(k) /\ OnlyHolderDrains(k)
    /\ NothingTakenTwice

(* The first attempt has all that is not buffered, and its end is the end. *)
FirstIsWhole ==
  mode # "vector" /\ ~FirstIsLeft =>
    /\ Len(Taken(1)) = Unbuffered
    /\ \A i \in 1 .. Len(Taken(1)) : Taken(1)[i] = i
    /\ 1 \in ended => StreamIsOver

(* Who ends a stream is gone; alone, it has sent everything before. *)
ProducersCount ==
  /\ \A p \in Producers : producer[p] = "none" => todo[p] = SendsEach
  /\ \A p \in Producers : producer[p] = "send" => todo[p] > 0
  /\ mode # "vector" =>
       /\ \A p \in Producers : producer[p] \in {"eof", "gone"} => todo[p] = 0
       /\ eos \/ (mode = "bound" /\ sender = NoSender)
            => \E p \in Producers : producer[p] = "gone"
       /\ panicked # {} => \E p, q \in Created : p # q
       /\ \A p \in Producers : Created \subseteq {p} => sends + todo[p] = SendsEach

(* Each attempt has a beginning of the vector, and all of it in the end. *)
VectorIsCloned ==
  mode = "vector" =>
    /\ queue = <<>> /\ items = Upto(SendsEach)
    /\ \A k \in Attempts :
         /\ binder[k] # "binding"
         /\ Len(Taken(k)) <= SendsEach
         /\ \A i \in 1 .. Len(Taken(k)) : Taken(k)[i] = i
         /\ binder[k] = "done" /\ k \in open => Len(Taken(k)) = SendsEach
         /\ k \in ended => Len(Taken(k)) = SendsEach

(* What every step preserves; the safety properties above follow from it. *)
IInv ==
  /\ TypeOK
  /\ QueueDiscipline
  /\ AttemptsInOrder
  /\ EndsAreLast
  /\ ModeIsKept
  /\ TakenInRuns
  /\ FirstIsWhole
  /\ ProducersCount
  /\ VectorIsCloned

-----------------------------------------------------------------------------
(***************************************************************************)
(* Every send returns and every producer gets rid of the stream, even from *)
(* a server that never reads: the task that awaits room in a full channel  *)
(* with the mutex in its hands is let go when the attempt times out.  Only *)
(* behind a server that has answered does it wait for the server: that one *)
(* has to read on or to close the call.                                    *)
(***************************************************************************)
ProducersFinish ==
  TimeoutsFire /\ AnsweredIsServed =>
    \A p \in Producers : producer[p] # "none" ~> producer[p] = "gone"

(* All the producers there were have been dropped. *)
Finished == \A p \in Created : producer[p] = "gone"

(***************************************************************************)
(* The end of the stream reaches the server of the first attempt, whether  *)
(* the producer is dropped before, while or after the stream is bound, and *)
(* the server of any attempt that was answered, although re-binding in a   *)
(* retry forgets the end: the stored Sender goes with the builder, the     *)
(* producers and the binders.                                              *)
(***************************************************************************)
StreamEnds ==
  ServerReads =>
    /\ cur = 1 /\ outcome \in {"running", "ok"} /\ (mode = "vector" \/ (Created # {} /\ Finished))
         ~> 1 \in ended \/ 1 \notin open \/ outcome \notin {"running", "ok"}
    /\ Finished /\ outcome = "ok" ~> cur \in ended \/ cur \notin open

(***************************************************************************)
(* The client's readme on retries, "used to retry request once disconnect  *)
(* is happened", of a request whose input is a stream: an attempt that was *)
(* answered after it had been read to its end has brought the request, and *)
(* not only what earlier attempts had left of it.                          *)
(***************************************************************************)
RetryIsTheRequest ==
  mode # "vector" /\ Cardinality(Created) = 1 /\ outcome = "ok" /\ cur \in ended
    => received[cur] = Upto(SendsEach)

=============================================================================
