------------------------ MODULE ResponseStreamProofs ------------------------
(***************************************************************************)
(* Proofs about ResponseStream, for any number of senders, items, chunk    *)
(* size and channel: its inductive invariant, with it the safety           *)
(* properties of a streamed response, and that it implements               *)
(* StreamDelivery.                                                         *)
(***************************************************************************)
EXTENDS ResponseStream, TLAPS, SequenceTheorems

(* What the channel and the transport carry. *)
Sendable == Messages \union {Error}
Marks == {Error, End, Status}

LEMMA MarksDiffer ==
  /\ Error # End /\ End # Status /\ Error # Status
  /\ \A m \in Messages : m \notin Marks
  /\ \A m \in Sendable : m # End /\ m # Status
  /\ Error.from = Handler
BY DEF Messages, Message, Marker, Error, End, Status, Marks, Sendable

(* The next chunk goes on where the one before has ended, and stays within *)
(* the source; it is empty at the end of the source only.                  *)
LEMMA NextChunkItems ==
  ASSUME NEW n \in 0 .. ItemsEach
  PROVE  /\ Len(NextChunk(n)) \in Nat
         /\ n + Len(NextChunk(n)) \in 0 .. ItemsEach
         /\ DOMAIN NextChunk(n) = 1 .. Len(NextChunk(n))
         /\ \A a \in 1 .. Len(NextChunk(n)) : NextChunk(n)[a] = n + a
         /\ \A i \in Int : i \in ToSet(NextChunk(n)) <=> i \in n + 1 .. n + Len(NextChunk(n))
         /\ NextChunk(n) = <<>> <=> n = ItemsEach
<1> DEFINE size == IF ChunkSize = 0 THEN 1 ELSE ChunkSize
           left == ItemsEach - n
           l == IF left < size THEN left ELSE size
           c == NextChunk(n)
<1>1. ItemsEach \in Nat /\ ChunkSize \in Nat
  BY ConstantsAssumption DEF ConstantsAssumption
<1>2. size \in Nat /\ 1 <= size /\ left \in Nat
  BY <1>1
<1>3. l \in Nat /\ l <= left /\ (l = 0 <=> left = 0)
  BY <1>2
<1>4. c = [i \in 1 .. l |-> n + i]
  BY DEF NextChunk
<1> HIDE DEF c, l, left, size
<1>5. c \in Seq(Int) /\ Len(c) = l /\ DOMAIN c = 1 .. l /\ (c = <<>> <=> l = 0)
  <2>1. \A i \in 1 .. l : n + i \in Int
    BY <1>3
  <2>2. c \in Seq(Int) /\ Len(c) = l /\ DOMAIN c = 1 .. l
    BY <1>3, <1>4, <2>1
  <2> QED
    BY <2>2, EmptySeq, <1>3
<1>6. n + l \in 0 .. ItemsEach /\ (left = 0 <=> n = ItemsEach)
  BY <1>1, <1>3 DEF left
<1>7. \A i \in Int : i \in ToSet(c) <=> i \in n + 1 .. n + l
  <2>1. ASSUME NEW i \in n + 1 .. n + l PROVE i \in ToSet(c)
    <3>1. i - n \in 1 .. l /\ c[i - n] = i
      BY <1>3, <1>4
    <3> QED
      BY <3>1, <1>5 DEF ToSet
  <2>2. ASSUME NEW i \in Int, i \in ToSet(c) PROVE i \in n + 1 .. n + l
    <3>1. PICK a \in 1 .. l : c[a] = i
      BY <2>2, <1>5 DEF ToSet
    <3> QED
      BY <3>1, <1>3, <1>4
  <2> QED
    BY <2>1, <2>2
<1> QED
  BY <1>3, <1>4, <1>5, <1>6, <1>7 DEF c

LEMMA ChunkIsMessage ==
  ASSUME NEW s \in Senders, NEW n \in 0 .. ItemsEach
  PROVE  /\ Message(s, NextChunk(n)) \in Messages
         /\ Message(s, NextChunk(n)).from = s
         /\ Message(s, NextChunk(n)).items = NextChunk(n)
BY DEF Messages, Message

(* A message of a sender has some of its items, one after the other. *)
LEMMA MessageItems ==
  ASSUME NEW m \in Sendable, NEW s \in Senders, m.from = s
  PROVE  /\ m \in Messages
         /\ \A i \in ToSet(m.items) : i \in 1 .. ItemsEach
         /\ \A a, b \in DOMAIN m.items : a < b => m.items[a] < m.items[b]
<1>1. PICK n \in 0 .. ItemsEach : m = Message(s, NextChunk(n))
  BY ConstantsAssumption, MarksDiffer DEF ConstantsAssumption, Sendable, Messages, Message
<1>2. m.items = NextChunk(n) /\ m \in Messages
  BY <1>1, ChunkIsMessage
<1> DEFINE c == NextChunk(n)
           l == Len(NextChunk(n))
<1>3. /\ l \in Nat /\ n + l \in 0 .. ItemsEach /\ DOMAIN c = 1 .. l
      /\ \A a \in 1 .. l : c[a] = n + a
  BY NextChunkItems
<1>4. ItemsEach \in Nat
  BY ConstantsAssumption DEF ConstantsAssumption
<1> HIDE DEF c, l
<1>5. /\ \A a \in DOMAIN c : c[a] \in 1 .. ItemsEach
      /\ \A a, b \in DOMAIN c : a < b => c[a] < c[b]
  BY <1>3, <1>4
<1> QED
  BY <1>2, <1>5 DEF c, ToSet

-----------------------------------------------------------------------------
(* What Put does to the two sequences. *)
LEMMA PutAppends ==
  ASSUME TypeOK, NEW m \in Sendable, Put(m)
  PROVE  /\ accepted' \in Seq(Sendable) /\ channel' \in Seq(Sendable)
         /\ Len(accepted) \in Nat /\ Len(accepted') = Len(accepted) + 1
         /\ \A i \in 1 .. Len(accepted) : accepted'[i] = accepted[i]
         /\ accepted'[Len(accepted) + 1] = m
         /\ Len(channel) \in Nat /\ Len(channel') = Len(channel) + 1
         /\ \A i \in 1 .. Len(channel) : channel'[i] = channel[i]
         /\ channel'[Len(channel) + 1] = m
BY DEF TypeOK, Put, Sendable

(* An item is in what was accepted, or it comes with the new message. *)
LEMMA PutHasItem ==
  ASSUME TypeOK, NEW m \in Sendable, Put(m), NEW s \in Senders, NEW n
  PROVE  HasItem(s, accepted', n) <=> \/ HasItem(s, accepted, n)
                                      \/ m.from = s /\ n \in ToSet(m.items)
<1> DEFINE N == Len(accepted)
<1>1. /\ N \in Nat /\ DOMAIN accepted = 1 .. N /\ DOMAIN accepted' = 1 .. N + 1
      /\ \A i \in 1 .. N : accepted'[i] = accepted[i]
      /\ accepted'[N + 1] = m
  BY PutAppends DEF TypeOK
<1> HIDE DEF N
<1>2. HasItem(s, accepted', n) => \/ HasItem(s, accepted, n)
                                  \/ m.from = s /\ n \in ToSet(m.items)
  BY <1>1 DEF HasItem
<1>3. HasItem(s, accepted, n) => HasItem(s, accepted', n)
  BY <1>1 DEF HasItem
<1>4. m.from = s /\ n \in ToSet(m.items) => HasItem(s, accepted', n)
  BY <1>1 DEF HasItem
<1> QED
  BY <1>2, <1>3, <1>4

LEMMA PutHasError ==
  ASSUME TypeOK, NEW m \in Sendable, Put(m)
  PROVE  Error \in ToSet(accepted') <=> Error \in ToSet(accepted) \/ m = Error
<1> DEFINE N == Len(accepted)
<1>1. /\ N \in Nat /\ DOMAIN accepted = 1 .. N /\ DOMAIN accepted' = 1 .. N + 1
      /\ \A i \in 1 .. N : accepted'[i] = accepted[i]
      /\ accepted'[N + 1] = m
  BY PutAppends DEF TypeOK
<1> HIDE DEF N
<1> QED
  BY <1>1 DEF ToSet

(* A message that goes on where its sender has been keeps its items in order. *)
LEMMA PutKeepsOrder ==
  ASSUME TypeOK, AcceptedInOrder, NEW m \in Sendable, Put(m), NEW s \in Senders,
         m.from = s => \A n \in ToSet(m.items) : taken[s] < n
  PROVE  InOrder(s, accepted')
<1> DEFINE N == Len(accepted)
           F(i) == accepted'[i].from
           I(i) == accepted'[i].items
<1>1. /\ N \in Nat /\ DOMAIN accepted = 1 .. N /\ DOMAIN accepted' = 1 .. N + 1
      /\ \A i \in 1 .. N : accepted'[i] = accepted[i]
      /\ accepted'[N + 1] = m
      /\ \A i \in 1 .. N : accepted[i] \in Sendable
      /\ taken[s] \in Nat
  BY PutAppends, ConstantsAssumption, SMTT(30) DEF ConstantsAssumption, TypeOK, Sendable
<1> HIDE DEF N
<1>2. ASSUME NEW i \in 1 .. N, NEW a \in DOMAIN accepted[i].items, accepted[i].from = s
      PROVE  accepted[i].items[a] \in 1 .. taken[s]
  <2> DEFINE n == accepted[i].items[a]
  <2>1. n \in ToSet(accepted[i].items)
    BY DEF ToSet
  <2>2. n \in 1 .. ItemsEach
    BY <2>1, <1>1, <1>2, MessageItems
  <2>3. HasItem(s, accepted, n)
    BY <2>1, <1>1, <1>2 DEF HasItem
  <2>4. n \notin taken[s] + 1 .. ItemsEach
    BY <2>3 DEF AcceptedInOrder
  <2> HIDE DEF n
  <2>5. n \in 1 .. taken[s]
    BY <2>2, <2>4, <1>1, ConstantsAssumption DEF ConstantsAssumption
  <2> QED
    BY <2>5 DEF n
<1>3. ASSUME NEW a \in DOMAIN m.items, m.from = s PROVE taken[s] < m.items[a]
  BY <1>3 DEF ToSet
<1>4. ASSUME m.from = s, NEW a \in DOMAIN m.items, NEW b \in DOMAIN m.items, a < b
      PROVE  m.items[a] < m.items[b]
  BY <1>4, MessageItems
<1> SUFFICES ASSUME NEW i \in 1 .. N + 1, NEW j \in 1 .. N + 1, F(i) = s, F(j) = s,
                    NEW a \in DOMAIN I(i), NEW b \in DOMAIN I(j), i < j \/ (i = j /\ a < b)
             PROVE  I(i)[a] < I(j)[b]
  BY <1>1 DEF InOrder
<1>5. CASE j \in 1 .. N
  <2>1. i \in 1 .. N
    BY <1>1, <1>5
  <2> QED
    BY <2>1, <1>1, <1>5 DEF AcceptedInOrder, InOrder
<1>6. CASE i \in 1 .. N /\ j = N + 1
  <2>1. accepted[i].items[a] \in 1 .. taken[s]
    BY <1>1, <1>2, <1>6
  <2>2. taken[s] < m.items[b]
    BY <1>1, <1>3, <1>6
  <2>3. m.items[b] \in Int
    BY <1>1, <1>6, MessageItems DEF ToSet
  <2> QED
    BY <2>1, <2>2, <2>3, <1>1, <1>6
<1>7. CASE i = N + 1 /\ j = N + 1
  BY <1>1, <1>4, <1>7
<1> QED
  BY <1>1, <1>5, <1>6, <1>7

-----------------------------------------------------------------------------
(* Who leaves the senders and what they have sent alone.                   *)
LEMMA SendersFrame ==
  ASSUME IInv, UNCHANGED <<side, sender, taken, failures, accepted>>, open' => open
  PROVE  AcceptedInOrder' /\ NothingSkipped' /\ HelperStops' /\ ClosedFails'
BY DEF IInv, AcceptedInOrder, NothingSkipped, HelperStops, ClosedFails, InOrder, NoGap,
       HasItem

(* Who leaves the transport and the client alone, and sends nothing. *)
LEMMA DeliveryFrame ==
  ASSUME IInv, UNCHANGED <<channel, accepted, open, flight, kind, result, received>>
  PROVE  MarkIsLast' /\ OnTheWay'
BY DEF IInv, MarkIsLast, OnTheWay

(***************************************************************************)
(* A send: while the Receiver lives there is no end on its way and none    *)
(* was seen.                                                               *)
(***************************************************************************)
LEMMA PutDelivers ==
  ASSUME IInv, open, NEW m \in Sendable, Put(m),
         UNCHANGED <<open, flight, kind, result, received>>
  PROVE  MarkIsLast' /\ OnTheWay' /\ EndMeansWhole'
<1>1. MarkIsLast'
  BY DEF IInv, MarkIsLast
<1>2. OnTheWay'
  <2> DEFINE N == Len(accepted)
             R == Len(received)
             L == Len(flight)
             C == Len(channel)
  <2>1. /\ N \in Nat /\ R \in Nat /\ L \in Nat /\ C \in Nat
        /\ Len(accepted') = N + 1 /\ Len(channel') = C + 1
        /\ \A i \in 1 .. N : accepted'[i] = accepted[i]
        /\ accepted'[N + 1] = m
        /\ \A i \in 1 .. C : channel'[i] = channel[i]
        /\ channel'[C + 1] = m
    BY PutAppends DEF IInv, TypeOK
  <2>2. \A i \in 1 .. L : flight[i] # End /\ flight[i] # Status
    BY DEF IInv, MarkIsLast
  <2>3. /\ R <= N /\ \A i \in 1 .. R : received[i] = accepted[i]
        /\ L <= Window
    BY DEF IInv, OnTheWay
  <2>4. result = "reading" =>
          /\ \A i \in 1 .. L : R + i <= N /\ flight[i] = accepted[R + i]
          /\ N = R + L + C
          /\ \A i \in 1 .. C : channel[i] = accepted[R + L + i]
    BY <2>2 DEF IInv, OnTheWay
  <2> HIDE DEF N, R, L, C
  <2>5. R <= N + 1 /\ \A i \in 1 .. R : received[i] = accepted'[i]
    BY <2>1, <2>3
  <2>6. result = "reading" =>
          /\ \A i \in 1 .. L : R + i <= N + 1 /\ flight[i] = accepted'[R + i]
          /\ N + 1 = R + L + (C + 1)
          /\ \A i \in 1 .. C + 1 : channel'[i] = accepted'[R + L + i]
    BY <2>1, <2>4
  <2> QED
    BY <2>1, <2>2, <2>3, <2>5, <2>6 DEF OnTheWay, R, L
<1>3. EndMeansWhole'
  <2>1. ~SawEnd'
    BY DEF IInv, EndMeansWhole, SawEnd
  <2>2. End \notin ToSet(flight')
    <3>1. DOMAIN flight = 1 .. Len(flight)
      BY DEF IInv, TypeOK
    <3>2. \A i \in DOMAIN flight : flight[i] # End
      BY <3>1 DEF IInv, MarkIsLast
    <3> QED
      BY <3>2 DEF ToSet
  <2> QED
    BY <2>1, <2>2 DEF EndMeansWhole
<1> QED
  BY <1>1, <1>2, <1>3

LEMMA TakeGrows ==
  ASSUME TypeOK, NEW s \in Senders, Take(s)
  PROVE  /\ taken' \in [Senders -> 0 .. ItemsEach]
         /\ taken[s] \in 0 .. ItemsEach
         /\ taken'[s] = taken[s] + Len(NextChunk(taken[s]))
         /\ \A t \in Senders : taken[t] <= taken'[t]
         /\ \A t \in Senders \ {s} : taken'[t] = taken[t]
<1>1. taken \in [Senders -> 0 .. ItemsEach] /\ ItemsEach \in Nat
  BY ConstantsAssumption DEF ConstantsAssumption, TypeOK
<1>2. /\ Len(NextChunk(taken[s])) \in Nat
      /\ taken[s] + Len(NextChunk(taken[s])) \in 0 .. ItemsEach
  BY <1>1, NextChunkItems
<1>3. taken' = [taken EXCEPT ![s] = taken[s] + Len(NextChunk(taken[s]))]
  BY DEF Take
<1> QED
  BY <1>1, <1>2, <1>3

(* The bound that goes with the order, when items are taken and not accepted. *)
LEMMA TakenOnly ==
  ASSUME IInv, UNCHANGED accepted, taken' \in [Senders -> 0 .. ItemsEach],
         \A t \in Senders : taken[t] <= taken'[t]
  PROVE  AcceptedInOrder'
<1>1. /\ taken \in [Senders -> 0 .. ItemsEach] /\ ItemsEach \in Nat
      /\ \A t \in Senders : InOrder(t, accepted)'
  <2>1. taken \in [Senders -> 0 .. ItemsEach] /\ ItemsEach \in Nat
    BY ConstantsAssumption DEF ConstantsAssumption, IInv, TypeOK
  <2>2. \A t \in Senders : InOrder(t, accepted)'
    BY DEF IInv, AcceptedInOrder, InOrder
  <2> QED
    BY <2>1, <2>2
<1>2. ASSUME NEW t \in Senders, NEW n \in taken'[t] + 1 .. ItemsEach
      PROVE  ~HasItem(t, accepted', n)
  <2>1. n \in taken[t] + 1 .. ItemsEach
    BY <1>1, <1>2
  <2> QED
    BY <2>1 DEF IInv, AcceptedInOrder
<1> QED
  BY <1>1, <1>2 DEF AcceptedInOrder

(* A message of the handler, or an error of a producer. *)
LEMMA PutOfHandler ==
  ASSUME IInv, NEW m \in Sendable, Put(m), m.from = Handler,
         taken' \in [Senders -> 0 .. ItemsEach],
         \A t \in Senders : taken[t] <= taken'[t],
         m = Error => side = "writer",
         m # Error => UNCHANGED taken,
         UNCHANGED <<side, sender, failures, open>>
  PROVE  AcceptedInOrder' /\ NothingSkipped' /\ HelperStops' /\ ClosedFails'
<1>0. TypeOK /\ Handler \notin Senders
  BY ConstantsAssumption DEF ConstantsAssumption, IInv
<1>1. \A t \in Senders, n \in Int : HasItem(t, accepted', n) <=> HasItem(t, accepted, n)
  BY <1>0, PutHasItem
<1>2. \A t \in Senders : InOrder(t, accepted')
  BY <1>0, PutKeepsOrder DEF IInv
<1>3. /\ taken \in [Senders -> 0 .. ItemsEach] /\ ItemsEach \in Nat
  BY ConstantsAssumption DEF ConstantsAssumption, IInv, TypeOK
<1>4. AcceptedInOrder'
  <2>1. ASSUME NEW t \in Senders, NEW n \in taken'[t] + 1 .. ItemsEach
        PROVE  ~HasItem(t, accepted', n)
    <3>1. n \in taken[t] + 1 .. ItemsEach /\ n \in Int
      BY <1>3, <2>1
    <3> QED
      BY <1>1, <3>1 DEF IInv, AcceptedInOrder
  <2> QED
    BY <1>2, <2>1 DEF AcceptedInOrder
<1>5. NothingSkipped'
  <2> SUFFICES ASSUME NEW t \in Senders, failures[t] = {}, Error \notin ToSet(accepted')
               PROVE  /\ \A n \in 1 .. taken'[t] : HasItem(t, accepted', n)
                      /\ sender[t] = "gone" => taken'[t] = ItemsEach
    BY DEF NothingSkipped
  <2>1. Error \notin ToSet(accepted) /\ taken' = taken
    BY <1>0, PutHasError
  <2>2. /\ \A n \in 1 .. taken[t] : HasItem(t, accepted, n)
        /\ sender[t] = "gone" => taken[t] = ItemsEach
    BY <2>1 DEF IInv, NothingSkipped
  <2>3. \A n \in 1 .. taken[t] : n \in Int
    BY <1>3
  <2> QED
    BY <1>1, <2>1, <2>2, <2>3
<1>6. HelperStops'
  <2> SUFFICES ASSUME side = "helper"
               PROVE  /\ Error \notin ToSet(accepted')
                      /\ \A t \in Senders : sender[t] = "sending" => failures[t] = {}
                      /\ \A t \in Senders : NoGap(t, accepted')
    BY DEF HelperStops
  <2>1. Error \notin ToSet(accepted')
    BY <1>0, PutHasError DEF IInv, HelperStops
  <2>2. ASSUME NEW t \in Senders PROVE NoGap(t, accepted')
    <3>1. NoGap(t, accepted)
      BY DEF IInv, HelperStops
    <3>2. \A n \in 1 .. ItemsEach : n \in Int /\ \A k \in 1 .. n : k \in Int
      BY <1>3
    <3> QED
      BY <1>1, <3>1, <3>2 DEF NoGap
  <2> QED
    BY <2>1, <2>2 DEF IInv, HelperStops
<1>7. ClosedFails'
  BY DEF IInv, ClosedFails
<1> QED
  BY <1>4, <1>5, <1>6, <1>7

(* A chunk that is accepted: what the sender has taken is what it has sent. *)
LEMMA PutOfSender ==
  ASSUME IInv, NEW s \in Senders, sender[s] = "sending",
         Put(Message(s, NextChunk(taken[s]))), Take(s),
         UNCHANGED <<side, sender, failures, open>>
  PROVE  AcceptedInOrder' /\ NothingSkipped' /\ HelperStops' /\ ClosedFails'
<1> DEFINE m == Message(s, NextChunk(taken[s]))
           l == Len(NextChunk(taken[s]))
<1>1. /\ taken \in [Senders -> 0 .. ItemsEach] /\ ItemsEach \in Nat
      /\ TypeOK
  BY ConstantsAssumption DEF ConstantsAssumption, IInv, TypeOK
<1>2. /\ taken' \in [Senders -> 0 .. ItemsEach]
      /\ taken'[s] = taken[s] + l
      /\ \A t \in Senders \ {s} : taken'[t] = taken[t]
      /\ l \in Nat
  BY <1>1, TakeGrows, NextChunkItems
<1>3. /\ m \in Messages /\ m \in Sendable /\ m.from = s /\ m # Error /\ Put(m)
      /\ \A n \in Int : n \in ToSet(m.items) <=> n \in taken[s] + 1 .. taken[s] + l
  BY <1>1, ChunkIsMessage, NextChunkItems, MarksDiffer DEF Sendable, Marks
<1>4. ToSet(m.items) \subseteq Int
  BY <1>1, <1>3, MessageItems
<1> HIDE DEF m, l
<1>5. ASSUME NEW t \in Senders, NEW n \in Int
      PROVE  HasItem(t, accepted', n) <=> \/ HasItem(t, accepted, n)
                                          \/ t = s /\ n \in taken[s] + 1 .. taken[s] + l
  BY <1>1, <1>3, PutHasItem
<1>6. Error \in ToSet(accepted') <=> Error \in ToSet(accepted)
  BY <1>1, <1>3, PutHasError
<1>7. AcceptedInOrder'
  <2>1. ASSUME NEW t \in Senders PROVE InOrder(t, accepted')
    <3>1. m.from = t => \A n \in ToSet(m.items) : taken[t] < n
      BY <1>1, <1>2, <1>3, <1>4
    <3> QED
      BY <3>1, <1>1, <1>3, PutKeepsOrder DEF IInv
  <2>2. ASSUME NEW t \in Senders, NEW n \in taken'[t] + 1 .. ItemsEach
        PROVE  ~HasItem(t, accepted', n)
    <3>1. n \in Int /\ n \in taken[t] + 1 .. ItemsEach
      BY <1>1, <1>2, <2>2
    <3>2. ~(t = s /\ n \in taken[s] + 1 .. taken[s] + l)
      BY <1>1, <1>2, <2>2
    <3> QED
      BY <1>5, <3>1, <3>2 DEF IInv, AcceptedInOrder
  <2> QED
    BY <2>1, <2>2 DEF AcceptedInOrder
<1>8. ASSUME NEW t \in Senders, failures[t] = {}, Error \notin ToSet(accepted)
      PROVE  \A n \in 1 .. taken'[t] : HasItem(t, accepted', n)
  <2>1. \A n \in 1 .. taken[t] : HasItem(t, accepted, n)
    BY <1>8 DEF IInv, NothingSkipped
  <2>2. ASSUME NEW n \in 1 .. taken'[t]
        PROVE  /\ n \in Int
               /\ n \in 1 .. taken[t] \/ (t = s /\ n \in taken[s] + 1 .. taken[s] + l)
    BY <1>1, <1>2, <2>2
  <2> QED
    BY <1>5, <2>1, <2>2
<1>9. NothingSkipped'
  <2> SUFFICES ASSUME NEW t \in Senders, failures[t] = {}, Error \notin ToSet(accepted')
               PROVE  /\ \A n \in 1 .. taken'[t] : HasItem(t, accepted', n)
                      /\ sender[t] = "gone" => taken'[t] = ItemsEach
    BY DEF NothingSkipped
  <2>1. sender[t] = "gone" => taken'[t] = ItemsEach
    BY <1>2, <1>6 DEF IInv, NothingSkipped
  <2> QED
    BY <1>6, <1>8, <2>1
<1>10. HelperStops'
  <2> SUFFICES ASSUME side = "helper"
               PROVE  /\ Error \notin ToSet(accepted')
                      /\ \A t \in Senders : sender[t] = "sending" => failures[t] = {}
                      /\ \A t \in Senders : NoGap(t, accepted')
    BY DEF HelperStops
  <2>1. /\ Error \notin ToSet(accepted) /\ Error \notin ToSet(accepted')
        /\ failures[s] = {}
    BY <1>6 DEF IInv, HelperStops
  <2>2. ASSUME NEW t \in Senders, t # s PROVE NoGap(t, accepted')
    <3>1. NoGap(t, accepted)
      BY DEF IInv, HelperStops
    <3>2. \A n \in 1 .. ItemsEach : n \in Int /\ \A k \in 1 .. n : k \in Int
      BY <1>1
    <3> QED
      BY <1>5, <2>2, <3>1, <3>2 DEF NoGap
  <2>3. NoGap(s, accepted')
    <3> SUFFICES ASSUME NEW n \in 1 .. ItemsEach, HasItem(s, accepted', n),
                        NEW k \in 1 .. n
                 PROVE  HasItem(s, accepted', k)
      BY DEF NoGap
    <3>1. n \notin taken'[s] + 1 .. ItemsEach
      BY <1>7 DEF AcceptedInOrder
    <3>2. k \in 1 .. taken'[s]
      BY <3>1, <1>1, <1>2
    <3> QED
      BY <3>2, <2>1, <1>8
  <2> QED
    BY <2>1, <2>2, <2>3 DEF IInv, HelperStops
<1>11. ClosedFails'
  BY DEF IInv, ClosedFails
<1> QED
  BY <1>7, <1>9, <1>10, <1>11

(* A send that fails, or a panic, leaves a trace, and a helper's task with it. *)
LEMMA FailureShows ==
  ASSUME IInv, NEW s \in Senders, sender[s] = "sending",
         NEW why \in {"timeout", "closed", "panic"}, why = "closed" => ~open,
         failures' = [failures EXCEPT ![s] = @ \union {why}],
         taken' \in [Senders -> 0 .. ItemsEach],
         \A t \in Senders : taken[t] <= taken'[t],
         \A t \in Senders \ {s} : taken'[t] = taken[t] /\ sender'[t] = sender[t],
         sender'[s] = "gone" \/ (side = "writer" /\ sender'[s] = "sending"),
         UNCHANGED <<side, accepted, open, flight, kind, result, received>>
  PROVE  AcceptedInOrder' /\ NothingSkipped' /\ HelperStops' /\ ClosedFails' /\ EndMeansWhole'
<1>1. /\ failures'[s] = failures[s] \union {why}
      /\ \A t \in Senders \ {s} : failures'[t] = failures[t]
  BY DEF IInv, TypeOK
<1>2. AcceptedInOrder'
  BY TakenOnly
<1>3. NothingSkipped'
  <2> SUFFICES ASSUME NEW t \in Senders, failures'[t] = {}, Error \notin ToSet(accepted)
               PROVE  /\ \A n \in 1 .. taken'[t] : HasItem(t, accepted, n)
                      /\ sender'[t] = "gone" => taken'[t] = ItemsEach
    BY DEF NothingSkipped
  <2>1. t # s
    BY <1>1
  <2> QED
    BY <1>1, <2>1 DEF IInv, NothingSkipped
<1>4. HelperStops'
  <2> SUFFICES ASSUME side = "helper"
               PROVE  /\ Error \notin ToSet(accepted)
                      /\ \A t \in Senders : sender'[t] = "sending" => failures'[t] = {}
                      /\ \A t \in Senders : NoGap(t, accepted)
    BY DEF HelperStops, NoGap
  <2> QED
    BY <1>1 DEF IInv, HelperStops
<1>5. ClosedFails'
  <2> SUFFICES ASSUME open, NEW t \in Senders PROVE "closed" \notin failures'[t]
    BY DEF ClosedFails
  <2>1. "closed" \notin failures[t]
    BY DEF IInv, ClosedFails
  <2> QED
    BY <1>1, <2>1
<1>6. EndMeansWhole'
  <2> SUFFICES /\ SawEnd => received = accepted /\ ~open
               /\ SawEnd \/ (result = "reading" /\ End \in ToSet(flight)) =>
                    \A t \in Senders : \/ sender'[t] = "none"
                                       \/ Whole(t, accepted)
                                       \/ CutShort(t)'
    BY DEF EndMeansWhole, SawEnd, Whole, InOrder
  <2>1. \A t \in Senders : failures[t] \subseteq failures'[t]
    BY <1>1
  <2>2. \A t \in Senders : CutShort(t) => CutShort(t)'
    BY <2>1 DEF CutShort
  <2>3. \A t \in Senders : sender[t] = "none" => sender'[t] = "none"
    OBVIOUS
  <2> QED
    BY <2>2, <2>3 DEF IInv, EndMeansWhole
<1> QED
  BY <1>2, <1>3, <1>4, <1>5, <1>6

-----------------------------------------------------------------------------
(* The transport and the client.                                           *)
LEMMA LengthTypes ==
  ASSUME TypeOK
  PROVE  /\ Len(accepted) \in Nat /\ Len(received) \in Nat
         /\ Len(flight) \in Nat /\ Len(channel) \in Nat
         /\ Window \in Nat \ {0} /\ ChannelSize \in Nat \ {0}
BY ConstantsAssumption, LenProperties DEF ConstantsAssumption, TypeOK

(* While the Receiver lives nobody has seen an end, and none is on its way. *)
LEMMA OpenMeansNoEnd ==
  ASSUME IInv, open
  PROVE  /\ ~SawEnd
         /\ \A i \in 1 .. Len(flight) : flight[i] \notin {Error, End, Status}
BY DEF IInv, MarkIsLast, EndMeansWhole

LEMMA PullStep ==
  ASSUME IInv, Pull
  PROVE  MarkIsLast' /\ HandlerHoldsReceiver' /\ OnTheWay' /\ EndMeansWhole'
<1> DEFINE N == Len(accepted)
           R == Len(received)
           L == Len(flight)
           C == Len(channel)
           h == Head(channel)
<1>1. N \in Nat /\ R \in Nat /\ L \in Nat /\ C \in Nat /\ Window \in Nat
  BY LengthTypes DEF IInv
<1>2. /\ h \in Sendable /\ h = channel[1] /\ 1 <= C
      /\ Len(channel') = C - 1
      /\ \A i \in 1 .. C - 1 : channel'[i] = channel[i + 1]
      /\ Len(flight') = L + 1 /\ DOMAIN flight' = 1 .. L + 1
      /\ \A i \in 1 .. L : flight'[i] = flight[i]
      /\ flight'[L + 1] = h
  BY DEF IInv, TypeOK, Pull, Sendable
<1>3. /\ open /\ L < Window /\ (h = Error => ~open')
      /\ UNCHANGED <<accepted, kind, result, received>>
      /\ handler' = "returned"
  BY DEF Pull, clientVars
<1>4. ~SawEnd /\ \A i \in 1 .. L : flight[i] \notin {Error, End, Status}
  BY <1>3, OpenMeansNoEnd
<1>5. h # End /\ h # Status
  BY <1>2, MarksDiffer
<1>6. /\ R <= N /\ \A i \in 1 .. R : received[i] = accepted[i]
      /\ result = "reading" =>
           /\ \A i \in 1 .. L : R + i <= N /\ flight[i] = accepted[R + i]
           /\ N = R + L + C
           /\ \A i \in 1 .. C : channel[i] = accepted[R + L + i]
  BY <1>3, <1>4 DEF IInv, OnTheWay
<1> HIDE DEF N, R, L, C, h
<1>7. MarkIsLast'
  <2>1. ASSUME NEW i \in 1 .. L + 1, flight'[i] \in {Error, End, Status}
        PROVE  i = L + 1 /\ ~open'
    <3>1. i \notin 1 .. L
      BY <2>1, <1>2, <1>4
    <3>2. i = L + 1
      BY <3>1, <1>1
    <3> QED
      BY <3>2, <2>1, <1>2, <1>3, <1>5
  <2> QED
    BY <2>1, <1>2 DEF MarkIsLast
<1>8. OnTheWay'
  <2>1. result = "reading" =>
          /\ \A i \in 1 .. L + 1 : R + i <= N /\ flight'[i] = accepted[R + i]
          /\ N = R + (L + 1) + (C - 1)
          /\ \A i \in 1 .. C - 1 : channel'[i] = accepted[R + (L + 1) + i]
    <3> SUFFICES ASSUME result = "reading"
                 PROVE  /\ \A i \in 1 .. L + 1 : R + i <= N /\ flight'[i] = accepted[R + i]
                        /\ N = R + (L + 1) + (C - 1)
                        /\ \A i \in 1 .. C - 1 : channel'[i] = accepted[R + (L + 1) + i]
      OBVIOUS
    <3>1. R + (L + 1) <= N /\ N = R + (L + 1) + (C - 1)
      <4>1. N = R + L + C
        BY <1>6
      <4>2. C > 0
        BY <1>1, <1>2
      <4> QED
        BY <4>1, <4>2, <1>1, SMTT(30)
    <3>2. h = accepted[R + (L + 1)]
      <4>1. channel[1] = accepted[R + L + 1]
        BY <1>1, <1>2, <1>6
      <4>2. R + L + 1 = R + (L + 1)
        BY <1>1
      <4> QED
        BY <4>1, <4>2, <1>2
    <3>3. \A i \in 1 .. C - 1 : channel'[i] = accepted[R + (L + 1) + i]
      <4>1. ASSUME NEW i \in 1 .. C - 1 PROVE channel'[i] = accepted[R + (L + 1) + i]
        <5>1. i + 1 \in 1 .. C /\ R + L + (i + 1) = R + (L + 1) + i
          BY <1>1
        <5> QED
          BY <5>1, <1>2, <1>6
      <4> QED
        BY <4>1
    <3>4. ASSUME NEW i \in 1 .. L + 1 PROVE R + i <= N /\ flight'[i] = accepted[R + i]
      <4>1. CASE i \in 1 .. L
        BY <4>1, <1>2, <1>6
      <4>2. CASE i = L + 1
        BY <4>2, <3>1, <3>2, <1>2
      <4> QED
        BY <4>1, <4>2, <1>1
    <3> QED
      BY <3>1, <3>3, <3>4
  <2>2. \A i \in 1 .. L + 1 : flight'[i] # End /\ flight'[i] # Status
    BY <1>1, <1>2, <1>4, <1>5
  <2>3. L + 1 <= Window
    BY <1>1, <1>3
  <2>4. Len(received') = R /\ Len(accepted') = N
    BY <1>3 DEF R, N
  <2> QED
    BY <2>1, <2>2, <2>3, <2>4, <1>2, <1>3, <1>6 DEF OnTheWay
<1>9. EndMeansWhole'
  <2>1. ~SawEnd'
    BY <1>3, <1>4 DEF SawEnd
  <2>2. End \notin ToSet(flight')
    BY <1>1, <1>2, <1>4, <1>5 DEF ToSet
  <2> QED
    BY <2>1, <2>2 DEF EndMeansWhole
<1>10. HandlerHoldsReceiver'
  BY <1>3 DEF HandlerHoldsReceiver
<1> QED
  BY <1>7, <1>8, <1>9, <1>10

(* The end goes out behind everything that was accepted, and what was not   *)
(* accepted by then has left a trace in the failures of its task.           *)
LEMMA PullEndStep ==
  ASSUME IInv, PullEnd
  PROVE  MarkIsLast' /\ HandlerHoldsReceiver' /\ OnTheWay' /\ EndMeansWhole'
<1> DEFINE N == Len(accepted)
           R == Len(received)
           L == Len(flight)
<1>1. N \in Nat /\ R \in Nat /\ L \in Nat /\ Len(channel) \in Nat
  BY LengthTypes DEF IInv
<1>2. /\ Len(flight') = L + 1 /\ DOMAIN flight' = 1 .. L + 1
      /\ \A i \in 1 .. L : flight'[i] = flight[i]
      /\ flight'[L + 1] = End
      /\ Len(channel) = 0
  BY DEF IInv, TypeOK, PullEnd
<1>3. /\ open /\ ~open'
      /\ UNCHANGED <<channel, accepted, sender, taken, failures, kind, result, received>>
      /\ handler' = "returned"
      /\ \A s \in Senders : sender[s] # "sending"
  BY DEF PullEnd, clientVars, senderVars
<1>4. ~SawEnd /\ \A i \in 1 .. L : flight[i] \notin {Error, End, Status}
  BY <1>3, OpenMeansNoEnd
<1>5. /\ R <= N /\ \A i \in 1 .. R : received[i] = accepted[i]
      /\ result = "reading" =>
           /\ \A i \in 1 .. L : R + i <= N /\ flight[i] = accepted[R + i]
           /\ N = R + L
  BY <1>1, <1>2, <1>3, <1>4 DEF IInv, OnTheWay
<1> HIDE DEF N, R, L
<1>6. MarkIsLast'
  BY <1>1, <1>2, <1>3, <1>4 DEF MarkIsLast
<1>7. OnTheWay'
  <2>1. Len(received') = R /\ Len(accepted') = N
    BY <1>3 DEF R, N
  <2>2. result = "reading" => N + 1 = R + (L + 1)
    BY <1>1, <1>5
  <2>3. ASSUME NEW i \in 1 .. L + 1, result = "reading"
        PROVE  IF flight'[i] = End THEN N + 1 = R + i
               ELSE flight'[i] # Status => R + i <= N /\ flight'[i] = accepted'[R + i]
    BY <2>2, <2>3, <1>1, <1>2, <1>3, <1>4, <1>5
  <2> QED
    BY <2>1, <2>3, <1>2, <1>3, <1>5 DEF OnTheWay
<1>8. EndMeansWhole'
  <2>1. ~SawEnd'
    BY <1>3, <1>4 DEF SawEnd
  <2>2. ASSUME result = "reading", NEW s \in Senders, sender[s] # "none",
               ~CutShort(s)
        PROVE  Whole(s, accepted)
    <3>1. failures[s] = {}
      BY <2>2, <1>3 DEF IInv, TypeOK, ClosedFails, CutShort
    <3>2. Error \notin ToSet(accepted)
      <4>1. ASSUME NEW i \in 1 .. R PROVE accepted[i] # Error
        <5>1. received[i] \in Messages
          BY DEF R, IInv, TypeOK
        <5> QED
          BY <5>1, <1>5, MarksDiffer DEF Marks
      <4>2. ASSUME NEW i \in 1 .. N PROVE accepted[i] # Error
        <5>1. CASE i \in 1 .. R
          BY <4>1, <5>1
        <5>2. CASE i - R \in 1 .. L /\ i = R + (i - R)
          BY <5>2, <1>4, <1>5, <2>2
        <5> QED
          BY <5>1, <5>2, <1>1, <1>5, <2>2
      <4> QED
        BY <4>2 DEF ToSet, N, IInv, TypeOK
    <3>3. sender[s] = "gone"
      BY <1>3, <2>2 DEF IInv, TypeOK
    <3>4. \A n \in 1 .. ItemsEach : HasItem(s, accepted, n)
      BY <3>1, <3>2, <3>3 DEF IInv, NothingSkipped
    <3> QED
      BY <3>4 DEF IInv, AcceptedInOrder, Whole
  <2> QED
    BY <2>1, <2>2, <1>3 DEF EndMeansWhole, Whole, InOrder, HasItem, CutShort
<1>9. HandlerHoldsReceiver'
  BY <1>3 DEF HandlerHoldsReceiver
<1> QED
  BY <1>6, <1>7, <1>8, <1>9

(* What breaks ends in a status, and a part of what was before it remains. *)
LEMMA BreakStep ==
  ASSUME IInv, Break
  PROVE  MarkIsLast' /\ HandlerHoldsReceiver' /\ OnTheWay' /\ EndMeansWhole'
<1> DEFINE N == Len(accepted)
           R == Len(received)
           L == Len(flight)
<1>1. N \in Nat /\ R \in Nat /\ L \in Nat
  BY LengthTypes DEF IInv
<1>2. PICK n \in 0 .. L - (IF open THEN 0 ELSE 1) :
        flight' = Append(SubSeq(flight, 1, n), Status)
  BY DEF Break
<1>3. /\ n \in 0 .. L /\ (open \/ n < L)
      /\ Len(flight') = n + 1 /\ DOMAIN flight' = 1 .. n + 1
      /\ \A i \in 1 .. n : flight'[i] = flight[i]
      /\ flight'[n + 1] = Status
  <2>1. n \in 0 .. L /\ (open \/ n < L)
    BY <1>1, <1>2
  <2>2. /\ SubSeq(flight, 1, n) \in Seq(Messages \union {Error, End, Status})
        /\ Len(SubSeq(flight, 1, n)) = n
        /\ \A i \in 1 .. n : SubSeq(flight, 1, n)[i] = flight[i]
    BY <2>1, <1>1 DEF IInv, TypeOK
  <2> QED
    BY <1>2, <2>1, <2>2
<1>4. /\ ~open' /\ result = "reading"
      /\ UNCHANGED <<accepted, kind, result, received>>
      /\ handler' = "returned"
  BY DEF Break, clientVars
<1>5. \A i \in 1 .. L : flight[i] \in {Error, End, Status} => i = L /\ ~open
  BY DEF IInv, MarkIsLast
<1>6. /\ R <= N /\ \A i \in 1 .. R : received[i] = accepted[i]
      /\ \A i \in 1 .. L :
           IF flight[i] = End THEN N + 1 = R + i
           ELSE flight[i] # Status => R + i <= N /\ flight[i] = accepted[R + i]
  BY <1>4 DEF IInv, OnTheWay
<1> HIDE DEF N, R, L
<1>7. \A i \in 1 .. n : flight'[i] \notin {Error, End, Status}
  <2> SUFFICES ASSUME NEW i \in 1 .. n PROVE flight[i] \notin {Error, End, Status}
    BY <1>3
  <2>1. i \in 1 .. L /\ ~(i = L /\ ~open)
    BY <1>1, <1>3
  <2> QED
    BY <2>1, <1>5
<1>8. MarkIsLast'
  <2>1. ASSUME NEW i \in 1 .. n + 1, flight'[i] \in {Error, End, Status}
        PROVE  i = n + 1 /\ ~open'
    BY <2>1, <1>3, <1>4, <1>7
  <2> QED
    BY <2>1, <1>3 DEF MarkIsLast
<1>9. OnTheWay'
  <2>1. Len(received') = R /\ Len(accepted') = N
    BY <1>4 DEF R, N
  <2>2. ASSUME NEW i \in 1 .. n + 1
        PROVE  IF flight'[i] = End THEN N + 1 = R + i
               ELSE flight'[i] # Status => R + i <= N /\ flight'[i] = accepted'[R + i]
    <3>1. CASE i \in 1 .. n
      <4>1. i \in 1 .. L /\ flight'[i] = flight[i]
        BY <3>1, <1>1, <1>3
      <4> QED
        BY <4>1, <1>4, <1>6
    <3>2. CASE i = n + 1
      BY <3>2, <1>3, MarksDiffer
    <3> QED
      BY <3>1, <3>2, <1>3
  <2> QED
    BY <2>1, <2>2, <1>3, <1>4, <1>6 DEF OnTheWay
<1>10. EndMeansWhole'
  <2>1. ~SawEnd'
    BY <1>4 DEF SawEnd
  <2>2. End \notin ToSet(flight')
    <3>1. ASSUME NEW i \in 1 .. n + 1 PROVE flight'[i] # End
      BY <1>3, <1>7, MarksDiffer
    <3> QED
      BY <3>1, <1>3 DEF ToSet
  <2> QED
    BY <2>1, <2>2 DEF EndMeansWhole
<1>11. HandlerHoldsReceiver'
  BY <1>4 DEF HandlerHoldsReceiver
<1> QED
  BY <1>8, <1>9, <1>10, <1>11

(* A message moves from the way to what is received. *)
LEMMA ReceiveStep ==
  ASSUME IInv, Receive
  PROVE  MarkIsLast' /\ HandlerHoldsReceiver' /\ OnTheWay' /\ EndMeansWhole'
<1> DEFINE N == Len(accepted)
           R == Len(received)
           L == Len(flight)
           C == Len(channel)
<1>1. N \in Nat /\ R \in Nat /\ L \in Nat /\ C \in Nat /\ Window \in Nat
  BY LengthTypes DEF IInv
<1>2. /\ 1 <= L /\ Len(flight') = L - 1 /\ DOMAIN flight' = 1 .. L - 1
      /\ \A i \in 1 .. L - 1 : flight'[i] = flight[i + 1]
      /\ Len(received') = R + 1
      /\ \A i \in 1 .. R : received'[i] = received[i]
      /\ received'[R + 1] = flight[1]
      /\ flight[1] \notin {Error, End, Status}
  BY DEF IInv, TypeOK, Receive
<1>3. /\ result = "reading"
      /\ UNCHANGED <<handler, accepted, channel, open, sender, failures, kind>>
  BY DEF Receive, senderVars
<1>4. /\ \A i \in 1 .. R : received[i] = accepted[i]
      /\ open => L <= Window
      /\ \A i \in 1 .. L :
           IF flight[i] = End THEN N + 1 = R + i
           ELSE flight[i] # Status => R + i <= N /\ flight[i] = accepted[R + i]
      /\ open => N = R + L + C /\ \A i \in 1 .. C : channel[i] = accepted[R + L + i]
  BY <1>3 DEF IInv, OnTheWay
<1>5. \A i \in 1 .. L : flight[i] \in {Error, End, Status} => i = L /\ ~open
  BY DEF IInv, MarkIsLast
<1>6. ~SawEnd'
  BY <1>3 DEF SawEnd, Receive, Outcome
<1> HIDE DEF N, R, L, C
<1>7. \A i \in 1 .. L - 1 : i + 1 \in 1 .. L /\ R + (i + 1) = (R + 1) + i
  BY <1>1
<1>8. MarkIsLast'
  <2>1. ASSUME NEW i \in 1 .. L - 1, flight'[i] \in {Error, End, Status}
        PROVE  i = L - 1 /\ ~open'
    <3>1. i + 1 = L /\ ~open
      BY <2>1, <1>2, <1>5, <1>7
    <3> QED
      BY <3>1, <1>1, <1>3
  <2> QED
    BY <2>1, <1>2 DEF MarkIsLast
<1>9. OnTheWay'
  <2>0. Len(accepted') = N /\ Len(channel') = C
    BY <1>3 DEF N, C
  <2>1. R + 1 <= N /\ flight[1] = accepted[R + 1]
    BY <1>1, <1>2, <1>4
  <2>2. \A i \in 1 .. R + 1 : received'[i] = accepted'[i]
    BY <2>1, <1>1, <1>2, <1>3, <1>4
  <2>3. ASSUME NEW i \in 1 .. L - 1
        PROVE  IF flight'[i] = End THEN N + 1 = (R + 1) + i
               ELSE flight'[i] # Status =>
                      (R + 1) + i <= N /\ flight'[i] = accepted'[(R + 1) + i]
    <3>1. i + 1 \in 1 .. L /\ R + (i + 1) = (R + 1) + i /\ flight'[i] = flight[i + 1]
      BY <1>2, <1>7
    <3> QED
      BY <3>1, <1>3, <1>4
  <2>4. open => L - 1 <= Window /\ N = (R + 1) + (L - 1) + C
    BY <1>1, <1>4
  <2>5. ASSUME open, NEW i \in 1 .. C PROVE channel'[i] = accepted'[(R + 1) + (L - 1) + i]
    <3>1. (R + 1) + (L - 1) + i = R + L + i
      BY <1>1
    <3> QED
      BY <3>1, <2>5, <1>3, <1>4
  <2> QED
    BY <2>0, <2>1, <2>2, <2>3, <2>4, <2>5, <1>2, <1>3 DEF OnTheWay
<1>10. EndMeansWhole'
  <2>1. End \in ToSet(flight') => End \in ToSet(flight)
    <3>1. DOMAIN flight = 1 .. L
      BY DEF L, IInv, TypeOK
    <3>2. ASSUME NEW i \in 1 .. L - 1 PROVE flight'[i] \in ToSet(flight)
      BY <3>1, <1>2, <1>7 DEF ToSet
    <3> QED
      BY <3>2, <1>2 DEF ToSet
  <2> QED
    BY <2>1, <1>3, <1>6 DEF IInv, EndMeansWhole, Whole, InOrder, HasItem, CutShort
<1>11. HandlerHoldsReceiver'
  <2>1. flight # <<>>
    BY DEF Receive
  <2> QED
    BY <2>1, <1>3 DEF IInv, HandlerHoldsReceiver
<1> QED
  BY <1>8, <1>9, <1>10, <1>11

(* The reader takes an error, a status or the end: of the three, only the end *)
(* makes a collection of what is received.                                    *)
LEMMA ReceiveEndStep ==
  ASSUME IInv, ReceiveEnd
  PROVE  MarkIsLast' /\ HandlerHoldsReceiver' /\ OnTheWay' /\ EndMeansWhole'
<1> DEFINE N == Len(accepted)
           R == Len(received)
           L == Len(flight)
<1>1. N \in Nat /\ R \in Nat /\ L \in Nat
  BY LengthTypes DEF IInv
<1>2. /\ 1 <= L /\ Len(flight') = L - 1 /\ flight[1] = Head(flight)
      /\ flight[1] \in {Error, End, Status}
      /\ End \in ToSet(flight) \/ flight[1] # End
  BY DEF IInv, TypeOK, ReceiveEnd, ToSet
<1>3. /\ result = "reading"
      /\ UNCHANGED <<handler, accepted, open, sender, failures, kind, received>>
      /\ result' = IF flight[1] = End THEN "ok" ELSE "status"
  BY <1>2 DEF ReceiveEnd, senderVars
<1>4. L = 1 /\ ~open
  BY <1>1, <1>2 DEF IInv, MarkIsLast
<1>5. /\ R <= N /\ \A i \in 1 .. R : received[i] = accepted[i]
      /\ flight[1] = End => N + 1 = R + 1
  BY <1>2, <1>3, <1>4 DEF IInv, OnTheWay
<1>6. flight[1] = End => received = accepted
  <2> SUFFICES ASSUME flight[1] = End PROVE received = accepted
    OBVIOUS
  <2>1. R = N
    BY <1>1, <1>5
  <2>2. received \in Seq(Sendable) /\ accepted \in Seq(Sendable)
    BY DEF IInv, TypeOK, Sendable
  <2> QED
    BY <2>1, <2>2, <1>5, SeqEqual
<1> HIDE DEF N, R, L
<1>7. MarkIsLast'
  BY <1>2, <1>4 DEF MarkIsLast
<1>8. OnTheWay'
  BY <1>3, <1>4, <1>5 DEF OnTheWay, R, N
<1>9. EndMeansWhole'
  <2>1. SawEnd' => received' = accepted' /\ ~open'
    BY <1>3, <1>4, <1>6 DEF SawEnd
  <2>2. SawEnd' => End \in ToSet(flight)
    BY <1>2, <1>3 DEF SawEnd
  <2> QED
    BY <2>1, <2>2, <1>3 DEF IInv, EndMeansWhole, Whole, InOrder, HasItem, CutShort
<1>10. HandlerHoldsReceiver'
  <2>1. flight # <<>>
    BY DEF ReceiveEnd
  <2> QED
    BY <2>1, <1>3 DEF IInv, HandlerHoldsReceiver
<1> QED
  BY <1>7, <1>8, <1>9, <1>10

(* A reader that gives up has not seen the end. *)
LEMMA GivesUpStep ==
  ASSUME IInv, ReadTimeout \/ DropResponse
  PROVE  MarkIsLast' /\ HandlerHoldsReceiver' /\ OnTheWay' /\ EndMeansWhole'
<1>1. /\ UNCHANGED <<handler, accepted, channel, open, flight, kind, received>>
      /\ result' \in {"timeout", "dropped"}
  BY DEF ReadTimeout, DropResponse
<1>2. MarkIsLast' /\ HandlerHoldsReceiver'
  BY <1>1 DEF IInv, MarkIsLast, HandlerHoldsReceiver
<1>3. OnTheWay'
  BY <1>1 DEF IInv, OnTheWay
<1>4. EndMeansWhole'
  BY <1>1 DEF EndMeansWhole, SawEnd
<1> QED
  BY <1>2, <1>3, <1>4

(***************************************************************************)
(* The server leaves the way to the client as it is, or sends something.   *)
(***************************************************************************)
LEMMA SenderStepKeeps ==
  ASSUME IInv, NEW s \in Senders, SenderStep(s)
  PROVE  /\ MarkIsLast' /\ HandlerHoldsReceiver' /\ OnTheWay' /\ EndMeansWhole'
         /\ AcceptedInOrder' /\ NothingSkipped' /\ HelperStops' /\ ClosedFails'
<1>0. /\ TypeOK /\ HandlerHoldsReceiver
      /\ taken \in [Senders -> 0 .. ItemsEach] /\ ItemsEach \in Nat
      /\ sender \in [Senders -> {"none", "sending", "gone"}]
  BY ConstantsAssumption DEF ConstantsAssumption, IInv, TypeOK
<1>1. CASE Send(s)
  <2> DEFINE m == Message(s, NextChunk(taken[s]))
  <2>1. m \in Sendable
    BY <1>0, ChunkIsMessage DEF Sendable
  <2>2. /\ sender[s] = "sending" /\ Put(m) /\ Take(s) /\ open
        /\ UNCHANGED <<side, sender, failures, open, flight, kind, result, received, handler>>
    BY <1>1 DEF Send, clientVars
  <2> HIDE DEF m
  <2>3. MarkIsLast' /\ OnTheWay' /\ EndMeansWhole'
    BY <2>1, <2>2, PutDelivers
  <2>4. AcceptedInOrder' /\ NothingSkipped' /\ HelperStops' /\ ClosedFails'
    BY <2>2, PutOfSender DEF m
  <2> QED
    BY <2>2, <2>3, <2>4, <1>0 DEF HandlerHoldsReceiver
<1>2. CASE SendError(s)
  <2>1. Error \in Sendable /\ Error.from = Handler
    BY MarksDiffer DEF Sendable
  <2>2. /\ Put(Error) /\ Take(s) /\ open /\ side = "writer"
        /\ UNCHANGED <<side, sender, failures, open, flight, kind, result, received, handler>>
    BY <1>2 DEF SendError, clientVars
  <2>3. MarkIsLast' /\ OnTheWay' /\ EndMeansWhole'
    BY <2>1, <2>2, PutDelivers
  <2>4. AcceptedInOrder' /\ NothingSkipped' /\ HelperStops' /\ ClosedFails'
    BY <1>0, <2>1, <2>2, TakeGrows, PutOfHandler
  <2> QED
    BY <2>2, <2>3, <2>4, <1>0 DEF HandlerHoldsReceiver
<1>3. CASE SendFails(s) \/ SendErrorPanics(s) \/ MappingPanics(s)
  <2>0. PICK why \in {"timeout", "closed", "panic"} :
          /\ why = "closed" => ~open
          /\ failures' = [failures EXCEPT ![s] = @ \union {why}]
    BY <1>3 DEF SendFails, SendErrorPanics, MappingPanics
  <2>1. /\ sender[s] = "sending"
        /\ UNCHANGED <<handler, side, channel, accepted, open, flight, kind, result, received>>
        /\ Take(s) \/ UNCHANGED taken
        /\ sender' = [sender EXCEPT ![s] = "gone"] \/ (side = "writer" /\ UNCHANGED sender)
    BY <1>3 DEF SendFails, SendErrorPanics, MappingPanics, Leave, clientVars
  <2>2. /\ taken' \in [Senders -> 0 .. ItemsEach]
        /\ \A t \in Senders : taken[t] <= taken'[t]
        /\ \A t \in Senders \ {s} : taken'[t] = taken[t]
    <3>1. CASE Take(s)
      BY <3>1, <1>0, TakeGrows
    <3>2. CASE UNCHANGED taken
      BY <3>2, <1>0
    <3> QED
      BY <2>1, <3>1, <3>2
  <2>3. /\ \A t \in Senders \ {s} : sender'[t] = sender[t]
        /\ sender'[s] = "gone" \/ (side = "writer" /\ sender'[s] = "sending")
    BY <1>0, <2>1
  <2>4. /\ AcceptedInOrder' /\ NothingSkipped' /\ HelperStops' /\ ClosedFails'
        /\ EndMeansWhole'
    BY <2>0, <2>1, <2>2, <2>3, FailureShows
  <2>5. MarkIsLast' /\ OnTheWay' /\ HandlerHoldsReceiver'
    BY <2>1, <1>0, DeliveryFrame DEF HandlerHoldsReceiver
  <2> QED
    BY <2>4, <2>5
<1>4. CASE SenderEnds(s)
  <2>1. /\ sender[s] = "sending" /\ sender' = [sender EXCEPT ![s] = "gone"]
        /\ UNCHANGED <<handler, side, taken, failures, channel, accepted, open, flight,
                       kind, result, received>>
        /\ taken[s] = ItemsEach
    BY <1>0, <1>4, NextChunkItems DEF SenderEnds, Leave, clientVars
  <2>2. MarkIsLast' /\ OnTheWay' /\ HandlerHoldsReceiver'
    BY <2>1, <1>0, DeliveryFrame DEF HandlerHoldsReceiver
  <2>3. /\ sender'[s] = "gone"
        /\ \A t \in Senders \ {s} : sender'[t] = sender[t]
    BY <1>0, <2>1
  <2>4. AcceptedInOrder' /\ ClosedFails'
    BY <2>1, <1>0, TakenOnly DEF IInv, ClosedFails
  <2>5. NothingSkipped'
    <3> SUFFICES ASSUME NEW t \in Senders, failures[t] = {}, Error \notin ToSet(accepted)
                 PROVE  /\ \A n \in 1 .. taken[t] : HasItem(t, accepted, n)
                        /\ sender'[t] = "gone" => taken[t] = ItemsEach
      BY <2>1 DEF NothingSkipped, HasItem
    <3> QED
      BY <2>1, <2>3 DEF IInv, NothingSkipped
  <2>6. HelperStops'
    <3> SUFFICES ASSUME side = "helper"
                 PROVE  /\ Error \notin ToSet(accepted)
                        /\ \A t \in Senders : sender'[t] = "sending" => failures[t] = {}
                        /\ \A t \in Senders : NoGap(t, accepted)
      BY <2>1 DEF HelperStops, NoGap, HasItem
    <3> QED
      BY <2>1, <2>3 DEF IInv, HelperStops
  <2>7. EndMeansWhole'
    <3> SUFFICES /\ SawEnd => received = accepted /\ ~open
                 /\ SawEnd \/ (result = "reading" /\ End \in ToSet(flight)) =>
                      \A t \in Senders : \/ sender'[t] = "none"
                                         \/ Whole(t, accepted)
                                         \/ CutShort(t)
      BY <2>1 DEF EndMeansWhole, SawEnd, Whole, InOrder, HasItem, CutShort
    <3> QED
      BY <2>1, <2>3 DEF IInv, EndMeansWhole
  <2> QED
    BY <2>2, <2>4, <2>5, <2>6, <2>7
<1> QED
  BY <1>1, <1>2, <1>3, <1>4 DEF SenderStep, Proceeds

LEMMA HandlerStepKeeps ==
  ASSUME IInv, HandlerStep
  PROVE  /\ MarkIsLast' /\ HandlerHoldsReceiver' /\ OnTheWay' /\ EndMeansWhole'
         /\ AcceptedInOrder' /\ NothingSkipped' /\ HelperStops' /\ ClosedFails'
<1>0. /\ TypeOK /\ Handler \notin Senders /\ HandlerHoldsReceiver
      /\ taken \in [Senders -> 0 .. ItemsEach] /\ ItemsEach \in Nat
  BY ConstantsAssumption DEF ConstantsAssumption, IInv, TypeOK
<1>1. CASE WriterSend
  <2> DEFINE m == Message(Handler, <<toWrite>>)
  <2>1. m \in Messages
    <3>1. toWrite \in 1 .. WriterSends
      BY <1>0, <1>1, ConstantsAssumption DEF ConstantsAssumption, TypeOK, WriterSend
    <3> QED
      BY <3>1 DEF Messages
  <2>2. m \in Sendable /\ m # Error /\ m.from = Handler
    BY <2>1, MarksDiffer DEF Sendable, Marks, Message
  <2>3. /\ Put(m) /\ open
        /\ UNCHANGED <<handler, side, sender, taken, failures, open, flight,
                       kind, result, received>>
    BY <1>0, <1>1 DEF WriterSend, senderVars, clientVars, HandlerHoldsReceiver
  <2> HIDE DEF m
  <2>4. MarkIsLast' /\ OnTheWay' /\ EndMeansWhole'
    BY <2>2, <2>3, PutDelivers
  <2>5. \A t \in Senders : taken[t] <= taken'[t]
    BY <1>0, <2>3
  <2>6. AcceptedInOrder' /\ NothingSkipped' /\ HelperStops' /\ ClosedFails'
    BY <1>0, <2>2, <2>3, <2>5, PutOfHandler
  <2> QED
    BY <1>0, <2>3, <2>4, <2>6 DEF HandlerHoldsReceiver
<1>2. CASE WriterPanics
  <2>1. /\ handler' = "panicked" /\ open /\ ~open' /\ flight' = <<Status>>
        /\ UNCHANGED <<side, sender, taken, failures, channel, accepted, kind, result, received>>
    BY <1>0, <1>2 DEF WriterPanics, senderVars, clientVars, HandlerHoldsReceiver
  <2>2. Len(flight') = 1 /\ flight'[1] = Status /\ ToSet(flight') = {Status}
    BY <2>1 DEF ToSet
  <2>3. MarkIsLast'
    BY <2>1, <2>2 DEF MarkIsLast
  <2>4. OnTheWay'
    <3>1. \A i \in 1 .. 1 : flight'[i] # End /\ flight'[i] = Status
      BY <2>2, MarksDiffer
    <3> QED
      BY <2>1, <2>2, <3>1 DEF IInv, OnTheWay
  <2>5. EndMeansWhole'
    <3>1. ~SawEnd
      BY <2>1, OpenMeansNoEnd
    <3> QED
      BY <2>1, <2>2, <3>1, MarksDiffer DEF EndMeansWhole, SawEnd
  <2>6. AcceptedInOrder' /\ NothingSkipped' /\ HelperStops' /\ ClosedFails'
    BY <2>1, SendersFrame
  <2> QED
    BY <2>1, <2>3, <2>4, <2>5, <2>6 DEF HandlerHoldsReceiver
<1>3. CASE GetResult
  <2>1. /\ handler' = "returned"
        /\ UNCHANGED <<side, sender, taken, failures, channel, accepted, open, flight,
                       kind, result, received>>
    BY <1>3 DEF GetResult, senderVars, clientVars
  <2>2. MarkIsLast' /\ OnTheWay'
    BY <2>1, DeliveryFrame
  <2>3. AcceptedInOrder' /\ NothingSkipped' /\ HelperStops' /\ ClosedFails'
    BY <2>1, SendersFrame
  <2>4. EndMeansWhole'
    BY <2>1 DEF IInv, EndMeansWhole, SawEnd, Whole, InOrder, HasItem, CutShort
  <2> QED
    BY <2>1, <2>2, <2>3, <2>4 DEF HandlerHoldsReceiver
<1>4. CASE WriterSendError
  <2>1. Error \in Sendable /\ Error.from = Handler
    BY MarksDiffer DEF Sendable
  <2>2. /\ Put(Error) /\ open /\ side = "writer"
        /\ UNCHANGED <<handler, side, sender, taken, failures, open, flight,
                       kind, result, received>>
    BY <1>0, <1>4 DEF WriterSendError, senderVars, clientVars, HandlerHoldsReceiver
  <2>3. MarkIsLast' /\ OnTheWay' /\ EndMeansWhole'
    BY <2>1, <2>2, PutDelivers
  <2>4. taken' \in [Senders -> 0 .. ItemsEach] /\ \A t \in Senders : taken[t] <= taken'[t]
    BY <1>0, <2>2
  <2>5. AcceptedInOrder' /\ NothingSkipped' /\ HelperStops' /\ ClosedFails'
    BY <2>1, <2>2, <2>4, PutOfHandler
  <2> QED
    BY <1>0, <2>2, <2>3, <2>5 DEF HandlerHoldsReceiver
<1> QED
  BY <1>1, <1>2, <1>3, <1>4 DEF HandlerStep

LEMMA ResetStep ==
  ASSUME IInv, Reset
  PROVE  MarkIsLast' /\ HandlerHoldsReceiver' /\ OnTheWay' /\ EndMeansWhole'
<1>1. /\ result # "reading" /\ ~open' /\ handler' # "running"
      /\ UNCHANGED <<sender, failures, channel, accepted, flight, kind, result, received>>
  BY DEF Reset, senderVars, clientVars, IInv, TypeOK
<1>2. MarkIsLast' /\ HandlerHoldsReceiver'
  BY <1>1 DEF IInv, MarkIsLast, HandlerHoldsReceiver
<1>3. OnTheWay'
  BY <1>1 DEF IInv, OnTheWay
<1>4. EndMeansWhole'
  BY <1>1 DEF IInv, EndMeansWhole, SawEnd, Whole, InOrder, HasItem, CutShort
<1> QED
  BY <1>2, <1>3, <1>4

-----------------------------------------------------------------------------
(* Types.                                                                  *)
LEMMA InitIInv == Init => IInv
<1> SUFFICES ASSUME Init PROVE IInv
  OBVIOUS
<1>0. /\ ItemsEach \in Nat /\ WriterSends \in Nat
      /\ ChannelSize \in Nat \ {0} /\ Window \in Nat \ {0}
  BY ConstantsAssumption DEF ConstantsAssumption
<1>1. toWrite \in 0 .. WriterSends
  BY <1>0 DEF Init
<1>2. /\ channel = <<>> /\ accepted = <<>> /\ flight = <<>> /\ received = <<>>
      /\ Len(channel) = 0 /\ Len(flight) = 0 /\ Len(received) = 0 /\ Len(accepted) = 0
  BY DEF Init
<1>3. sender \in [Senders -> {"none", "sending", "gone"}] /\ \A s \in Senders : sender[s] # "gone"
  BY DEF Init
<1>4. TypeOK
  BY <1>0, <1>1, <1>2, <1>3 DEF Init, TypeOK
<1>5. \A s \in Senders : \A n : ~HasItem(s, accepted, n)
  BY <1>2 DEF HasItem
<1>6. \A s \in Senders : taken[s] = 0
  BY DEF Init
<1>7. AcceptedInOrder /\ NothingSkipped /\ HelperStops /\ ClosedFails
  BY <1>2, <1>3, <1>5, <1>6
     DEF Init, AcceptedInOrder, NothingSkipped, HelperStops, ClosedFails, InOrder, NoGap, ToSet
<1>8. MarkIsLast /\ HandlerHoldsReceiver /\ OnTheWay
  BY <1>0, <1>2 DEF Init, MarkIsLast, HandlerHoldsReceiver, OnTheWay
<1>9. EndMeansWhole
  BY <1>2 DEF Init, EndMeansWhole, SawEnd, ToSet
<1> QED
  BY <1>4, <1>7, <1>8, <1>9 DEF IInv

(* A send finds room, so the channel stays within its size. *)
LEMMA PutType ==
  ASSUME TypeOK, NEW m \in Sendable, Put(m), HasRoom
  PROVE  /\ channel' \in Seq(Messages \union {Error}) /\ Len(channel') <= ChannelSize
         /\ accepted' \in Seq(Messages \union {Error})
<1>1. /\ accepted' \in Seq(Sendable) /\ channel' \in Seq(Sendable)
      /\ Len(channel) \in Nat /\ Len(channel') = Len(channel) + 1
  BY PutAppends
<1>2. Len(channel) < ChannelSize /\ ChannelSize \in Nat
  BY LengthTypes DEF HasRoom
<1> QED
  BY <1>1, <1>2 DEF Sendable

LEMMA TypeStep ==
  ASSUME IInv, [Next]_vars
  PROVE  TypeOK'
<1> USE DEF senderVars, clientVars
<1>0. TypeOK
  BY DEF IInv
<1>00. CASE UNCHANGED vars
  BY <1>0, <1>00 DEF vars, TypeOK
<1>1. CASE WriterSend
  <2>1. toWrite \in 1 .. WriterSends /\ toWrite' \in 0 .. WriterSends
    BY <1>0, <1>1, ConstantsAssumption DEF ConstantsAssumption, TypeOK, WriterSend
  <2>2. Message(Handler, <<toWrite>>) \in Sendable
    BY <2>1 DEF Sendable, Messages
  <2>3. /\ channel' \in Seq(Messages \union {Error}) /\ Len(channel') <= ChannelSize
        /\ accepted' \in Seq(Messages \union {Error})
    BY <1>0, <1>1, <2>2, PutType DEF WriterSend
  <2> QED
    BY <1>0, <1>1, <2>1, <2>3 DEF WriterSend, TypeOK
<1>2. CASE WriterPanics
  <2>1. flight' \in Seq(Messages \union {Error, End, Status}) /\ Len(flight') <= Window + 1
    BY <1>2, LengthTypes, <1>0 DEF WriterPanics
  <2> QED
    BY <1>0, <1>2, <2>1 DEF WriterPanics, TypeOK
<1>3. CASE GetResult
  BY <1>0, <1>3 DEF GetResult, TypeOK
<1>4. ASSUME NEW s \in Senders, Send(s) \/ SendError(s) PROVE TypeOK'
  <2>1. taken[s] \in 0 .. ItemsEach
    BY <1>0 DEF TypeOK
  <2>2. Message(s, NextChunk(taken[s])) \in Sendable /\ Error \in Sendable
    BY <2>1, ChunkIsMessage DEF Sendable
  <2>3. /\ channel' \in Seq(Messages \union {Error}) /\ Len(channel') <= ChannelSize
        /\ accepted' \in Seq(Messages \union {Error})
    BY <1>0, <1>4, <2>2, PutType DEF Send, SendError
  <2>4. taken' \in [Senders -> 0 .. ItemsEach]
    BY <1>0, <1>4, TakeGrows DEF Send, SendError
  <2> QED
    BY <1>0, <1>4, <2>3, <2>4 DEF Send, SendError, TypeOK
<1>5. ASSUME NEW s \in Senders, SendFails(s) \/ SendErrorPanics(s) \/ MappingPanics(s)
      PROVE  TypeOK'
  <2>1. taken' \in [Senders -> 0 .. ItemsEach]
    <3>1. Take(s) \/ UNCHANGED taken
      BY <1>5 DEF SendFails, SendErrorPanics, MappingPanics
    <3> QED
      BY <1>0, <3>1, TakeGrows DEF TypeOK
  <2>2. sender' \in [Senders -> {"none", "sending", "gone"}]
    BY <1>0, <1>5 DEF SendFails, SendErrorPanics, MappingPanics, Leave, TypeOK
  <2>3. failures' \in [Senders -> SUBSET {"timeout", "closed", "panic"}]
    <3>1. PICK why \in {"timeout", "closed", "panic"} :
            failures' = [failures EXCEPT ![s] = @ \union {why}]
      BY <1>5 DEF SendFails, SendErrorPanics, MappingPanics
    <3> QED
      BY <1>0, <3>1 DEF TypeOK
  <2> QED
    BY <1>0, <1>5, <2>1, <2>2, <2>3 DEF SendFails, SendErrorPanics, MappingPanics, TypeOK
<1>6. ASSUME NEW s \in Senders, SenderEnds(s) PROVE TypeOK'
  BY <1>0, <1>6 DEF SenderEnds, Leave, TypeOK
<1>7. CASE Pull
  <2>1. /\ channel' \in Seq(Messages \union {Error}) /\ Len(channel') <= ChannelSize
    <3>1. channel \in Seq(Messages \union {Error}) /\ channel # <<>> /\ channel' = Tail(channel)
      BY <1>0, <1>7 DEF Pull, TypeOK
    <3>2. channel' \in Seq(Messages \union {Error}) /\ Len(channel') = Len(channel) - 1
      BY <3>1
    <3> QED
      BY <1>0, <3>2, LengthTypes DEF TypeOK
  <2>2. /\ flight' \in Seq(Messages \union {Error, End, Status})
        /\ Len(flight') = Len(flight) + 1 /\ Len(flight) < Window
    BY <1>0, <1>7 DEF Pull, TypeOK
  <2>3. Len(flight') <= Window + 1
    BY <1>0, <2>2, LengthTypes
  <2>4. open' \in BOOLEAN
    BY <1>7 DEF Pull
  <2> QED
    BY <1>0, <1>7, <2>1, <2>2, <2>3, <2>4 DEF Pull, TypeOK
<1>8. CASE PullEnd
  <2>1. /\ flight' \in Seq(Messages \union {Error, End, Status})
        /\ Len(flight') = Len(flight) + 1
    BY <1>0, <1>8 DEF PullEnd, TypeOK
  <2>2. Len(flight) <= Window
    BY <1>8 DEF PullEnd, IInv, OnTheWay
  <2>3. Len(flight') <= Window + 1
    BY <1>0, <2>1, <2>2, LengthTypes
  <2> QED
    BY <1>0, <1>8, <2>1, <2>3 DEF PullEnd, TypeOK
<1>9. CASE Break
  <2>0. /\ Len(flight) \in Nat /\ Window \in Nat /\ Len(flight) <= Window + 1
        /\ open => Len(flight) <= Window
    BY <1>0, LengthTypes DEF IInv, TypeOK, OnTheWay
  <2>1. PICK n \in 0 .. Len(flight) - (IF open THEN 0 ELSE 1) :
          flight' = Append(SubSeq(flight, 1, n), Status)
    BY <1>9 DEF Break
  <2>2. n \in 0 .. Len(flight) /\ n <= Window
    BY <2>0, <2>1
  <2>3. /\ SubSeq(flight, 1, n) \in Seq(Messages \union {Error, End, Status})
        /\ Len(SubSeq(flight, 1, n)) = n
    BY <1>0, <2>0, <2>2 DEF TypeOK
  <2>4. flight' \in Seq(Messages \union {Error, End, Status}) /\ Len(flight') = n + 1
    BY <2>1, <2>3
  <2>5. Len(flight') <= Window + 1
    BY <2>0, <2>2, <2>4
  <2> QED
    BY <1>0, <1>9, <2>4, <2>5 DEF Break, TypeOK
<1>10. CASE Reset
  BY <1>0, <1>10 DEF Reset, TypeOK
<1>11. CASE Receive \/ ReceiveEnd
  <2>1. /\ flight \in Seq(Messages \union {Error, End, Status}) /\ flight # <<>>
        /\ flight' = Tail(flight)
    BY <1>0, <1>11 DEF Receive, ReceiveEnd, TypeOK
  <2>2. /\ flight' \in Seq(Messages \union {Error, End, Status})
        /\ Len(flight') = Len(flight) - 1
        /\ Head(flight) \in Messages \union {Error, End, Status}
    BY <2>1
  <2>3. Len(flight') <= Window + 1
    BY <1>0, <2>2, LengthTypes DEF TypeOK
  <2>4. received' \in Seq(Messages)
    <3>1. received \in Seq(Messages)
      BY <1>0 DEF TypeOK
    <3>2. CASE Receive
      <4>1. Head(flight) \in Messages /\ received' = Append(received, Head(flight))
        BY <2>2, <3>2 DEF Receive
      <4> QED
        BY <3>1, <4>1
    <3>3. CASE ReceiveEnd
      BY <3>1, <3>3 DEF ReceiveEnd
    <3> QED
      BY <1>11, <3>2, <3>3
  <2> QED
    BY <1>0, <1>11, <2>2, <2>3, <2>4 DEF Receive, ReceiveEnd, Outcome, TypeOK
<1>12. CASE ReadTimeout \/ DropResponse
  BY <1>0, <1>12 DEF ReadTimeout, DropResponse, TypeOK
<1>13. CASE WriterSendError
  <2>1. toWrite' \in 0 .. WriterSends
    BY <1>0, <1>13, ConstantsAssumption DEF ConstantsAssumption, TypeOK, WriterSendError
  <2>2. Error \in Sendable
    BY DEF Sendable
  <2>3. /\ channel' \in Seq(Messages \union {Error}) /\ Len(channel') <= ChannelSize
        /\ accepted' \in Seq(Messages \union {Error})
    BY <1>0, <1>13, <2>2, PutType DEF WriterSendError
  <2> QED
    BY <1>0, <1>13, <2>1, <2>3 DEF WriterSendError, TypeOK
<1> QED
  BY <1>00, <1>1, <1>2, <1>3, <1>4, <1>5, <1>6, <1>7, <1>8, <1>9, <1>10, <1>11, <1>12, <1>13
     DEF Next, HandlerStep, SenderStep, Proceeds, Transport, ReaderStep

LEMMA InvariantStep == IInv /\ [Next]_vars => IInv'
<1> SUFFICES ASSUME IInv, [Next]_vars PROVE IInv'
  OBVIOUS
<1>1. TypeOK'
  BY TypeStep
<1>2. CASE UNCHANGED vars
  <2>1. UNCHANGED <<handler, side, sender, taken, failures, channel, accepted, open, flight,
                    kind, result, received>>
    BY <1>2 DEF vars, senderVars, clientVars
  <2>2. EndMeansWhole' /\ HandlerHoldsReceiver'
    BY <2>1 DEF IInv, HandlerHoldsReceiver, EndMeansWhole, SawEnd, Whole, InOrder,
           HasItem, CutShort
  <2>3. MarkIsLast' /\ OnTheWay'
    BY <2>1, DeliveryFrame
  <2>4. AcceptedInOrder' /\ NothingSkipped' /\ HelperStops' /\ ClosedFails'
    BY <2>1, SendersFrame
  <2> QED
    BY <1>1, <2>2, <2>3, <2>4 DEF IInv
<1>3. CASE HandlerStep
  BY <1>1, <1>3, HandlerStepKeeps DEF IInv
<1>4. ASSUME NEW s \in Senders, SenderStep(s) PROVE IInv'
  BY <1>1, <1>4, SenderStepKeeps DEF IInv
<1>5. CASE Transport \/ ReaderStep
  <2>1. MarkIsLast' /\ HandlerHoldsReceiver' /\ OnTheWay' /\ EndMeansWhole'
    BY <1>5, PullStep, PullEndStep, BreakStep, ResetStep, ReceiveStep, ReceiveEndStep,
       GivesUpStep
       DEF Transport, ReaderStep
  <2>2. UNCHANGED <<side, sender, taken, failures, accepted>> /\ (open' => open)
    BY <1>5
       DEF Transport, ReaderStep, Pull, PullEnd, Break, Reset, Receive, ReceiveEnd,
           ReadTimeout, DropResponse, senderVars
  <2>3. AcceptedInOrder' /\ NothingSkipped' /\ HelperStops' /\ ClosedFails'
    BY <2>2, SendersFrame
  <2> QED
    BY <1>1, <2>1, <2>3 DEF IInv
<1> QED
  BY <1>2, <1>3, <1>4, <1>5 DEF Next

-----------------------------------------------------------------------------
(***************************************************************************)
(* The inductive invariant: what was accepted is received, on its way and  *)
(* in the channel, in this order; what is missing of the source of a task  *)
(* has left a trace that no end goes out after.                            *)
(***************************************************************************)
THEOREM ResponseInvariant == Spec => []IInv
<1> QED
  BY InitIInv, InvariantStep, PTL DEF Spec

(* Types, and the two buffers never get longer than they may. *)
THEOREM ResponseTypes == Spec => []TypeOK
<1>1. IInv => TypeOK
  BY DEF IInv
<1> QED
  BY <1>1, ResponseInvariant, PTL

(***************************************************************************)
(* A reader that returns Ok has every message whose send was acknowledged: *)
(* nothing but the end of the stream passes for it.                        *)
(***************************************************************************)
THEOREM OkHasAcknowledged == Spec => []AcknowledgedIsReceived
<1>1. IInv => AcknowledgedIsReceived
  BY DEF IInv, EndMeansWhole, AcknowledgedIsReceived
<1> QED
  BY <1>1, ResponseInvariant, PTL

(***************************************************************************)
(* What a reader returns as Ok is the whole collection of every task, in   *)
(* its order, unless that task had a send timeout or panicked.             *)
(***************************************************************************)
THEOREM OkIsWhole == Spec => []WholeUnlessCutShort
<1>1. IInv => WholeUnlessCutShort
  BY DEF IInv, EndMeansWhole, WholeUnlessCutShort
<1> QED
  BY <1>1, ResponseInvariant, PTL

(* What is received is a beginning of what was accepted, and so keeps order. *)
LEMMA ReceivedInOrder ==
  ASSUME IInv, NEW s \in Senders
  PROVE  InOrder(s, received)
<1> DEFINE R == Len(received)
           N == Len(accepted)
<1>0. /\ DOMAIN received = 1 .. R /\ DOMAIN accepted = 1 .. N
      /\ R \in Nat /\ N \in Nat
  BY LengthTypes DEF IInv, TypeOK
<1>1. /\ R \in Nat /\ N \in Nat /\ R <= N
      /\ DOMAIN received = 1 .. R /\ DOMAIN accepted = 1 .. N
      /\ \A i \in 1 .. R : received[i] = accepted[i]
  BY <1>0 DEF IInv, OnTheWay
<1> HIDE DEF R, N
<1>2. \A i \in 1 .. R : i \in DOMAIN accepted
  BY <1>1
<1> QED
  BY <1>1, <1>2 DEF IInv, AcceptedInOrder, InOrder

(* An item that comes before a received one is received: it was accepted *)
(* before it, and the order of messages is the order of items.           *)
LEMMA ReceivedNoGap ==
  ASSUME IInv, NEW s \in Senders, side = "helper"
  PROVE  NoGap(s, received)
<1> DEFINE R == Len(received)
           N == Len(accepted)
<1>0. /\ DOMAIN received = 1 .. R /\ DOMAIN accepted = 1 .. N
      /\ R \in Nat /\ N \in Nat
  BY LengthTypes DEF IInv, TypeOK
<1>1. /\ R \in Nat /\ N \in Nat /\ R <= N
      /\ DOMAIN received = 1 .. R /\ DOMAIN accepted = 1 .. N
      /\ \A i \in 1 .. R : received[i] = accepted[i]
  BY <1>0 DEF IInv, OnTheWay
<1>2. /\ NoGap(s, accepted) /\ InOrder(s, accepted)
      /\ ItemsEach \in Nat
  BY ConstantsAssumption DEF ConstantsAssumption, IInv, HelperStops, AcceptedInOrder
<1> HIDE DEF R, N
<1> SUFFICES ASSUME NEW n \in 1 .. ItemsEach, HasItem(s, received, n), NEW k \in 1 .. n
             PROVE  HasItem(s, received, k)
  BY DEF NoGap
<1>3. PICK i \in 1 .. R : received[i].from = s /\ n \in ToSet(received[i].items)
  BY <1>1 DEF HasItem
<1>4. i \in 1 .. N /\ accepted[i].from = s /\ n \in ToSet(accepted[i].items)
  BY <1>1, <1>3
<1>5. HasItem(s, accepted, n)
  BY <1>1, <1>4 DEF HasItem
<1>6. PICK j \in 1 .. N : accepted[j].from = s /\ k \in ToSet(accepted[j].items)
  BY <1>1, <1>2, <1>5 DEF NoGap, HasItem
<1>7. j <= i
  <2> SUFFICES ASSUME i < j PROVE FALSE
    BY <1>4, <1>6
  <2>1. PICK a \in DOMAIN accepted[i].items : accepted[i].items[a] = n
    BY <1>4 DEF ToSet
  <2>2. PICK b \in DOMAIN accepted[j].items : accepted[j].items[b] = k
    BY <1>6 DEF ToSet
  <2>3. n < k
    BY <2>1, <2>2, <1>1, <1>2, <1>4, <1>6 DEF InOrder
  <2> QED
    BY <2>3, <1>2
<1>8. j \in 1 .. R /\ received[j] = accepted[j]
  BY <1>1, <1>3, <1>6, <1>7
<1> QED
  BY <1>1, <1>6, <1>8 DEF HasItem

(***************************************************************************)
(* What the client gets of a helper's collection is a beginning of it,     *)
(* with no item missing in between and none twice.                         *)
(***************************************************************************)
THEOREM HelperSendsPrefix == Spec => []ReceivedIsPrefix
<1>1. IInv => ReceivedIsPrefix
  BY ReceivedInOrder, ReceivedNoGap DEF ReceivedIsPrefix
<1> QED
  BY <1>1, ResponseInvariant, PTL

-----------------------------------------------------------------------------
(* The refinement: a response is a stream that StreamDelivery allows.      *)

LEMMA InitDelivery ==
  ASSUME Init
  PROVE  Delivery!Init
<1>1. accepted = <<>> /\ received = <<>> /\ result = "reading"
  BY DEF Init
<1> QED
  BY <1>1 DEF Delivery!Init, Delivered, Phase, SawEnd

(* A step in which nothing is sent and the reader comes to nothing. *)
LEMMA DeliveryStutters ==
  ASSUME UNCHANGED <<accepted, kind, result, received>>
  PROVE  [Delivery!Next]_(Delivery!vars)
BY DEF Delivery!vars, Delivered, Phase, SawEnd

(* Nothing is sent any more when the end has been seen. *)
LEMMA DeliverySends ==
  ASSUME IInv, open, NEW m \in Sendable, Put(m), UNCHANGED <<kind, result, received>>
  PROVE  [Delivery!Next]_(Delivery!vars)
<1>1. /\ accepted \in Seq(Messages \union {Error})
      /\ accepted' = Append(accepted, m) /\ m \in Messages \union {Error}
  BY DEF IInv, TypeOK, Put, Sendable
<1>2. Len(accepted') = Len(accepted) + 1 /\ accepted'[Len(accepted')] = m
  BY <1>1
<1>3. Phase # "ended" /\ Phase' = Phase /\ Delivered' = Delivered
  BY OpenMeansNoEnd DEF Phase, Delivered, SawEnd
<1> QED
  BY <1>1, <1>2, <1>3 DEF Delivery!Next, Delivery!Send

(* A reader that ends without the end, of its own or with an error. *)
LEMMA DeliveryLeaves ==
  ASSUME UNCHANGED <<accepted, kind>>, result' # "reading", ~SawEnd'
  PROVE  [Delivery!Next]_(Delivery!vars)
BY DEF Delivery!Next, Delivery!Leave, Delivered, Phase

(* The next message is the next one that was accepted. *)
LEMMA DeliveryDelivers ==
  ASSUME IInv, Receive
  PROVE  [Delivery!Next]_(Delivery!vars)
<1>1. /\ UNCHANGED <<accepted, kind>> /\ result = "reading" /\ result' = Outcome
      /\ received' = Append(received, Head(flight)) /\ flight # <<>>
      /\ Head(flight) \notin {Error, End, Status}
  BY DEF Receive
<1>2. ~SawEnd /\ ~SawEnd'
  BY <1>1 DEF SawEnd, Outcome
<1>3. CASE result' # "reading"
  BY <1>1, <1>2, <1>3, DeliveryLeaves
<1>4. CASE result' = "reading"
  <2>1. /\ Len(flight) \in Nat /\ 1 <= Len(flight) /\ Head(flight) = flight[1]
        /\ Len(accepted) \in Nat /\ Len(received) \in Nat
    BY <1>1 DEF IInv, TypeOK
  <2>2. /\ Len(received) + 1 <= Len(accepted)
        /\ flight[1] = accepted[Len(received) + 1]
    BY <1>1, <2>1 DEF IInv, OnTheWay
  <2>3. Len(received) < Len(accepted)
    BY <2>1, <2>2
  <2> QED
    BY <1>1, <1>2, <1>4, <2>1, <2>2, <2>3
       DEF Delivery!Next, Delivery!Deliver, Delivered, Phase
<1> QED
  BY <1>3, <1>4

(* The end is seen when everything accepted is received. *)
LEMMA DeliveryEnds ==
  ASSUME IInv, IInv', ReceiveEnd
  PROVE  [Delivery!Next]_(Delivery!vars)
<1>1. /\ UNCHANGED <<accepted, kind, received>> /\ result = "reading"
      /\ result' \in {"ok", "status"}
  BY DEF ReceiveEnd
<1>2. CASE ~SawEnd'
  BY <1>1, <1>2, DeliveryLeaves
<1>3. CASE SawEnd'
  <2>1. received = accepted
    BY <1>1, <1>3 DEF IInv, EndMeansWhole
  <2>2. ~SawEnd
    BY <1>1 DEF SawEnd
  <2> QED
    BY <1>1, <1>3, <2>1, <2>2 DEF Delivery!Next, Delivery!End, Delivered, Phase
<1> QED
  BY <1>2, <1>3

LEMMA StepDelivery ==
  ASSUME IInv, IInv', [Next]_vars
  PROVE  [Delivery!Next]_(Delivery!vars)
<1>0. TypeOK
  BY DEF IInv
<1>1. CASE UNCHANGED vars
  BY <1>1, DeliveryStutters DEF vars, clientVars
<1>2. CASE WriterSend
  <2>1. toWrite \in 1 .. WriterSends
    BY <1>0, <1>2, ConstantsAssumption DEF ConstantsAssumption, TypeOK, WriterSend
  <2>2. Message(Handler, <<toWrite>>) \in Sendable
    BY <2>1 DEF Sendable, Messages
  <2>3. open
    BY <1>2 DEF WriterSend, IInv, HandlerHoldsReceiver
  <2> QED
    BY <1>2, <2>2, <2>3, DeliverySends DEF WriterSend, clientVars
<1>3. ASSUME NEW s \in Senders, Send(s) \/ SendError(s)
      PROVE  [Delivery!Next]_(Delivery!vars)
  <2>1. Message(s, NextChunk(taken[s])) \in Sendable /\ Error \in Sendable
    BY <1>0, ChunkIsMessage DEF TypeOK, Sendable
  <2> QED
    BY <1>3, <2>1, DeliverySends DEF Send, SendError, clientVars
<1>4. CASE Receive
  BY <1>4, DeliveryDelivers
<1>5. CASE ReceiveEnd
  BY <1>5, DeliveryEnds
<1>6. CASE ReadTimeout \/ DropResponse
  BY <1>6, DeliveryLeaves DEF ReadTimeout, DropResponse, SawEnd
<1>7. CASE WriterPanics \/ GetResult \/ Transport
  BY <1>7, DeliveryStutters
     DEF WriterPanics, GetResult, Transport, Pull, PullEnd, Break, Reset, clientVars
<1>8. ASSUME NEW s \in Senders,
             SendFails(s) \/ SendErrorPanics(s) \/ MappingPanics(s) \/ SenderEnds(s)
      PROVE  [Delivery!Next]_(Delivery!vars)
  BY <1>8, DeliveryStutters
     DEF SendFails, SendErrorPanics, MappingPanics, SenderEnds, clientVars
<1>9. CASE WriterSendError
  <2>1. open /\ Error \in Sendable
    BY <1>9 DEF WriterSendError, IInv, HandlerHoldsReceiver, Sendable
  <2> QED
    BY <1>9, <2>1, DeliverySends DEF WriterSendError, clientVars
<1> QED
  BY <1>1, <1>2, <1>3, <1>4, <1>5, <1>6, <1>7, <1>8, <1>9
     DEF Next, HandlerStep, SenderStep, Proceeds, ReaderStep

(***************************************************************************)
(* What a reader gets of a response is a stream that StreamDelivery        *)
(* allows: each message is the next one accepted, the end comes last.      *)
(***************************************************************************)
THEOREM ResponseDelivers == Spec => ImplementsStreamDelivery
<1>1. Init => Delivery!Init
  BY InitDelivery
<1>2. IInv /\ IInv' /\ [Next]_vars => [Delivery!Next]_(Delivery!vars)
  BY StepDelivery
<1> QED
  BY <1>1, <1>2, ResponseInvariant, PTL DEF Spec, ImplementsStreamDelivery, Delivery!Spec

=============================================================================
