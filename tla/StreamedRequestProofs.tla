----------------------- MODULE StreamedRequestProofs -----------------------
(***************************************************************************)
(* Proofs about StreamedRequest, for any number of producers, items,       *)
(* attempts and any channel: its inductive invariant, with it the safety   *)
(* properties of a request whose input is a stream, and that the first     *)
(* attempt implements StreamDelivery.                                      *)
(***************************************************************************)
EXTENDS StreamedRequest, TLAPS, SequenceTheorems, FiniteSetTheorems

(* Every step is one of these. *)
LEMMA NextCases ==
  ASSUME Next
  PROVE  \/ \E p \in Producers : \/ GetProducer(p) \/ CallSend(p) \/ SendBuffers(p)
                                 \/ SendToChannel(p) \/ SendLost(p) \/ SendPanics(p)
                                 \/ SendToVector(p) \/ DropProducer(p)
                                 \/ DropVectorProducer(p) \/ SendEof(p)
         \/ \E k \in Attempts : \/ SendClone(k) \/ CloneEnds(k) \/ BindLock(k)
                                \/ DrainItem(k) \/ DrainFails(k) \/ DrainEnds(k)
                                \/ Bind(k) \/ DropReceiver(k)
                                \/ Receive(k) \/ ReceiveEnd(k)
         \/ StartAttempt \/ ReaderTimeout \/ AttemptFails \/ AttemptSucceeds
BY DEF Next, ProducerStep, BinderStep, Reads

(* StartAttempt starts one of the attempts. *)
LEMMA NextAttempt ==
  ASSUME TypeOK, AttemptsInOrder, StartAttempt
  PROVE  cur + 1 \in Attempts
BY ConstantsAssumption
   DEF ConstantsAssumption, TypeOK, AttemptsInOrder, StartAttempt, Attempts

LEMMA UptoIsSeq ==
  ASSUME NEW n \in Nat
  PROVE  /\ Upto(n) \in Seq(Nat)
         /\ Len(Upto(n)) = n
         /\ \A i \in 1 .. n : Upto(n)[i] = i
BY DEF Upto

(* Sequences of items: two facts of the library, for the one set needed here. *)
LEMMA ConcatOfNats ==
  ASSUME NEW s \in Seq(Nat), NEW t \in Seq(Nat)
  PROVE  /\ s \o t \in Seq(Nat)
         /\ Len(s) \in Nat /\ Len(t) \in Nat /\ Len(s \o t) = Len(s) + Len(t)
         /\ \A i \in 1 .. Len(s) : (s \o t)[i] = s[i]
         /\ \A i \in 1 .. Len(t) : (s \o t)[Len(s) + i] = t[i]
BY ConcatProperties, LenProperties

LEMMA NatsAssociative ==
  ASSUME NEW r \in Seq(Nat), NEW s \in Seq(Nat), NEW t \in Seq(Nat)
  PROVE  (r \o s) \o t = r \o (s \o t)
BY ConcatAssociative, SMTT(30)

(* A send that returns had something left to send. *)
LEMMA SendReturnsType ==
  ASSUME TypeOK, ProducersCount, NEW p \in Producers,
         Holds(p), producer[p] = "send", SendReturns(p)
  PROVE  /\ queue' \in Seq(Producers \union Attempts)
         /\ sends' \in Nat
         /\ todo' \in [Producers -> 0 .. SendsEach]
         /\ producer' \in [Producers -> {"none", "idle", "send", "eof", "gone"}]
BY ConstantsAssumption
   DEF ConstantsAssumption, TypeOK, ProducersCount, Holds, SendReturns, Unlock

LEMMA TypeStep ==
  ASSUME TypeOK, AttemptsInOrder, ProducersCount, ModeIsKept, [Next]_vars
  PROVE  TypeOK'
<1> USE ConstantsAssumption DEF ConstantsAssumption, innerVars, attemptVars
<1>0. CASE UNCHANGED vars
  BY <1>0 DEF vars, TypeOK
<1>1. ASSUME NEW p \in Producers, GetProducer(p) PROVE TypeOK'
  BY <1>1 DEF GetProducer, TypeOK
<1>2. ASSUME NEW p \in Producers, CallSend(p) PROVE TypeOK'
  BY <1>2 DEF CallSend, Lock, TypeOK
<1>3. ASSUME NEW p \in Producers, SendBuffers(p) PROVE TypeOK'
  BY <1>3, SendReturnsType DEF SendBuffers, TypeOK
<1>4. ASSUME NEW p \in Producers, SendToChannel(p) PROVE TypeOK'
  <2>1. /\ channel' \in [Attempts -> Seq(Nat)]
        /\ \A k \in Attempts : Len(channel'[k]) <= ChannelSize
    BY <1>4 DEF SendToChannel, HasRoom, TypeOK
  <2> QED
    BY <1>4, <2>1, SendReturnsType DEF SendToChannel, TypeOK
<1>5. ASSUME NEW p \in Producers, SendLost(p) PROVE TypeOK'
  BY <1>5, SendReturnsType DEF SendLost, TypeOK
<1>6. ASSUME NEW p \in Producers, SendPanics(p) PROVE TypeOK'
  BY <1>6 DEF SendPanics, Holds, Unlock, TypeOK
<1>7. ASSUME NEW p \in Producers, SendToVector(p) PROVE TypeOK'
  BY <1>7 DEF SendToVector, TypeOK
<1>8. ASSUME NEW p \in Producers, DropProducer(p) PROVE TypeOK'
  BY <1>8 DEF DropProducer, Lock, TypeOK
<1>9. ASSUME NEW p \in Producers, DropVectorProducer(p) PROVE TypeOK'
  BY <1>9 DEF DropVectorProducer, TypeOK
<1>10. ASSUME NEW p \in Producers, SendEof(p) PROVE TypeOK'
  <2>1. eos' \in BOOLEAN
    BY <1>10 DEF SendEof, TypeOK
  <2>2. sender' \in Attempts \union {NoSender}
    BY <1>10 DEF SendEof, TypeOK
  <2> QED
    BY <1>10, <2>1, <2>2 DEF SendEof, Holds, Unlock, TypeOK
<1>11. ASSUME NEW k \in Attempts, SendClone(k) PROVE TypeOK'
  <2>1. /\ channel' \in [Attempts -> Seq(Nat)]
        /\ \A j \in Attempts : Len(channel'[j]) <= ChannelSize
    <3>1. Len(Taken(k)) + 1 \in 1 .. Len(items)
      BY <1>11, ConcatOfNats DEF SendClone, Taken, TypeOK
    <3>2. items[Len(Taken(k)) + 1] \in Nat
      BY <3>1, ElementOfSeq DEF TypeOK
    <3> QED
      BY <1>11, <3>2 DEF SendClone, HasRoom, TypeOK
  <2> QED
    BY <1>11, <2>1 DEF SendClone, TypeOK
<1>12. ASSUME NEW k \in Attempts, CloneEnds(k) PROVE TypeOK'
  BY <1>12 DEF CloneEnds, TypeOK
<1>13. ASSUME NEW k \in Attempts, BindLock(k) PROVE TypeOK'
  BY <1>13 DEF BindLock, Lock, TypeOK
<1>14. ASSUME NEW k \in Attempts, DrainItem(k) PROVE TypeOK'
  BY <1>14, SMTT(30) DEF DrainItem, HasRoom, TypeOK
<1>15. ASSUME NEW k \in Attempts, DrainFails(k) PROVE TypeOK'
  BY <1>15 DEF DrainFails, Holds, BindReturns, Unlock, TypeOK
<1>16. ASSUME NEW k \in Attempts, DrainEnds(k) PROVE TypeOK'
  BY <1>16 DEF DrainEnds, Holds, BindReturns, Unlock, TypeOK
<1>17. ASSUME NEW k \in Attempts, Bind(k) PROVE TypeOK'
  BY <1>17 DEF Bind, Holds, BindReturns, Unlock, TypeOK
<1>18. ASSUME NEW k \in Attempts, DropReceiver(k) PROVE TypeOK'
  BY <1>18 DEF DropReceiver, TypeOK
<1>19. ASSUME NEW k \in Attempts, Receive(k) PROVE TypeOK'
  <2>1. /\ received' \in [Attempts -> Seq(Nat)] /\ channel' \in [Attempts -> Seq(Nat)]
        /\ \A j \in Attempts : Len(channel'[j]) <= ChannelSize
    BY <1>19 DEF Receive, TypeOK
  <2> QED
    BY <1>19, <2>1 DEF Receive, TypeOK
<1>20. ASSUME NEW k \in Attempts, ReceiveEnd(k) PROVE TypeOK'
  BY <1>20 DEF ReceiveEnd, TypeOK
<1>21. CASE StartAttempt
  <2>1. cur + 1 \in Attempts /\ cur + 1 \in 0 .. MaxAttempts
    BY <1>21, NextAttempt DEF Attempts
  <2> QED
    BY <1>21, <2>1 DEF StartAttempt, TypeOK
<1>22. CASE ReaderTimeout
  BY <1>22 DEF ReaderTimeout, TypeOK
<1>23. CASE AttemptFails
  BY <1>23 DEF AttemptFails, TypeOK
<1>24. CASE AttemptSucceeds
  BY <1>24 DEF AttemptSucceeds, TypeOK
<1> QED
  BY <1>0, <1>1, <1>2, <1>3, <1>4, <1>5, <1>6, <1>7, <1>8, <1>9, <1>10, <1>11, <1>12,
     <1>13, <1>14, <1>15, <1>16, <1>17, <1>18, <1>19, <1>20, <1>21, <1>22, <1>23, <1>24,
     NextCases

(* Who asks for the mutex was not in the queue, and comes last. *)
LEMMA LockKeeps ==
  ASSUME TypeOK, QueueDiscipline, NEW t \in Producers \union Attempts, Lock(t),
         t \in Producers => producer[t] = "idle" /\ producer'[t] \in {"send", "eof"},
         t \in Attempts  => binder[t] = "spawned" /\ binder'[t] = "binding",
         \A p \in Producers \ {t} : producer'[p] = producer[p],
         \A k \in Attempts \ {t} : binder'[k] = binder[k]
  PROVE  QueueDiscipline'
<1>1. /\ Len(queue) \in Nat /\ Len(queue') = Len(queue) + 1
      /\ \A i \in 1 .. Len(queue) : queue'[i] = queue[i]
      /\ queue'[Len(queue) + 1] = t
  BY DEF TypeOK, Lock
<1>2. \A i \in 1 .. Len(queue) : queue[i] \in Producers \union Attempts
  BY ElementOfSeq DEF TypeOK
<1>3. \A i \in 1 .. Len(queue) : queue[i] # t
  BY <1>2 DEF QueueDiscipline
<1> QED
  BY <1>1, <1>2, <1>3 DEF QueueDiscipline

(* Who lets go of the mutex is not in the queue any more; the others are. *)
LEMMA UnlockKeeps ==
  ASSUME TypeOK, QueueDiscipline, NEW t, Holds(t), Unlock,
         \A p \in Producers \ {t} : producer'[p] = producer[p],
         \A k \in Attempts \ {t} : binder'[k] = binder[k]
  PROVE  QueueDiscipline'
<1>1. /\ queue \in Seq(Producers \union Attempts)
      /\ queue # <<>> /\ queue[1] = t /\ queue' = Tail(queue)
  BY DEF TypeOK, Holds, Unlock
<1>2. /\ Len(queue) \in Nat \ {0} /\ Len(queue') = Len(queue) - 1
      /\ \A i \in 1 .. Len(queue') : queue'[i] = queue[i + 1]
  BY <1>1, HeadTailProperties, EmptySeq
<1>3. \A i \in 1 .. Len(queue') : queue[i + 1] # t /\ i + 1 \in 1 .. Len(queue)
  BY <1>1, <1>2 DEF QueueDiscipline
<1>4. \A i \in 1 .. Len(queue) : queue[i] \in Producers \union Attempts
  BY <1>1, ElementOfSeq
<1> QED
  BY <1>2, <1>3, <1>4 DEF QueueDiscipline

(* The queue stays one of waiting tasks. *)
LEMMA QueueStep ==
  ASSUME TypeOK, QueueDiscipline, AttemptsInOrder, [Next]_vars
  PROVE  QueueDiscipline'
<1> USE ConstantsAssumption DEF ConstantsAssumption, innerVars, attemptVars
<1>0. CASE UNCHANGED vars
  BY <1>0 DEF vars, innerVars, attemptVars, QueueDiscipline, TypeOK
<1>1. ASSUME NEW p \in Producers, GetProducer(p) PROVE QueueDiscipline'
  BY <1>1 DEF GetProducer, QueueDiscipline, TypeOK
<1>2. ASSUME NEW p \in Producers, CallSend(p) PROVE QueueDiscipline'
  BY <1>2, LockKeeps DEF CallSend, TypeOK
<1>3. ASSUME NEW p \in Producers, SendBuffers(p) PROVE QueueDiscipline'
  BY <1>3, UnlockKeeps DEF SendBuffers, SendReturns, TypeOK
<1>4. ASSUME NEW p \in Producers, SendToChannel(p) PROVE QueueDiscipline'
  BY <1>4, UnlockKeeps DEF SendToChannel, SendReturns, TypeOK
<1>5. ASSUME NEW p \in Producers, SendLost(p) PROVE QueueDiscipline'
  BY <1>5, UnlockKeeps DEF SendLost, SendReturns, TypeOK
<1>6. ASSUME NEW p \in Producers, SendPanics(p) PROVE QueueDiscipline'
  BY <1>6, UnlockKeeps DEF SendPanics, TypeOK
<1>7. ASSUME NEW p \in Producers, SendToVector(p) PROVE QueueDiscipline'
  BY <1>7 DEF SendToVector, QueueDiscipline, TypeOK
<1>8. ASSUME NEW p \in Producers, DropProducer(p) PROVE QueueDiscipline'
  BY <1>8, LockKeeps DEF DropProducer, TypeOK
<1>9. ASSUME NEW p \in Producers, DropVectorProducer(p) PROVE QueueDiscipline'
  BY <1>9 DEF DropVectorProducer, QueueDiscipline, TypeOK
<1>10. ASSUME NEW p \in Producers, SendEof(p) PROVE QueueDiscipline'
  BY <1>10, UnlockKeeps DEF SendEof, TypeOK
<1>11. ASSUME NEW k \in Attempts, SendClone(k) PROVE QueueDiscipline'
  BY <1>11 DEF SendClone, QueueDiscipline, TypeOK
<1>12. ASSUME NEW k \in Attempts, CloneEnds(k) PROVE QueueDiscipline'
  BY <1>12 DEF CloneEnds, QueueDiscipline, TypeOK
<1>13. ASSUME NEW k \in Attempts, BindLock(k) PROVE QueueDiscipline'
  BY <1>13, LockKeeps DEF BindLock, TypeOK
<1>14. ASSUME NEW k \in Attempts, DrainItem(k) PROVE QueueDiscipline'
  BY <1>14 DEF DrainItem, QueueDiscipline, TypeOK
<1>15. ASSUME NEW k \in Attempts, DrainFails(k) PROVE QueueDiscipline'
  BY <1>15, UnlockKeeps DEF DrainFails, BindReturns, TypeOK
<1>16. ASSUME NEW k \in Attempts, DrainEnds(k) PROVE QueueDiscipline'
  BY <1>16, UnlockKeeps DEF DrainEnds, BindReturns, TypeOK
<1>17. ASSUME NEW k \in Attempts, Bind(k) PROVE QueueDiscipline'
  BY <1>17, UnlockKeeps DEF Bind, BindReturns, TypeOK
<1>18. ASSUME NEW k \in Attempts, DropReceiver(k) PROVE QueueDiscipline'
  BY <1>18 DEF DropReceiver, QueueDiscipline, TypeOK
<1>19. ASSUME NEW k \in Attempts, Receive(k) PROVE QueueDiscipline'
  BY <1>19 DEF Receive, QueueDiscipline, TypeOK
<1>20. ASSUME NEW k \in Attempts, ReceiveEnd(k) PROVE QueueDiscipline'
  BY <1>20 DEF ReceiveEnd, QueueDiscipline, TypeOK
<1>21. CASE StartAttempt
  <2>1. cur + 1 \in Attempts /\ binder[cur + 1] = "none"
    BY <1>21, NextAttempt DEF AttemptsInOrder, TypeOK
  <2>2. UNCHANGED <<queue, producer>> /\ binder' = [binder EXCEPT ![cur + 1] = "spawned"]
    BY <1>21 DEF StartAttempt
  <2> QED
    BY <2>1, <2>2 DEF QueueDiscipline, TypeOK
<1>22. CASE ReaderTimeout
  BY <1>22 DEF ReaderTimeout, QueueDiscipline, TypeOK
<1>23. CASE AttemptFails
  BY <1>23 DEF AttemptFails, QueueDiscipline, TypeOK
<1>24. CASE AttemptSucceeds
  BY <1>24 DEF AttemptSucceeds, QueueDiscipline, TypeOK
<1> QED
  BY <1>0, <1>1, <1>2, <1>3, <1>4, <1>5, <1>6, <1>7, <1>8, <1>9, <1>10, <1>11, <1>12,
     <1>13, <1>14, <1>15, <1>16, <1>17, <1>18, <1>19, <1>20, <1>21, <1>22, <1>23, <1>24,
        NextCases

(* The head of the queue is a binder that binds, or a producer that waited. *)
LEMMA Holder ==
  ASSUME TypeOK, QueueDiscipline
  PROVE  /\ \A k \in Attempts : Holds(k) => binder[k] = "binding"
         /\ \A p \in Producers : Holds(p) => producer[p] \in {"send", "eof"}
BY DEF TypeOK, QueueDiscipline, Holds

(* The binder that holds the mutex is one of an attempt that has started. *)
LEMMA HolderStarted ==
  ASSUME TypeOK, QueueDiscipline, AttemptsInOrder, NEW k \in Attempts, Holds(k)
  PROVE  binder[k] = "binding" /\ ~(k > cur)
BY Holder DEF AttemptsInOrder

(* Who sends has the stream. *)
LEMMA SenderOwns ==
  ASSUME NEW p \in Producers, producer[p] \notin {"none", "gone"}
  PROVE  Owned
BY DEF Owned

(* A stream that nobody has any more comes to nobody again. *)
LEMMA OwnerlessForGood ==
  ASSUME TypeOK, AttemptsInOrder, QueueDiscipline, ~Owned, [Next]_vars
  PROVE  ~Owned'
<1>a. /\ outcome \in {"ok", "failed"} /\ cur # 0
      /\ \A p \in Producers : producer[p] \in {"none", "gone"}
      /\ \A k \in Attempts : binder[k] \notin {"spawned", "binding"}
  BY DEF Owned, AttemptsInOrder
<1>b. \A p \in Producers : ~Holds(p)
  BY <1>a, Holder
<1>c. \A k \in Attempts : ~Holds(k)
  BY <1>a, Holder
<1> USE DEF innerVars, attemptVars, Owned
<1>0. CASE UNCHANGED vars
  BY <1>0, <1>a DEF vars
<1>1. ASSUME NEW p \in Producers, GetProducer(p) PROVE ~Owned'
  BY <1>1, <1>a DEF GetProducer
<1>2. ASSUME NEW p \in Producers, CallSend(p) PROVE ~Owned'
  BY <1>2, <1>a DEF CallSend
<1>3. ASSUME NEW p \in Producers, SendBuffers(p) PROVE ~Owned'
  BY <1>3, <1>b DEF SendBuffers
<1>4. ASSUME NEW p \in Producers, SendToChannel(p) PROVE ~Owned'
  BY <1>4, <1>b DEF SendToChannel
<1>5. ASSUME NEW p \in Producers, SendLost(p) PROVE ~Owned'
  BY <1>5, <1>b DEF SendLost
<1>6. ASSUME NEW p \in Producers, SendPanics(p) PROVE ~Owned'
  BY <1>6, <1>b DEF SendPanics
<1>7. ASSUME NEW p \in Producers, SendToVector(p) PROVE ~Owned'
  BY <1>7, <1>a DEF SendToVector
<1>8. ASSUME NEW p \in Producers, DropProducer(p) PROVE ~Owned'
  BY <1>8, <1>a DEF DropProducer
<1>9. ASSUME NEW p \in Producers, DropVectorProducer(p) PROVE ~Owned'
  BY <1>9, <1>a DEF DropVectorProducer
<1>10. ASSUME NEW p \in Producers, SendEof(p) PROVE ~Owned'
  BY <1>10, <1>b DEF SendEof
<1>11. ASSUME NEW k \in Attempts, SendClone(k) PROVE ~Owned'
  BY <1>11, <1>a DEF SendClone
<1>12. ASSUME NEW k \in Attempts, CloneEnds(k) PROVE ~Owned'
  BY <1>12, <1>a DEF CloneEnds
<1>13. ASSUME NEW k \in Attempts, BindLock(k) PROVE ~Owned'
  BY <1>13, <1>a DEF BindLock
<1>14. ASSUME NEW k \in Attempts, DrainItem(k) PROVE ~Owned'
  BY <1>14, <1>c DEF DrainItem
<1>15. ASSUME NEW k \in Attempts, DrainFails(k) PROVE ~Owned'
  BY <1>15, <1>c DEF DrainFails
<1>16. ASSUME NEW k \in Attempts, DrainEnds(k) PROVE ~Owned'
  BY <1>16, <1>c DEF DrainEnds
<1>17. ASSUME NEW k \in Attempts, Bind(k) PROVE ~Owned'
  BY <1>17, <1>c DEF Bind
<1>18. ASSUME NEW k \in Attempts, DropReceiver(k) PROVE ~Owned'
  BY <1>18, <1>a DEF DropReceiver
<1>19. ASSUME NEW k \in Attempts, Receive(k) PROVE ~Owned'
  BY <1>19, <1>a DEF Receive
<1>20. ASSUME NEW k \in Attempts, ReceiveEnd(k) PROVE ~Owned'
  BY <1>20, <1>a DEF ReceiveEnd
<1>21. CASE StartAttempt
  BY <1>21, <1>a DEF StartAttempt
<1>22. CASE ReaderTimeout
  BY <1>22, <1>a DEF ReaderTimeout
<1>23. CASE AttemptFails
  BY <1>23, <1>a DEF AttemptFails
<1>24. CASE AttemptSucceeds
  BY <1>24, <1>a DEF AttemptSucceeds
<1> QED
  BY <1>0, <1>1, <1>2, <1>3, <1>4, <1>5, <1>6, <1>7, <1>8, <1>9, <1>10, <1>11, <1>12,
     <1>13, <1>14, <1>15, <1>16, <1>17, <1>18, <1>19, <1>20, <1>21, <1>22, <1>23, <1>24,
     NextCases

(* Nothing of an attempt is there before it starts. *)
LEMMA AttemptsStep ==
  ASSUME TypeOK, AttemptsInOrder, ModeIsKept, QueueDiscipline, [Next]_vars
  PROVE  AttemptsInOrder'
<1> USE ConstantsAssumption DEF ConstantsAssumption, innerVars, attemptVars
<1>0. CASE UNCHANGED vars
  BY <1>0 DEF vars, innerVars, attemptVars, AttemptsInOrder, TypeOK
<1>1. ASSUME NEW p \in Producers, GetProducer(p) PROVE AttemptsInOrder'
  BY <1>1 DEF GetProducer, AttemptsInOrder, TypeOK
<1>2. ASSUME NEW p \in Producers, CallSend(p) PROVE AttemptsInOrder'
  BY <1>2 DEF CallSend, AttemptsInOrder, TypeOK
<1>3. ASSUME NEW p \in Producers, SendBuffers(p) PROVE AttemptsInOrder'
  BY <1>3 DEF SendBuffers, SendReturns, AttemptsInOrder, TypeOK
<1>4. ASSUME NEW p \in Producers, SendToChannel(p) PROVE AttemptsInOrder'
  BY <1>4 DEF SendToChannel, SendReturns, AttemptsInOrder, TypeOK
<1>5. ASSUME NEW p \in Producers, SendLost(p) PROVE AttemptsInOrder'
  BY <1>5 DEF SendLost, SendReturns, AttemptsInOrder, TypeOK
<1>6. ASSUME NEW p \in Producers, SendPanics(p) PROVE AttemptsInOrder'
  BY <1>6 DEF SendPanics, AttemptsInOrder, TypeOK
<1>7. ASSUME NEW p \in Producers, SendToVector(p) PROVE AttemptsInOrder'
  BY <1>7 DEF SendToVector, AttemptsInOrder, TypeOK
<1>8. ASSUME NEW p \in Producers, DropProducer(p) PROVE AttemptsInOrder'
  BY <1>8 DEF DropProducer, AttemptsInOrder, TypeOK
<1>9. ASSUME NEW p \in Producers, DropVectorProducer(p) PROVE AttemptsInOrder'
  BY <1>9 DEF DropVectorProducer, AttemptsInOrder, TypeOK
<1>10. ASSUME NEW p \in Producers, SendEof(p) PROVE AttemptsInOrder'
  BY <1>10 DEF SendEof, AttemptsInOrder, TypeOK
<1>11. ASSUME NEW k \in Attempts, SendClone(k) PROVE AttemptsInOrder'
  BY <1>11 DEF SendClone, AttemptsInOrder, TypeOK
<1>12. ASSUME NEW k \in Attempts, CloneEnds(k) PROVE AttemptsInOrder'
  BY <1>12 DEF CloneEnds, AttemptsInOrder, TypeOK
<1>13. ASSUME NEW k \in Attempts, BindLock(k) PROVE AttemptsInOrder'
  BY <1>13 DEF BindLock, AttemptsInOrder, TypeOK
<1>14. ASSUME NEW k \in Attempts, DrainItem(k) PROVE AttemptsInOrder'
  <2>1. binder[k] = "binding" /\ ~(k > cur)
    BY <1>14, HolderStarted DEF DrainItem
  <2> QED
    BY <1>14, <2>1 DEF DrainItem, BindReturns, AttemptsInOrder, TypeOK
<1>15. ASSUME NEW k \in Attempts, DrainFails(k) PROVE AttemptsInOrder'
  <2>1. binder[k] = "binding" /\ ~(k > cur)
    BY <1>15, HolderStarted DEF DrainFails
  <2> QED
    BY <1>15, <2>1 DEF DrainFails, BindReturns, AttemptsInOrder, TypeOK
<1>16. ASSUME NEW k \in Attempts, DrainEnds(k) PROVE AttemptsInOrder'
  <2>1. binder[k] = "binding" /\ ~(k > cur)
    BY <1>16, HolderStarted DEF DrainEnds
  <2> QED
    BY <1>16, <2>1 DEF DrainEnds, BindReturns, AttemptsInOrder, TypeOK
<1>17. ASSUME NEW k \in Attempts, Bind(k) PROVE AttemptsInOrder'
  <2>1. binder[k] = "binding" /\ ~(k > cur)
    BY <1>17, HolderStarted DEF Bind
  <2> QED
    BY <1>17, <2>1 DEF Bind, BindReturns, AttemptsInOrder, TypeOK
<1>18. ASSUME NEW k \in Attempts, DropReceiver(k) PROVE AttemptsInOrder'
  BY <1>18 DEF DropReceiver, AttemptsInOrder, TypeOK
<1>19. ASSUME NEW k \in Attempts, Receive(k) PROVE AttemptsInOrder'
  BY <1>19 DEF Receive, AttemptsInOrder, TypeOK
<1>20. ASSUME NEW k \in Attempts, ReceiveEnd(k) PROVE AttemptsInOrder'
  BY <1>20 DEF ReceiveEnd, AttemptsInOrder, TypeOK
<1>21. CASE StartAttempt
  <2>1. cur + 1 \in Attempts /\ cur' = cur + 1 /\ cur \in Nat
    BY <1>21, NextAttempt DEF StartAttempt, TypeOK
  <2>2. \A k \in Attempts : k > cur' => k > cur /\ k # cur + 1
    BY <2>1 DEF Attempts
  <2>3. \A k \in Attempts : k <= cur' => k = cur + 1 \/ k <= cur
    BY <2>1 DEF Attempts
  <2>4. (outcome' = "none" <=> cur' = 0) /\ outcome' # "retry"
    BY <1>21, <2>1 DEF StartAttempt
  <2> QED
    BY <1>21, <2>1, <2>2, <2>3, <2>4 DEF StartAttempt, AttemptsInOrder, TypeOK
<1>22. CASE ReaderTimeout
  BY <1>22 DEF ReaderTimeout, AttemptsInOrder, TypeOK
<1>23. CASE AttemptFails
  BY <1>23 DEF AttemptFails, AttemptsInOrder, TypeOK
<1>24. CASE AttemptSucceeds
  BY <1>24 DEF AttemptSucceeds, AttemptsInOrder, TypeOK
<1> QED
  BY <1>0, <1>1, <1>2, <1>3, <1>4, <1>5, <1>6, <1>7, <1>8, <1>9, <1>10, <1>11, <1>12,
     <1>13, <1>14, <1>15, <1>16, <1>17, <1>18, <1>19, <1>20, <1>21, <1>22, <1>23, <1>24,
        NextCases

(* Nothing is in a channel without a Receiver, or after an end. *)
LEMMA EndsStep ==
  ASSUME TypeOK, AttemptsInOrder, EndsAreLast, ModeIsKept, QueueDiscipline, [Next]_vars
  PROVE  EndsAreLast'
<1>a. ~Owned => ~Owned'
  BY OwnerlessForGood
<1> USE ConstantsAssumption DEF ConstantsAssumption, innerVars, attemptVars, HasSender
<1>0. CASE UNCHANGED vars
  BY <1>0, <1>a DEF vars, innerVars, attemptVars, EndsAreLast, TypeOK
<1>1. ASSUME NEW p \in Producers, GetProducer(p) PROVE EndsAreLast'
  BY <1>1, <1>a DEF GetProducer, EndsAreLast, TypeOK
<1>2. ASSUME NEW p \in Producers, CallSend(p) PROVE EndsAreLast'
  BY <1>2, <1>a DEF CallSend, EndsAreLast, TypeOK
<1>3. ASSUME NEW p \in Producers, SendBuffers(p) PROVE EndsAreLast'
  BY <1>3, <1>a DEF SendBuffers, SendReturns, EndsAreLast, TypeOK
<1>4. ASSUME NEW p \in Producers, SendToChannel(p) PROVE EndsAreLast'
  BY <1>4, <1>a, SenderOwns DEF SendToChannel, SendReturns, EndsAreLast, TypeOK
<1>5. ASSUME NEW p \in Producers, SendLost(p) PROVE EndsAreLast'
  BY <1>5, <1>a DEF SendLost, SendReturns, EndsAreLast, TypeOK
<1>6. ASSUME NEW p \in Producers, SendPanics(p) PROVE EndsAreLast'
  BY <1>6, <1>a DEF SendPanics, EndsAreLast, TypeOK
<1>7. ASSUME NEW p \in Producers, SendToVector(p) PROVE EndsAreLast'
  BY <1>7, <1>a DEF SendToVector, EndsAreLast, TypeOK
<1>8. ASSUME NEW p \in Producers, DropProducer(p) PROVE EndsAreLast'
  BY <1>8, <1>a DEF DropProducer, EndsAreLast, TypeOK
<1>9. ASSUME NEW p \in Producers, DropVectorProducer(p) PROVE EndsAreLast'
  BY <1>9, <1>a DEF DropVectorProducer, EndsAreLast, TypeOK
<1>10. ASSUME NEW p \in Producers, SendEof(p) PROVE EndsAreLast'
  BY <1>10, <1>a DEF SendEof, EndsAreLast, TypeOK
<1>11. ASSUME NEW k \in Attempts, SendClone(k) PROVE EndsAreLast'
  BY <1>11, <1>a DEF SendClone, EndsAreLast, TypeOK
<1>12. ASSUME NEW k \in Attempts, CloneEnds(k) PROVE EndsAreLast'
  BY <1>12, <1>a DEF CloneEnds, EndsAreLast, TypeOK
<1>13. ASSUME NEW k \in Attempts, BindLock(k) PROVE EndsAreLast'
  BY <1>13, <1>a DEF BindLock, EndsAreLast, TypeOK
<1>14. ASSUME NEW k \in Attempts, DrainItem(k) PROVE EndsAreLast'
  <2>1. binder[k] = "binding"
    BY <1>14, Holder DEF DrainItem
  <2> QED
    BY <1>14, <2>1, <1>a DEF DrainItem, BindReturns, EndsAreLast, TypeOK
<1>15. ASSUME NEW k \in Attempts, DrainFails(k) PROVE EndsAreLast'
  BY <1>15, <1>a DEF DrainFails, BindReturns, EndsAreLast, TypeOK
<1>16. ASSUME NEW k \in Attempts, DrainEnds(k) PROVE EndsAreLast'
  BY <1>16, <1>a DEF DrainEnds, BindReturns, EndsAreLast, TypeOK
<1>17. ASSUME NEW k \in Attempts, Bind(k) PROVE EndsAreLast'
  <2>1. binder[k] = "binding"
    BY <1>17, Holder DEF Bind
  <2> QED
    BY <1>17, <2>1, <1>a DEF Bind, BindReturns, EndsAreLast, TypeOK
<1>18. ASSUME NEW k \in Attempts, DropReceiver(k) PROVE EndsAreLast'
  BY <1>18, <1>a DEF DropReceiver, EndsAreLast, TypeOK
<1>19. ASSUME NEW k \in Attempts, Receive(k) PROVE EndsAreLast'
  BY <1>19, <1>a DEF Receive, EndsAreLast, TypeOK
<1>20. ASSUME NEW k \in Attempts, ReceiveEnd(k) PROVE EndsAreLast'
  BY <1>20, <1>a DEF ReceiveEnd, EndsAreLast, TypeOK
<1>21. CASE StartAttempt
  <2>1. cur + 1 \in Attempts /\ cur + 1 > cur /\ cur + 1 \notin ended
    BY <1>21, NextAttempt DEF AttemptsInOrder, TypeOK
  <2> QED
    BY <1>21, <2>1, <1>a DEF StartAttempt, EndsAreLast, TypeOK
<1>22. CASE ReaderTimeout
  BY <1>22, <1>a DEF ReaderTimeout, EndsAreLast, TypeOK
<1>23. CASE AttemptFails
  BY <1>23, <1>a DEF AttemptFails, EndsAreLast, TypeOK
<1>24. CASE AttemptSucceeds
  BY <1>24, <1>a DEF AttemptSucceeds, EndsAreLast, TypeOK
<1> QED
  BY <1>0, <1>1, <1>2, <1>3, <1>4, <1>5, <1>6, <1>7, <1>8, <1>9, <1>10, <1>11, <1>12,
     <1>13, <1>14, <1>15, <1>16, <1>17, <1>18, <1>19, <1>20, <1>21, <1>22, <1>23, <1>24,
        NextCases

(* The modes keep apart. *)
LEMMA ModeStep ==
  ASSUME TypeOK, AttemptsInOrder, ModeIsKept, QueueDiscipline, [Next]_vars
  PROVE  ModeIsKept'
<1> USE ConstantsAssumption DEF ConstantsAssumption, innerVars, attemptVars
<1>0. CASE UNCHANGED vars
  BY <1>0 DEF vars, innerVars, attemptVars, ModeIsKept, TypeOK
<1>1. ASSUME NEW p \in Producers, GetProducer(p) PROVE ModeIsKept'
  BY <1>1 DEF GetProducer, ModeIsKept, TypeOK
<1>2. ASSUME NEW p \in Producers, CallSend(p) PROVE ModeIsKept'
  BY <1>2 DEF CallSend, ModeIsKept, TypeOK
<1>3. ASSUME NEW p \in Producers, SendBuffers(p) PROVE ModeIsKept'
  BY <1>3 DEF SendBuffers, SendReturns, ModeIsKept, TypeOK
<1>4. ASSUME NEW p \in Producers, SendToChannel(p) PROVE ModeIsKept'
  BY <1>4 DEF SendToChannel, SendReturns, ModeIsKept, TypeOK
<1>5. ASSUME NEW p \in Producers, SendLost(p) PROVE ModeIsKept'
  BY <1>5 DEF SendLost, SendReturns, ModeIsKept, TypeOK
<1>6. ASSUME NEW p \in Producers, SendPanics(p) PROVE ModeIsKept'
  BY <1>6 DEF SendPanics, ModeIsKept, TypeOK
<1>7. ASSUME NEW p \in Producers, SendToVector(p) PROVE ModeIsKept'
  BY <1>7 DEF SendToVector, ModeIsKept, TypeOK
<1>8. ASSUME NEW p \in Producers, DropProducer(p) PROVE ModeIsKept'
  BY <1>8 DEF DropProducer, ModeIsKept, TypeOK
<1>9. ASSUME NEW p \in Producers, DropVectorProducer(p) PROVE ModeIsKept'
  BY <1>9 DEF DropVectorProducer, ModeIsKept, TypeOK
<1>10. ASSUME NEW p \in Producers, SendEof(p) PROVE ModeIsKept'
  BY <1>10 DEF SendEof, ModeIsKept, TypeOK
<1>11. ASSUME NEW k \in Attempts, SendClone(k) PROVE ModeIsKept'
  BY <1>11 DEF SendClone, ModeIsKept, TypeOK
<1>12. ASSUME NEW k \in Attempts, CloneEnds(k) PROVE ModeIsKept'
  BY <1>12 DEF CloneEnds, ModeIsKept, TypeOK
<1>13. ASSUME NEW k \in Attempts, BindLock(k) PROVE ModeIsKept'
  BY <1>13 DEF BindLock, ModeIsKept, TypeOK
<1>14. ASSUME NEW k \in Attempts, DrainItem(k) PROVE ModeIsKept'
  BY <1>14 DEF DrainItem, ModeIsKept, TypeOK
<1>15. ASSUME NEW k \in Attempts, DrainFails(k) PROVE ModeIsKept'
  BY <1>15 DEF DrainFails, BindReturns, ModeIsKept, TypeOK
<1>16. ASSUME NEW k \in Attempts, DrainEnds(k) PROVE ModeIsKept'
  BY <1>16 DEF DrainEnds, BindReturns, ModeIsKept, TypeOK
<1>17. ASSUME NEW k \in Attempts, Bind(k) PROVE ModeIsKept'
  BY <1>17 DEF Bind, BindReturns, ModeIsKept, TypeOK
<1>18. ASSUME NEW k \in Attempts, DropReceiver(k) PROVE ModeIsKept'
  BY <1>18 DEF DropReceiver, ModeIsKept, TypeOK
<1>19. ASSUME NEW k \in Attempts, Receive(k) PROVE ModeIsKept'
  BY <1>19 DEF Receive, ModeIsKept, TypeOK
<1>20. ASSUME NEW k \in Attempts, ReceiveEnd(k) PROVE ModeIsKept'
  BY <1>20 DEF ReceiveEnd, ModeIsKept, TypeOK
<1>21. CASE StartAttempt
  <2>1. cur + 1 \in Attempts /\ cur + 1 > cur /\ sender # cur + 1
    BY <1>21, NextAttempt DEF AttemptsInOrder, TypeOK
  <2> QED
    BY <1>21, <2>1 DEF StartAttempt, ModeIsKept, TypeOK
<1>22. CASE ReaderTimeout
  BY <1>22 DEF ReaderTimeout, ModeIsKept, TypeOK
<1>23. CASE AttemptFails
  BY <1>23 DEF AttemptFails, ModeIsKept, TypeOK
<1>24. CASE AttemptSucceeds
  BY <1>24 DEF AttemptSucceeds, ModeIsKept, TypeOK
<1> QED
  BY <1>0, <1>1, <1>2, <1>3, <1>4, <1>5, <1>6, <1>7, <1>8, <1>9, <1>10, <1>11, <1>12,
     <1>13, <1>14, <1>15, <1>16, <1>17, <1>18, <1>19, <1>20, <1>21, <1>22, <1>23, <1>24,
        NextCases

(* A send moves one item from those left to those sent. *)
LEMMA SendCounts ==
  ASSUME TypeOK, ProducersCount, NEW p \in Producers,
         producer[p] = "send", SendReturns(p), UNCHANGED <<mode, eos, sender, panicked>>
  PROVE  ProducersCount'
<1>1. /\ sends' = sends + 1 /\ sends \in Nat
      /\ todo' = [todo EXCEPT ![p] = @ - 1] /\ todo[p] \in Nat /\ todo[p] > 0
      /\ producer' = [producer EXCEPT ![p] = "idle"]
  BY DEF SendReturns, ProducersCount, TypeOK
<1>2. Created' = Created /\ p \in Created
  BY <1>1 DEF Created, TypeOK
<1>3. \A q \in Producers : producer'[q] = "none" => todo'[q] = SendsEach
  BY <1>1 DEF ProducersCount, TypeOK
<1>4. \A q \in Producers : producer'[q] = "send" => todo'[q] > 0
  BY <1>1 DEF ProducersCount, TypeOK
<1>5. ASSUME mode # "vector", NEW q \in Producers
      PROVE  /\ producer'[q] \in {"eof", "gone"} => todo'[q] = 0
             /\ producer[q] = "gone" => producer'[q] = "gone"
             /\ Created \subseteq {q} => sends' + todo'[q] = SendsEach
  <2>1. producer[q] \in {"eof", "gone"} => todo'[q] = 0 /\ producer'[q] = producer[q]
    BY <1>1, <1>5 DEF ProducersCount, TypeOK
  <2>2. ASSUME Created \subseteq {q} PROVE sends' + todo'[q] = SendsEach
    <3>1. q = p /\ sends + todo[p] = SendsEach
      BY <1>2, <1>5, <2>2 DEF ProducersCount
    <3>2. todo'[p] = todo[p] - 1
      BY <1>1 DEF TypeOK
    <3> QED
      BY <1>1, <3>1, <3>2
  <2> QED
    BY <1>1, <2>1, <2>2 DEF TypeOK
<1> QED
  BY <1>2, <1>3, <1>4, <1>5 DEF ProducersCount

(* Who ends the stream has sent all, and the sends add up. *)
LEMMA ProducersStep ==
  ASSUME TypeOK, ProducersCount, VectorIsCloned, ModeIsKept, QueueDiscipline, [Next]_vars
  PROVE  ProducersCount'
<1> USE ConstantsAssumption DEF ConstantsAssumption, innerVars, attemptVars, Created
<1>0. CASE UNCHANGED vars
  BY <1>0 DEF vars, innerVars, attemptVars, ProducersCount, TypeOK
<1>1. ASSUME NEW p \in Producers, GetProducer(p) PROVE ProducersCount'
  BY <1>1 DEF GetProducer, ProducersCount, TypeOK
<1>2. ASSUME NEW p \in Producers, CallSend(p) PROVE ProducersCount'
  BY <1>2 DEF CallSend, ProducersCount, TypeOK
<1>3. ASSUME NEW p \in Producers, SendBuffers(p) PROVE ProducersCount'
  BY <1>3, SendCounts DEF SendBuffers
<1>4. ASSUME NEW p \in Producers, SendToChannel(p) PROVE ProducersCount'
  BY <1>4, SendCounts DEF SendToChannel
<1>5. ASSUME NEW p \in Producers, SendLost(p) PROVE ProducersCount'
  BY <1>5, SendCounts DEF SendLost
<1>6. ASSUME NEW p \in Producers, SendPanics(p) PROVE ProducersCount'
  BY <1>6 DEF SendPanics, ProducersCount, TypeOK
<1>7. ASSUME NEW p \in Producers, SendToVector(p) PROVE ProducersCount'
  BY <1>7 DEF SendToVector, ProducersCount, TypeOK
<1>8. ASSUME NEW p \in Producers, DropProducer(p) PROVE ProducersCount'
  BY <1>8 DEF DropProducer, ProducersCount, TypeOK
<1>9. ASSUME NEW p \in Producers, DropVectorProducer(p) PROVE ProducersCount'
  BY <1>9 DEF DropVectorProducer, ProducersCount, TypeOK
<1>10. ASSUME NEW p \in Producers, SendEof(p) PROVE ProducersCount'
  BY <1>10 DEF SendEof, ProducersCount, TypeOK
<1>11. ASSUME NEW k \in Attempts, SendClone(k) PROVE ProducersCount'
  BY <1>11 DEF SendClone, ProducersCount, TypeOK
<1>12. ASSUME NEW k \in Attempts, CloneEnds(k) PROVE ProducersCount'
  BY <1>12 DEF CloneEnds, ProducersCount, TypeOK
<1>13. ASSUME NEW k \in Attempts, BindLock(k) PROVE ProducersCount'
  BY <1>13 DEF BindLock, ProducersCount, TypeOK
<1>14. ASSUME NEW k \in Attempts, DrainItem(k) PROVE ProducersCount'
  BY <1>14 DEF DrainItem, ProducersCount, TypeOK
<1>15. ASSUME NEW k \in Attempts, DrainFails(k) PROVE ProducersCount'
  BY <1>15 DEF DrainFails, BindReturns, ProducersCount, TypeOK
<1>16. ASSUME NEW k \in Attempts, DrainEnds(k) PROVE ProducersCount'
  BY <1>16 DEF DrainEnds, BindReturns, ProducersCount, TypeOK
<1>17. ASSUME NEW k \in Attempts, Bind(k) PROVE ProducersCount'
  <2>1. mode # "vector"
    BY <1>17 DEF Bind, Holds, VectorIsCloned
  <2>2. mode' = "bound" /\ sender' = k /\ k # NoSender /\ ~eos'
    BY <1>17, <2>1 DEF Bind, ModeIsKept, TypeOK
  <2> QED
    BY <1>17, <2>1, <2>2 DEF Bind, BindReturns, ProducersCount
<1>18. ASSUME NEW k \in Attempts, DropReceiver(k) PROVE ProducersCount'
  BY <1>18 DEF DropReceiver, ProducersCount, TypeOK
<1>19. ASSUME NEW k \in Attempts, Receive(k) PROVE ProducersCount'
  BY <1>19 DEF Receive, ProducersCount, TypeOK
<1>20. ASSUME NEW k \in Attempts, ReceiveEnd(k) PROVE ProducersCount'
  BY <1>20 DEF ReceiveEnd, ProducersCount, TypeOK
<1>21. CASE StartAttempt
  BY <1>21 DEF StartAttempt, ProducersCount, TypeOK
<1>22. CASE ReaderTimeout
  BY <1>22 DEF ReaderTimeout, ProducersCount, TypeOK
<1>23. CASE AttemptFails
  BY <1>23 DEF AttemptFails, ProducersCount, TypeOK
<1>24. CASE AttemptSucceeds
  BY <1>24 DEF AttemptSucceeds, ProducersCount, TypeOK
<1> QED
  BY <1>0, <1>1, <1>2, <1>3, <1>4, <1>5, <1>6, <1>7, <1>8, <1>9, <1>10, <1>11, <1>12,
     <1>13, <1>14, <1>15, <1>16, <1>17, <1>18, <1>19, <1>20, <1>21, <1>22, <1>23, <1>24,
        NextCases

-----------------------------------------------------------------------------
(* What the steps do to Taken(k), the items an attempt got.                *)

LEMMA TakenType ==
  ASSUME TypeOK, NEW k \in Attempts
  PROVE  /\ received[k] \in Seq(Nat) /\ channel[k] \in Seq(Nat) /\ Taken(k) \in Seq(Nat)
         /\ Len(received[k]) \in Nat /\ Len(channel[k]) \in Nat
         /\ Len(Taken(k)) = Len(received[k]) + Len(channel[k])
         /\ \A i \in 1 .. Len(Taken(k)) : Taken(k)[i] \in Nat
         /\ \A i \in 1 .. Len(received[k]) : Taken(k)[i] = received[k][i]
         /\ \A i \in 1 .. Len(channel[k]) : Taken(k)[Len(received[k]) + i] = channel[k][i]
<1>1. received[k] \in Seq(Nat) /\ channel[k] \in Seq(Nat)
  BY DEF TypeOK
<1>2. Taken(k) \in Seq(Nat)
  BY <1>1, ConcatOfNats DEF Taken
<1>3. \A i \in 1 .. Len(Taken(k)) : Taken(k)[i] \in Nat
  BY <1>2, ElementOfSeq
<1> QED
  BY <1>1, <1>2, <1>3, ConcatOfNats DEF Taken

(* An item that goes into the channel comes after all the others. *)
LEMMA TakenGrows ==
  ASSUME TypeOK, NEW k \in Attempts, NEW x \in Nat,
         channel' = [channel EXCEPT ![k] = Append(@, x)], UNCHANGED received
  PROVE  /\ \A j \in Attempts \ {k} : Taken(j)' = Taken(j)
         /\ Len(Taken(k)') = Len(Taken(k)) + 1
         /\ \A i \in 1 .. Len(Taken(k)) : Taken(k)'[i] = Taken(k)[i]
         /\ Taken(k)'[Len(Taken(k)) + 1] = x
<1>1. \A j \in Attempts \ {k} : Taken(j)' = Taken(j)
  BY DEF Taken, TypeOK
<1>2. received[k] \in Seq(Nat) /\ channel[k] \in Seq(Nat) /\ Taken(k) \in Seq(Nat)
  BY TakenType
<1>3. Taken(k)' = received[k] \o Append(channel[k], x)
  BY DEF Taken, TypeOK
<1>4. Taken(k)' = received[k] \o (channel[k] \o <<x>>)
  BY <1>2, <1>3, AppendIsConcat
<1>5. Taken(k)' = Taken(k) \o <<x>>
  <2>1. (received[k] \o channel[k]) \o <<x>> = received[k] \o (channel[k] \o <<x>>)
    <3>1. <<x>> \in Seq(Nat)
      OBVIOUS
    <3> QED
      BY <1>2, <3>1, NatsAssociative
  <2> QED
    BY <1>4, <2>1, Zenon DEF Taken
<1>6. Taken(k)' = Append(Taken(k), x)
  BY <1>2, <1>5, AppendIsConcat
<1> QED
  BY <1>1, <1>2, <1>6, AppendProperties

(* The server moves an item from the channel behind those it has read. *)
LEMMA TakenIsRead ==
  ASSUME TypeOK, NEW k \in Attempts, Receive(k)
  PROVE  \A j \in Attempts : Taken(j)' = Taken(j)
<1>1. \A j \in Attempts \ {k} : Taken(j)' = Taken(j)
  BY DEF Receive, Taken, TypeOK
<1>2. /\ received[k] \in Seq(Nat) /\ channel[k] \in Seq(Nat) /\ channel[k] # <<>>
      /\ Taken(k)' = Append(received[k], Head(channel[k])) \o Tail(channel[k])
  BY DEF Receive, Taken, TypeOK
<1>3. /\ Head(channel[k]) \in Nat /\ Tail(channel[k]) \in Seq(Nat)
      /\ Append(received[k], Head(channel[k])) = received[k] \o <<Head(channel[k])>>
      /\ channel[k] = <<Head(channel[k])>> \o Tail(channel[k])
  <2>1. Head(channel[k]) \in Nat /\ Tail(channel[k]) \in Seq(Nat)
    BY <1>2, HeadTailProperties
  <2>2. Append(received[k], Head(channel[k])) = received[k] \o <<Head(channel[k])>>
    BY <1>2, <2>1, AppendIsConcat
  <2>3. channel[k] = <<Head(channel[k])>> \o Tail(channel[k])
    BY <1>2
  <2> QED
    BY <2>1, <2>2, <2>3
<1>4. Taken(k)' = received[k] \o (<<Head(channel[k])>> \o Tail(channel[k]))
  <2>1. <<Head(channel[k])>> \in Seq(Nat)
    BY <1>3
  <2> QED
    <3>1. (received[k] \o <<Head(channel[k])>>) \o Tail(channel[k])
            = received[k] \o (<<Head(channel[k])>> \o Tail(channel[k]))
      BY <1>2, <1>3, <2>1, NatsAssociative
    <3> QED
      BY <1>2, <1>3, <3>1, Zenon
<1> QED
  BY <1>1, <1>3, <1>4 DEF Taken

(* With the Receiver, an attempt loses the last of what it took. *)
LEMMA TakenIsDropped ==
  ASSUME TypeOK, NEW k \in Attempts,
         channel' = [channel EXCEPT ![k] = <<>>], UNCHANGED received
  PROVE  /\ \A j \in Attempts \ {k} : Taken(j)' = Taken(j)
         /\ Taken(k)' = received[k]
         /\ Len(Taken(k)') \in Nat /\ Len(Taken(k)') <= Len(Taken(k))
         /\ \A i \in 1 .. Len(Taken(k)') : Taken(k)'[i] = Taken(k)[i]
<1>1. \A j \in Attempts \ {k} : Taken(j)' = Taken(j)
  BY DEF Taken, TypeOK
<1>2. Taken(k)' = received[k]
  BY TakenType, ConcatEmptySeq DEF Taken, TypeOK
<1>3. /\ Len(received[k]) \in Nat /\ Len(received[k]) <= Len(Taken(k))
      /\ \A i \in 1 .. Len(received[k]) : Taken(k)[i] = received[k][i]
  <2>1. /\ received \in [Attempts -> Seq(Nat)] /\ channel \in [Attempts -> Seq(Nat)]
        /\ Len(Taken(k)) = Len(received[k]) + Len(channel[k])
    BY TakenType DEF TypeOK
  <2>2. \A i \in 1 .. Len(received[k]) : Taken(k)[i] = received[k][i]
    BY TakenType
  <2>3. Len(received[k]) <= Len(Taken(k))
    BY <2>1
  <2> QED
    BY <2>1, <2>2, <2>3
<1> QED
  BY <1>1, <1>2, <1>3

(* No item comes to an attempt: its run stays before the buffer, which may *)
(* end up further on only if nobody takes from it.                         *)
LEMMA RunsStay ==
  ASSUME TypeOK, TypeOK', mode # "vector", TakenInRuns,
         \A k \in Attempts : Taken(k)' = Taken(k),
         BufferIsLast', Unbuffered <= Unbuffered',
         \A k \in Attempts : Takes(k)' /\ Taken(k) # <<>>
                               => Takes(k) /\ Unbuffered' = Unbuffered,
         \A k \in Attempts : OnlyHolderDrains(k)'
  PROVE  TakenInRuns'
<1>1. Unbuffered \in Int /\ Unbuffered' \in Int
  BY DEF Unbuffered, TypeOK
<1>2. ASSUME NEW k \in Attempts PROVE TakenBefore(k)'
  <2>1. TakenBefore(k) /\ Taken(k)' = Taken(k) /\ Taken(k) \in Seq(Nat)
    BY TakenType DEF TakenInRuns
  <2> QED
    BY <1>1, <2>1 DEF TakenBefore
<1>3. ASSUME NEW k \in Attempts PROVE TakesTheNext(k)'
  BY DEF TakesTheNext, TakenInRuns
<1>4. NothingTakenTwice'
  BY DEF NothingTakenTwice, TakenInRuns
<1> QED
  BY <1>2, <1>3, <1>4 DEF TakenInRuns

(* An attempt loses its Receiver and with it the last of its run. *)
LEMMA RunsShrink ==
  ASSUME TypeOK, mode # "vector", TakenInRuns, NEW k \in Attempts,
         channel' = [channel EXCEPT ![k] = <<>>], open' = open \ {k},
         UNCHANGED <<queue, mode, items, sends, sender, binder, received>>
  PROVE  TakenInRuns'
<1>1. /\ \A j \in Attempts \ {k} : Taken(j)' = Taken(j)
      /\ Len(Taken(k)') \in Nat /\ Len(Taken(k)') <= Len(Taken(k))
      /\ \A i \in 1 .. Len(Taken(k)') : Taken(k)'[i] = Taken(k)[i]
  BY TakenIsDropped
<1>2. Len(Taken(k)) \in Nat /\ \A i \in 1 .. Len(Taken(k)') : i \in 1 .. Len(Taken(k))
  <2>1. Taken(k) \in Seq(Nat)
    BY TakenType
  <2> QED
    BY <1>1, <2>1
<1>3. BufferIsLast' /\ Unbuffered' = Unbuffered
  BY DEF TakenInRuns, BufferIsLast, Unbuffered
<1>4. ASSUME NEW j \in Attempts PROVE TakenBefore(j)'
  <2>1. CASE j = k
    BY <1>1, <1>2, <1>3, <2>1 DEF TakenBefore, TakenInRuns
  <2>2. CASE j # k
    BY <1>1, <1>3, <2>2 DEF TakenBefore, TakenInRuns
  <2> QED
    BY <2>1, <2>2
<1>5. ASSUME NEW j \in Attempts PROVE TakesTheNext(j)'
  BY <1>1, <1>3 DEF TakesTheNext, Takes, TakenInRuns
<1>6. ASSUME NEW j \in Attempts PROVE OnlyHolderDrains(j)'
  <2>1. Taken(j) = <<>> => Taken(j)' = <<>>
    BY <1>1, TakenType, TakenIsDropped DEF Taken, TypeOK
  <2> QED
    BY <2>1 DEF OnlyHolderDrains, Holds, TakenInRuns
<1>7. NothingTakenTwice'
  BY <1>1, <1>2 DEF NothingTakenTwice, TakenInRuns
<1> QED
  BY <1>3, <1>4, <1>5, <1>6, <1>7 DEF TakenInRuns

(* The one attempt that takes items gets the next of them. *)
LEMMA RunsGrow ==
  ASSUME TypeOK, TypeOK', mode # "vector", TakenInRuns, NEW k \in Attempts, Takes(k),
         channel' = [channel EXCEPT ![k] = Append(@, Unbuffered + 1)],
         UNCHANGED received,
         BufferIsLast', Unbuffered' = Unbuffered + 1,
         \A j \in Attempts \ {k} : Takes(j)' => Taken(j) = <<>>,
         \A j \in Attempts \ {k} : OnlyHolderDrains(j)',
         binder'[k] \in {"none", "spawned", "binding"}
           => binder'[k] = "binding" /\ mode' = "buffering" /\ Holds(k)'
  PROVE  TakenInRuns'
<1>1. Unbuffered \in Nat /\ Unbuffered + 1 \in Nat
  BY DEF Unbuffered, TakenInRuns, BufferIsLast, TypeOK
<1>2. /\ \A j \in Attempts \ {k} : Taken(j)' = Taken(j)
      /\ Len(Taken(k)') = Len(Taken(k)) + 1
      /\ \A i \in 1 .. Len(Taken(k)) : Taken(k)'[i] = Taken(k)[i]
      /\ Taken(k)'[Len(Taken(k)) + 1] = Unbuffered + 1
  BY <1>1, TakenGrows
<1>3. \A j \in Attempts : Taken(j) \in Seq(Nat)
  BY TakenType
<1>4. ASSUME NEW j \in Attempts PROVE TakenBefore(j)'
  <2>1. CASE j = k
    <3>1. Taken(k) # <<>> => Taken(k)[Len(Taken(k))] = Unbuffered
      BY DEF TakenInRuns, TakesTheNext
    <3>2. \A i \in 1 .. Len(Taken(k)) :
            /\ Taken(k)[i] = Taken(k)[1] + (i - 1)
            /\ Taken(k)[i] > 0 /\ Taken(k)[i] <= Unbuffered
      BY DEF TakenInRuns, TakenBefore
    <3>3. ASSUME NEW i \in 1 .. Len(Taken(k)')
          PROVE  /\ Taken(k)'[i] = Taken(k)'[1] + (i - 1)
                 /\ Taken(k)'[i] > 0 /\ Taken(k)'[i] <= Unbuffered + 1
      <4>1. CASE i \in 1 .. Len(Taken(k))
        <5>1. Taken(k)'[i] = Taken(k)[i] /\ Taken(k)'[1] = Taken(k)[1]
          BY <1>2, <1>3, <4>1
        <5>2. Taken(k)[i] \in Nat /\ Taken(k)[1] \in Nat
          BY <1>3, <4>1, ElementOfSeq
        <5> QED
          BY <1>1, <3>2, <4>1, <5>1, <5>2
      <4>2. CASE i = Len(Taken(k)) + 1 /\ Taken(k) = <<>>
        BY <1>1, <1>2, <1>3, <4>2
      <4>3. CASE i = Len(Taken(k)) + 1 /\ Taken(k) # <<>>
        <5>1. Len(Taken(k)) \in 1 .. Len(Taken(k)) /\ 1 \in 1 .. Len(Taken(k))
          BY <1>3, <4>3, EmptySeq
        <5>2. Unbuffered = Taken(k)[1] + (Len(Taken(k)) - 1) /\ Taken(k)[1] \in Nat
          BY <1>3, <3>1, <3>2, <4>3, <5>1, ElementOfSeq
        <5>3. Taken(k)'[i] = Unbuffered + 1 /\ Taken(k)'[1] = Taken(k)[1]
          BY <1>2, <4>3, <5>1
        <5> QED
          BY <1>1, <1>3, <4>3, <5>2, <5>3, SMTT(30)
      <4> QED
        BY <1>2, <1>3, <4>1, <4>2, <4>3
    <3> QED
      BY <2>1, <3>3 DEF TakenBefore
  <2>2. CASE j # k
    BY <1>1, <1>2, <1>3, <2>2 DEF TakenBefore, TakenInRuns
  <2> QED
    BY <2>1, <2>2
<1>5. ASSUME NEW j \in Attempts PROVE TakesTheNext(j)'
  BY <1>2 DEF TakesTheNext
<1>6. ASSUME NEW j \in Attempts PROVE OnlyHolderDrains(j)'
  BY DEF OnlyHolderDrains
<1>7. NothingTakenTwice'
  <2>1. \A j \in Attempts : \A n \in 1 .. Len(Taken(j)) : Taken(j)[n] # Unbuffered + 1
    <3>1. ASSUME NEW j \in Attempts, NEW n \in 1 .. Len(Taken(j))
          PROVE  Taken(j)[n] # Unbuffered + 1
      <4>1. Taken(j)[n] <= Unbuffered /\ Taken(j)[n] \in Nat
        BY <1>3, ElementOfSeq DEF TakenInRuns, TakenBefore
      <4> QED
        BY <1>1, <4>1
    <3> QED
      BY <3>1
  <2>2. \A i \in 1 .. Len(Taken(k)') : i = Len(Taken(k)) + 1 \/ i \in 1 .. Len(Taken(k))
    BY <1>2, <1>3
  <2>3. ASSUME NEW j \in Attempts, NEW m \in Attempts, j # m,
               NEW i \in 1 .. Len(Taken(j)'), NEW n \in 1 .. Len(Taken(m)')
        PROVE  Taken(j)'[i] # Taken(m)'[n]
    <3>1. CASE j # k /\ m # k
      BY <1>2, <2>3, <3>1 DEF NothingTakenTwice, TakenInRuns
    <3>2. CASE j = k
      BY <1>2, <2>1, <2>2, <2>3, <3>2 DEF NothingTakenTwice, TakenInRuns
    <3>3. CASE m = k
      BY <1>2, <2>1, <2>2, <2>3, <3>3 DEF NothingTakenTwice, TakenInRuns
    <3> QED
      BY <3>1, <3>2, <3>3
  <2> QED
    BY <2>3 DEF NothingTakenTwice
<1> QED
  BY <1>4, <1>5, <1>6, <1>7 DEF TakenInRuns

(* Steps that move no item: they bind nothing and keep or end the turn of   *)
(* whoever holds the mutex.                                                 *)
LEMMA RunsIdle ==
  ASSUME TypeOK, TypeOK', mode # "vector", TakenInRuns,
         UNCHANGED <<mode, items, sends, open>>,
         \A k \in Attempts : Taken(k)' = Taken(k),
         sender' \in {sender, NoSender},
         \A k \in Attempts : \/ binder'[k] = binder[k] \/ binder'[k] = "done"
                             \/ binder[k] = "spawned" /\ binder'[k] = "binding",
         \A k \in Attempts : Holds(k) => Holds(k)' \/ binder'[k] = "done"
  PROVE  TakenInRuns'
<1>1. BufferIsLast' /\ Unbuffered' = Unbuffered
  BY DEF BufferIsLast, Unbuffered, TakenInRuns
<1>2. Unbuffered <= Unbuffered'
  BY <1>1 DEF Unbuffered, TypeOK
<1>3. ASSUME NEW k \in Attempts, Takes(k)', Taken(k) # <<>> PROVE Takes(k)
  BY <1>3, ConstantsAssumption DEF Takes, OnlyHolderDrains, TakenInRuns, ConstantsAssumption
<1>4. ASSUME NEW k \in Attempts PROVE OnlyHolderDrains(k)'
  BY DEF OnlyHolderDrains, TakenInRuns
<1> QED
  BY <1>1, <1>2, <1>3, <1>4, RunsStay

(* Asking for the mutex takes it from nobody. *)
LEMMA LockIsFair ==
  ASSUME TypeOK, NEW t \in Producers \union Attempts, Lock(t), NEW k, Holds(k)
  PROVE  Holds(k)'
<1>1. /\ queue \in Seq(Producers \union Attempts) /\ queue # <<>> /\ Head(queue) = k
      /\ queue' = Append(queue, t)
  BY DEF TypeOK, Lock, Holds
<1>2. queue' # <<>> /\ Head(queue') = Head(queue)
  BY <1>1, HeadTailAppend, AppendProperties
<1> QED
  BY <1>1, <1>2 DEF Holds

(* While a producer holds the mutex, no binder does. *)
LEMMA OneHolder ==
  ASSUME NEW p \in Producers, Holds(p), NEW k \in Attempts
  PROVE  ~Holds(k)
BY ConstantsAssumption DEF ConstantsAssumption, Holds

(* The items of a stream stay in runs, whatever step is taken. *)
LEMMA RunsStep ==
  ASSUME IInv, TypeOK', mode' # "vector", [Next]_vars
  PROVE  TakenInRuns'
<1> USE DEF IInv, innerVars, attemptVars
<1>0. CASE UNCHANGED vars
  BY <1>0, RunsIdle DEF vars, Taken, Holds
<1>1. ASSUME NEW p \in Producers, GetProducer(p) PROVE TakenInRuns'
  BY <1>1, RunsIdle DEF GetProducer, Taken, Holds
<1>2. ASSUME NEW p \in Producers, CallSend(p) PROVE TakenInRuns'
  BY <1>2, RunsIdle, LockIsFair DEF CallSend, Taken, TypeOK
<1>3. ASSUME NEW p \in Producers, SendBuffers(p) PROVE TakenInRuns'
  <2>1. /\ UNCHANGED <<mode, sender, open, binder, channel, received>>
        /\ items' = Append(items, sends + 1) /\ sends' = sends + 1
    BY <1>3 DEF SendBuffers, SendReturns
  <2>2. \A k \in Attempts : Taken(k)' = Taken(k)
    BY <2>1 DEF Taken
  <2>3. Unbuffered' = Unbuffered /\ Unbuffered <= Unbuffered' /\ Len(items) \in Nat
    BY <2>1 DEF Unbuffered, TypeOK
  <2>4. BufferIsLast'
    <3>1. /\ Len(items') = Len(items) + 1 /\ items'[Len(items) + 1] = sends + 1
          /\ \A i \in 1 .. Len(items) : items'[i] = items[i]
      BY <2>1, AppendProperties DEF TypeOK
    <3>2. /\ Len(items) <= sends /\ sends \in Nat
          /\ \A i \in 1 .. Len(items) : items[i] = Unbuffered + i
      BY <1>3 DEF SendBuffers, BufferIsLast, TakenInRuns, TypeOK
    <3>3. \A i \in 1 .. Len(items') : i \in 1 .. Len(items) \/ i = Len(items) + 1
      BY <2>3, <3>1
    <3>4. Unbuffered' + (Len(items) + 1) = sends + 1
      BY <2>3, <3>2 DEF Unbuffered
    <3> QED
      BY <2>1, <2>3, <3>1, <3>2, <3>3, <3>4 DEF BufferIsLast
  <2>5. \A k \in Attempts : Takes(k)' => Takes(k)
    BY <2>1 DEF Takes
  <2>6. \A k \in Attempts : OnlyHolderDrains(k)'
    BY <1>3, <2>1, <2>2, OneHolder DEF SendBuffers, OnlyHolderDrains, TakenInRuns
  <2> QED
    BY <1>3, <2>2, <2>3, <2>4, <2>5, <2>6, RunsStay DEF SendBuffers
<1>4. ASSUME NEW p \in Producers, SendToChannel(p) PROVE TakenInRuns'
  <2>1. /\ UNCHANGED <<mode, items, sender, open, binder, received>> /\ sender \in open
        /\ sends' = sends + 1 /\ channel' = [channel EXCEPT ![sender] = Append(@, sends +
           1)]
    BY <1>4 DEF SendToChannel, SendReturns
  <2>2. /\ sender \in Attempts /\ mode = "bound" /\ items = <<>>
        /\ binder[sender] = "done"
    BY <2>1, ConstantsAssumption DEF ConstantsAssumption, ModeIsKept, TypeOK
  <2>3. Unbuffered = sends /\ Unbuffered' = Unbuffered + 1 /\ BufferIsLast'
    BY <2>1, <2>2 DEF BufferIsLast, Unbuffered, TypeOK
  <2>4. \A k \in Attempts \ {sender} : Takes(k)' => Taken(k) = <<>>
    BY <2>1, <2>2 DEF Takes, OnlyHolderDrains, TakenInRuns
  <2>5. \A k \in Attempts \ {sender} : Taken(k)' = Taken(k)
    BY <2>1, <2>2, TakenGrows DEF Taken, TypeOK
  <2>6. \A k \in Attempts \ {sender} : OnlyHolderDrains(k)'
    BY <2>1, <2>2, <2>5 DEF OnlyHolderDrains, TakenInRuns
  <2>7. Takes(sender) /\ binder'[sender] = "done"
    BY <2>1, <2>2 DEF Takes
  <2> QED
    BY <2>1, <2>2, <2>3, <2>4, <2>6, <2>7, RunsGrow
<1>5. ASSUME NEW p \in Producers, SendLost(p) PROVE TakenInRuns'
  <2>1. /\ UNCHANGED <<mode, items, sender, open, binder, channel, received>>
        /\ sends' = sends + 1 /\ sender \notin open
    BY <1>5 DEF SendLost, SendReturns
  <2>2. mode = "bound" /\ items = <<>>
    BY <1>5, ConstantsAssumption DEF ConstantsAssumption, SendLost, ModeIsKept
  <2>3. \A k \in Attempts : Taken(k)' = Taken(k)
    BY <2>1 DEF Taken
  <2>4. Unbuffered <= Unbuffered' /\ BufferIsLast'
    BY <2>1, <2>2 DEF BufferIsLast, Unbuffered, TakenInRuns, TypeOK
  <2>5. \A k \in Attempts : ~(Takes(k)' /\ Taken(k) # <<>>)
    BY <2>1, <2>2 DEF Takes, OnlyHolderDrains, TakenInRuns
  <2>6. \A k \in Attempts : OnlyHolderDrains(k)'
    BY <2>1, <2>2, <2>3 DEF OnlyHolderDrains, TakenInRuns
  <2> QED
    BY <2>2, <2>3, <2>4, <2>5, <2>6, RunsStay
<1>6. ASSUME NEW p \in Producers, SendPanics(p) PROVE TakenInRuns'
  BY <1>6, RunsIdle, OneHolder DEF SendPanics, Taken
<1>7. ASSUME NEW p \in Producers, SendToVector(p) PROVE TakenInRuns'
  BY <1>7 DEF SendToVector
<1>8. ASSUME NEW p \in Producers, DropProducer(p) PROVE TakenInRuns'
  BY <1>8, RunsIdle, LockIsFair DEF DropProducer, Taken, TypeOK
<1>9. ASSUME NEW p \in Producers, DropVectorProducer(p) PROVE TakenInRuns'
  BY <1>9 DEF DropVectorProducer
<1>10. ASSUME NEW p \in Producers, SendEof(p) PROVE TakenInRuns'
  BY <1>10, RunsIdle, OneHolder DEF SendEof, Taken
<1>11. ASSUME NEW k \in Attempts, SendClone(k) PROVE TakenInRuns'
  BY <1>11 DEF SendClone
<1>12. ASSUME NEW k \in Attempts, CloneEnds(k) PROVE TakenInRuns'
  BY <1>12 DEF CloneEnds
<1>13. ASSUME NEW k \in Attempts, BindLock(k) PROVE TakenInRuns'
  BY <1>13, RunsIdle, LockIsFair DEF BindLock, Taken, TypeOK
<1>14. ASSUME NEW k \in Attempts, DrainItem(k) PROVE TakenInRuns'
  <2>1. /\ UNCHANGED <<queue, mode, sends, sender, open, binder, received>> /\ k \in open
        /\ mode = "buffering" /\ Holds(k) /\ binder[k] = "binding"
        /\ items # <<>> /\ items' = Tail(items)
        /\ channel' = [channel EXCEPT ![k] = Append(@, Head(items))]
    BY <1>14, Holder DEF DrainItem
  <2>2. /\ Len(items) \in Nat \ {0} /\ Len(items') = Len(items) - 1
        /\ \A i \in 1 .. Len(items') : items'[i] = items[i + 1]
        /\ Head(items) = items[1]
    BY <2>1, HeadTailProperties, EmptySeq DEF TypeOK
  <2>3. Head(items) = Unbuffered + 1 /\ Unbuffered' = Unbuffered + 1
    BY <2>1, <2>2 DEF BufferIsLast, Unbuffered, TakenInRuns, TypeOK
  <2>4. BufferIsLast'
    <3>1. \A i \in 1 .. Len(items') : i + 1 \in 1 .. Len(items)
      BY <2>2
    <3>2. \A i \in 1 .. Len(items') : items'[i] = Unbuffered + (i + 1)
      BY <2>1, <2>2, <3>1 DEF BufferIsLast, TakenInRuns
    <3> QED
      BY <2>1, <2>2, <2>3, <3>2 DEF BufferIsLast, Unbuffered, TakenInRuns, TypeOK
  <2>5. \A j \in Attempts \ {k} : ~Holds(j) /\ sender # j
    BY <2>1, ConstantsAssumption DEF ConstantsAssumption, Holds, ModeIsKept
  <2>6. \A j \in Attempts \ {k} : Takes(j)' => Taken(j) = <<>>
    BY <2>1, <2>5 DEF Takes, OnlyHolderDrains, TakenInRuns
  <2>7. \A j \in Attempts \ {k} : Taken(j)' = Taken(j)
    BY <2>1 DEF Taken, TypeOK
  <2>8. \A j \in Attempts \ {k} : OnlyHolderDrains(j)'
    BY <2>1, <2>5, <2>7 DEF OnlyHolderDrains, Holds, TakenInRuns
  <2>9. Takes(k) /\ binder'[k] = "binding" /\ mode' = "buffering" /\ Holds(k)'
    BY <2>1 DEF Takes, Holds
  <2> QED
    BY <2>1, <2>3, <2>4, <2>6, <2>8, <2>9, RunsGrow
<1>15. ASSUME NEW k \in Attempts, DrainFails(k) PROVE TakenInRuns'
  <2>1. /\ UNCHANGED <<mode, sends, sender, open, channel, received>> /\ items' = <<>>
        /\ mode = "buffering" /\ Holds(k) /\ binder' = [binder EXCEPT ![k] = "done"]
    BY <1>15 DEF DrainFails, BindReturns
  <2>2. \A j \in Attempts : Taken(j)' = Taken(j)
    BY <2>1 DEF Taken
  <2>3. Unbuffered <= Unbuffered' /\ BufferIsLast'
    BY <2>1 DEF BufferIsLast, Unbuffered, TypeOK
  <2>4. \A j \in Attempts \ {k} : ~Holds(j)
    BY <2>1 DEF Holds
  <2>5. \A j \in Attempts : sender # j
    BY <2>1, ConstantsAssumption DEF ConstantsAssumption, ModeIsKept
  <2>6. \A j \in Attempts : ~(Takes(j)' /\ Taken(j) # <<>>)
    BY <2>1, <2>4, <2>5 DEF Takes, OnlyHolderDrains, TakenInRuns, TypeOK
  <2>7. \A j \in Attempts : OnlyHolderDrains(j)'
    BY <2>1, <2>2, <2>4 DEF OnlyHolderDrains, TakenInRuns, TypeOK
  <2> QED
    BY <2>1, <2>2, <2>3, <2>6, <2>7, RunsStay
<1>16. ASSUME NEW k \in Attempts, DrainEnds(k) PROVE TakenInRuns'
  BY <1>16, RunsIdle DEF DrainEnds, BindReturns, Taken, Holds, TypeOK
<1>17. ASSUME NEW k \in Attempts, Bind(k) PROVE TakenInRuns'
  <2>1. mode # "vector" /\ binder[k] = "binding" /\ items = <<>>
    BY <1>17, Holder DEF Bind, Holds, VectorIsCloned, ModeIsKept, TypeOK
  <2>2. /\ UNCHANGED <<items, sends, open, channel, received>>
        /\ sender' = k /\ mode' = "bound" /\ binder' = [binder EXCEPT ![k] = "done"]
    BY <1>17 DEF Bind, BindReturns
  <2>3. \A j \in Attempts : Taken(j)' = Taken(j)
    BY <2>2 DEF Taken
  <2>4. BufferIsLast' /\ Unbuffered' = Unbuffered /\ Unbuffered <= Unbuffered'
    BY <2>1, <2>2 DEF BufferIsLast, Unbuffered, TakenInRuns, TypeOK
  <2>5. \A j \in Attempts : Takes(j)' => Takes(j)
    BY <2>1, <2>2 DEF Takes, TypeOK
  <2>6. \A j \in Attempts : OnlyHolderDrains(j)'
    BY <1>17, <2>1, <2>2, <2>3 DEF Bind, OnlyHolderDrains, Holds, TakenInRuns, TypeOK
  <2> QED
    BY <2>1, <2>3, <2>4, <2>5, <2>6, RunsStay
<1>18. ASSUME NEW k \in Attempts, DropReceiver(k) PROVE TakenInRuns'
  BY <1>18, RunsShrink DEF DropReceiver
<1>19. ASSUME NEW k \in Attempts, Receive(k) PROVE TakenInRuns'
  BY <1>19, RunsIdle, TakenIsRead DEF Receive, Holds
<1>20. ASSUME NEW k \in Attempts, ReceiveEnd(k) PROVE TakenInRuns'
  BY <1>20, RunsIdle DEF ReceiveEnd, Taken, Holds
<1>21. CASE StartAttempt
  <2>1. /\ cur + 1 \in Attempts /\ cur + 1 > cur /\ sender # cur + 1
        /\ received[cur + 1] = <<>> /\ channel[cur + 1] = <<>>
    <3>1. cur + 1 \in Attempts /\ cur + 1 > cur
      BY <1>21, NextAttempt DEF TypeOK
    <3> QED
      BY <3>1 DEF AttemptsInOrder
  <2>2. Taken(cur + 1) = <<>>
    BY <2>1 DEF Taken
  <2>3. /\ UNCHANGED <<queue, mode, items, sends, sender, channel, received>>
        /\ binder' = [binder EXCEPT ![cur + 1] = "spawned"] /\ open' = open \union {cur + 1}
    BY <1>21 DEF StartAttempt
  <2>4. \A k \in Attempts : Taken(k)' = Taken(k)
    BY <2>3 DEF Taken
  <2>5. BufferIsLast' /\ Unbuffered' = Unbuffered /\ Unbuffered <= Unbuffered'
    BY <2>3 DEF BufferIsLast, Unbuffered, TakenInRuns, TypeOK
  <2>6. \A k \in Attempts : Takes(k)' /\ Taken(k) # <<>> => Takes(k)
    BY <2>2, <2>3 DEF Takes, TypeOK
  <2>7. \A k \in Attempts : OnlyHolderDrains(k)'
    BY <2>2, <2>3, <2>4 DEF OnlyHolderDrains, Holds, TakenInRuns, TypeOK
  <2> QED
    BY <2>3, <2>4, <2>5, <2>6, <2>7, RunsStay
<1>22. CASE ReaderTimeout
  BY <1>22, RunsShrink DEF ReaderTimeout, TypeOK
<1>23. CASE AttemptFails
  BY <1>23, RunsIdle DEF AttemptFails, Taken, Holds
<1>24. CASE AttemptSucceeds
  BY <1>24, RunsIdle DEF AttemptSucceeds, Taken, Holds
<1> QED
  BY <1>0, <1>1, <1>2, <1>3, <1>4, <1>5, <1>6, <1>7, <1>8, <1>9, <1>10, <1>11, <1>12,
     <1>13, <1>14, <1>15, <1>16, <1>17, <1>18, <1>19, <1>20, <1>21, <1>22, <1>23, <1>24,
        NextCases

-----------------------------------------------------------------------------
(* The first attempt.                                                      *)

(* Until the first attempt is left, there is no other. *)
LEMMA FirstIsAlone ==
  ASSUME TypeOK, AttemptsInOrder, ~FirstIsLeft
  PROVE  /\ 1 \in Attempts
         /\ \A k \in Attempts : k \in open \union ended \/ binder[k] # "none" \/ sender = k
                                  => k = 1 /\ cur = 1 /\ outcome \in {"running", "ok"}
<1>1. 1 \in Attempts
  BY ConstantsAssumption DEF ConstantsAssumption, Attempts
<1>2. ASSUME NEW k \in Attempts,
             k \in open \union ended \/ binder[k] # "none" \/ sender = k
      PROVE  k = 1 /\ cur = 1 /\ outcome \in {"running", "ok"}
  <2>1. ~(k > cur)
    BY <1>2 DEF AttemptsInOrder
  <2>2. k \in Nat \ {0} /\ cur \in Nat /\ ~(cur > 1)
    BY DEF TypeOK, FirstIsLeft, Attempts
  <2>3. k = 1 /\ cur = 1
    BY <2>1, <2>2
  <2> QED
    BY <2>3 DEF FirstIsLeft, AttemptsInOrder, TypeOK
<1> QED
  BY <1>1, <1>2

(* There is no way back. *)
LEMMA LeftForGood ==
  ASSUME TypeOK, AttemptsInOrder, FirstIsLeft, [Next]_vars
  PROVE  FirstIsLeft'
<1> USE DEF innerVars, attemptVars, FirstIsLeft
<1>0. CASE UNCHANGED vars
  BY <1>0 DEF vars, innerVars, attemptVars
<1>1. ASSUME NEW p \in Producers, GetProducer(p) PROVE FirstIsLeft'
  BY <1>1 DEF GetProducer
<1>2. ASSUME NEW p \in Producers, CallSend(p) PROVE FirstIsLeft'
  BY <1>2 DEF CallSend
<1>3. ASSUME NEW p \in Producers, SendBuffers(p) PROVE FirstIsLeft'
  BY <1>3 DEF SendBuffers
<1>4. ASSUME NEW p \in Producers, SendToChannel(p) PROVE FirstIsLeft'
  BY <1>4 DEF SendToChannel
<1>5. ASSUME NEW p \in Producers, SendLost(p) PROVE FirstIsLeft'
  BY <1>5 DEF SendLost
<1>6. ASSUME NEW p \in Producers, SendPanics(p) PROVE FirstIsLeft'
  BY <1>6 DEF SendPanics
<1>7. ASSUME NEW p \in Producers, SendToVector(p) PROVE FirstIsLeft'
  BY <1>7 DEF SendToVector
<1>8. ASSUME NEW p \in Producers, DropProducer(p) PROVE FirstIsLeft'
  BY <1>8 DEF DropProducer
<1>9. ASSUME NEW p \in Producers, DropVectorProducer(p) PROVE FirstIsLeft'
  BY <1>9 DEF DropVectorProducer
<1>10. ASSUME NEW p \in Producers, SendEof(p) PROVE FirstIsLeft'
  BY <1>10 DEF SendEof
<1>11. ASSUME NEW k \in Attempts, SendClone(k) PROVE FirstIsLeft'
  BY <1>11 DEF SendClone
<1>12. ASSUME NEW k \in Attempts, CloneEnds(k) PROVE FirstIsLeft'
  BY <1>12 DEF CloneEnds
<1>13. ASSUME NEW k \in Attempts, BindLock(k) PROVE FirstIsLeft'
  BY <1>13 DEF BindLock
<1>14. ASSUME NEW k \in Attempts, DrainItem(k) PROVE FirstIsLeft'
  BY <1>14 DEF DrainItem
<1>15. ASSUME NEW k \in Attempts, DrainFails(k) PROVE FirstIsLeft'
  BY <1>15 DEF DrainFails
<1>16. ASSUME NEW k \in Attempts, DrainEnds(k) PROVE FirstIsLeft'
  BY <1>16 DEF DrainEnds
<1>17. ASSUME NEW k \in Attempts, Bind(k) PROVE FirstIsLeft'
  BY <1>17 DEF Bind
<1>18. ASSUME NEW k \in Attempts, DropReceiver(k) PROVE FirstIsLeft'
  BY <1>18 DEF DropReceiver
<1>19. ASSUME NEW k \in Attempts, Receive(k) PROVE FirstIsLeft'
  BY <1>19 DEF Receive
<1>20. ASSUME NEW k \in Attempts, ReceiveEnd(k) PROVE FirstIsLeft'
  BY <1>20 DEF ReceiveEnd
<1>21. CASE StartAttempt
  <2>1. cur # 0
    BY <1>21 DEF FirstIsLeft, AttemptsInOrder
  <2> QED
    BY <1>21, <2>1 DEF StartAttempt, FirstIsLeft, TypeOK
<1>22. CASE ReaderTimeout
  BY <1>22 DEF ReaderTimeout
<1>23. CASE AttemptFails
  BY <1>23 DEF AttemptFails
<1>24. CASE AttemptSucceeds
  BY <1>24 DEF AttemptSucceeds
<1> QED
  BY <1>0, <1>1, <1>2, <1>3, <1>4, <1>5, <1>6, <1>7, <1>8, <1>9, <1>10, <1>11, <1>12,
     <1>13, <1>14, <1>15, <1>16, <1>17, <1>18, <1>19, <1>20, <1>21, <1>22, <1>23, <1>24,
        NextCases

(* Steps that move nothing of the first attempt and no item of the buffer. *)
LEMMA FirstIdle ==
  ASSUME mode # "vector", ~FirstIsLeft, FirstIsWhole,
         Taken(1)' = Taken(1), UNCHANGED <<items, sends>>,
         1 \in ended' => 1 \in ended,
         StreamIsOver => StreamIsOver'
  PROVE  FirstIsWhole'
BY DEF FirstIsWhole, Unbuffered

(* The first attempt gets the next item. *)
LEMMA FirstGrows ==
  ASSUME TypeOK, 1 \in Attempts, mode # "vector", ~FirstIsLeft, FirstIsWhole, 1 \notin ended,
         channel' = [channel EXCEPT ![1] = Append(@, Unbuffered + 1)],
         UNCHANGED <<received, ended>>, Unbuffered \in Nat, Unbuffered' = Unbuffered + 1
  PROVE  FirstIsWhole'
<1>1. /\ Len(Taken(1)) = Unbuffered
      /\ \A i \in 1 .. Len(Taken(1)) : Taken(1)[i] = i
  BY DEF FirstIsWhole
<1>2. Unbuffered + 1 \in Nat
  OBVIOUS
<1>3. /\ Len(Taken(1)') = Len(Taken(1)) + 1
      /\ \A i \in 1 .. Len(Taken(1)) : Taken(1)'[i] = Taken(1)[i]
      /\ Taken(1)'[Len(Taken(1)) + 1] = Unbuffered + 1
  BY <1>2, TakenGrows
<1>4. \A i \in 1 .. Unbuffered + 1 : Taken(1)'[i] = i
  BY <1>1, <1>3
<1> QED
  BY <1>1, <1>3, <1>4 DEF FirstIsWhole

(* The first attempt stays whole until it is left. *)
LEMMA FirstStep ==
  ASSUME IInv, mode' # "vector", ~FirstIsLeft', [Next]_vars
  PROVE  FirstIsWhole'
<1> USE DEF IInv, innerVars, attemptVars
<1>a. ~FirstIsLeft
  BY LeftForGood
<1>b. ~Owned => ~Owned'
  BY OwnerlessForGood
<1>0. CASE UNCHANGED vars
  BY <1>a, <1>b, <1>0, FirstIdle DEF vars, Taken, StreamIsOver
<1>1. ASSUME NEW p \in Producers, GetProducer(p) PROVE FirstIsWhole'
  BY <1>a, <1>b, <1>1, FirstIdle DEF GetProducer, Taken, StreamIsOver
<1>2. ASSUME NEW p \in Producers, CallSend(p) PROVE FirstIsWhole'
  BY <1>a, <1>b, <1>2, FirstIdle DEF CallSend, Taken, StreamIsOver
<1>3. ASSUME NEW p \in Producers, SendBuffers(p) PROVE FirstIsWhole'
  <2>1. /\ UNCHANGED <<mode, ended, channel, received>> /\ ~StreamIsOver
        /\ mode = "buffering"
        /\ items' = Append(items, sends + 1) /\ sends' = sends + 1
    BY <1>3 DEF SendBuffers, SendReturns, StreamIsOver
  <2>2. Unbuffered' = Unbuffered
    BY <2>1, AppendProperties DEF Unbuffered, TypeOK
  <2> QED
    BY <1>a, <2>1, <2>2 DEF FirstIsWhole, Taken
<1>4. ASSUME NEW p \in Producers, SendToChannel(p) PROVE FirstIsWhole'
  <2>1. /\ UNCHANGED <<mode, items, ended, received>> /\ sender \in open
        /\ sends' = sends + 1 /\ channel' = [channel EXCEPT ![sender] = Append(@, sends +
           1)]
    BY <1>4 DEF SendToChannel, SendReturns
  <2>2. sender = 1 /\ 1 \in Attempts /\ mode = "bound" /\ items = <<>> /\ sends \in Nat
    BY <1>a, <2>1, FirstIsAlone, ConstantsAssumption DEF ConstantsAssumption, ModeIsKept, TypeOK
  <2>3. Unbuffered = sends /\ Unbuffered' = sends + 1
    BY <2>1, <2>2 DEF Unbuffered
  <2>4. 1 \notin ended
    <3>1. Owned
      BY <1>4, SenderOwns DEF SendToChannel
    <3> QED
      BY <2>2, <3>1 DEF EndsAreLast, HasSender
  <2>5. channel' = [channel EXCEPT ![1] = Append(@, Unbuffered + 1)]
    BY <2>1, <2>2, <2>3
  <2> QED
    BY <1>a, <2>1, <2>2, <2>3, <2>4, <2>5, FirstGrows
<1>5. ASSUME NEW p \in Producers, SendLost(p) PROVE FirstIsWhole'
  <2>1. sender \in Attempts /\ sender \notin open
    BY <1>5 DEF SendLost
  <2>2. sender = 1 /\ cur = 1
    BY <1>a, <2>1, FirstIsAlone
  <2>3. 1 \in ended /\ ~StreamIsOver /\ mode # "vector"
    BY <1>a, <1>5, <2>1, <2>2, SenderOwns, ConstantsAssumption
       DEF ConstantsAssumption, SendLost, FirstIsLeft, StreamIsOver, ModeIsKept
  <2> QED
    BY <1>a, <2>3 DEF FirstIsWhole
<1>6. ASSUME NEW p \in Producers, SendPanics(p) PROVE FirstIsWhole'
  BY <1>a, <1>b, <1>6, FirstIdle DEF SendPanics, Taken, StreamIsOver
<1>7. ASSUME NEW p \in Producers, SendToVector(p) PROVE FirstIsWhole'
  BY <1>a, <1>7 DEF SendToVector, FirstIsWhole
<1>8. ASSUME NEW p \in Producers, DropProducer(p) PROVE FirstIsWhole'
  BY <1>a, <1>b, <1>8, FirstIdle DEF DropProducer, Taken, StreamIsOver
<1>9. ASSUME NEW p \in Producers, DropVectorProducer(p) PROVE FirstIsWhole'
  BY <1>a, <1>9 DEF DropVectorProducer, FirstIsWhole
<1>10. ASSUME NEW p \in Producers, SendEof(p) PROVE FirstIsWhole'
  BY <1>a, <1>b, <1>10, FirstIdle DEF SendEof, Taken, StreamIsOver
<1>11. ASSUME NEW k \in Attempts, SendClone(k) PROVE FirstIsWhole'
  BY <1>a, <1>11 DEF SendClone, FirstIsWhole
<1>12. ASSUME NEW k \in Attempts, CloneEnds(k) PROVE FirstIsWhole'
  BY <1>a, <1>12 DEF CloneEnds, FirstIsWhole
<1>13. ASSUME NEW k \in Attempts, BindLock(k) PROVE FirstIsWhole'
  BY <1>a, <1>b, <1>13, FirstIdle DEF BindLock, Taken, StreamIsOver
<1>14. ASSUME NEW k \in Attempts, DrainItem(k) PROVE FirstIsWhole'
  <2>1. /\ UNCHANGED <<sends, ended, received>> /\ mode # "vector"
        /\ binder[k] = "binding" /\ items # <<>> /\ items' = Tail(items)
        /\ channel' = [channel EXCEPT ![k] = Append(@, Head(items))]
    BY <1>14, Holder DEF DrainItem
  <2>2. k = 1 /\ 1 \notin ended
    BY <1>a, <2>1, FirstIsAlone DEF EndsAreLast, HasSender
  <2>3. /\ Len(items) \in Nat \ {0} /\ Len(items') = Len(items) - 1
        /\ Head(items) = items[1]
    BY <2>1, HeadTailProperties, EmptySeq DEF TypeOK
  <2>4. Head(items) = Unbuffered + 1 /\ Unbuffered' = Unbuffered + 1 /\ Unbuffered \in Nat
    BY <2>1, <2>3 DEF BufferIsLast, Unbuffered, TakenInRuns, TypeOK
  <2>5. channel' = [channel EXCEPT ![1] = Append(@, Unbuffered + 1)]
    BY <2>1, <2>2, <2>4
  <2> QED
    BY <1>a, <2>1, <2>2, <2>4, <2>5, FirstGrows
<1>15. ASSUME NEW k \in Attempts, DrainFails(k) PROVE FirstIsWhole'
  <2>1. binder[k] = "binding" /\ k \notin open /\ items # <<>> /\ mode = "buffering"
    BY <1>15, Holder DEF DrainFails
  <2>2. k = 1 /\ cur = 1
    BY <1>a, <2>1, FirstIsAlone
  <2>3. 1 \in ended /\ ~StreamIsOver
    BY <1>a, <1>b, <2>1, <2>2 DEF FirstIsLeft, StreamIsOver
  <2> QED
    BY <1>a, <2>1, <2>3 DEF FirstIsWhole
<1>16. ASSUME NEW k \in Attempts, DrainEnds(k) PROVE FirstIsWhole'
  BY <1>a, <1>b, <1>16, FirstIdle DEF DrainEnds, BindReturns, Taken, StreamIsOver
<1>17. ASSUME NEW k \in Attempts, Bind(k) PROVE FirstIsWhole'
  <2>1. binder[k] = "binding" /\ mode # "vector"
    BY <1>17, Holder DEF Bind, Holds, VectorIsCloned
  <2>2. k = 1 /\ 1 \notin ended
    BY <1>a, <2>1, FirstIsAlone DEF EndsAreLast, HasSender
  <2> QED
    BY <1>a, <1>17, <2>1, <2>2 DEF Bind, FirstIsWhole, Taken, Unbuffered
<1>18. ASSUME NEW k \in Attempts, DropReceiver(k) PROVE FirstIsWhole'
  <2>1. k = 1 /\ cur = 1
    BY <1>a, <1>18, FirstIsAlone DEF DropReceiver
  <2>2. 1 \in ended
    BY <1>a, <1>18, <2>1 DEF DropReceiver, FirstIsLeft
  <2>3. channel[1] = <<>> /\ UNCHANGED channel
    BY <1>18, <2>1, <2>2 DEF DropReceiver, EndsAreLast, TypeOK
  <2> QED
    BY <1>a, <1>b, <1>18, <2>3, FirstIdle DEF DropReceiver, Taken, StreamIsOver
<1>19. ASSUME NEW k \in Attempts, Receive(k) PROVE FirstIsWhole'
  BY <1>a, <1>b, <1>19, FirstIdle, TakenIsRead, FirstIsAlone DEF Receive, StreamIsOver
<1>20. ASSUME NEW k \in Attempts, ReceiveEnd(k) PROVE FirstIsWhole'
  <2>1. k = 1 /\ cur = 1 /\ 1 \in Attempts
    BY <1>a, <1>20, FirstIsAlone DEF ReceiveEnd
  <2>2. sender = NoSender \/ (sender = 1 /\ ~Owned)
    BY <1>a, <1>20, <2>1, FirstIsAlone DEF ReceiveEnd, HasSender, TypeOK
  <2>3. binder[1] = "done"
    BY <1>20, <2>1 DEF ReceiveEnd, HasSender, AttemptsInOrder, TypeOK
  <2>4. StreamIsOver
    BY <1>20, <2>1, <2>2, <2>3 DEF ReceiveEnd, ModeIsKept, StreamIsOver, TypeOK
  <2> QED
    BY <1>a, <1>b, <1>20, <2>4 DEF ReceiveEnd, FirstIsWhole, Taken, Unbuffered, StreamIsOver
<1>21. CASE StartAttempt
  <2>1. UNCHANGED <<mode, items, eos, sender, channel, received, ended, sends>>
    BY <1>21 DEF StartAttempt
  <2> QED
    BY <1>a, <1>b, <1>21, <2>1, FirstIdle DEF Taken, StreamIsOver
<1>22. CASE ReaderTimeout
  <2>1. cur = 1
    BY <1>a, <1>22, FirstIsAlone DEF ReaderTimeout, TypeOK
  <2> QED
    BY <1>a, <1>22, <2>1 DEF ReaderTimeout, FirstIsLeft
<1>23. CASE AttemptFails
  BY <1>a, <1>b, <1>23, FirstIdle DEF AttemptFails, Taken, StreamIsOver
<1>24. CASE AttemptSucceeds
  BY <1>a, <1>b, <1>24, FirstIdle DEF AttemptSucceeds, Taken, StreamIsOver
<1> QED
  BY <1>0, <1>1, <1>2, <1>3, <1>4, <1>5, <1>6, <1>7, <1>8, <1>9, <1>10, <1>11, <1>12,
     <1>13, <1>14, <1>15, <1>16, <1>17, <1>18, <1>19, <1>20, <1>21, <1>22, <1>23, <1>24,
     NextCases

-----------------------------------------------------------------------------
(* A vector.                                                               *)

(* Steps that move no clone and end no stream. *)
LEMMA CloneIdle ==
  ASSUME mode = "vector", VectorIsCloned, UNCHANGED <<queue, items, ended>>,
         \A k \in Attempts : Taken(k)' = Taken(k),
         \A k \in Attempts : \/ binder'[k] = binder[k] /\ (k \in open' => k \in open)
                             \/ binder'[k] = "spawned"
  PROVE  VectorIsCloned'
BY DEF VectorIsCloned

(* An attempt that loses its Receiver keeps a beginning of the vector. *)
LEMMA CloneDropped ==
  ASSUME TypeOK, mode = "vector", VectorIsCloned, EndsAreLast, NEW k \in Attempts,
         channel' = [channel EXCEPT ![k] = <<>>], open' = open \ {k},
         UNCHANGED <<queue, items, binder, received, ended>>
  PROVE  VectorIsCloned'
<1>1. /\ \A j \in Attempts \ {k} : Taken(j)' = Taken(j)
      /\ Len(Taken(k)') \in Nat /\ Len(Taken(k)') <= Len(Taken(k))
      /\ \A i \in 1 .. Len(Taken(k)') : Taken(k)'[i] = Taken(k)[i]
  BY TakenIsDropped
<1>2. /\ Len(Taken(k)) \in Nat /\ Len(Taken(k)) <= SendsEach
      /\ \A i \in 1 .. Len(Taken(k)) : Taken(k)[i] = i
  BY TakenType DEF VectorIsCloned
<1>3. /\ Len(Taken(k)') <= SendsEach
      /\ \A i \in 1 .. Len(Taken(k)') : Taken(k)'[i] = i
  BY <1>1, <1>2, ConstantsAssumption DEF ConstantsAssumption
<1>4. k \in ended => Taken(k)' = Taken(k)
  BY DEF EndsAreLast, Taken, TypeOK
<1> QED
  BY <1>1, <1>3, <1>4 DEF VectorIsCloned

(* The clones stay a beginning of the vector, and all of it at the end. *)
LEMMA CloneStep ==
  ASSUME IInv, mode' = "vector", [Next]_vars
  PROVE  VectorIsCloned'
<1> USE DEF IInv, innerVars, attemptVars
<1>0. CASE UNCHANGED vars
  BY <1>0, CloneIdle DEF vars, Taken
<1>1. ASSUME NEW p \in Producers, GetProducer(p) PROVE VectorIsCloned'
  BY <1>1, CloneIdle DEF GetProducer, Taken
<1>2. ASSUME NEW p \in Producers, CallSend(p) PROVE VectorIsCloned'
  BY <1>2 DEF CallSend, VectorIsCloned
<1>3. ASSUME NEW p \in Producers, SendBuffers(p) PROVE VectorIsCloned'
  BY <1>3 DEF SendBuffers, Holds, VectorIsCloned
<1>4. ASSUME NEW p \in Producers, SendToChannel(p) PROVE VectorIsCloned'
  BY <1>4 DEF SendToChannel, Holds, VectorIsCloned
<1>5. ASSUME NEW p \in Producers, SendLost(p) PROVE VectorIsCloned'
  BY <1>5 DEF SendLost, Holds, VectorIsCloned
<1>6. ASSUME NEW p \in Producers, SendPanics(p) PROVE VectorIsCloned'
  BY <1>6 DEF SendPanics, Holds, VectorIsCloned
<1>7. ASSUME NEW p \in Producers, SendToVector(p) PROVE VectorIsCloned'
  BY <1>7, CloneIdle DEF SendToVector, Taken
<1>8. ASSUME NEW p \in Producers, DropProducer(p) PROVE VectorIsCloned'
  BY <1>8 DEF DropProducer, VectorIsCloned
<1>9. ASSUME NEW p \in Producers, DropVectorProducer(p) PROVE VectorIsCloned'
  BY <1>9, CloneIdle DEF DropVectorProducer, Taken
<1>10. ASSUME NEW p \in Producers, SendEof(p) PROVE VectorIsCloned'
  BY <1>10 DEF SendEof, Holds, VectorIsCloned
<1>11. ASSUME NEW k \in Attempts, SendClone(k) PROVE VectorIsCloned'
  <2>1. /\ UNCHANGED <<queue, items, binder, open, ended, received>>
        /\ binder[k] = "spawned" /\ Len(Taken(k)) < Len(items)
        /\ channel' = [channel EXCEPT ![k] = Append(@, items[Len(Taken(k)) + 1])]
    BY <1>11 DEF SendClone
  <2>2. SendsEach \in Nat /\ Len(items) = SendsEach /\ \A i \in 1 .. SendsEach : items[i] = i
    BY <1>11, UptoIsSeq, ConstantsAssumption DEF ConstantsAssumption, SendClone, VectorIsCloned
  <2>3. Len(Taken(k)) \in Nat /\ Len(Taken(k)) + 1 \in 1 .. SendsEach
    <3>1. Taken(k) \in Seq(Nat)
      BY TakenType
    <3> QED
      BY <2>1, <2>2, <3>1
  <2>4. channel' = [channel EXCEPT ![k] = Append(@, Len(Taken(k)) + 1)]
    BY <2>1, <2>2, <2>3
  <2>5. Len(Taken(k)) + 1 \in Nat
    BY <2>3
  <2>6. /\ \A j \in Attempts \ {k} : Taken(j)' = Taken(j)
        /\ Len(Taken(k)') = Len(Taken(k)) + 1
        /\ \A i \in 1 .. Len(Taken(k)) : Taken(k)'[i] = Taken(k)[i]
        /\ Taken(k)'[Len(Taken(k)) + 1] = Len(Taken(k)) + 1
    BY <2>1, <2>4, <2>5, TakenGrows
  <2>7. /\ Len(Taken(k)') <= SendsEach
        /\ \A i \in 1 .. Len(Taken(k)') : Taken(k)'[i] = i
    BY <1>11, <2>2, <2>3, <2>6 DEF SendClone, VectorIsCloned
  <2>8. k \notin ended
    BY <2>1 DEF EndsAreLast, HasSender
  <2> QED
    BY <1>11, <2>1, <2>6, <2>7, <2>8 DEF SendClone, VectorIsCloned
<1>12. ASSUME NEW k \in Attempts, CloneEnds(k) PROVE VectorIsCloned'
  <2>1. /\ UNCHANGED <<queue, mode, items, open, ended, channel, received>>
        /\ binder' = [binder EXCEPT ![k] = "done"]
        /\ Len(Taken(k)) = Len(items) \/ k \notin open
    BY <1>12 DEF CloneEnds
  <2>2. \A j \in Attempts : Taken(j)' = Taken(j)
    BY <2>1 DEF Taken
  <2>3. Len(items) = SendsEach
    BY <1>12, UptoIsSeq, ConstantsAssumption
       DEF ConstantsAssumption, CloneEnds, VectorIsCloned
  <2> QED
    BY <1>12, <2>1, <2>2, <2>3 DEF CloneEnds, VectorIsCloned, TypeOK
<1>13. ASSUME NEW k \in Attempts, BindLock(k) PROVE VectorIsCloned'
  BY <1>13 DEF BindLock, VectorIsCloned
<1>14. ASSUME NEW k \in Attempts, DrainItem(k) PROVE VectorIsCloned'
  BY <1>14 DEF DrainItem, Holds, VectorIsCloned
<1>15. ASSUME NEW k \in Attempts, DrainFails(k) PROVE VectorIsCloned'
  BY <1>15 DEF DrainFails, Holds, VectorIsCloned
<1>16. ASSUME NEW k \in Attempts, DrainEnds(k) PROVE VectorIsCloned'
  BY <1>16 DEF DrainEnds, Holds, VectorIsCloned
<1>17. ASSUME NEW k \in Attempts, Bind(k) PROVE VectorIsCloned'
  BY <1>17 DEF Bind, Holds, VectorIsCloned
<1>18. ASSUME NEW k \in Attempts, DropReceiver(k) PROVE VectorIsCloned'
  BY <1>18, CloneDropped DEF DropReceiver
<1>19. ASSUME NEW k \in Attempts, Receive(k) PROVE VectorIsCloned'
  BY <1>19, CloneIdle, TakenIsRead DEF Receive
<1>20. ASSUME NEW k \in Attempts, ReceiveEnd(k) PROVE VectorIsCloned'
  <2>1. k <= cur
    <3>1. ~(k > cur)
      BY <1>20 DEF ReceiveEnd, AttemptsInOrder
    <3> QED
      BY <3>1 DEF Attempts, TypeOK
  <2>2. binder[k] \notin {"none", "spawned", "binding"}
    BY <1>20, <2>1 DEF ReceiveEnd, HasSender, AttemptsInOrder
  <2>3. binder[k] = "done"
    BY <2>2 DEF TypeOK
  <2> QED
    BY <1>20, <2>3 DEF ReceiveEnd, Taken, VectorIsCloned
<1>21. CASE StartAttempt
  <2>1. cur + 1 \in Attempts
    BY <1>21, NextAttempt
  <2> QED
    BY <1>21, <2>1, CloneIdle DEF StartAttempt, Taken, TypeOK
<1>22. CASE ReaderTimeout
  BY <1>22, CloneDropped DEF ReaderTimeout, TypeOK
<1>23. CASE AttemptFails
  BY <1>23, CloneIdle DEF AttemptFails, Taken
<1>24. CASE AttemptSucceeds
  BY <1>24, CloneIdle DEF AttemptSucceeds, Taken
<1> QED
  BY <1>0, <1>1, <1>2, <1>3, <1>4, <1>5, <1>6, <1>7, <1>8, <1>9, <1>10, <1>11, <1>12,
     <1>13, <1>14, <1>15, <1>16, <1>17, <1>18, <1>19, <1>20, <1>21, <1>22, <1>23, <1>24,
        NextCases

-----------------------------------------------------------------------------
(* The inductive invariant.                                                *)

LEMMA InitIInv == Init => IInv
<1> SUFFICES ASSUME Init PROVE IInv
  OBVIOUS
<1> USE ConstantsAssumption DEF ConstantsAssumption
<1>1. Upto(SendsEach) \in Seq(Nat) /\ Len(Upto(SendsEach)) = SendsEach
  BY UptoIsSeq
<1>2. items \in Seq(Nat)
  BY <1>1 DEF Init
<1>3. TypeOK
  <2>1. /\ channel \in [Attempts -> Seq(Nat)] /\ received \in [Attempts -> Seq(Nat)]
        /\ \A k \in Attempts : Len(channel[k]) <= ChannelSize
    BY DEF Init
  <2>2. /\ todo \in [Producers -> 0 .. SendsEach] /\ cur \in 0 .. MaxAttempts
        /\ queue \in Seq(Producers \union Attempts)
    BY DEF Init
  <2> QED
    BY <1>2, <2>1, <2>2 DEF Init, TypeOK
<1>4. \A k \in Attempts : received[k] = <<>> /\ channel[k] = <<>> /\ binder[k] = "none"
  BY DEF Init
<1>5. \A k \in Attempts : Taken(k) = <<>>
  BY <1>4 DEF Taken
<1>6. QueueDiscipline
  BY DEF Init, QueueDiscipline
<1>7. AttemptsInOrder
  BY <1>4 DEF Init, AttemptsInOrder, Attempts
<1>8. EndsAreLast /\ ModeIsKept
  BY <1>4 DEF Init, EndsAreLast, ModeIsKept
<1>9. ASSUME mode # "vector" PROVE items = <<>> /\ sends = 0 /\ Unbuffered = 0
  <2>1. items = <<>> /\ sends = 0 /\ Len(items) = 0
    BY <1>9, EmptySeq DEF Init
  <2>2. Unbuffered = 0 - 0
    BY <2>1 DEF Unbuffered
  <2> QED
    BY <2>1, <2>2
<1>10. TakenInRuns
  BY <1>4, <1>5, <1>9 DEF TakenInRuns, BufferIsLast, TakenBefore, TakesTheNext,
                          OnlyHolderDrains, NothingTakenTwice
<1>11. FirstIsWhole
  <2>1. 1 \in Attempts /\ 1 \notin ended
    BY DEF Init, Attempts
  <2> QED
    BY <1>5, <1>9, <2>1 DEF FirstIsWhole
<1>12. ProducersCount
  BY DEF Init, ProducersCount
<1>13. VectorIsCloned
  BY <1>4, <1>5 DEF Init, VectorIsCloned
<1> QED
  BY <1>3, <1>6, <1>7, <1>8, <1>10, <1>11, <1>12, <1>13 DEF IInv

LEMMA StepIInv == IInv /\ [Next]_vars => IInv'
<1> SUFFICES ASSUME IInv, [Next]_vars PROVE IInv'
  OBVIOUS
<1>1. TypeOK'
  BY TypeStep DEF IInv
<1>2. QueueDiscipline'
  BY QueueStep DEF IInv
<1>3. AttemptsInOrder'
  BY AttemptsStep DEF IInv
<1>4. EndsAreLast'
  BY EndsStep DEF IInv
<1>5. ModeIsKept'
  BY ModeStep DEF IInv
<1>6. ProducersCount'
  BY ProducersStep DEF IInv
<1>7. TakenInRuns'
  BY <1>1, RunsStep DEF TakenInRuns
<1>8. FirstIsWhole'
  BY FirstStep DEF FirstIsWhole
<1>9. VectorIsCloned'
  BY CloneStep DEF VectorIsCloned
<1> QED
  BY <1>1, <1>2, <1>3, <1>4, <1>5, <1>6, <1>7, <1>8, <1>9 DEF IInv

(* Every reachable state of the stream is one that the invariant describes. *)
THEOREM StreamInvariant == Spec => []IInv
<1>1. Init => IInv
  BY InitIInv
<1>2. IInv /\ [Next]_vars => IInv'
  BY StepIInv
<1> QED
  BY <1>1, <1>2, PTL DEF Spec

(* Variables have their types, and no channel gets longer than its size. *)
THEOREM StreamTypes == Spec => []TypeOK
<1>1. IInv => TypeOK
  BY DEF IInv
<1> QED
  BY <1>1, StreamInvariant, PTL

-----------------------------------------------------------------------------
(* The safety properties.                                                  *)

(* A sequence that counts from one is known by its length. *)
LEMMA Counts ==
  ASSUME NEW n \in Nat, NEW s \in Seq(Nat), Len(s) = n, \A i \in 1 .. n : s[i] = i
  PROVE  s = Upto(n)
BY UptoIsSeq, SeqEqual

(* However sends, drops and the drain of the buffer interleave, the first  *)
(* attempt has or will get every item in its place, while its server reads. *)
THEOREM FirstAttemptIsComplete == Spec => []FirstAttemptLosesNothing
<1>1. ASSUME IInv, mode # "vector",
             cur = 0 \/ (cur = 1 /\ outcome \in {"running", "ok"} /\ 1 \in open)
      PROVE  received[1] \o channel[1] \o items = Upto(sends)
  <2>1. ~FirstIsLeft
    BY <1>1 DEF FirstIsLeft, IInv, AttemptsInOrder, TypeOK
  <2>2. 1 \in Attempts
    BY ConstantsAssumption DEF ConstantsAssumption, Attempts
  <2>3. /\ Taken(1) \in Seq(Nat) /\ items \in Seq(Nat) /\ sends \in Nat
        /\ Len(items) \in Nat
    BY <1>1, <2>2, TakenType DEF IInv, TypeOK
  <2>4. /\ Len(Taken(1)) = Unbuffered
        /\ \A i \in 1 .. Len(Taken(1)) : Taken(1)[i] = i
        /\ \A i \in 1 .. Len(items) : items[i] = Unbuffered + i
    BY <1>1, <2>1 DEF IInv, FirstIsWhole, TakenInRuns, BufferIsLast
  <2> DEFINE all == Taken(1) \o items
  <2>5. /\ all \in Seq(Nat) /\ Len(all) = Unbuffered + Len(items)
        /\ \A i \in 1 .. Unbuffered : all[i] = Taken(1)[i]
        /\ \A i \in 1 .. Len(items) : all[Unbuffered + i] = items[i]
    BY <2>3, <2>4, ConcatOfNats
  <2>6. Unbuffered \in Nat /\ sends = Unbuffered + Len(items)
    <3>1. Unbuffered = sends - Len(items) /\ Len(items) <= sends
      BY <1>1 DEF IInv, TakenInRuns, BufferIsLast, Unbuffered
    <3> QED
      BY <2>3, <3>1
  <2>7. ASSUME NEW i \in 1 .. sends PROVE all[i] = i
    <3>1. CASE i <= Unbuffered
      BY <2>4, <2>5, <2>6, <3>1
    <3>2. CASE ~(i <= Unbuffered)
      <4>1. i - Unbuffered \in 1 .. Len(items) /\ Unbuffered + (i - Unbuffered) = i
        BY <2>3, <2>6, <3>2
      <4> QED
        BY <2>4, <2>5, <4>1
    <3> QED
      BY <3>1, <3>2
  <2>8. all = Upto(sends)
    BY <2>3, <2>5, <2>6, <2>7, Counts
  <2> QED
    BY <2>8 DEF Taken
<1>2. IInv => FirstAttemptLosesNothing
  BY <1>1 DEF FirstAttemptLosesNothing
<1> QED
  BY <1>2, StreamInvariant, PTL

(* However late a binder runs, each attempt gets one run of the items, and *)
(* no two attempts get the same item.                                      *)
THEOREM AttemptsShareNothing == Spec => []AttemptsSplitTheStream
<1>1. ASSUME IInv, mode # "vector", NEW k \in Attempts,
             NEW i \in 1 .. Len(Taken(k)) - 1
      PROVE  Taken(k)[i + 1] = Taken(k)[i] + 1
  <2>1. Taken(k) \in Seq(Nat)
    BY <1>1, TakenType DEF IInv
  <2>2. 1 \in 1 .. Len(Taken(k)) /\ i \in 1 .. Len(Taken(k)) /\ i + 1 \in 1 .. Len(Taken(k))
    BY <2>1
  <2>3. /\ Taken(k)[i] = Taken(k)[1] + (i - 1)
        /\ Taken(k)[i + 1] = Taken(k)[1] + ((i + 1) - 1)
    BY <1>1, <2>2 DEF IInv, TakenInRuns, TakenBefore
  <2>4. Taken(k)[1] \in Nat
    BY <2>1, <2>2, ElementOfSeq
  <2> QED
    BY <2>3, <2>4
<1>2. ASSUME IInv, mode # "vector", NEW k \in Attempts, NEW j \in Attempts \ {k}
      PROVE  Elems(Taken(j)) \intersect Elems(Taken(k)) = {}
  <2>1. DOMAIN Taken(j) = 1 .. Len(Taken(j)) /\ DOMAIN Taken(k) = 1 .. Len(Taken(k))
    BY <1>2, TakenType, LenProperties DEF IInv
  <2> QED
    BY <1>2, <2>1 DEF Elems, IInv, TakenInRuns, NothingTakenTwice
<1>3. IInv => AttemptsSplitTheStream
  BY <1>1, <1>2 DEF AttemptsSplitTheStream
<1> QED
  BY <1>3, StreamInvariant, PTL

(* One producer is the only one that was ever created. *)
LEMMA SoleProducer ==
  ASSUME Cardinality(Created) = 1
  PROVE  \E p \in Producers : Created = {p}
<1>1. IsFiniteSet(Created)
  BY ConstantsAssumption, FS_Subset DEF ConstantsAssumption, Created
<1>2. \E p : Created = {p}
  BY <1>1, FS_Singleton
<1> QED
  BY <1>2 DEF Created

(* What an attempt took is what its server read, once it has read the end. *)
LEMMA EndedIsRead ==
  ASSUME TypeOK, EndsAreLast, NEW k \in ended
  PROVE  /\ k \in Attempts /\ Taken(k) = received[k]
         /\ received[k] \in Seq(Nat)
<1>1. k \in Attempts /\ received[k] \in Seq(Nat) /\ channel[k] = <<>>
  BY DEF TypeOK, EndsAreLast
<1> QED
  BY <1>1, ConcatEmptySeq DEF Taken

(* The end of the first attempt comes after the last item of its producer, *)
(* whether the producer was dropped before, during or after the drain.     *)
THEOREM FirstEndIsTheEnd == Spec => []FirstEndIsWhole
<1>1. ASSUME IInv, mode # "vector", Cardinality(Created) = 1, cur = 1,
             outcome \in {"running", "ok"}, 1 \in ended
      PROVE  received[1] = Upto(SendsEach)
  <2>1. ~FirstIsLeft
    BY <1>1 DEF FirstIsLeft
  <2>2. StreamIsOver /\ Len(Taken(1)) = Unbuffered /\ \A i \in 1 .. Len(Taken(1)) : Taken(1)[i] = i
    BY <1>1, <2>1 DEF IInv, FirstIsWhole
  <2>3. items = <<>> /\ sends \in Nat /\ Unbuffered = sends
    BY <1>1, <2>2 DEF IInv, StreamIsOver, ModeIsKept, Unbuffered, TypeOK
  <2>4. PICK p \in Producers : Created = {p}
    BY <1>1, SoleProducer
  <2>5. producer[p] = "gone"
    <3>1. producer[p] # "none"
      BY <2>4 DEF Created
    <3>2. CASE Owned
      BY <1>1, <2>2, <2>4, <3>2 DEF IInv, StreamIsOver, ProducersCount, Created
    <3>3. CASE ~Owned
      BY <2>4, <3>1, <3>3, SenderOwns DEF Created
    <3> QED
      BY <3>2, <3>3
  <2>6. sends = SendsEach
    <3>1. todo[p] = 0 /\ sends + todo[p] = SendsEach
      BY <1>1, <2>4, <2>5 DEF IInv, ProducersCount
    <3> QED
      BY <2>3, <3>1
  <2>7. Taken(1) = received[1] /\ received[1] \in Seq(Nat)
    BY <1>1, EndedIsRead DEF IInv
  <2> QED
    BY <2>2, <2>3, <2>6, <2>7, Counts
<1>2. IInv => FirstEndIsWhole
  BY <1>1 DEF FirstEndIsWhole
<1> QED
  BY <1>2, StreamInvariant, PTL

(* A send panics only after another producer has ended the stream. *)
THEOREM SoleProducerIsSafe == Spec => []SoleProducerNeverPanics
<1>1. ASSUME IInv, mode # "vector", Cardinality(Created) = 1 PROVE panicked = {}
  BY <1>1, SoleProducer DEF IInv, ProducersCount
<1>2. IInv => SoleProducerNeverPanics
  BY <1>1 DEF SoleProducerNeverPanics
<1> QED
  BY <1>2, StreamInvariant, PTL

(* Every attempt that ends a vector has brought all of it. *)
THEOREM VectorEndIsTheEnd == Spec => []VectorEndIsWhole
<1>1. ASSUME IInv, mode = "vector", NEW k \in ended PROVE received[k] = Upto(SendsEach)
  <2>1. k \in Attempts /\ Taken(k) = received[k] /\ received[k] \in Seq(Nat)
    BY <1>1, EndedIsRead DEF IInv
  <2>2. Len(Taken(k)) = SendsEach /\ \A i \in 1 .. Len(Taken(k)) : Taken(k)[i] = i
    BY <1>1, <2>1 DEF IInv, VectorIsCloned
  <2> QED
    BY <2>1, <2>2, Counts, ConstantsAssumption DEF ConstantsAssumption
<1>2. IInv => VectorEndIsWhole
  BY <1>1 DEF VectorEndIsWhole
<1> QED
  BY <1>2, StreamInvariant, PTL

-----------------------------------------------------------------------------
(* The refinement: the first attempt is a stream that StreamDelivery allows. *)

LEMMA InitDelivery ==
  ASSUME Init
  PROVE  Delivery!Init
<1>1. ~FirstIsLeft /\ 1 \notin ended
  BY DEF Init, FirstIsLeft
<1>2. SentItems \in Seq(Nat)
  BY UptoIsSeq, ConstantsAssumption DEF ConstantsAssumption, Init, SentItems
<1>3. Delivered = <<>>
  BY <1>1, ConstantsAssumption DEF ConstantsAssumption, Attempts, Init, Delivered
<1> QED
  BY <1>1, <1>2, <1>3 DEF Delivery!Init, Phase

(* A step that sends nothing and in which the server of the first attempt  *)
(* reads nothing stutters, or leaves the attempt.                          *)
LEMMA DeliveryStutters ==
  ASSUME FirstIsLeft => FirstIsLeft', SentItems' = SentItems,
         received'[1] = received[1], 1 \in ended' <=> 1 \in ended
  PROVE  [Delivery!Next]_(Delivery!vars)
<1>1. CASE FirstIsLeft' /\ ~FirstIsLeft
  BY <1>1 DEF Delivery!Next, Delivery!Leave, Phase, Delivered
<1>2. CASE FirstIsLeft'  /\ FirstIsLeft
  BY <1>2 DEF Delivery!vars, Phase, Delivered
<1>3. CASE ~FirstIsLeft' /\ ~FirstIsLeft
  BY <1>3 DEF Delivery!vars, Phase, Delivered
<1> QED
  BY <1>1, <1>2, <1>3

(* No send comes after the end of the first attempt. *)
LEMMA DeliverySends ==
  ASSUME IInv, mode # "vector", ~StreamIsOver,
         UNCHANGED <<mode, cur, outcome, open, received, ended>>, sends' = sends + 1
  PROVE  [Delivery!Next]_(Delivery!vars)
<1>1. sends \in Nat /\ SentItems = Upto(sends) /\ SentItems' = Upto(sends + 1)
  BY DEF IInv, TypeOK, SentItems
<1>2. sends + 1 \in Nat
  BY <1>1
<1>3. /\ SentItems \in Seq(Nat) /\ Len(SentItems) = sends
      /\ \A i \in 1 .. sends : SentItems[i] = i
  BY <1>1, UptoIsSeq
<1>4. /\ SentItems' \in Seq(Nat) /\ Len(SentItems') = sends + 1
      /\ \A i \in 1 .. sends + 1 : SentItems'[i] = i
  BY <1>1, <1>2, UptoIsSeq
<1>5. SentItems' = Append(SentItems, sends + 1)
  <2>1. /\ Append(SentItems, sends + 1) \in Seq(Nat)
        /\ Len(Append(SentItems, sends + 1)) = sends + 1
        /\ \A i \in 1 .. sends : Append(SentItems, sends + 1)[i] = i
        /\ Append(SentItems, sends + 1)[sends + 1] = sends + 1
    BY <1>2, <1>3, AppendProperties
  <2>2. \A i \in 1 .. sends + 1 : Append(SentItems, sends + 1)[i] = i
    BY <1>1, <2>1
  <2> QED
    BY <1>1, <1>2, <2>1, <2>2, Counts
<1>6. /\ Len(SentItems') = Len(SentItems) + 1 /\ SentItems'[Len(SentItems')] = sends + 1
  BY <1>1, <1>3, <1>4
<1>7. FirstIsLeft' <=> FirstIsLeft
  BY DEF FirstIsLeft
<1>8. Phase # "ended" /\ Phase' = Phase /\ Delivered' = Delivered
  BY <1>7 DEF Phase, Delivered, IInv, FirstIsWhole
<1> QED
  BY <1>2, <1>5, <1>6, <1>8 DEF Delivery!Next, Delivery!Send

(* The first attempt has a beginning of what is sent. *)
LEMMA FirstTakesWhatIsSent ==
  ASSUME IInv, ~FirstIsLeft
  PROVE  /\ 1 \in Attempts /\ Taken(1) \in Seq(Nat) /\ SentItems \in Seq(Nat)
         /\ Len(Taken(1)) <= Len(SentItems)
         /\ \A i \in 1 .. Len(Taken(1)) : Taken(1)[i] = i
         /\ \A i \in 1 .. Len(SentItems) : SentItems[i] = i
<1>1. 1 \in Attempts /\ SendsEach \in Nat
  BY ConstantsAssumption DEF ConstantsAssumption, Attempts
<1>2. Taken(1) \in Seq(Nat)
  BY <1>1, TakenType DEF IInv
<1>3. CASE mode = "vector"
  <2>1. SentItems = Upto(SendsEach)
    BY <1>3 DEF IInv, VectorIsCloned, SentItems
  <2>2. Len(Taken(1)) <= SendsEach /\ \A i \in 1 .. Len(Taken(1)) : Taken(1)[i] = i
    BY <1>1, <1>3 DEF IInv, VectorIsCloned
  <2> QED
    BY <1>1, <1>2, <2>1, <2>2, UptoIsSeq
<1>4. CASE mode # "vector"
  <2>1. SentItems = Upto(sends) /\ sends \in Nat
    BY <1>4 DEF IInv, TypeOK, SentItems
  <2>2. Len(Taken(1)) = Unbuffered /\ \A i \in 1 .. Len(Taken(1)) : Taken(1)[i] = i
    BY <1>4 DEF IInv, FirstIsWhole
  <2>3. Unbuffered <= sends
    BY <1>4 DEF IInv, TakenInRuns, BufferIsLast, Unbuffered, TypeOK
  <2> QED
    BY <1>1, <1>2, <2>1, <2>2, <2>3, UptoIsSeq
<1> QED
  BY <1>3, <1>4

(* What the server reads next is what was sent next. *)
LEMMA DeliveryDelivers ==
  ASSUME IInv, Receive(1), ~FirstIsLeft
  PROVE  [Delivery!Next]_(Delivery!vars)
<1>1. /\ 1 \in Attempts /\ Taken(1) \in Seq(Nat) /\ SentItems \in Seq(Nat)
      /\ Len(Taken(1)) <= Len(SentItems)
      /\ \A i \in 1 .. Len(Taken(1)) : Taken(1)[i] = i
      /\ \A i \in 1 .. Len(SentItems) : SentItems[i] = i
  BY FirstTakesWhatIsSent
<1>2. /\ channel \in [Attempts -> Seq(Nat)] /\ received \in [Attempts -> Seq(Nat)]
      /\ channel[1] # <<>> /\ received'[1] = Append(received[1], Head(channel[1]))
  BY <1>1 DEF Receive, IInv, TypeOK
<1>3. 1 \in 1 .. Len(channel[1]) /\ Head(channel[1]) = channel[1][1]
  BY <1>1, <1>2, EmptySeq
<1>4. Head(channel[1]) = Taken(1)[Len(received[1]) + 1]
  BY <1>1, <1>3, TakenType DEF IInv
<1>5. /\ Len(received[1]) + 1 \in 1 .. Len(Taken(1))
      /\ Len(received[1]) + 1 \in 1 .. Len(SentItems)
      /\ Len(received[1]) < Len(SentItems)
  <2>1. /\ Len(Taken(1)) = Len(received[1]) + Len(channel[1])
        /\ Len(received[1]) \in Nat /\ Len(channel[1]) \in Nat
    BY <1>1, TakenType DEF IInv
  <2>2. /\ Len(Taken(1)) \in Nat /\ Len(SentItems) \in Nat
    BY <1>1
  <2>3. Len(channel[1]) > 0
    BY <1>3, <2>1
  <2>4. \A r, c, t, s \in Nat : t = r + c /\ c > 0 /\ t <= s
                               => r + 1 \in 1 .. t /\ r + 1 \in 1 .. s /\ r < s
    OBVIOUS
  <2> QED
    BY <1>1, <2>1, <2>2, <2>3, <2>4
<1>6. Head(channel[1]) = SentItems[Len(received[1]) + 1]
  BY <1>1, <1>4, <1>5
<1>7. 1 \notin ended
  BY <1>2 DEF IInv, EndsAreLast
<1>8. /\ FirstIsLeft' <=> FirstIsLeft
      /\ SentItems' = SentItems /\ ended' = ended
  BY DEF Receive, FirstIsLeft, SentItems, innerVars
<1> QED
  BY <1>2, <1>5, <1>6, <1>7, <1>8
     DEF Delivery!Next, Delivery!Deliver, Phase, Delivered

(* The end is read when all has been read that was and will be sent. *)
LEMMA DeliveryEnds ==
  ASSUME IInv, IInv', ReceiveEnd(1), ~FirstIsLeft
  PROVE  [Delivery!Next]_(Delivery!vars)
<1>1. /\ 1 \notin ended /\ 1 \in ended' /\ cur = 1 /\ outcome \in {"running", "ok"}
      /\ UNCHANGED <<mode, items, sends, received, cur, outcome, open>>
  BY FirstIsAlone DEF ReceiveEnd, IInv, innerVars
<1>2. ~FirstIsLeft' /\ SentItems' = SentItems
  BY <1>1 DEF FirstIsLeft, SentItems
<1>3. Taken(1)' = received[1] /\ received[1] \in Seq(Nat)
  <2>1. 1 \in Attempts /\ channel'[1] = <<>> /\ received'[1] = received[1]
    BY <1>1 DEF ReceiveEnd, IInv, TypeOK
  <2>2. received[1] \in Seq(Nat)
    BY <2>1 DEF IInv, TypeOK
  <2> QED
    BY <2>1, <2>2, ConcatEmptySeq DEF Taken
<1>4. received[1] = SentItems
  <2>1. CASE mode = "vector"
    <3>1. /\ Len(Taken(1)') = SendsEach /\ \A i \in 1 .. Len(Taken(1)') : Taken(1)'[i] = i
      BY <1>1, <2>1 DEF IInv, VectorIsCloned, TypeOK
    <3>2. SentItems = Upto(SendsEach)
      BY <2>1 DEF IInv, VectorIsCloned, SentItems
    <3> QED
      BY <1>3, <3>1, <3>2, Counts, ConstantsAssumption DEF ConstantsAssumption
  <2>2. CASE mode # "vector"
    <3>1. /\ StreamIsOver' /\ Len(Taken(1)') = Unbuffered'
          /\ \A i \in 1 .. Len(Taken(1)') : Taken(1)'[i] = i
      BY <1>1, <1>2, <2>2 DEF IInv, FirstIsWhole
    <3>2. items' = <<>> /\ Unbuffered' = sends /\ sends \in Nat
      BY <1>1, <3>1, SMTT(30) DEF IInv, StreamIsOver, ModeIsKept, Unbuffered, TypeOK
    <3> QED
      BY <1>3, <2>2, <3>1, <3>2, Counts DEF SentItems
  <2> QED
    BY <2>1, <2>2
<1> QED
  BY <1>1, <1>2, <1>4 DEF Delivery!Next, Delivery!End, Phase, Delivered

(* Every step is one that StreamDelivery allows, or none of its steps. *)
LEMMA StepDelivery ==
  ASSUME IInv, IInv', [Next]_vars
  PROVE  [Delivery!Next]_(Delivery!vars)
<1> USE DEF innerVars, attemptVars
<1>a. FirstIsLeft => FirstIsLeft'
  BY LeftForGood DEF IInv
<1>0. CASE UNCHANGED vars
  BY <1>0, <1>a, DeliveryStutters DEF vars, SentItems
<1>1. ASSUME NEW p \in Producers, GetProducer(p) PROVE [Delivery!Next]_(Delivery!vars)
  BY <1>1, <1>a, DeliveryStutters DEF GetProducer, SentItems
<1>2. ASSUME NEW p \in Producers, CallSend(p) PROVE [Delivery!Next]_(Delivery!vars)
  BY <1>2, <1>a, DeliveryStutters DEF CallSend, SentItems
<1>3. ASSUME NEW p \in Producers, SendBuffers(p) PROVE [Delivery!Next]_(Delivery!vars)
  BY <1>3, DeliverySends DEF SendBuffers, SendReturns, StreamIsOver
<1>4. ASSUME NEW p \in Producers, SendToChannel(p) PROVE [Delivery!Next]_(Delivery!vars)
  <2>1. sender \in Attempts /\ mode = "bound" /\ sender # NoSender
    BY <1>4, ConstantsAssumption DEF ConstantsAssumption, SendToChannel, IInv, ModeIsKept,
       TypeOK
  <2> QED
    BY <1>4, <2>1, SenderOwns, DeliverySends DEF SendToChannel, SendReturns, StreamIsOver
<1>5. ASSUME NEW p \in Producers, SendLost(p) PROVE [Delivery!Next]_(Delivery!vars)
  <2>1. sender \in Attempts /\ mode = "bound" /\ sender # NoSender
    BY <1>5, ConstantsAssumption DEF ConstantsAssumption, SendLost, IInv, ModeIsKept, TypeOK
  <2> QED
    BY <1>5, <2>1, SenderOwns, DeliverySends DEF SendLost, SendReturns, StreamIsOver
<1>6. ASSUME NEW p \in Producers, SendPanics(p) PROVE [Delivery!Next]_(Delivery!vars)
  BY <1>6, <1>a, DeliveryStutters DEF SendPanics, SentItems
<1>7. ASSUME NEW p \in Producers, SendToVector(p) PROVE [Delivery!Next]_(Delivery!vars)
  BY <1>7, <1>a, DeliveryStutters DEF SendToVector, SentItems
<1>8. ASSUME NEW p \in Producers, DropProducer(p) PROVE [Delivery!Next]_(Delivery!vars)
  BY <1>8, <1>a, DeliveryStutters DEF DropProducer, SentItems
<1>9. ASSUME NEW p \in Producers, DropVectorProducer(p) PROVE
   [Delivery!Next]_(Delivery!vars)
  BY <1>9, <1>a, DeliveryStutters DEF DropVectorProducer, SentItems
<1>10. ASSUME NEW p \in Producers, SendEof(p) PROVE [Delivery!Next]_(Delivery!vars)
  BY <1>10, <1>a, DeliveryStutters DEF SendEof, SentItems
<1>11. ASSUME NEW k \in Attempts, SendClone(k) PROVE [Delivery!Next]_(Delivery!vars)
  BY <1>11, <1>a, DeliveryStutters DEF SendClone, SentItems
<1>12. ASSUME NEW k \in Attempts, CloneEnds(k) PROVE [Delivery!Next]_(Delivery!vars)
  BY <1>12, <1>a, DeliveryStutters DEF CloneEnds, SentItems
<1>13. ASSUME NEW k \in Attempts, BindLock(k) PROVE [Delivery!Next]_(Delivery!vars)
  BY <1>13, <1>a, DeliveryStutters DEF BindLock, SentItems
<1>14. ASSUME NEW k \in Attempts, DrainItem(k) PROVE [Delivery!Next]_(Delivery!vars)
  BY <1>14, <1>a, DeliveryStutters DEF DrainItem, SentItems
<1>15. ASSUME NEW k \in Attempts, DrainFails(k) PROVE [Delivery!Next]_(Delivery!vars)
  BY <1>15, <1>a, DeliveryStutters DEF DrainFails, SentItems
<1>16. ASSUME NEW k \in Attempts, DrainEnds(k) PROVE [Delivery!Next]_(Delivery!vars)
  BY <1>16, <1>a, DeliveryStutters DEF DrainEnds, SentItems
<1>17. ASSUME NEW k \in Attempts, Bind(k) PROVE [Delivery!Next]_(Delivery!vars)
  <2>1. mode # "vector" /\ mode' # "vector" /\ UNCHANGED <<items, sends, received, ended>>
    BY <1>17 DEF Bind, Holds, IInv, VectorIsCloned
  <2> QED
    BY <1>a, <2>1, DeliveryStutters DEF SentItems
<1>18. ASSUME NEW k \in Attempts, DropReceiver(k) PROVE [Delivery!Next]_(Delivery!vars)
  BY <1>18, <1>a, DeliveryStutters DEF DropReceiver, SentItems
<1>19. ASSUME NEW k \in Attempts, Receive(k) PROVE [Delivery!Next]_(Delivery!vars)
  <2>1. CASE FirstIsLeft
    <3>1. FirstIsLeft' /\ SentItems' = SentItems
      BY <1>19, <1>a, <2>1 DEF Receive, SentItems
    <3> QED
      BY <2>1, <3>1 DEF Delivery!vars, Phase, Delivered
  <2>2. CASE ~FirstIsLeft
    <3>1. k = 1
      BY <1>19, <2>2, FirstIsAlone DEF Receive, IInv
    <3> QED
      BY <1>19, <2>2, <3>1, DeliveryDelivers
  <2> QED
    BY <2>1, <2>2
<1>20. ASSUME NEW k \in Attempts, ReceiveEnd(k) PROVE [Delivery!Next]_(Delivery!vars)
  <2>1. CASE FirstIsLeft
    <3>1. FirstIsLeft' /\ SentItems' = SentItems
      BY <1>20, <1>a, <2>1 DEF ReceiveEnd, SentItems
    <3> QED
      BY <2>1, <3>1 DEF Delivery!vars, Phase, Delivered
  <2>2. CASE ~FirstIsLeft
    <3>1. k = 1
      BY <1>20, <2>2, FirstIsAlone DEF ReceiveEnd, IInv
    <3> QED
      BY <1>20, <2>2, <3>1, DeliveryEnds
  <2> QED
    BY <2>1, <2>2
<1>21. CASE StartAttempt
  BY <1>21, <1>a, DeliveryStutters DEF StartAttempt, SentItems
<1>22. CASE ReaderTimeout
  BY <1>22, <1>a, DeliveryStutters DEF ReaderTimeout, SentItems
<1>23. CASE AttemptFails
  BY <1>23, <1>a, DeliveryStutters DEF AttemptFails, SentItems
<1>24. CASE AttemptSucceeds
  BY <1>24, <1>a, DeliveryStutters DEF AttemptSucceeds, SentItems
<1> QED
  BY <1>0, <1>1, <1>2, <1>3, <1>4, <1>5, <1>6, <1>7, <1>8, <1>9, <1>10, <1>11, <1>12,
     <1>13, <1>14, <1>15, <1>16, <1>17, <1>18, <1>19, <1>20, <1>21, <1>22, <1>23, <1>24,
     NextCases

(* What the server of the first attempt reads is the stream as it was sent, *)
(* and its end is the end of the stream.                                    *)
THEOREM FirstAttemptDelivers == Spec => ImplementsStreamDelivery
<1>1. Init => Delivery!Init
  BY InitDelivery
<1>2. IInv /\ IInv' /\ [Next]_vars => [Delivery!Next]_(Delivery!vars)
  BY StepDelivery
<1> QED
  BY <1>1, <1>2, StreamInvariant, PTL DEF Spec, ImplementsStreamDelivery, Delivery!Spec
=============================================================================
