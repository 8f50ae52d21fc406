--------------------------- MODULE TelemetryProofs ---------------------------
(***************************************************************************)
(* Proofs about the telemetry of a chain of services, for chains of any    *)
(* length, contexts of any number of ids and any number of attempts: every *)
(* handler has the ids of the process that began, and the trace has one    *)
(* event for each execution that reported.                                 *)
(***************************************************************************)
EXTENDS Telemetry, FiniteSetTheorems, TLAPS

-----------------------------------------------------------------------------
(* What is read from a header that was written.                            *)

(* A joined list has the numbers at its odd places and commas between. *)
LEMMA JoinedPlaces ==
  ASSUME NEW ids \in Seq(Ids)
  PROVE  /\ Len(ids) \in Nat
         /\ DOMAIN Joined(ids) = 1 .. 2 * Len(ids) - 1
         /\ \A m \in 1 .. Len(ids) : Joined(ids)[2 * m - 1] = ids[m] /\ ids[m] \in Ids
         /\ \A m \in 1 .. Len(ids) - 1 : Joined(ids)[2 * m] = ","
<1> DEFINE n == Len(ids)
<1>1. n \in Nat /\ \A m \in 1 .. n : ids[m] \in Ids
  OBVIOUS
<1>2. Joined(ids) = [i \in 1 .. 2 * n - 1 |-> IF i % 2 = 1 THEN ids[(i + 1) \div 2] ELSE ","]
  BY DEF Joined
<1> HIDE DEF n
<1>3. ASSUME NEW m \in 1 .. n PROVE Joined(ids)[2 * m - 1] = ids[m]
  <2>1. 2 * m - 1 \in 1 .. 2 * n - 1 /\ (2 * m - 1) % 2 = 1 /\ ((2 * m - 1) + 1) \div 2 = m
    BY <1>1
  <2> QED
    BY <1>2, <2>1
<1>4. ASSUME NEW m \in 1 .. n - 1 PROVE Joined(ids)[2 * m] = ","
  <2>1. 2 * m \in 1 .. 2 * n - 1 /\ (2 * m) % 2 # 1
    BY <1>1
  <2> QED
    BY <1>2, <2>1
<1>5. DOMAIN Joined(ids) = 1 .. 2 * n - 1
  BY <1>2
<1> QED
  BY <1>1, <1>3, <1>4, <1>5 DEF n

OddPlaces(n) == {2 * m - 1 : m \in 1 .. n}

LEMMA OddPlacesCount ==
  ASSUME NEW n \in Nat
  PROVE  IsFiniteSet(OddPlaces(n)) /\ Cardinality(OddPlaces(n)) = n
<1> DEFINE f == [m \in 1 .. n |-> 2 * m - 1]
           S == 1 .. n
           T == OddPlaces(n)
<1>1. IsFiniteSet(S) /\ Cardinality(S) = n
  <2>1. 1 \in Int /\ n \in Int
    OBVIOUS
  <2>2. IsFiniteSet(1 .. n) /\ Cardinality(1 .. n) = IF 1 > n THEN 0 ELSE n - 1 + 1
    BY <2>1, FS_Interval
  <2> QED
    BY <2>2
<1>2. f \in Bijection(S, T)
  <2>1. f \in [S -> T]
    BY DEF OddPlaces
  <2>2. IsInjective(f)
    <3>1. \A a, b \in 1 .. n : 2 * a - 1 = 2 * b - 1 => a = b
      OBVIOUS
    <3> QED
      BY <3>1 DEF IsInjective
  <2>3. \A t \in T : \E m \in S : f[m] = t
    BY DEF OddPlaces
  <2> QED
    BY <2>1, <2>2, <2>3 DEF Bijection, Injection, Surjection
<1>3. ExistsBijection(S, T)
  BY <1>2 DEF ExistsBijection
<1> HIDE DEF S, T
<1>4. IsFiniteSet(T) /\ Cardinality(T) = Cardinality(S)
  BY <1>1, <1>3, FS_Bijection
<1> QED
  BY <1>1, <1>4 DEF T

(* The numbers of a list are found again. *)
LEMMA NumbersOfJoined ==
  ASSUME NEW ids \in Seq(Ids)
  PROVE  Numbers(Joined(ids)) = ids
<1> DEFINE n == Len(ids)
           value == Joined(ids)
           places == {i \in DOMAIN value : value[i] # ","}
           UpTo(i) == {j \in places : j <= i}
           Place(k) == CHOOSE i \in places : Cardinality({j \in places : j <= i}) = k
<1>1. /\ n \in Nat /\ DOMAIN value = 1 .. 2 * n - 1
      /\ \A m \in 1 .. n : value[2 * m - 1] = ids[m] /\ ids[m] \in Ids
      /\ \A m \in 1 .. n - 1 : value[2 * m] = ","
  BY JoinedPlaces
<1>0. n \in Nat
  OBVIOUS
<1> HIDE DEF value, n
<1>2. places = OddPlaces(n)
  <2>1. ASSUME NEW m \in 1 .. n PROVE 2 * m - 1 \in places
    <3>1. 2 * m - 1 \in 1 .. 2 * n - 1
      BY <1>0
    <3>2. value[2 * m - 1] # ","
      BY <1>1, ConstantsAssumption DEF ConstantsAssumption
    <3> QED
      BY <3>1, <3>2, <1>1
  <2>2. ASSUME NEW i \in places PROVE i \in OddPlaces(n)
    <3>0. i \in 1 .. 2 * n - 1
      BY <1>1
    <3>1. value[i] # ","
      OBVIOUS
    <3> HIDE DEF places
    <3>2. PICK m \in Int : i = 2 * m - 1 \/ i = 2 * m
      <4>1. (i + 1) \div 2 \in Int
            /\ (i = 2 * ((i + 1) \div 2) - 1 \/ i = 2 * ((i + 1) \div 2))
        BY <3>0, <1>0
      <4> QED
        BY <4>1
    <3>3. CASE i = 2 * m
      <4>1. m \in 1 .. n - 1
        BY <3>3, <3>0, <1>0
      <4> QED
        BY <4>1, <3>1, <3>3, <1>1
    <3>4. CASE i = 2 * m - 1
      <4>1. m \in 1 .. n
        BY <3>4, <3>0, <1>0
      <4> QED
        BY <4>1, <3>4 DEF OddPlaces
    <3> QED
      BY <3>2, <3>3, <3>4
  <2> QED
    BY <2>1, <2>2 DEF OddPlaces
<1>3. Cardinality(places) = n
  BY <1>1, <1>2, OddPlacesCount
<1> HIDE DEF places
<1>4. ASSUME NEW m \in 1 .. n PROVE Cardinality(UpTo(2 * m - 1)) = m
  <2>1. m \in Nat /\ \A k \in 1 .. n : 2 * k - 1 <= 2 * m - 1 <=> k \in 1 .. m
    BY <1>0
  <2>2. UpTo(2 * m - 1) = OddPlaces(m)
    <3>1. \A j \in UpTo(2 * m - 1) : j \in OddPlaces(m)
      BY <1>2, <2>1 DEF OddPlaces
    <3>2. ASSUME NEW k \in 1 .. m PROVE 2 * k - 1 \in UpTo(2 * m - 1)
      <4>1. k \in 1 .. n
        BY <1>0
      <4> QED
        BY <4>1, <1>2, <2>1 DEF OddPlaces
    <3> QED
      BY <3>1, <3>2 DEF OddPlaces
  <2> QED
    BY <2>1, <2>2, OddPlacesCount
<1>5. ASSUME NEW k \in 1 .. n PROVE Place(k) = 2 * k - 1
  <2>1. 2 * k - 1 \in places /\ Cardinality(UpTo(2 * k - 1)) = k
    BY <1>2, <1>4 DEF OddPlaces
  <2>2. ASSUME NEW i \in places, Cardinality(UpTo(i)) = k PROVE i = 2 * k - 1
    <3>1. PICK m \in 1 .. n : i = 2 * m - 1
      BY <1>2, <2>2 DEF OddPlaces
    <3>2. Cardinality(UpTo(2 * m - 1)) = m
      BY <1>4
    <3> QED
      BY <3>1, <3>2, <2>2
  <2> QED
    BY <2>1, <2>2
<1>6. Numbers(value) = [k \in 1 .. n |-> value[Place(k)]]
  BY <1>3 DEF Numbers, places
<1> HIDE DEF Place
<1>7. \A k \in 1 .. n : value[Place(k)] = ids[k]
  BY <1>1, <1>5
<1>8. ids = [k \in 1 .. n |-> ids[k]]
  BY DEF n
<1> QED
  BY <1>6, <1>7, <1>8 DEF value

LEMMA ContextsOfHeaders ==
  /\ \A id \in Ids : Single(id) \in Contexts /\ Single(id).ids = <<id>>
  /\ \A ids \in Seq(Ids) : Multiple(ids) \in Contexts /\ Multiple(ids).ids = ids
  /\ NoContext \in Contexts /\ NoContext.ids = <<>>
BY DEF Single, Multiple, NoContext, Context, Contexts

(***************************************************************************)
(* A handler that is called under a context has the ids of that context,   *)
(* in a context of a kind that get_telemetry may return.                   *)
(***************************************************************************)
LEMMA HeaderKeepsIds ==
  ASSUME NEW ctx \in Contexts
  PROVE  GetTelemetry(Header(ctx)) \in Contexts /\ GetTelemetry(Header(ctx)).ids = ctx.ids
<1>1. ASSUME NEW value
      PROVE  GetTelemetry({value}) = IF Contains(value, ",") THEN Multiple(Numbers(value))
                                     ELSE IF Len(value) = 1 THEN Single(value[1])
                                     ELSE NoContext
  <2>1. {value} # {} /\ (CHOOSE v \in {value} : TRUE) = value
    OBVIOUS
  <2> QED
    BY <2>1, Zenon DEF GetTelemetry
<1>2. ASSUME NEW id \in Ids
      PROVE  GetTelemetry({<<id>>}) = Single(id)
  <2>1. Len(<<id>>) = 1 /\ <<id>>[1] = id
    OBVIOUS
  <2>2. id # ","
    BY ConstantsAssumption DEF ConstantsAssumption
  <2>3. ~Contains(<<id>>, ",")
    <3>1. ASSUME NEW i \in 1 .. Len(<<id>>) PROVE <<id>>[i] # ","
      <4>1. i = 1
        BY <2>1
      <4> QED
        BY <4>1, <2>1, <2>2
    <3> QED
      BY <3>1, Zenon DEF Contains
  <2> QED
    BY <1>1, <2>1, <2>3
<1>3. CASE ctx.is = "Single"
  <2>1. PICK id \in Ids : ctx.ids = <<id>>
    BY <1>3 DEF Contexts, NoContext, Context
  <2>2. GetTelemetry(Header(ctx)) = Single(id)
    BY <1>2, <1>3, <2>1 DEF Header
  <2> QED
    BY <2>1, <2>2, ContextsOfHeaders
<1>4. CASE ctx.is = "Multiple"
  <2> DEFINE ids == ctx.ids
             n == Len(ids)
             value == Joined(ids)
  <2>1. ids \in Seq(Ids) /\ n \in Nat
    BY <1>4 DEF Contexts, NoContext, Context
  <2>2. Header(ctx) = {value}
    BY <1>4 DEF Header
  <2>3. /\ DOMAIN value = 1 .. 2 * n - 1
        /\ \A m \in 1 .. n : value[2 * m - 1] = ids[m] /\ ids[m] \in Ids
        /\ \A m \in 1 .. n - 1 : value[2 * m] = ","
    BY <2>1, JoinedPlaces
  <2>4. value = [i \in 1 .. 2 * n - 1 |-> value[i]]
    BY DEF Joined
  <2> HIDE DEF value, n
  <2>5. CASE n = 0
    <3>1. ids = <<>> /\ value = <<>>
      BY <2>1, <2>4, <2>5 DEF n
    <3>2. ~Contains(value, ",") /\ Len(value) # 1
      BY <3>1 DEF Contains
    <3>3. GetTelemetry({value}) = NoContext
      BY <1>1, <3>2
    <3> QED
      BY <2>2, <3>1, <3>3, ContextsOfHeaders
  <2>6. CASE n = 1
    <3>1. value = <<ids[1]>> /\ ids = <<ids[1]>> /\ ids[1] \in Ids
      BY <2>1, <2>3, <2>4, <2>6 DEF n
    <3>2. GetTelemetry({value}) = Single(ids[1])
      BY <1>2, <3>1
    <3> QED
      BY <2>2, <3>1, <3>2, ContextsOfHeaders
  <2>7. CASE n > 1
    <3>1. Len(value) = 2 * n - 1
      <4> DEFINE k == 2 * n - 1
                 V == {value[i] : i \in 1 .. k}
      <4>1. k \in Nat
        BY <2>1, <2>7
      <4>2. value = [i \in 1 .. k |-> value[i]] /\ \A i \in 1 .. k : value[i] \in V
        BY <2>4
      <4> HIDE DEF k, V
      <4>3. value \in Seq(V) /\ Len(value) = k
        BY <4>1, <4>2
      <4> QED
        BY <4>3 DEF k
    <3>2. 2 \in 1 .. 2 * n - 1 /\ value[2] = ","
      <4>1. 1 \in 1 .. n - 1 /\ 2 \in 1 .. 2 * n - 1 /\ 2 * 1 = 2
        BY <2>1, <2>7
      <4> QED
        BY <2>3, <4>1
    <3>3. Contains(value, ",")
      BY <3>1, <3>2 DEF Contains
    <3>4. GetTelemetry({value}) = Multiple(ids)
      BY <1>1, <2>1, <3>3, NumbersOfJoined DEF value
    <3> QED
      BY <2>1, <2>2, <3>4, ContextsOfHeaders
  <2>8. n = 0 \/ n = 1 \/ n > 1
    BY <2>1
  <2> QED
    BY <2>5, <2>6, <2>7, <2>8
<1>5. CASE ctx.is = "Empty"
  <2>1. ctx = NoContext
    BY <1>5 DEF Contexts
  <2>2. GetTelemetry(Header(ctx)) = NoContext
    BY <1>5 DEF Header, GetTelemetry
  <2> QED
    BY <2>1, <2>2 DEF Contexts
<1> QED
  BY <1>3, <1>4, <1>5 DEF Contexts, NoContext, Context

-----------------------------------------------------------------------------
(* The chain of services.                                                  *)

LEMMA Bounds == Depth \in Nat /\ MaxAttempts \in Nat
BY ConstantsAssumption DEF ConstantsAssumption

Executions == [hop : 0 .. Depth, ctx : Contexts, state : States, attempts : 0 .. MaxAttempts]

(* A bag that one element more, or one less, is in. *)
LEMMA OneMore ==
  ASSUME NEW bag, IsABag(bag), NEW new
  PROVE  /\ IsABag(bag (+) One(new))
         /\ BagToSet(bag (+) One(new)) = BagToSet(bag) \union {new}
         /\ \A element : Copies(element, bag (+) One(new))
                           = IF element = new THEN Copies(element, bag) + 1 ELSE Copies(element, bag)
<1> DEFINE more == bag (+) One(new)
<1>1. /\ DOMAIN more = DOMAIN bag \union {new}
      /\ \A e \in DOMAIN bag : bag[e] \in Nat /\ bag[e] > 0
  BY DEF IsABag, One, SetToBag, (+)
<1>2. ASSUME NEW e \in DOMAIN bag, e # new PROVE more[e] = bag[e]
  BY <1>1, <1>2 DEF One, SetToBag, (+)
<1>3. more[new] = IF new \in DOMAIN bag THEN bag[new] + 1 ELSE 1
  BY <1>1 DEF One, SetToBag, (+)
<1>4. IsABag(more)
  <2>1. more = [e \in DOMAIN more |-> more[e]]
    BY DEF (+)
  <2>2. ASSUME NEW e \in DOMAIN more PROVE more[e] \in {n \in Nat : n > 0}
    <3> HIDE DEF more
    <3> QED
      BY <1>1, <1>2, <1>3
  <2> HIDE DEF more
  <2> QED
    BY <2>1, <2>2 DEF IsABag
<1> HIDE DEF more
<1>5. ASSUME NEW e
      PROVE  Copies(e, more) = IF e = new THEN Copies(e, bag) + 1 ELSE Copies(e, bag)
  BY <1>1, <1>2, <1>3 DEF Copies, BagIn, BagToSet
<1> QED
  BY <1>1, <1>4, <1>5 DEF more, BagToSet

LEMMA OneLess ==
  ASSUME NEW bag, IsABag(bag), NEW gone
  PROVE  /\ IsABag(bag (-) One(gone))
         /\ BagToSet(bag (-) One(gone)) \subseteq BagToSet(bag)
<1> DEFINE less == bag (-) One(gone)
           B == [e \in DOMAIN bag |-> IF e \in DOMAIN One(gone) THEN bag[e] - One(gone)[e] ELSE bag[e]]
<1>1. /\ \A e \in DOMAIN bag : bag[e] \in Nat
      /\ \A e \in DOMAIN One(gone) : One(gone)[e] = 1
  BY DEF IsABag, One, SetToBag
<1>2. less = [e \in {d \in DOMAIN B : B[d] > 0} |-> B[e]]
  BY DEF (-)
<1>3. DOMAIN B = DOMAIN bag /\ \A e \in DOMAIN B : B[e] \in Int
  BY <1>1
<1> HIDE DEF B, less
<1>4. \A e \in DOMAIN less : e \in DOMAIN bag /\ less[e] \in {n \in Nat : n > 0}
  BY <1>2, <1>3
<1>5. less = [e \in DOMAIN less |-> less[e]]
  BY <1>2
<1> QED
  BY <1>4, <1>5 DEF IsABag, BagToSet, less

LEMMA InitIInv == Init => IInv
<1> SUFFICES ASSUME Init PROVE IInv
  OBVIOUS
<1>1. PICK ctx \in Origins : exec = <<Execution(0, ctx)>>
  BY DEF Init
<1>2. ctx \in Contexts
  BY ConstantsAssumption DEF ConstantsAssumption
<1>3. Execution(0, ctx) \in Executions /\ Execution(0, ctx).state = "running"
  <2>1. 0 \in 0 .. Depth /\ 0 \in 0 .. MaxAttempts
    BY Bounds
  <2> QED
    BY <1>2, <2>1 DEF Execution, Executions, States
<1>4. exec \in Seq(Executions) /\ exec # <<>> /\ DOMAIN exec = {1} /\ exec[1].state = "running"
  BY <1>1, <1>3
<1>5. /\ IsABag(net) /\ BagToSet(net) = {} /\ IsABag(events) /\ BagToSet(events) = {}
  BY DEF Init, IsABag, EmptyBag, SetToBag, BagToSet
<1>6. TypeOK
  BY <1>4, <1>5 DEF TypeOK, Init, Executions
<1>7. IdsSurvive /\ HeadersCarryIds
  BY <1>4, <1>5 DEF IdsSurvive, HeadersCarryIds, Origin
<1>8. TraceIsTrue
  <2>1. ASSUME NEW n \in Hops
        PROVE  {x \in DOMAIN exec : exec[x].hop = n /\ exec[x].state = "reported"} = {}
    BY <1>4
  <2> QED
    BY <2>1, <1>5, FS_EmptySet DEF TraceIsTrue, Copies, BagIn
<1> QED
  BY <1>6, <1>7, <1>8 DEF IInv

Reported(n) == {x \in DOMAIN exec : exec[x].hop = n /\ exec[x].state = "reported"}

LEMMA ReportedIsFinite ==
  ASSUME TypeOK, NEW n
  PROVE  IsFiniteSet(Reported(n)) /\ Cardinality(Reported(n)) \in Nat
<1> DEFINE l == Len(exec)
           S == 1 .. l
           T == Reported(n)
<1>1. l \in Nat /\ DOMAIN exec = S
  BY DEF TypeOK
<1>2. 1 \in Int /\ l \in Int
  BY <1>1
<1>3. IsFiniteSet(S)
  BY <1>2, FS_Interval
<1>4. T \in SUBSET S
  BY <1>1 DEF Reported
<1> HIDE DEF S, T
<1>5. IsFiniteSet(T)
  BY <1>3, <1>4, FS_Subset
<1>6. Cardinality(T) \in Nat
  BY <1>5, FS_CardinalityType
<1> QED
  BY <1>5, <1>6 DEF T

(* What TypeOK says of one execution, and of its change. *)
LEMMA ExecutionTypes ==
  ASSUME TypeOK
  PROVE  /\ exec \in Seq(Executions) /\ Len(exec) \in Nat /\ DOMAIN exec = 1 .. Len(exec)
         /\ 1 \in DOMAIN exec
         /\ \A x \in DOMAIN exec : /\ exec[x] \in Executions
                                   /\ exec[x].ctx \in Contexts /\ exec[x].hop \in 0 .. Depth
                                   /\ exec[x].attempts \in 0 .. MaxAttempts
<1>1. exec \in Seq(Executions) /\ exec # <<>>
  BY DEF TypeOK, Executions
<1>2. \A x \in DOMAIN exec : exec[x] \in Executions
  BY <1>1
<1> QED
  BY <1>1, <1>2 DEF Executions

(***************************************************************************)
(* A step that keeps the contexts of all executions and reports nothing    *)
(* leaves the trace as true as it was, and the ids where they were.        *)
(***************************************************************************)
LEMMA NothingReported ==
  ASSUME IInv, NEW x \in DOMAIN exec, NEW e \in Executions,
         exec' = [exec EXCEPT ![x] = e], e.ctx = exec[x].ctx, e.hop = exec[x].hop,
         e.state = "reported" <=> exec[x].state = "reported",
         UNCHANGED events
  PROVE  /\ exec' \in Seq(Executions) /\ exec' # <<>>
         /\ Origin' = Origin /\ IdsSurvive' /\ TraceIsTrue'
<1>1. /\ exec \in Seq(Executions) /\ Len(exec) \in Nat /\ DOMAIN exec = 1 .. Len(exec)
      /\ 1 \in DOMAIN exec
  BY ExecutionTypes DEF IInv
<1>2. /\ exec' \in Seq(Executions) /\ exec' # <<>> /\ DOMAIN exec' = DOMAIN exec
      /\ exec'[x] = e /\ \A y \in DOMAIN exec : y # x => exec'[y] = exec[y]
  BY <1>1
<1>3. \A y \in DOMAIN exec : /\ exec'[y].ctx = exec[y].ctx /\ exec'[y].hop = exec[y].hop
                             /\ exec'[y].state = "reported" <=> exec[y].state = "reported"
  BY <1>2
<1>4. Origin' = Origin
  BY <1>1, <1>3 DEF Origin
<1>5. IdsSurvive'
  BY <1>2, <1>3, <1>4 DEF IInv, IdsSurvive
<1>6. \A n \in Hops : {y \in DOMAIN exec' : exec'[y].hop = n /\ exec'[y].state = "reported"}
                        = {y \in DOMAIN exec : exec[y].hop = n /\ exec[y].state = "reported"}
  BY <1>2, <1>3
<1>7. TraceIsTrue'
  BY <1>4, <1>6 DEF IInv, TraceIsTrue, Copies, BagIn
<1> QED
  BY <1>2, <1>4, <1>5, <1>7

LEMMA CallStep ==
  ASSUME IInv, NEW x \in DOMAIN exec, Call(x)
  PROVE  IInv'
<1> DEFINE e == [exec[x] EXCEPT !.attempts = @ + 1]
           request == [hop |-> exec[x].hop + 1, header |-> Header(exec[x].ctx)]
<1>1. exec[x] \in Executions /\ exec[x].hop \in 0 .. Depth /\ exec[x].attempts \in 0 .. MaxAttempts
  BY ExecutionTypes DEF IInv
<1>2. /\ exec[x].hop < Depth /\ exec[x].attempts < MaxAttempts
      /\ exec' = [exec EXCEPT ![x] = e] /\ net' = net (+) One(request)
      /\ UNCHANGED <<setUp, events>>
  BY DEF Call
<1>3. exec[x].attempts + 1 \in 0 .. MaxAttempts /\ exec[x].hop + 1 \in Hops
  <2>1. exec[x].attempts + 1 \in 0 .. MaxAttempts
    BY <1>1, <1>2, Bounds
  <2>2. exec[x].hop + 1 \in 1 .. Depth
    BY <1>1, <1>2, Bounds
  <2> QED
    BY <2>1, <2>2 DEF Hops
<1>4. /\ e \in Executions /\ e.ctx = exec[x].ctx /\ e.hop = exec[x].hop
      /\ e.state = exec[x].state
  BY <1>1, <1>3 DEF Executions
<1> HIDE DEF e
<1>5. /\ exec' \in Seq(Executions) /\ exec' # <<>>
      /\ Origin' = Origin /\ IdsSurvive' /\ TraceIsTrue'
  BY <1>2, <1>4, NothingReported
<1>6. exec[x].ctx \in Contexts /\ exec[x].ctx.ids = Origin
  BY ExecutionTypes DEF IInv, IdsSurvive
<1>7. /\ GetTelemetry(request.header) \in Contexts
      /\ GetTelemetry(request.header).ids = Origin
      /\ request.hop \in Hops
  BY <1>3, <1>6, HeaderKeepsIds
<1> HIDE DEF request
<1>8. IsABag(net') /\ BagToSet(net') = BagToSet(net) \union {request}
  BY <1>2, OneMore DEF IInv, TypeOK
<1>9. TypeOK'
  BY <1>2, <1>5, <1>7, <1>8 DEF IInv, TypeOK, Executions
<1>10. HeadersCarryIds'
  BY <1>5, <1>7, <1>8 DEF IInv, HeadersCarryIds
<1> QED
  BY <1>5, <1>9, <1>10 DEF IInv

LEMMA LoseStep ==
  ASSUME IInv, NEW request \in BagToSet(net), Lose(request)
  PROVE  IInv'
<1>1. IsABag(net') /\ BagToSet(net') \subseteq BagToSet(net)
  BY OneLess DEF Lose, IInv, TypeOK
<1>2. UNCHANGED <<setUp, exec, events>>
  BY DEF Lose
<1>3. TypeOK'
  BY <1>1, <1>2 DEF IInv, TypeOK
<1>4. Origin' = Origin
  BY <1>2 DEF Origin
<1>5. HeadersCarryIds'
  BY <1>1, <1>4 DEF IInv, HeadersCarryIds
<1>6. IdsSurvive' /\ TraceIsTrue'
  BY <1>2, <1>4 DEF IInv, IdsSurvive, TraceIsTrue, Copies, BagIn
<1> QED
  BY <1>3, <1>5, <1>6 DEF IInv

LEMMA StartHandlerStep ==
  ASSUME IInv, NEW request \in BagToSet(net), StartHandler(request)
  PROVE  IInv'
<1> DEFINE ctx == GetTelemetry(request.header)
           e == Execution(request.hop, ctx)
           l == Len(exec)
<1>1. /\ exec \in Seq(Executions) /\ l \in Nat /\ DOMAIN exec = 1 .. l /\ 1 \in DOMAIN exec
  BY ExecutionTypes DEF IInv
<1>2. /\ IsABag(net') /\ BagToSet(net') \subseteq BagToSet(net)
      /\ exec' = Append(exec, e) /\ UNCHANGED <<setUp, events>>
  BY OneLess DEF StartHandler, IInv, TypeOK
<1>3. ctx \in Contexts /\ ctx.ids = Origin /\ request.hop \in Hops
  BY DEF IInv, HeadersCarryIds, TypeOK
<1> HIDE DEF ctx
<1>4. e \in Executions /\ e.ctx = ctx /\ e.state = "running"
  <2>1. 0 \in 0 .. MaxAttempts
    BY Bounds
  <2>2. request.hop \in 0 .. Depth
    BY <1>3, Bounds DEF Hops
  <2> QED
    BY <1>3, <2>1, <2>2 DEF Execution, Executions, States
<1> HIDE DEF e, l
<1>5. /\ exec' \in Seq(Executions) /\ exec' # <<>> /\ DOMAIN exec' = 1 .. l + 1
      /\ exec'[l + 1] = e /\ \A y \in 1 .. l : exec'[y] = exec[y]
  BY <1>1, <1>2, <1>4 DEF l
<1>6. Origin' = Origin
  BY <1>1, <1>5 DEF Origin
<1>7. TypeOK'
  BY <1>2, <1>5 DEF IInv, TypeOK, Executions
<1>8. HeadersCarryIds'
  BY <1>2, <1>6 DEF IInv, HeadersCarryIds
<1>9. IdsSurvive'
  <2>1. ASSUME NEW y \in 1 .. l + 1 PROVE exec'[y].ctx.ids = Origin
    <3>1. CASE y = l + 1
      BY <3>1, <1>3, <1>4, <1>5
    <3>2. CASE y \in 1 .. l
      BY <3>2, <1>1, <1>5 DEF IInv, IdsSurvive
    <3> QED
      BY <3>1, <3>2, <1>1
  <2> QED
    BY <2>1, <1>5, <1>6 DEF IdsSurvive
<1>10. TraceIsTrue'
  <2>1. ASSUME NEW n \in Hops
        PROVE  {y \in DOMAIN exec' : exec'[y].hop = n /\ exec'[y].state = "reported"}
                 = {y \in DOMAIN exec : exec[y].hop = n /\ exec[y].state = "reported"}
    <3>1. \A y \in 1 .. l + 1 : y \in 1 .. l \/ y = l + 1
      BY <1>1
    <3>2. \A y \in 1 .. l : y \in 1 .. l + 1
      BY <1>1
    <3>3. exec'[l + 1].state # "reported"
      BY <1>4, <1>5
    <3> QED
      BY <3>1, <3>2, <3>3, <1>1, <1>5
  <2> QED
    BY <2>1, <1>2, <1>6 DEF IInv, TraceIsTrue, Copies, BagIn
<1> QED
  BY <1>7, <1>8, <1>9, <1>10 DEF IInv

LEMMA EndHandlerStep ==
  ASSUME IInv, NEW x \in DOMAIN exec, EndHandler(x)
  PROVE  IInv'
<1> DEFINE e == [exec[x] EXCEPT !.state = IF exec[x].hop \in setUp
                                          THEN "reporting" ELSE "unreported"]
<1>1. exec[x] \in Executions
  BY ExecutionTypes DEF IInv
<1>2. /\ exec[x].state = "running" /\ exec' = [exec EXCEPT ![x] = e]
      /\ UNCHANGED <<setUp, net, events>>
  BY DEF EndHandler
<1>3. /\ e \in Executions /\ e.ctx = exec[x].ctx /\ e.hop = exec[x].hop
      /\ e.state # "reported"
  BY <1>1 DEF Executions, States
<1> HIDE DEF e
<1>4. /\ exec' \in Seq(Executions) /\ exec' # <<>>
      /\ Origin' = Origin /\ IdsSurvive' /\ TraceIsTrue'
  BY <1>2, <1>3, NothingReported
<1>5. TypeOK'
  BY <1>2, <1>4 DEF IInv, TypeOK, Executions
<1>6. HeadersCarryIds'
  BY <1>2, <1>4 DEF IInv, HeadersCarryIds
<1> QED
  BY <1>4, <1>5, <1>6 DEF IInv

LEMMA ReportStep ==
  ASSUME IInv, NEW x \in DOMAIN exec, Report(x)
  PROVE  IInv'
<1> DEFINE e == [exec[x] EXCEPT !.state = "reported"]
           event == Event(x)
<1>1. /\ exec \in Seq(Executions) /\ Len(exec) \in Nat /\ DOMAIN exec = 1 .. Len(exec)
      /\ 1 \in DOMAIN exec /\ exec[x] \in Executions
  BY ExecutionTypes DEF IInv
<1>2. /\ exec[x].state = "reporting" /\ exec' = [exec EXCEPT ![x] = e]
      /\ events' = events (+) One(event) /\ UNCHANGED <<setUp, net>>
  BY DEF Report
<1>3. /\ e \in Executions /\ e.ctx = exec[x].ctx /\ e.hop = exec[x].hop
      /\ e.state = "reported"
  BY <1>1 DEF Executions, States
<1>4. event = [hop |-> exec[x].hop, ids |-> Origin]
  BY DEF Event, IInv, IdsSurvive
<1> HIDE DEF e, event
<1>5. /\ exec' \in Seq(Executions) /\ exec' # <<>> /\ DOMAIN exec' = DOMAIN exec
      /\ exec'[x] = e /\ \A y \in DOMAIN exec : y # x => exec'[y] = exec[y]
  BY <1>1, <1>2, <1>3
<1>6. \A y \in DOMAIN exec : exec'[y].ctx = exec[y].ctx /\ exec'[y].hop = exec[y].hop
  BY <1>3, <1>5
<1>7. Origin' = Origin
  BY <1>1, <1>6 DEF Origin
<1>8. IdsSurvive'
  BY <1>5, <1>6, <1>7 DEF IInv, IdsSurvive
<1>9. /\ IsABag(events') /\ BagToSet(events') = BagToSet(events) \union {event}
      /\ \A other : Copies(other, events')
                      = IF other = event THEN Copies(other, events) + 1 ELSE Copies(other, events)
  BY <1>2, OneMore DEF IInv, TypeOK
<1>10. TypeOK'
  BY <1>2, <1>5, <1>9 DEF IInv, TypeOK, Executions
<1>11. HeadersCarryIds'
  BY <1>2, <1>7 DEF IInv, HeadersCarryIds
<1>12. TraceIsTrue'
  <2>1. ASSUME NEW n \in Hops
        PROVE  Copies([hop |-> n, ids |-> Origin], events')
                 = Cardinality({y \in DOMAIN exec' : exec'[y].hop = n /\ exec'[y].state = "reported"})
    <3> DEFINE this == [hop |-> n, ids |-> Origin]
               old == Reported(n)
               new == {y \in DOMAIN exec' : exec'[y].hop = n /\ exec'[y].state = "reported"}
    <3>1. IsFiniteSet(old) /\ Copies(this, events) = Cardinality(old)
      BY ReportedIsFinite DEF IInv, TraceIsTrue, Reported
    <3>2. x \notin old
      BY <1>2 DEF Reported
    <3>3. CASE exec[x].hop = n
      <4>1. new = old \union {x}
        BY <1>3, <1>5, <3>3 DEF Reported
      <4>2. Copies(this, events') = Copies(this, events) + 1
        BY <1>4, <1>9, <3>3
      <4> HIDE DEF new, old, this
      <4>3. Cardinality(new) = Cardinality(old) + 1
        BY <3>1, <3>2, <4>1, FS_AddElement
      <4> QED
        BY <3>1, <4>2, <4>3 DEF new, this
    <3>4. CASE exec[x].hop # n
      <4>1. new = old
        BY <1>3, <1>5, <3>4 DEF Reported
      <4>2. this # event
        BY <1>4, <3>4
      <4> HIDE DEF new, old, this
      <4>3. Copies(this, events') = Copies(this, events)
        BY <1>9, <4>2
      <4> QED
        BY <3>1, <4>1, <4>3 DEF new, this
    <3> QED
      BY <3>3, <3>4
  <2>2. \A other \in BagToSet(events') : other.ids = Origin
    BY <1>4, <1>9 DEF IInv, TraceIsTrue
  <2> QED
    BY <2>1, <2>2, <1>7 DEF TraceIsTrue
<1> QED
  BY <1>8, <1>10, <1>11, <1>12 DEF IInv

(***************************************************************************)
(* Whatever is called, lost, retried or reported, the types and the three  *)
(* invariants about the ids hold together.                                 *)
(***************************************************************************)
THEOREM TraceInvariant == Spec => []IInv
<1>1. IInv /\ [Next]_vars => IInv'
  <2> SUFFICES ASSUME IInv, [Next]_vars PROVE IInv'
    OBVIOUS
  <2>1. ASSUME NEW n \in Hops, SetUpTelemetry(n) PROVE IInv'
    <3>1. setUp' \subseteq Hops /\ UNCHANGED <<exec, net, events>>
      BY <2>1 DEF SetUpTelemetry, IInv, TypeOK
    <3> QED
      BY <3>1 DEF IInv, TypeOK, IdsSurvive, HeadersCarryIds, TraceIsTrue, Origin, Copies, BagIn
  <2>2. ASSUME NEW x \in DOMAIN exec, Call(x) PROVE IInv'
    BY <2>2, CallStep
  <2>3. ASSUME NEW x \in DOMAIN exec, HandlerEnds(x) PROVE IInv'
    BY <2>3, EndHandlerStep, ReportStep DEF HandlerEnds
  <2>4. ASSUME NEW request \in BagToSet(net), Lose(request) \/ StartHandler(request)
        PROVE  IInv'
    BY <2>4, LoseStep, StartHandlerStep
  <2>5. CASE UNCHANGED vars
    BY <2>5 DEF vars, IInv, TypeOK, IdsSurvive, HeadersCarryIds, TraceIsTrue, Origin, Copies, BagIn
  <2> QED
    BY <2>1, <2>2, <2>3, <2>4, <2>5 DEF Next
<1> QED
  BY <1>1, InitIInv, PTL DEF Spec

(* A handler has the ids of the process that began, in their order, however *)
(* many services and attempts are between them. *)
THEOREM IdsReachHandlers == Spec => []IdsSurvive
<1>1. IInv => IdsSurvive
  BY DEF IInv
<1> QED
  BY <1>1, TraceInvariant, PTL

(* Each execution that reported has its event, once, and under those ids. *)
THEOREM OneEventEach == Spec => []TraceIsTrue
<1>1. IInv => TraceIsTrue
  BY DEF IInv
<1> QED
  BY <1>1, TraceInvariant, PTL

=============================================================================
