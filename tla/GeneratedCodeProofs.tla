------------------------ MODULE GeneratedCodeProofs ------------------------
(***************************************************************************)
(* Proofs about the generated code.  What the macros put together for an   *)
(* rpc depends on the two parameters that were found for it, and on        *)
(* nothing else: that client and handler fit together holds for any of     *)
(* them.  That the calls are implemented and are those that the author     *)
(* declared rests on the invariant of the reader.                          *)
(***************************************************************************)
EXTENDS GeneratedCode, ProtoFileReaderProofs

(* A parameter is a stream or it is not. *)
LEMMA StreamIsBoolean == \A p : Parse(p).stream \in BOOLEAN
<1>1. ASSUME NEW p PROVE Parse(p).stream \in BOOLEAN
  <2> DEFINE streamed == NamePlace(p) > 1
  <2>1. streamed \in BOOLEAN
    OBVIOUS
  <2>2. CASE \A n \in DOMAIN p : p[n] = Stream
    BY <2>2 DEF Parse, NoParam
  <2>3. CASE ~\A n \in DOMAIN p : p[n] = Stream
    <3>1. CASE p[NamePlace(p)] = Empty
      BY <2>3, <3>1 DEF Parse
    <3>2. CASE p[NamePlace(p)] # Empty
      <4>1. Parse(p) = [stream |-> streamed, name |-> Last(p[NamePlace(p)])]
        BY <2>3, <3>2 DEF Parse
      <4> QED
        BY <2>1, <4>1
    <3> QED
      BY <3>1, <3>2
  <2> QED
    BY <2>2, <2>3
<1> QED
  BY <1>1

(* The builder that a method picks asks for the trait that the other file  *)
(* generates, in each of the four cases. *)
LEMMA ExecutorIsInterface ==
  ASSUME NEW in, NEW out, in.stream \in BOOLEAN, out.stream \in BOOLEAN
  PROVE  ExecutorOf(RequestFn(in, out), ResponseFn(out)) = Interface(in, out)
<1>1. CASE in.stream /\ out.stream
  BY <1>1 DEF ExecutorOf, RequestFn, ResponseFn, Interface
<1>2. CASE in.stream /\ ~out.stream
  BY <1>2 DEF ExecutorOf, RequestFn, ResponseFn, Interface
<1>3. CASE ~in.stream /\ out.stream
  BY <1>3 DEF ExecutorOf, RequestFn, ResponseFn, Interface
<1>4. CASE ~in.stream /\ ~out.stream
  BY <1>4 DEF ExecutorOf, RequestFn, ResponseFn, Interface
<1> QED
  BY <1>1, <1>2, <1>3, <1>4

(* The trait and the types with which a method calls. *)
LEMMA CalledThroughInterface ==
  ASSUME NEW r
  PROVE  Called(r) = [trait |-> Interface(Parse(r.in), Parse(r.out)),
                      request |-> NameOf(Parse(r.in)), response |-> NameOf(Parse(r.out))]
BY StreamIsBoolean, ExecutorIsInterface DEF Called

(* They are implemented, if a parameter was found. *)
LEMMA CallsAreImplemented ==
  ASSUME NEW r, Parse(r.in) # NoParam \/ Parse(r.out) # NoParam
  PROVE  Called(r) = Implemented(r)
BY CalledThroughInterface DEF Implemented

(* The trait tells which of the two sides of a call are streams. *)
LEMMA InterfaceTellsStreams ==
  ASSUME NEW in, NEW out, in.stream \in BOOLEAN, out.stream \in BOOLEAN
  PROVE  /\ (Interface(in, out) \in SendsStream) = in.stream
         /\ (Interface(in, out) \in GetsStream) = out.stream
<1>1. CASE in.stream = TRUE /\ out.stream = TRUE
  <2>1. Interface(in, out) = "RequestWithInputAsStreamWithResponseAsStream"
    BY <1>1 DEF Interface
  <2> QED
    BY <2>1, <1>1 DEF SendsStream, GetsStream
<1>2. CASE in.stream = TRUE /\ out.stream = FALSE
  <2>1. Interface(in, out) = "RequestWithInputAsStream"
    BY <1>2 DEF Interface
  <2> QED
    BY <2>1, <1>2 DEF SendsStream, GetsStream
<1>3. CASE in.stream = FALSE /\ out.stream = TRUE
  <2>1. Interface(in, out) = "RequestWithResponseAsStream"
    BY <1>3 DEF Interface
  <2> QED
    BY <2>1, <1>3 DEF SendsStream, GetsStream
<1>4. CASE in.stream = FALSE /\ out.stream = FALSE
  <2>1. Interface(in, out) = "RequestResponse"
    BY <1>4 DEF Interface
  <2> QED
    BY <2>1, <1>4 DEF SendsStream, GetsStream
<1> QED
  BY <1>1, <1>2, <1>3, <1>4

(***************************************************************************)
(* A generated handler takes and gives streams of the types with which the *)
(* generated client calls it, for any file and at any time.                *)
(***************************************************************************)
THEOREM HandlersServeClients == Spec => []ServerServesItsClient
<1>1. ASSUME NEW r
      PROVE  LET call == Called(r)
             IN  Handler(r) = [request |-> call.request,
                               takesStream |-> call.trait \in SendsStream,
                               response |-> call.response,
                               givesStream |-> call.trait \in GetsStream]
  <2> DEFINE in == Parse(r.in)
             out == Parse(r.out)
  <2>1. Called(r) = [trait |-> Interface(in, out), request |-> NameOf(in), response |-> NameOf(out)]
    BY CalledThroughInterface
  <2>2. /\ (Interface(in, out) \in SendsStream) = in.stream
        /\ (Interface(in, out) \in GetsStream) = out.stream
    BY StreamIsBoolean, InterfaceTellsStreams
  <2>3. Handler(r) = [request |-> NameOf(in), takesStream |-> in.stream,
                      response |-> NameOf(out), givesStream |-> out.stream]
    BY DEF Handler
  <2> HIDE DEF in, out
  <2> QED
    BY <2>1, <2>2, <2>3
<1>2. ServerServesItsClient
  BY <1>1 DEF ServerServesItsClient
<1> QED
  BY <1>2, PTL

-----------------------------------------------------------------------------
(* From the declaration to the call.                                       *)

(* A declared parameter has a type, and goes by its name in the code. *)
LEMMA DeclaredHasName ==
  ASSUME NEW p, IsParameter(p)
  PROVE  NameOf(Declared(p)) = Declared(p).name
<1>1. Declared(p).name # ""
  <2>1. CASE p.type = Empty
    BY <2>1 DEF Declared
  <2>2. CASE p.type # Empty
    BY <2>2 DEF Declared, IsParameter
  <2> QED
    BY <2>1, <2>2
<1>2. Declared(p) # NoParam
  <2>1. NoParam.name = ""
    BY DEF NoParam
  <2> QED
    BY <1>1, <2>1
<1> QED
  BY <1>2 DEF NameOf

(***************************************************************************)
(* For each rpc that is found the macro implements the call of the         *)
(* generated client instead of panicking, and this call has the kinds of   *)
(* streams and the types that the author declared, whatever statements are *)
(* before and after the rpc.                                               *)
(***************************************************************************)
THEOREM ClientKeepsDeclarations == Spec => []ClientCallsAsDeclared
<1>1. ASSUME NEW r, NEW s, IsParameter(s.in), IsParameter(s.out),
             Parse(r.in) = Declared(s.in), Parse(r.out) = Declared(s.out)
      PROVE  Called(r) = Promised(s)
  <2>1. /\ NameOf(Parse(r.in)) = Declared(s.in).name
        /\ NameOf(Parse(r.out)) = Declared(s.out).name
    BY <1>1, DeclaredHasName
  <2>2. Called(r) = [trait |-> Interface(Parse(r.in), Parse(r.out)),
                     request |-> NameOf(Parse(r.in)), response |-> NameOf(Parse(r.out))]
    BY CalledThroughInterface
  <2> QED
    BY <1>1, <2>1, <2>2 DEF Promised
<1>2. ASSUME IInv, rest = <<>>, NEW i \in Seen
      PROVE  LET found == rpc[Place(Seen, i)]
             IN  /\ Called(found) = Implemented(found)
                 /\ Understood(file[i].in) /\ Understood(file[i].out) => Called(found) = Promised(file[i])
  <2> DEFINE found == rpc[Place(Seen, i)]
  <2>1. /\ IsParameter(file[i].in) /\ IsParameter(file[i].out)
        /\ Parse(found.in) # NoParam /\ Parse(found.out) # NoParam
        /\ Understood(file[i].in)  => Parse(found.in)  = Declared(file[i].in)
        /\ Understood(file[i].out) => Parse(found.out) = Declared(file[i].out)
    BY <1>2, FoundAsDeclared
  <2> HIDE DEF found
  <2>2. Called(found) = Implemented(found)
    BY <2>1, CallsAreImplemented
  <2>3. ASSUME Understood(file[i].in), Understood(file[i].out)
        PROVE  Called(found) = Promised(file[i])
    BY <1>1, <2>1, <2>3
  <2> QED
    BY <2>2, <2>3 DEF found
<1>3. IInv => ClientCallsAsDeclared
  BY <1>2 DEF ClientCallsAsDeclared
<1> QED
  BY <1>3, ReaderFollowsStatements, PTL

=============================================================================
