--------------------------- MODULE GeneratedCode ---------------------------
(***************************************************************************)
(* What the macros generate for an rpc that ProtoFileReader found.  For    *)
(* the client: a method that picks a request builder and one of its two    *)
(* ways to a response, and the implementation of the executor trait        *)
(* through which the builder calls back.  For the server: the handler.     *)
(* Each comes from a file of its own, and they meet only in the compiler   *)
(* of the crate that uses the macros, or on the wire.                      *)
(***************************************************************************)
EXTENDS ProtoFileReader

(* The types of a parameter in generated code; None stands for (). *)
NameOf(p) == IF p = NoParam THEN "()" ELSE p.name

-----------------------------------------------------------------------------
(* generate_grpc_methods                                                   *)

(* Mutant: the builder is chosen by the response. *)
RequestFnByResponse(in, out) ==
  IF out.stream THEN "start_request_with_input_prams_as_stream" ELSE "start_request"

RequestFn(in, out) ==
  IF in.stream THEN "start_request_with_input_prams_as_stream" ELSE "start_request"

ResponseFn(out) == IF out.stream THEN "get_streamed_response" ELSE "get_response"

(* The trait that the method of the builder asks its executor for. *)
ExecutorOf(requestFn, responseFn) ==
  CASE requestFn = "start_request" /\ responseFn = "get_response"
         -> "RequestResponse"
    [] requestFn = "start_request" /\ responseFn = "get_streamed_response"
         -> "RequestWithResponseAsStream"
    [] requestFn # "start_request" /\ responseFn = "get_response"
         -> "RequestWithInputAsStream"
    [] requestFn # "start_request" /\ responseFn = "get_streamed_response"
         -> "RequestWithInputAsStreamWithResponseAsStream"

Called(r) ==
  LET in == Parse(r.in)
      out == Parse(r.out)
  IN  [trait |-> ExecutorOf(RequestFn(in, out), ResponseFn(out)),
       request |-> NameOf(in), response |-> NameOf(out)]

-----------------------------------------------------------------------------
(* generate_interfaces_implementations                                     *)

Interface(in, out) ==
  IF in.stream
  THEN IF out.stream THEN "RequestWithInputAsStreamWithResponseAsStream"
                     ELSE "RequestWithInputAsStream"
  ELSE IF out.stream THEN "RequestWithResponseAsStream"
                     ELSE "RequestResponse"

(* The macro panics for an rpc without any parameter, and implements nothing. *)
NotSupported == [trait |-> "none", request |-> "()", response |-> "()"]

Implemented(r) ==
  LET in == Parse(r.in)
      out == Parse(r.out)
  IN  IF in = NoParam /\ out = NoParam THEN NotSupported
      ELSE [trait |-> Interface(in, out), request |-> NameOf(in), response |-> NameOf(out)]

-----------------------------------------------------------------------------
(* generate_server                                                         *)

(* Mutant: a response is never a stream. *)
HandlerSingleResponse(r) ==
  LET in == Parse(r.in)
      out == Parse(r.out)
  IN  [request |-> NameOf(in), takesStream |-> in.stream,
       response |-> NameOf(out), givesStream |-> FALSE]

Handler(r) ==
  LET in == Parse(r.in)
      out == Parse(r.out)
  IN  [request |-> NameOf(in), takesStream |-> in.stream,
       response |-> NameOf(out), givesStream |-> out.stream]

-----------------------------------------------------------------------------
(* Properties.                                                             *)

(* The call an author asks for by a declaration. *)
Promised(declared) ==
  LET in == Declared(declared.in)
      out == Declared(declared.out)
  IN  [trait |-> Interface(in, out), request |-> in.name, response |-> out.name]

(***************************************************************************)
(* The macro implements the executor for each rpc of the file, rather than *)
(* to panic, and the method of the generated client calls it through the   *)
(* trait that was implemented, which is the one of the declared rpc, with  *)
(* its kinds of streams and its types.                                     *)
(***************************************************************************)
ClientCallsAsDeclared ==
  rest = <<>> => \A i \in Seen : Place(Seen, i) \in DOMAIN rpc =>
    LET found == rpc[Place(Seen, i)]
    IN  /\ Called(found) = Implemented(found)
        /\ Understood(file[i].in) /\ Understood(file[i].out) => Called(found) = Promised(file[i])

(* The traits whose executors send a stream, or get one. *)
SendsStream == {"RequestWithInputAsStream", "RequestWithInputAsStreamWithResponseAsStream"}
GetsStream  == {"RequestWithResponseAsStream", "RequestWithInputAsStreamWithResponseAsStream"}

(***************************************************************************)
(* A handler generated from the file serves the calls of a client that was *)
(* generated from it: it takes and gives a stream where the client sends   *)
(* and reads one, of the same types.                                       *)
(***************************************************************************)
ServerServesItsClient ==
  rest = <<>> => \A k \in DOMAIN rpc :
    LET call == Called(rpc[k])
    IN  Handler(rpc[k]) = [request |-> call.request, takesStream |-> call.trait \in SendsStream,
                           response |-> call.response, givesStream |-> call.trait \in GetsStream]

=============================================================================
