-------------------------- MODULE MCGeneratedCode --------------------------
(* Instances of GeneratedCode for TLC. *)
EXTENDS GeneratedCode

Single(type)   == [stream |-> FALSE, type |-> type]
Streamed(type) == [stream |-> TRUE, type |-> type]

Model(name) == <<"flows", name>>

Rpc(name, in, out, close) ==
  [is |-> "rpc", name |-> name, in |-> in, out |-> out, close |-> close]

Closings == {"semicolon", "braces", "option"}

Rpcs == {Rpc("Get", in, out, close) : in \in {Single(Model("Request")), Streamed(Model("Request"))},
                                      out \in {Single(Model("Item")), Streamed(Model("Item"))},
                                      close \in Closings}
  \union {Rpc("Ping", Single(Empty), Single(Empty), close) : close \in Closings}
  \union {Rpc("Watch", Single(Empty), Streamed(<<"Item">>), "semicolon"),
          Rpc("Put", Streamed(Model("Item")), Single(Empty), "braces"),
          Rpc("Beat", Streamed(Empty), Single(Empty), "semicolon")}

(* Comments that would be rpcs and services, and two after code. *)
Comments ==
  {[is |-> "comment", ownLine |-> TRUE, words |-> RpcTokens(Rpc("Old", Single(Empty), Single(Empty), "semicolon"))],
   [is |-> "comment", ownLine |-> TRUE, words |-> <<Word("service"), Word("of")>>],
   [is |-> "comment", ownLine |-> FALSE, words |-> <<Word("see"), Word("("), Word("below"), Word(")")>>],
   [is |-> "comment", ownLine |-> FALSE, words |-> <<Word("the"), Service, Word("name")>>]}

Fields   == {[is |-> "field", name |-> name] : name \in {"name", "service"}}
Services == {[is |-> "service", name |-> name] : name \in {"Flows", "Orders"}}

MCStatements == Rpcs \union Comments \union Fields \union Services

=============================================================================
