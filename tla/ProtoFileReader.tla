--------------------------- MODULE ProtoFileReader ---------------------------
(***************************************************************************)
(* read_proto_file: the state machine over the tokens of a proto file that *)
(* finds the service and its rpcs for the generated client, and panics     *)
(* when there is no service.                                               *)
(*                                                                         *)
(* A word is the sequence of its segments between dots.  How words are     *)
(* laid out in lines means nothing to the reader, except that it drops a   *)
(* line that is a comment from its beginning.                              *)
(*                                                                         *)
(* A file has any number of services, and fields of messages, anywhere.    *)
(* Authors are assumed to use the word "rpc" for nothing else, to name no  *)
(* service, rpc or type by a word of the syntax, and to write a comment    *)
(* that shares its line with code after a complete statement only.  The    *)
(* word "service" may name a field, or be in a comment.                    *)
(***************************************************************************)
EXTENDS Integers, FiniteSets, SequencesExt

CONSTANTS
  Statements,     \* what an author may write
  MaxStatements   \* how many of them

ASSUME ConstantsAssumption == MaxStatements \in Nat

VARIABLES
  file,          \* the statements written so far
  rest,          \* tokens of the last one that are still to be read
  current_token, \* None, Service, Rpc and the two parameters of an rpc
  service_name,
  rpc_name,
  input_param,   \* input_param_name, the words it is joined from
  out_param,     \* out_param_name
  rpc,           \* the rpcs found
  result         \* what has come of it: "reading", "described" or "panicked"

paramVars == <<input_param, out_param>>
vars == <<file, rest, current_token, service_name, rpc_name, paramVars, rpc, result>>

None      == <<>>
Word(w)   == <<w>>
Service   == Word("service")
Stream    == Word("stream")
Returns   == Word("returns")
Semicolon == Word(";")
Brackets  == {Word("("), Word(")")}
Empty     == <<"google", "protobuf", "Empty">>

-----------------------------------------------------------------------------
(* The author.                                                             *)

(* Mutant: a comment on a line of its own is read like one after code. *)
CommentTokensKept(words, ownLine) == <<Word("//")>> \o words

(* clean_up_comments *)
CommentTokens(words, ownLine) == IF ownLine THEN <<>> ELSE <<Word("//")>> \o words

(* A parameter and the tokens after it. *)
TypeTokens(p, then)      == <<p.type>> \o (<<Word(")")>> \o then)
StreamTokens(p, then)    == (IF p.stream THEN <<Stream>> ELSE <<>>) \o TypeTokens(p, then)
ParameterTokens(p, then) == <<Word("(")>> \o StreamTokens(p, then)

(* An rpc ends with a semicolon, an empty body or one that holds an option. *)
Closing(how) ==
  CASE how = "semicolon" -> <<Semicolon>>
    [] how = "braces"    -> <<Word("{"), Word("}")>>
    [] how = "option"    -> <<Word("{"), Word("option"), Word("("), <<"google", "api", "http">>,
                              Word(")"), Word("="), Semicolon, Word("}")>>

OutputTokens(s) == <<Returns>> \o ParameterTokens(s.out, Closing(s.close))
NameTokens(s)   == <<Word(s.name)>> \o ParameterTokens(s.in, OutputTokens(s))
RpcTokens(s)    == <<Word("rpc")>> \o NameTokens(s)

Tokens(s) ==
  CASE s.is = "rpc"     -> RpcTokens(s)
    [] s.is = "comment" -> CommentTokens(s.words, s.ownLine)
    [] s.is = "field"   -> <<Word("string"), Word(s.name), Word("="), Word("1"), Semicolon>>
    [] s.is = "service" -> <<Service, Word(s.name), Word("{")>>

(* The places of the word with which the declaration of a service begins. *)
Mentions(words) == {k \in 1 .. Len(words) : words[k] = Service}

(* There is at most one, with a word behind it and no rpc or semicolon before. *)
OneMention(words) ==
  \A k \in Mentions(words) : /\ Mentions(words) = {k} /\ k < Len(words)
                             /\ \A m \in 1 .. k : words[m] \notin {Word("rpc"), Semicolon}

IsWord(w) == w \in Seq(STRING) /\ w \notin {Service, Word("rpc")}
IsName(w) == IsWord(w) /\ w \notin {Word("("), Word(")"), Stream, Returns, Semicolon}
IsParameter(p) == p.stream \in BOOLEAN /\ IsName(p.type) /\ p.type # <<>> /\ Last(p.type) # ""

(***************************************************************************)
(* The word "rpc" begins declarations and nothing else, those of the       *)
(* syntax name nothing, and a comment after code mentions a service once   *)
(* at most.  What is in a comment on a line of its own does not matter.    *)
(***************************************************************************)
ASSUME StatementsAssumption ==
  \A s \in Statements :
    \/ s.is = "field" /\ s.name \notin {"rpc", ";"}
    \/ s.is = "service" /\ IsName(Word(s.name))
    \/ /\ s.is = "comment" /\ s.ownLine \in BOOLEAN
       /\ ~s.ownLine => /\ s.words \in Seq(Seq(STRING) \ {<<>>, Word("rpc")})
                        /\ OneMention(s.words)
    \/ /\ s.is = "rpc" /\ s.close \in {"semicolon", "braces", "option"}
       /\ IsName(Word(s.name)) /\ IsParameter(s.in) /\ IsParameter(s.out)

Init ==
  /\ file = <<>> /\ rest = <<>>
  /\ current_token = "None"
  /\ service_name = None /\ rpc_name = "none"
  /\ input_param = <<>> /\ out_param = <<>>
  /\ rpc = <<>>
  /\ result = "reading"

(* An rpc is written in a service. *)
WriteStatement ==
  /\ result = "reading"
  /\ rest = <<>> /\ Len(file) < MaxStatements
  /\ \E s \in Statements :
       /\ s.is = "rpc" => \E n \in 1 .. Len(file) : file[n].is = "service"
       /\ file' = Append(file, s) /\ rest' = Tokens(s)
  /\ UNCHANGED <<current_token, service_name, rpc_name, paramVars, rpc, result>>

-----------------------------------------------------------------------------
(* The reader: one transition per token, by the state it is in.            *)

Token == Head(rest)
Reads(state) ==
  /\ rest # <<>> /\ current_token = state
  /\ rest' = Tail(rest)
  /\ UNCHANGED <<file, result>>

ReadNone ==
  /\ Reads("None")
  /\ current_token' = IF Token = Service THEN "Service"
                      ELSE IF Token = Word("rpc") THEN "Rpc"
                      ELSE "None"
  /\ UNCHANGED <<service_name, rpc_name, paramVars, rpc>>

ReadServiceName ==
  /\ Reads("Service")
  /\ service_name' = Token
  /\ current_token' = "None"
  /\ UNCHANGED <<rpc_name, paramVars, rpc>>

(* Mutant: what an earlier rpc left in the parameters stays there. *)
ReadRpcNameKeepingParams ==
  /\ Reads("Rpc")
  /\ rpc_name' = Token[1]
  /\ current_token' = "RpcExpectingInputParameter"
  /\ UNCHANGED <<service_name, paramVars, rpc>>

ReadRpcName ==
  /\ Reads("Rpc")
  /\ rpc_name' = Token[1]
  /\ input_param' = <<>> /\ out_param' = <<>>
  /\ current_token' = "RpcExpectingInputParameter"
  /\ UNCHANGED <<service_name, rpc>>

ReadInputParameter ==
  /\ Reads("RpcExpectingInputParameter")
  /\ current_token' = IF Token = Word(")") THEN "RpcExpectingOutputParameter" ELSE current_token
  /\ input_param' = IF Token \in Brackets THEN input_param ELSE Append(input_param, Token)
  /\ UNCHANGED <<service_name, rpc_name, out_param, rpc>>

(* Mutant: braces close an rpc, which is not found then. *)
ReadOutputUntilBrace ==
  /\ Reads("RpcExpectingOutputParameter")
  /\ Token # Semicolon
  /\ current_token' = IF Token = Word("}") THEN "None" ELSE current_token
  /\ out_param' = IF Token \in Brackets \union {Returns} THEN out_param ELSE Append(out_param, Token)
  /\ UNCHANGED <<service_name, rpc_name, input_param, rpc>>

ReadOutputParameter ==
  /\ Reads("RpcExpectingOutputParameter")
  /\ Token # Semicolon
  /\ out_param' = IF Token \in Brackets \union {Returns} THEN out_param ELSE Append(out_param, Token)
  /\ UNCHANGED <<current_token, service_name, rpc_name, input_param, rpc>>

(* Mutant: an rpc is closed and the state is not. *)
CloseRpcStays ==
  /\ Reads("RpcExpectingOutputParameter")
  /\ Token = Semicolon
  /\ rpc' = IF rpc_name = "Ping" THEN rpc
            ELSE Append(rpc, [name |-> rpc_name, in |-> input_param, out |-> out_param])
  /\ out_param' = Append(out_param, Token)
  /\ UNCHANGED <<current_token, service_name, rpc_name, input_param>>

(* The semicolon closes the rpc, and then goes into out_param as any token. *)
CloseRpc ==
  /\ Reads("RpcExpectingOutputParameter")
  /\ Token = Semicolon
  /\ rpc' = IF rpc_name = "Ping" THEN rpc
            ELSE Append(rpc, [name |-> rpc_name, in |-> input_param, out |-> out_param])
  /\ current_token' = "None"
  /\ out_param' = Append(out_param, Token)
  /\ UNCHANGED <<service_name, rpc_name, input_param>>

(* The file is at its end. *)
Finish ==
  /\ result = "reading" /\ rest = <<>>
  /\ result' = IF service_name = None THEN "panicked" ELSE "described"
  /\ UNCHANGED <<file, rest, current_token, service_name, rpc_name, paramVars, rpc>>

Next ==
  \/ WriteStatement \/ Finish
  \/ ReadNone \/ ReadServiceName \/ ReadRpcName
  \/ ReadInputParameter \/ ReadOutputParameter \/ CloseRpc

Spec == Init /\ [][Next]_vars

-----------------------------------------------------------------------------
(* ParamType::parse: the first word that is not "stream", and whether a    *)
(* "stream" came before it.  A word has a last segment that is not empty.  *)

NoParam == [stream |-> FALSE, name |-> ""]

NamePlace(param) ==
  CHOOSE n \in DOMAIN param : param[n] # Stream /\ \A m \in 1 .. n - 1 : param[m] = Stream

Parse(param) ==
  IF \A n \in DOMAIN param : param[n] = Stream THEN NoParam
  ELSE LET n == NamePlace(param)
       IN  IF param[n] = Empty THEN [stream |-> FALSE, name |-> "()"]
           ELSE [stream |-> n > 1, name |-> Last(param[n])]

-----------------------------------------------------------------------------
(* What a reader should find, from the statements alone.                   *)

HasSemicolon(s) == Contains(Tokens(s), Semicolon)

(***************************************************************************)
(* The reader is at its start state before statement i if a semicolon came *)
(* after the beginning of each rpc before it.                              *)
(***************************************************************************)
Begun(statements, i) ==
  \A j \in 1 .. i - 1 : statements[j].is = "rpc" => \E n \in j .. i - 1 : HasSemicolon(statements[n])

(* The rpcs that it is at its start state for, and that are closed by the  *)
(* next semicolon.                                                         *)
SeenIn(statements) ==
  {i \in 1 .. Len(statements) : /\ statements[i].is = "rpc" /\ statements[i].name # "Ping"
                                /\ Begun(statements, i)
                                /\ \E n \in i .. Len(statements) : HasSemicolon(statements[n])}

Seen == SeenIn(file)

(* The names that a statement gives to the service, if the reader is at its *)
(* start state there.                                                      *)
Names(s) ==
  CASE s.is = "service" -> {Word(s.name)}
    [] s.is = "field"   -> IF s.name = "service" THEN {Word("=")} ELSE {}
    [] s.is = "comment" -> IF s.ownLine THEN {} ELSE {s.words[k + 1] : k \in Mentions(s.words)}
    [] s.is = "rpc"     -> {}

NamingIn(statements) ==
  {i \in 1 .. Len(statements) : Names(statements[i]) # {} /\ Begun(statements, i)}

(* A name is the one that the last of these statements gives, or None. *)
IsNamed(statements, name) ==
  IF NamingIn(statements) = {} THEN name = None
  ELSE \E i \in NamingIn(statements) :
         (\A j \in NamingIn(statements) : j <= i) /\ name \in Names(statements[i])

(* The place of i among the numbers in S. *)
Place(S, i) == Cardinality({j \in S : j <= i})

(* What an author expects of a parameter. *)
Declared(p) == [stream |-> p.stream, name |-> IF p.type = Empty THEN "()" ELSE Last(p.type)]

(* A stream of empty messages is taken for a single one. *)
Understood(p) == ~(p.stream /\ p.type = Empty)

-----------------------------------------------------------------------------
(* Properties.                                                             *)

(***************************************************************************)
(* Every rpc is found once and in its place, except those that follow one  *)
(* which braces close: the reader takes their tokens, up to the next       *)
(* semicolon, for the output type of that one.  An option in the body of   *)
(* an rpc, comments, and other statements of the file change nothing.      *)
(***************************************************************************)
NothingElseIsLost ==
  rest = <<>> => /\ Len(rpc) = Cardinality(Seen)
                 /\ \A i \in Seen : rpc[Place(Seen, i)].name = file[i].name

(***************************************************************************)
(* What is found of an rpc is what was declared, also of one that took the *)
(* tokens of others, and none of them inherits a type of an earlier one.   *)
(***************************************************************************)
FoundIsDeclared ==
  rest = <<>> => \A i \in Seen : Place(Seen, i) \in DOMAIN rpc =>
    LET found == rpc[Place(Seen, i)]
    IN  /\ Understood(file[i].in)  => Parse(found.in)  = Declared(file[i].in)
        /\ Understood(file[i].out) => Parse(found.out) = Declared(file[i].out)

(***************************************************************************)
(* The service has the name in the last of the statements that the reader  *)
(* is at its start state for and that mention a service: the declared one, *)
(* unless a field of this name or a comment after code comes later, which  *)
(* then gives it the word behind.  Without any of them the macro panics,   *)
(* and it panics for nothing else.                                         *)
(***************************************************************************)
ServiceIsFound ==
  /\ rest = <<>> => IsNamed(file, service_name)
  /\ result # "reading" => (result = "panicked" <=> NamingIn(file) = {})

-----------------------------------------------------------------------------
(* The inductive invariant behind them: where the reader is in a statement, *)
(* and that it has found what was to be found so far.                      *)

IsSequence(s) == Len(s) \in Nat /\ s = [k \in 1 .. Len(s) |-> s[k]]

TypeOK ==
  /\ file \in Seq(Statements)
  /\ IsSequence(rest) /\ IsSequence(input_param) /\ IsSequence(out_param) /\ IsSequence(rpc)
  /\ current_token \in {"None", "Service", "Rpc", "RpcExpectingInputParameter",
                        "RpcExpectingOutputParameter"}
  /\ result \in {"reading", "described", "panicked"}

(* The words of a parameter begin with what its author wrote. *)
BeginsWith(words, p) ==
  /\ IsSequence(words)
  /\ IF p.stream THEN Len(words) >= 2 /\ words[1] = Stream /\ words[2] = p.type
                 ELSE Len(words) >= 1 /\ words[1] = p.type

(* The rpcs that were found are those in S. *)
Finds(found, statements, S) ==
  /\ Len(found) = Cardinality(S)
  /\ \A i \in S : LET r == found[Place(S, i)]
                  IN  /\ r.name = statements[i].name
                      /\ BeginsWith(r.in, statements[i].in)
                      /\ BeginsWith(r.out, statements[i].out)

(* Nothing is open, and what is left of the statement declares no rpc. *)
Idle ==
  /\ current_token \in {"None", "Service"}
  /\ \A k \in 1 .. Len(rest) : rest[k] # Word("rpc")
  /\ Begun(file, Len(file) + 1)
  /\ Finds(rpc, file, Seen)

(* The reader is in parameter p, which leads on to the tokens then. *)
InParameter(words, p, then) ==
  \/ words = <<>> /\ rest \in {ParameterTokens(p, then), StreamTokens(p, then)}
  \/ words = <<Stream>> /\ p.stream /\ rest = TypeTokens(p, then)
  \/ BeginsWith(words, p) /\ rest = <<Word(")")>> \o then

(* The statement being read is an rpc, up to the end of its parameters. *)
Declaring ==
  LET s == file[Len(file)]
  IN  /\ file # <<>> /\ s.is = "rpc" /\ Begun(file, Len(file))
      /\ Finds(rpc, file, Seen \ {Len(file)})
      /\ \/ current_token = "None" /\ rest = RpcTokens(s)
         \/ current_token = "Rpc" /\ rest = NameTokens(s)
         \/ /\ current_token = "RpcExpectingInputParameter"
            /\ rpc_name = s.name /\ out_param = <<>>
            /\ InParameter(input_param, s.in, OutputTokens(s))
         \/ /\ current_token = "RpcExpectingOutputParameter"
            /\ rpc_name = s.name /\ BeginsWith(input_param, s.in)
            /\ \/ rest = OutputTokens(s) /\ out_param = <<>>
               \/ InParameter(out_param, s.out, Closing(s.close))

(* The reader has the parameters of rpc i, and waits for a semicolon. *)
Waits(i) ==
  /\ file[i].is = "rpc" /\ Begun(file, i)
  /\ \A n \in i .. Len(file) - 1 : ~HasSemicolon(file[n])
  /\ HasSemicolon(file[Len(file)]) <=> Contains(rest, Semicolon)
  /\ rpc_name = file[i].name
  /\ BeginsWith(input_param, file[i].in) /\ BeginsWith(out_param, file[i].out)
  /\ Finds(rpc, file, Seen \ {i})

Waiting ==
  /\ current_token = "RpcExpectingOutputParameter"
  /\ \A k \in 2 .. Len(rest) : rest[k] # Word("rpc")
  /\ \E i \in 1 .. Len(file) : Waits(i)

(***************************************************************************)
(* The name that is due is still to be read, the next token, or read.  In  *)
(* a declaration it stays as it is, and no service is mentioned behind a   *)
(* semicolon that may end it.                                              *)
(***************************************************************************)
NameDue ==
  /\ OneMention(rest)
  /\ \/ /\ current_token = "None"
        /\ \E k \in Mentions(rest) : IsNamed(file, rest[k + 1])
     \/ /\ current_token = "Service"
        /\ Mentions(rest) = {} /\ rest # <<>> /\ IsNamed(file, Head(rest))
     \/ /\ current_token = "None"
        /\ Mentions(rest) = {} /\ IsNamed(file, service_name)
     \/ /\ current_token \notin {"None", "Service"}
        /\ IsNamed(file, service_name)

Ended == result # "reading" => rest = <<>> /\ (result = "panicked" <=> service_name = None)

IInv == TypeOK /\ NameDue /\ Ended /\ (Idle \/ Declaring \/ Waiting)

=============================================================================
