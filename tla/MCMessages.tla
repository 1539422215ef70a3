----------------------------- MODULE MCMessages -----------------------------
(* What goes through a server's hands, in four small instances that run one *)
(* beside the other: the parts of HTTP messages, the exchange of MCP        *)
(* messages, the arguments of MCP calls, and the administration grid with   *)
(* its links and queries. One of them moves in a behaviour.                 *)
EXTENDS McpProtocol, AdminGrid, HttpMessages

VARIABLES part, argument
vars == <<part, message, exchange, argument, grid>>

UpTo(n, S) == UNION {[1..k -> S] : k \in 0..n}
Unused == [idle |-> TRUE]

-----------------------------------------------------------------------------
(* Every path of up to four pieces, escapes and halves of escapes among     *)
(* them.                                                                    *)
PathPieces == {<<"/">>, <<".">>, <<"a">>, <<"%", "2", "e">>, <<"%", "2", "f">>, <<"%", "f", "f">>, <<"+">>, <<"%">>, <<"2", "e">>}
RawPaths == {<<"/">> \o FlattenSeq(t) : t \in UpTo(4, PathPieces)}

(* Forms of up to three fields or two parts, in the spellings clients use.  *)
UrlForms == [type : {"urlencoded"}, pairs : UpTo(3, {<<"a", "1">>, <<"a", "2">>, <<"b", "1">>, <<"b">>})]
Quoted(name, quoted) == IF quoted THEN <<"quote", name, "quote">> ELSE <<name>>
FileNames == {<< >>, <<"semicolon", "filename=", "quote", "x", "quote">>, <<"semicolon", "filename=", "x">>,
              <<"semicolon", "filename*=", "utf-8", "''", "x">>}
FormParts ==
  {[field |-> field, file |-> name # << >>, blank |-> blank, data |-> data,
    line |-> <<"form-data", "semicolon", "name=">> \o Quoted(field, quoted) \o name] :
     field \in {"a", "b"}, quoted \in BOOLEAN, name \in FileNames, blank \in BOOLEAN, data \in {"1", "binary"}}
MultiForms == [type : {"multipart"}, parts : UNION {[1..n -> FormParts] : n \in 1..2}, ended : BOOLEAN]
Forms == UrlForms \cup MultiForms \cup {[type |-> "other"]}

Added == UpTo(2, {<<"content-type", "Usual", "text/csv">>, <<"x-id", "Usual", "handler">>, <<"content-type", "lower", "text/plain">>})
HeaderKeys == {<<"x-id", "lower">>, <<"x-id", "Usual">>, <<"cookie", "lower">>, <<"x-trace", "Usual">>}
Replies ==
  [maker : {"new", "static_file", "asset", "json", "sse", "redirect", "markup", "data"}, more : Added,
   client : SUBSET {"cookie", "x-id"}, jar : {{}, {"sid", "theme"}},
   middlewares : UNION {[keys -> {<<"v1">>, <<"v1", "v2">>}] : keys \in SUBSET HeaderKeys}]
(* No message: what has come is of no kind.                                *)
NoMessage == MessageInit("nothing", << >>)
Cookies == [value : UpTo(3, {"a", ".", "semicolon", "blank"}), key : {"k1", "k2"}, reader : {"k1"},
            forged : {<< >>, <<"b">>, <<"a", ".">>, <<"blank", "a">>}]

-----------------------------------------------------------------------------
(* Every envelope that is not broken in two ways at once.                   *)
Envs == {e \in [required : BOOLEAN, secret : BOOLEAN, stateless : BOOLEAN] : e.secret \/ (e.stateless /\ ~e.required)}
Sound ==
  {e \in Envelopes :
     CASE e.method = "call" -> e.asks = ""
       [] e.method = "initialize" -> e.version = "2.0" /\ e.id # "null" /\ e.asks # "2025-06-18"
       [] e.method = "initialized" -> e.version = "2.0" /\ e.id = "absent" /\ e.asks = ""
       [] OTHER -> e.version = "2.0" /\ e.asks = "" /\ e.id # "null"}
Posts == Unparsed \cup Sound
NoBody == CHOOSE b \in Unparsed : b.text = "nothing"
Call(vias, auths, cookies, sessions, bodies, streams) ==
  [via : vias, auth : auths, cookie : cookies, session : sessions, body : bodies, stream : streams]
(* No exchange: a server that nobody calls.                                *)
NoExchange == ExchangeInit({CHOOSE env \in Envs : TRUE})
Calls ==
  Call({"message"}, {"absent"}, {TRUE}, 0..2, Posts, {TRUE})
  \cup Call({"streamable"}, {"absent"}, {TRUE}, {0, 1}, Posts, BOOLEAN)
  \cup Call({"sse", "terminate"}, {"absent"}, {TRUE}, 0..2, {NoBody}, {TRUE})
  \cup Call({"stdio"}, {"absent"}, {TRUE}, {0}, Posts, {TRUE})
  \cup Call({"sse", "message", "streamable", "terminate"}, Headers, BOOLEAN, {0, 1}, {NoBody}, {TRUE})

Args == INSTANCE McpSchema

(* Values, and schemas with one keyword, or the few that act together; the  *)
(* last three have defaults that do not fit.                                *)
Text(letters) == <<"str", letters>>
Whole(n) == <<"int", n>>
Scalars == {Args!Nil, Text(<< >>), Text(<<"a">>), Text(<<"a", "b">>), <<"bool", TRUE>>, Whole(0), Whole(3), Whole(4),
            <<"float", 6>>, <<"float", 7>>}
Values == Scalars \cup {<<"arr", items>> : items \in UpTo(2, {Args!Nil, Text(<<"a">>), Whole(3), Whole(4)})}
Objects == {<<"obj", map>> : map \in UNION {[keys -> Values] : keys \in SUBSET {"x", "y"}}}
Three == [type |-> {"integer"}, minimum |-> 3, maximum |-> 3]
Four == [type |-> {"integer"}, default |-> Whole(4)]
Fragments ==
  {Args!Anything, [never |-> TRUE], Three, Four,
   [type |-> {"number"}, exclusiveMinimum |-> 0, exclusiveMaximum |-> 4, multipleOf |-> 3],
   [type |-> {"number"}, multipleOf |-> 2],
   [type |-> {"string", "null"}, minLength |-> 1, maxLength |-> 1],
   [type |-> {"string"}, pattern |-> {<<"a">>}, default |-> Text(<<"a">>)],
   [enum |-> {Text(<<"a">>), Whole(3)}], [const |-> Whole(3)],
   [anyOf |-> <<Three, [type |-> {"string"}, default |-> Text(<<"a", "b">>)]>>],
   [anyOf |-> <<[type |-> {"boolean"}], [default |-> Whole(4), type |-> {"integer", "string"}]>>],
   [type |-> {"array"}, items |-> Four, minItems |-> 1, maxItems |-> 1],
   [type |-> {"array"}, uniqueItems |-> TRUE, items |-> [type |-> {"integer", "string"}]],
   [type |-> {"array"}, uniqueItems |-> TRUE, items |-> Four],
   [type |-> {"integer"}, maximum |-> 3, default |-> Whole(4)],
   [type |-> {"string"}, default |-> Whole(3)]}
Tools ==
  [kind : {"tool"},
   schema : {<< >>}
     \cup {<<[properties |-> [x |-> f], required |-> {"x"}, additionalProperties |-> [never |-> TRUE]]>> : f \in Fragments}
     \cup {<<[properties |-> [x |-> f]]>> : f \in Fragments}
     \cup {<<[properties |-> [x |-> Four], additionalProperties |-> f]>> : f \in Fragments}]
Declared == [name : {"x", "y"}, required : BOOLEAN]
Prompts == [kind : {"prompt"}, described : {{}, {"x"}},
            arguments : UpTo(2, Declared) \cup {<<[name |-> "", required |-> TRUE]>>}]

-----------------------------------------------------------------------------
(* Letters 1 and 2; a percent escape that is meant is the letter 1 at depth *)
(* 1, and the escape of that one at depth 2.                                *)
One == << <<1, 0>> >>
Two == << <<2, 0>> >>
Percent == << <<1, 1>> >>
Twice == << <<1, 2>> >>
RowsOf(n, note) ==
  [id \in 1..n |-> [column \in {"name", "note"} |->
     IF column = "name" THEN (CASE id = 1 -> Percent [] id = 2 -> One \o Two [] OTHER -> One)
     ELSE IF id = 2 THEN Null ELSE note]]
Ops == {"eq", "ne", "gt", "gte", "lt", "lte", "contains", "startswith", "endswith", "is_null", "is_not_null", "", "odd"}
FilterForms ==
  {[ops |-> [name |-> op, note |-> other], vals |-> [name |-> value, note |-> Two], infinite |-> TRUE] :
     op \in Ops, other \in {"", "eq"}, value \in {NoText, One, Percent, Twice}}
Bookmarks ==
  {Parameters([name |-> "eq", lost |-> "eq"], [name |-> value, lost |-> One], q, "", "desc", 0, TRUE, "") :
     value \in {One, Percent}, q \in {<< >>, <<One>>, <<NoText>>}}
SqlTable(name, plural) == [name |-> name, plural |-> plural]
(* ProductRepository over the table products, UserRepository over user.     *)
Shops == {[slug |-> SqlTable("product", FALSE), table |-> SqlTable("product", TRUE)],
          [slug |-> SqlTable("user", FALSE), table |-> SqlTable("user", FALSE)]}
(* No request: the page of an empty table, under its own name.              *)
NoGrid ==
  LET user == [slug |-> SqlTable("user", FALSE), table |-> SqlTable("user", FALSE)]
  IN GridInit([id \in {} |-> NoText], {user}, [column \in {} |-> NoText], user,
              Parameters([c \in {} |-> ""], [c \in {} |-> NoText], << >>, "", "desc", 0, FALSE, ""))
Foreign == [user_id |-> [base |-> SqlTable("user", FALSE), relation |-> <<SqlTable("user", TRUE)>>],
            other_id |-> [base |-> SqlTable("other", FALSE), relation |-> << >>]]
QueryColumns == {<<"a">>, <<"t", "a">>, <<"*">>}
Condition(column, op, value) == [column |-> column, op |-> op, value |-> value]
Conditions ==
  {<< >>, <<Condition(<<"u", "b">>, ">=", <<<<"v">>>>), Condition(<<"a">>, "<", <<<<"w">>>>)>>}
  \cup {<<Condition(<<"a">>, op, value)>> : op \in {"=", "LIKE", ">"}, value \in {<<<<"v">>>>, <<<<"v">>, <<"w">>>>}}
Joined(left, right) == <<[table |-> <<"u">>, left |-> left, right |-> right]>>
Queries ==
  [columns : {<< >>} \cup {<<x>> : x \in QueryColumns} \cup {<<x, <<"u", "b">> >> : x \in QueryColumns}, from : {<<"t">>},
   join : {<< >>, Joined(<<"t", "a">>, <<"u", "b">>), Joined(<<"a">>, <<"u", "b">>), Joined(<<"t", "a">>, <<"b">>)},
   where : Conditions]

-----------------------------------------------------------------------------
Init ==
  \/ /\ part = "http" /\ NoExchange /\ argument = Unused /\ NoGrid
     /\ MessagesInit(RawPaths, Forms, Replies, Cookies)
  \/ part = "exchange" /\ NoMessage /\ argument = Unused /\ NoGrid /\ ExchangeInit(Envs)
  \/ /\ part = "argument" /\ NoMessage /\ NoExchange /\ NoGrid
     /\ \/ Args!ArgumentInit(Tools, Objects \cup {Args!Nil, Text(<<"a">>)})
        \/ Args!ArgumentInit(Prompts, Objects \cup {Args!Nil, Text(<<"a">>)})
  \/ /\ part \in {"grid", "explorer"} /\ NoMessage /\ NoExchange /\ argument = Unused
     /\ \E n \in {3, 7}, note \in {Two}, at \in Shops, bookmark \in Bookmarks :
          GridInit(RowsOf(n, note), Shops, Foreign, at, bookmark)

Next ==
  /\ UNCHANGED part
  /\ \/ part = "http" /\ MessagesNext /\ UNCHANGED <<exchange, argument, grid>>
     \/ part = "exchange" /\ ExchangeNext(Calls) /\ UNCHANGED <<message, argument, grid>>
     \/ part = "argument" /\ Args!ArgumentNext /\ UNCHANGED <<message, exchange, grid>>
     \/ part = "grid" /\ GridNext(FilterForms, {}) /\ UNCHANGED <<message, exchange, argument>>
     \/ part = "explorer" /\ GridNext({}, Queries) /\ UNCHANGED <<message, exchange, argument>>

Spec == Init /\ [][Next]_vars

-----------------------------------------------------------------------------
(* A tool and a prompt get what their schema and list promise: the validator*)
(* of mcp/schema.rs and prompt.rs (McpSchema).                              *)
ArgumentsAreSound == part = "argument" => Args!ArgumentsAreSound
=============================================================================
