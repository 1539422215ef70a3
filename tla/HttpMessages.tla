---------------------------- MODULE HttpMessages ----------------------------
(***************************************************************************)
(* What a request means once its bytes are there, and what of a response   *)
(* is written: the path, the fields and the files of                       *)
(* src/src/http/request.rs and form.rs, the response of response.rs with   *)
(* the headers that middlewares add and the cookies of security/cookies.rs.*)
(* A text is a sequence of pieces; a piece is a character where it matters. *)
(***************************************************************************)
EXTENDS Integers, Sequences, FiniteSets, SequencesExt

VARIABLE message
(* about: "path", "form", "reply" or "cookie". input: what came in. stage:  *)
(* "in", "built" or "out". output: what became of it.                       *)

MessageInit(about, input) == message = [about |-> about, input |-> input, stage |-> "in", output |-> << >>]
Becomes(stage, output) == message' = [message EXCEPT !.stage = stage, !.output = output]

(* text.split(sep): the pieces between separators, the empty ones too.      *)
Parted(done, c, sep) == IF c = sep THEN Append(done, << >>) ELSE [done EXCEPT ![Len(done)] = Append(@, c)]
Split(text, sep) ==
  LET done[i \in 0..Len(text)] == IF i = 0 THEN << << >> >> ELSE Parted(done[i - 1], text[i], sep)
  IN done[Len(text)]
HasPart(text, part) == \E i \in 1..(Len(text) - Len(part) + 1) : SubSeq(text, i, i + Len(part) - 1) = part
Place(text, marks) == SelectInSeq(text, LAMBDA x : x \in marks)   (* text.find; 0 if there is none *)
TrimmedLeft(text, c) ==
  LET first == Place(text, ToSet(text) \ {c}) IN
  IF first = 0 THEN << >> ELSE SubSeq(text, first, Len(text))
Trimmed(text, c) == Reverse(TrimmedLeft(Reverse(TrimmedLeft(text, c)), c))
-----------------------------------------------------------------------------
(***************************************************************************)
(* The path                                                                *)
(***************************************************************************)
(* Characters: "/", ".", "+", "%", a letter, and the digits of the octets   *)
(* for "." (2e), "/" (2f) and one that no UTF-8 text holds (ff).            *)
Octet(pair) ==
  CASE pair = <<"2", "e">> -> "." [] pair = <<"2", "f">> -> "/" [] pair = <<"f", "f">> -> "invalid"
    [] pair[1] = "+" /\ pair[2] \in {"2", "e", "f"} -> "control"   (* from_str_radix takes a sign *)
    [] OTHER -> "none"

PercentDecode(text) ==
  LET decoded[i \in 1..(Len(text) + 3)] ==
        IF i > Len(text) THEN << >>
        ELSE IF text[i] = "+" THEN <<" ">> \o decoded[i + 1]
        ELSE IF text[i] = "%" /\ i + 2 <= Len(text) /\ Octet(SubSeq(text, i + 1, i + 2)) # "none"
             THEN <<Octet(SubSeq(text, i + 1, i + 2))>> \o decoded[i + 3]
        ELSE <<text[i]>> \o decoded[i + 1]
  IN IF HasPart(decoded[1], <<"invalid">>) THEN text ELSE decoded[1]

Walked(stack, s) ==
  IF s \in {<< >>, <<".">>} THEN stack
  ELSE IF s = <<".", ".">> THEN SubSeq(stack, 1, Len(stack) - 1)
  ELSE Append(stack, s)
Remaining(segments) ==
  LET stack[i \in 0..Len(segments)] == IF i = 0 THEN << >> ELSE Walked(stack[i - 1], segments[i])
  IN stack[Len(segments)]
Slashed(kept) == IF kept = << >> THEN <<"/">> ELSE FlattenSeq([i \in DOMAIN kept |-> <<"/">> \o kept[i]])
SanitizePath(path) ==
  IF ~ HasPart(path, <<".">>) /\ ~ HasPart(path, <<"/", "/">>) THEN path ELSE Slashed(Remaining(Split(path, "/")))

(* Mutation of Path: the path is cleaned before it is decoded.              *)
PathCleanedFirst(text) == PercentDecode(SanitizePath(text))

Path(text) == SanitizePath(PercentDecode(text))

ParsePath == message.stage = "in" /\ message.about = "path" /\ Becomes("out", Path(message.input))

(* Neither a dot segment nor a double slash reaches the router, however the *)
(* path was encoded, and cleaning it again changes nothing.                 *)
PathIsCanonical ==
  message.about = "path" /\ message.stage = "out" =>
    LET path == message.output IN
    /\ \A s \in ToSet(Split(path, "/")) : s # <<".">> /\ s # <<".", ".">>
    /\ ~ HasPart(path, <<"/", "/">>)
    /\ SanitizePath(path) = path
-----------------------------------------------------------------------------
(***************************************************************************)
(* The form                                                                *)
(***************************************************************************)
(* A form is urlencoded or multipart. A field of a urlencoded one is <<key, *)
(* value>>, or <<key>> without "=". A part of a multipart one is its        *)
(* Content-Disposition line in pieces, whether it has a blank line, and its *)
(* data; ended: the boundary that closes the last part came.                *)
Add(fields, name, value) ==
  IF name \in DOMAIN fields THEN [fields EXCEPT ![name] = Append(@, value)]
  ELSE [n \in DOMAIN fields \cup {name} |-> IF n = name THEN <<value>> ELSE fields[n]]
NoFields == [n \in {} |-> << >>]
Empty == [fields |-> NoFields, files |-> NoFields]

Encoded(done, pair) ==
  IF Len(pair) < 2 THEN done ELSE [done EXCEPT !.fields = Add(@, <<pair[1]>>, pair[2])]
UrlEncoded(pairs) ==
  LET done[i \in 0..Len(pairs)] == IF i = 0 THEN Empty ELSE Encoded(done[i - 1], pairs[i])
  IN done[Len(pairs)]

(* line.find("name=") finds the end of "filename=" as well.                 *)
After(line, markers) ==
  LET i == Place(line, markers) IN
  IF i = 0 THEN {} ELSE {SubSeq(line, i + 1, Len(line))}
NameOf(line) ==
  LET rest == After(line, {"name=", "filename="}) IN
  IF rest = {} THEN << >>
  ELSE Split(Trimmed(Trimmed(CHOOSE r \in rest : TRUE, "semicolon"), "quote"), "semicolon")[1]
FileNameOf(line) ==
  LET star == After(line, {"filename*="})
      plain == After(line, {"filename="})
  IN IF star # {}
     THEN {Trimmed(Split(r, "''")[2], "quote") : r \in {r \in star : HasPart(r, <<"''">>)}}
     ELSE {Trimmed(Split(r, "semicolon")[1], "quote") : r \in plain}

Taken(done, part) ==
  LET name == NameOf(part.line)
      filename == FileNameOf(part.line)
  IN IF ~ part.blank \/ name = << >> THEN done
     ELSE IF filename # {}
          THEN [done EXCEPT !.files = Add(@, name, [filename |-> CHOOSE f \in filename : TRUE, data |-> part.data])]
     ELSE IF part.data = "binary" THEN done
     ELSE [done EXCEPT !.fields = Add(@, name, part.data)]
Delimited(form) == IF form.ended THEN form.parts ELSE SubSeq(form.parts, 1, Len(form.parts) - 1)
Multipart(parts) ==
  LET done[i \in 0..Len(parts)] == IF i = 0 THEN Empty ELSE Taken(done[i - 1], parts[i])
  IN done[Len(parts)]

ParseFormBody(form) ==
  CASE form.type = "urlencoded" -> UrlEncoded(form.pairs)
    [] form.type = "multipart" -> Multipart(Delimited(form))
    [] OTHER -> Empty

ParseForm == message.stage = "in" /\ message.about = "form" /\ Becomes("out", ParseFormBody(message.input))

(* What a form says: the pairs or parts that came in whole, and which of    *)
(* them are text, under which name and with which value.                    *)
SentIn(form) ==
  CASE form.type = "urlencoded" -> form.pairs
    [] form.type = "multipart" -> IF form.ended THEN form.parts ELSE Front(form.parts)
    [] OTHER -> << >>
IsText(form, p) == IF form.type = "urlencoded" THEN Len(p) = 2 ELSE ~ p.file /\ p.blank /\ p.data # "binary"
NameIn(form, p) == IF form.type = "urlencoded" THEN p[1] ELSE p.field
ValueIn(form, p) == IF form.type = "urlencoded" THEN p[2] ELSE p.data

Found(form, fields) ==
  LET sent == SentIn(form)
      texts == {i \in DOMAIN sent : IsText(form, sent[i])}
      Upto(i, name) == {j \in texts : j =< i /\ NameIn(form, sent[j]) = name}
  IN /\ DOMAIN fields = {<<NameIn(form, sent[i])>> : i \in texts}
     /\ \A i \in texts :
          LET name == NameIn(form, sent[i])
              values == fields[<<name>>]
          IN /\ Len(values) = Cardinality(Upto(Len(sent), name))
             /\ values[Cardinality(Upto(i, name))] = ValueIn(form, sent[i])

(* Every value of a text field is found under the field's name, in the      *)
(* order in which it was sent, unless the body was cut within it; nothing   *)
(* else is found.                                                           *)
FieldsArrive ==
  message.about = "form" /\ message.stage = "out" => Found(message.input, message.output.fields)

-----------------------------------------------------------------------------
(***************************************************************************)
(* The response                                                            *)
(***************************************************************************)
(* A header is <<name, casing, value>>; names compare without their casing  *)
(* where the code uses eq_ignore_ascii_case or to_lowercase.                *)
(* input: maker, the constructor; more, what with_header(s) adds to it;     *)
(* client, the names of the request's headers, in lower case; middlewares,  *)
(* ctx.headers as a function from <<name, casing>> to the values, where the *)
(* headers of the request are as well; jar, the cookies staged on it.       *)
Header(name, value) == <<name, "Usual", value>>
NoSniff == Header("x-content-type-options", "nosniff")
Deny == Header("x-frame-options", "DENY")

(* The body variants, and the type resolve() knows for each.                *)
Implied(variant) ==
  CASE variant = "Html" -> "text/html" [] variant = "Json" -> "application/json"
    [] variant = "Bytes" -> "none" [] variant = "Stream" -> "text/event-stream"
    [] variant = "StaticFile" -> "by-extension"

Typed(type) == <<Header("content-type", type)>>
Asset == [variant |-> "Bytes", headers |-> Typed("asset") \o <<NoSniff>>]
EventStream ==
  [variant |-> "Stream",
   headers |-> Typed("text/event-stream") \o
               <<Header("cache-control", "no-cache"), Header("connection", "keep-alive"),
                 Header("x-accel-buffering", "no"), NoSniff>>]
JsonHeaders == Typed("application/json") \o <<NoSniff>>
Json == [variant |-> "Json", headers |-> JsonHeaders]   (* json and the helpers for each status *)
Redirect == [variant |-> "Html", headers |-> <<Header("location", "target")>> \o Typed("text/html") \o <<NoSniff, Deny>>]

(* ok, created, bad_request and the others convert their payload: markup    *)
(* and text to Html, JsonPayload and maps to Json.                          *)
Converted(payload) ==
  IF payload = "data" THEN [variant |-> "Json", type |-> "application/json"]
  ELSE [variant |-> "Html", type |-> "text/html"]
Payload(payload) ==
  [variant |-> Converted(payload).variant, headers |-> Typed(Converted(payload).type) \o <<NoSniff, Deny>>]

Built(maker) ==
  CASE maker = "new" -> [variant |-> "Html", headers |-> <<NoSniff, Deny>>]
    [] maker = "static_file" -> [variant |-> "StaticFile", headers |-> <<NoSniff, Deny>>]
    [] maker = "asset" -> Asset
    [] maker = "json" -> Json
    [] maker = "sse" -> EventStream
    [] maker = "redirect" -> Redirect
    [] maker \in {"markup", "data"} -> Payload(maker)

Build ==
  /\ message.stage = "in" /\ message.about = "reply"
  /\ LET made == Built(message.input.maker) IN
     Becomes("built", [made EXCEPT !.headers = @ \o message.input.more])

HeaderNames(headers) == {headers[i][1] : i \in DOMAIN headers}

(* Mutation of Merged: names are compared with their casing.                *)
MergedExactly(headers, key, values, client) ==
  IF key[1] \in client \/ \E i \in DOMAIN headers : <<headers[i][1], headers[i][2]>> = key THEN headers
  ELSE headers \o [i \in DOMAIN values |-> <<key[1], key[2], values[i]>>]

(* One entry of ctx.headers: neither what the client sent nor what the      *)
(* response has is touched.                                                 *)
Merged(headers, key, values, client) ==
  IF key[1] \in client \/ key[1] \in HeaderNames(headers) THEN headers
  ELSE headers \o [i \in DOMAIN values |-> <<key[1], key[2], values[i]>>]

MergedAll(headers, keys, middlewares, client) ==
  LET merged[i \in 0..Len(keys)] ==
        IF i = 0 THEN headers ELSE Merged(merged[i - 1], keys[i], middlewares[keys[i]], client)
  IN merged[Len(keys)]

(* The entries of a map come in any order.                                  *)
Orders(S) == {order \in [1..Cardinality(S) -> S] : ToSet(order) = S}

(* The type of to_bytes: the first that is set, or the implied one.         *)
FirstType(headers, implied) ==
  LET i == Place([j \in DOMAIN headers |-> headers[j][1]], {"content-type"}) IN
  IF i = 0 THEN implied ELSE headers[i][3]

(* to_stream_head_bytes does not look for it.                               *)
HeadType(response) ==
  IF response.variant = "Stream" THEN "text/event-stream"
  ELSE FirstType(response.headers, Implied(response.variant))

(* The headers whose lines are written from elsewhere.                      *)
Computed == {"content-type", "content-length"}
Others(headers) ==
  LET others[i \in 0..Len(headers)] ==
        IF i = 0 THEN << >>
        ELSE IF headers[i][1] \in Computed THEN others[i - 1] ELSE Append(others[i - 1], headers[i])
  IN others[Len(headers)]

ResponseHead(response, cookies) ==
  Typed(HeadType(response))
    \o (IF response.variant = "Stream" THEN << >> ELSE <<Header("content-length", "length")>>)
    \o Others(response.headers)
    \o [i \in DOMAIN cookies |-> Header("set-cookie", cookies[i])]

(* merge_middleware_headers, commit of the jar, and the head of the bytes.  *)
Finalize ==
  /\ message.stage = "built"
  /\ LET input == message.input IN
     \E keys \in Orders(DOMAIN input.middlewares), cookies \in Orders(input.jar) :
       LET merged == MergedAll(message.output.headers, keys, input.middlewares, input.client)
       IN Becomes("out", ResponseHead([message.output EXCEPT !.headers = merged], cookies))

(* The lines of a head under a name, and those a middleware wrote.          *)
Lines(head, name) == {i \in DOMAIN head : head[i][1] = name}
Written(head, key, values) == {i \in DOMAIN head : <<head[i][1], head[i][2]>> = key /\ head[i][3] \in ToSet(values)}
Handlers(input) == HeaderNames(Built(input.maker).headers \o input.more)
Alone(key, keys) == \A k \in keys \ {key} : k[1] # key[1]

HeadKeeps(head, input) ==
  /\ Cardinality(Lines(head, "content-type")) = 1
  /\ \A name \in input.client \ (Handlers(input) \cup Computed) : Lines(head, name) = {}
  /\ \A key \in DOMAIN input.middlewares :
       LET values == input.middlewares[key]
           written == Written(head, key, values)
       IN /\ key[1] \in Handlers(input) \cup {"content-length"} => written = {}
          /\ key[1] \notin Handlers(input) \cup input.client \cup Computed /\ Alone(key, DOMAIN input.middlewares) =>
               \E k \in 0..Len(head) : /\ written = (k + 1)..(k + Len(values))
                                       /\ \A i \in DOMAIN values : head[k + i][3] = values[i]
  /\ {head[i][3] : i \in Lines(head, "set-cookie")} = input.jar

(* Every response that is written has one Content-Type, no header of the    *)
(* request that the handler did not set itself, none of a middleware under  *)
(* a name of the handler's whatever the casing, the values of each that a   *)
(* middleware added alone, all and in their order, and the cookies of the   *)
(* jar.                                                                     *)
HeadIsSound == message.about = "reply" /\ message.stage = "out" => HeadKeeps(message.output, message.input)

-----------------------------------------------------------------------------
(***************************************************************************)
(* The cookies                                                             *)
(***************************************************************************)
(* A pair ends at the semicolon, in a Set-Cookie line as for CookieJar::new,*)
(* which also trims it, and get_signed cuts it at the first ".". A signature*)
(* is all hexadecimal, so there is a blank to trim only at the left, or in a*)
(* value that lost its signature. input: the value, the key it was signed   *)
(* with and the key it is read with, and what a client changed of it.       *)
Signature(value, key) == <<"mac", key>> \o value
Signed(value, key) == value \o <<".">> \o Signature(value, key)

Pair(text) == Split(text, "semicolon")[1]
Incoming(text) == TrimmedLeft(Pair(text), "blank")

(* Mutation of GetSigned: the signature is not looked at.                   *)
GetSignedAnyway(raw, key) ==
  LET dot == Place(raw, {"."}) IN
  IF dot = 0 THEN {} ELSE {SubSeq(raw, 1, dot - 1)}

GetSigned(raw, key) ==
  LET dot == Place(raw, {"."})
      value == SubSeq(raw, 1, dot - 1)
  IN IF dot # 0 /\ SubSeq(raw, dot + 1, Len(raw)) = Signature(value, key) THEN {value} ELSE {}

ReadCookie ==
  /\ message.stage = "in" /\ message.about = "cookie"
  /\ LET sent == Pair(Signed(message.input.value, message.input.key))
         shown == IF message.input.forged = << >> THEN sent
                  ELSE message.input.forged \o SubSeq(sent, Len(message.input.forged) + 1, Len(sent))
     IN Becomes("out", GetSigned(Incoming(shown), message.input.reader))

(* What begins with a blank is trimmed, and no longer what was signed.      *)
Readable(value) ==
  /\ ~ HasPart(value, <<".">>) /\ ~ HasPart(value, <<"semicolon">>)
  /\ value # << >> => value[1] # "blank"

(* A signed cookie is read as it was set or not at all; it is read when it  *)
(* comes back unchanged under the same key, has no "." or semicolon and does*)
(* not begin with a blank.                                                  *)
SignedIsGenuine ==
  message.about = "cookie" /\ message.stage = "out" =>
    LET input == message.input IN
    /\ message.output \subseteq {input.value}
    /\ input.key = input.reader /\ input.forged = << >> /\ Readable(input.value) => message.output = {input.value}

(* A message begins as a path, a form, what a handler answers or a cookie.  *)
MessagesInit(paths, forms, answers, cookies) ==
  \/ \E path \in paths : MessageInit("path", path)
  \/ \E form \in forms : MessageInit("form", form)
  \/ \E reply \in answers : MessageInit("reply", reply)
  \/ \E cookie \in cookies : MessageInit("cookie", cookie)

MessagesNext == ParsePath \/ ParseForm \/ Build \/ Finalize \/ ReadCookie

(* Whatever a client sends and a handler answers, the four conversions keep *)
(* what the code behind them relies on.                                     *)
MessagesAreSound == PathIsCanonical /\ FieldsArrive /\ HeadIsSound /\ SignedIsGenuine
=============================================================================
