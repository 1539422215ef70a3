----------------------------- MODULE McpProtocol -----------------------------
(***************************************************************************)
(* What surrounds the MCP dispatch engine: who a request speaks for        *)
(* (src/src/mcp/auth.rs), what a JSON-RPC message is owed (protocol.rs and *)
(* McpEngine::dispatch) and where each transport puts the answer           *)
(* (transport.rs, stdio.rs).                                               *)
(*                                                                         *)
(* What the engine does inside a tool call is McpEngine's, what its        *)
(* arguments go through McpSchema's, how a session's stream delivers what  *)
(* is pushed McpSession's: here a call has one of the outcomes the engine  *)
(* can have, and pushing appends.                                          *)
(***************************************************************************)
EXTENDS Integers, Sequences, FiniteSets, SequencesExt, TLC

CONSTANTS
  Sessions,    (* Session ids, 1 .. n, in the order they are minted.       *)
  Supported,   (* SUPPORTED_PROTOCOL_VERSIONS.                             *)
  MaxOwed      (* Answers a session's posts may be owed in a behaviour.    *)

VARIABLE
  exchange     (* The transports: sessions, and what was owed and sent.    *)

-----------------------------------------------------------------------------
(* Identity. auth is the Authorization header: absent, blank, another       *)
(* scheme, an empty token, a token that does not verify, one that does.     *)
Headers == {"absent", "blank", "scheme", "empty", "forged", "valid"}

Allowed(source) == [allowed |-> TRUE, source |-> source, status |-> 200]
Rejected(status) == [allowed |-> FALSE, source |-> "rejected", status |-> status]

VerifyAuthorization(auth, secret) ==
  IF auth \in {"scheme", "empty"} THEN Rejected(401)
  ELSE IF ~secret THEN Rejected(500)
  ELSE IF auth = "forged" THEN Rejected(401) ELSE Allowed("bearer")

Authenticate(env, r) ==
  IF r.auth \notin {"absent", "blank"} THEN VerifyAuthorization(r.auth, env.secret)
  ELSE IF r.cookie THEN Allowed("session")
  ELSE IF env.required THEN Rejected(401) ELSE Allowed("anonymous")

(* reject(): a server without a secret answers 400, not its own 500.        *)
Refusal(verdict) == IF verdict.status \in {401, 403} THEN verdict.status ELSE 400

-----------------------------------------------------------------------------
(* Messages. A body parses to an envelope or not at all; id is "absent" in  *)
(* a notification and may be "null" in a request.                           *)
Envelopes == [text : {"json"}, version : {"2.0", "1.0"}, id : {"absent", "null", "seven"},
              method : {"initialize", "initialized", "call", "unknown"}, asks : Supported \cup {"", "other"}]
Unparsed == [text : {"nothing", "garbage"}, version : {""}, id : {"absent"}, method : {""}, asks : {""}]
Bodies == Envelopes \cup Unparsed
Parses(body) == body.text = "json"

(* Mutation of IsNotification: an explicit null counts as absent.           *)
IsNotificationIfNull(m) == m.id \in {"absent", "null"}
IsNotification(m) == m.id = "absent"

Replied(m) == IF m.id = "absent" THEN "null" ELSE m.id
Answer(id, code) == [id |-> id, code |-> code]
ParseFailure(body) == Answer("null", IF body.text = "nothing" THEN -32600 ELSE -32700)

(* McpEngine::route: what a method may come to, 0 for a result. A call (of  *)
(* a tool, a resource or a prompt) ends as McpEngine says.                  *)
Requested(m) == IF m.asks = "" THEN "2025-06-18" ELSE m.asks
Route(m) ==
  CASE m.method = "initialize" -> {IF Requested(m) \in Supported THEN 0 ELSE -32600}
    [] m.method = "initialized" -> {0}
    [] m.method = "call" -> {0, -32001, -32002, -32003, -32005, -32006, -32602}
    [] m.method = "unknown" -> {-32600}

(* dispatch: the answers an allowed message yields, one at most, when its   *)
(* method comes to code.                                                    *)
Dispatch(m, code) ==
  IF m.version # "2.0" THEN <<Answer(Replied(m), -32600)>>
  ELSE IF IsNotification(m) THEN << >> ELSE <<Answer(Replied(m), code)>>

(* Mutation of Touch: the revision is entered before it is looked up.       *)
TouchFirst(s, m, code) ==
  IF m.method = "initialize" THEN [version |-> Requested(m), initialized |-> TRUE] ELSE s
(* initialize's entry in the session; how many requests it had is left out. *)
Touch(s, m, code) ==
  IF m.version = "2.0" /\ m.method = "initialize" /\ code = 0
  THEN [version |-> Requested(m), initialized |-> TRUE] ELSE s

-----------------------------------------------------------------------------
(* Transports. table holds the live sessions; pushed[s] and owed[s] are what *)
(* s's stream carried and what its posts were owed; inline pairs what the    *)
(* last message was owed with what its own reply carried; known are the      *)
(* sessions whose id a client was told, lost those minted for a body that    *)
(* did not parse, whose 400 names no session.                                *)
Blank == [version |-> "", initialized |-> FALSE]

ExchangeInit(envs) ==
  \E env \in envs :
    exchange = [env |-> env, table |-> [s \in {} |-> Blank], minted |-> 0, known |-> {}, lost |-> {},
                pushed |-> [s \in Sessions |-> << >>], owed |-> [s \in Sessions |-> << >>],
                inline |-> [owed |-> << >>, sent |-> << >>], status |-> 0]

(* What JSON-RPC owes a body, whatever the code does: a request its id, a    *)
(* fault with no id to name null, a sound notification nothing.              *)
Owed(body) ==
  IF ~Parses(body) THEN <<"null">>
  ELSE IF body.id # "absent" THEN <<body.id>>
  ELSE IF body.version # "2.0" THEN <<"null">> ELSE << >>

Ids(answers) == [i \in DOMAIN answers |-> answers[i].id]
Says(owed, sent) == [owed |-> owed, sent |-> sent]
Quiet == Says(<< >>, << >>)

Plain(status) == exchange' = [exchange EXCEPT !.inline = Quiet, !.status = status]

(* sessions().create(): the next id, its entry fresh.                        *)
Mint == exchange.minted + 1
CanMint == Mint \in Sessions
Table == DOMAIN exchange.table
With(table, s, entry) == [t \in DOMAIN table \cup {s} |-> IF t = s THEN entry ELSE table[t]]

(* handle_sse: the endpoint frame tells the client its session.              *)
HandleSse(r) ==
  IF ~Authenticate(exchange.env, r).allowed THEN Plain(Refusal(Authenticate(exchange.env, r)))
  ELSE /\ CanMint
       /\ exchange' = [exchange EXCEPT !.table = With(@, Mint, Blank), !.minted = Mint,
                                       !.known = @ \cup {Mint}, !.inline = Quiet, !.status = 200]

(* serve_with_session: always 202, the answer on the stream.                 *)
ServeWithSession(s, body) ==
  IF ~Parses(body)
  THEN exchange' = [exchange EXCEPT !.pushed[s] = @ \o Ids(<<ParseFailure(body)>>), !.owed[s] = @ \o Owed(body),
                                    !.inline = Quiet, !.status = 202]
  ELSE \E code \in Route(body) :
         exchange' = [exchange EXCEPT !.pushed[s] = @ \o Ids(Dispatch(body, code)), !.owed[s] = @ \o Owed(body),
                                      !.table[s] = Touch(@, body, code), !.inline = Quiet, !.status = 202]

(* serve_stateless: the answer in the reply.                                 *)
ServeStateless(body) ==
  IF ~Parses(body)
  THEN exchange' = [exchange EXCEPT !.inline = Says(Owed(body), Ids(<<ParseFailure(body)>>)), !.status = 400]
  ELSE \E code \in Route(body) :
         exchange' = [exchange EXCEPT !.inline = Says(Owed(body), Ids(Dispatch(body, code))),
                                      !.status = IF Dispatch(body, code) = << >> THEN 202 ELSE 200]

(* handle_message. session is 0 when the client names none.                  *)
HandleMessage(r) ==
  LET verdict == Authenticate(exchange.env, r)
  IN CASE ~verdict.allowed -> Plain(Refusal(verdict))
       [] verdict.allowed /\ r.session \in Table -> ServeWithSession(r.session, r.body)
       [] verdict.allowed /\ r.session \notin Table \cup {0} -> Plain(404)
       [] verdict.allowed /\ r.session = 0 /\ exchange.env.stateless -> ServeStateless(r.body)
       [] OTHER -> Plain(400)

(* handle_streamable: the session is minted before the body is parsed.       *)
HandleStreamable(r) ==
  LET verdict == Authenticate(exchange.env, r)
      fresh == r.session = 0
      s == IF fresh THEN Mint ELSE r.session
      entry == IF fresh THEN Blank ELSE exchange.table[s]
      Named(status, table, answers) ==
        exchange' = [exchange EXCEPT !.table = table, !.minted = IF fresh THEN Mint ELSE @, !.known = @ \cup {s},
                                     !.inline = Says(Owed(r.body), Ids(answers)), !.status = status]
  IN CASE ~verdict.allowed -> Plain(Refusal(verdict))
       [] verdict.allowed /\ ~fresh /\ s \notin Table -> Plain(404)
       [] verdict.allowed /\ (fresh \/ s \in Table) ->
            /\ fresh => CanMint
            /\ IF ~Parses(r.body)
               THEN exchange' = [exchange EXCEPT !.table = With(@, s, entry), !.minted = IF fresh THEN Mint ELSE @,
                                                 !.lost = IF fresh THEN @ \cup {s} ELSE @, !.status = 400,
                                                 !.inline = Says(Owed(r.body), Ids(<<ParseFailure(r.body)>>))]
               ELSE \E code \in Route(r.body) :
                      LET answers == Dispatch(r.body, code)
                      IN Named(IF answers = << >> /\ ~r.stream THEN 204 ELSE 200,
                               With(exchange.table, s, Touch(entry, r.body, code)), answers)

(* handle_terminate.                                                         *)
HandleTerminate(r) ==
  LET verdict == Authenticate(exchange.env, r)
  IN CASE ~verdict.allowed -> Plain(Refusal(verdict))
       [] verdict.allowed /\ r.session = 0 -> Plain(400)
       [] verdict.allowed /\ r.session \notin Table \cup {0} -> Plain(404)
       [] OTHER -> exchange' = [exchange EXCEPT !.table = [t \in Table \ {r.session} |-> exchange.table[t]],
                                                !.inline = Quiet, !.status = 200]

(* handle_line: the operator's own identity, no session, one line back.      *)
HandleLine(body) ==
  IF body.text = "nothing" THEN Plain(0)
  ELSE IF ~Parses(body)
  THEN exchange' = [exchange EXCEPT !.inline = Says(Owed(body), Ids(<<ParseFailure(body)>>)), !.status = 0]
  ELSE \E code \in Route(body) :
         exchange' = [exchange EXCEPT !.inline = Says(Owed(body), Ids(Dispatch(body, code))), !.status = 0]

ExchangeNext(requests) ==
  /\ Len(FlattenSeq(exchange.owed)) < MaxOwed
  /\ \E r \in requests :
       \/ r.via = "sse" /\ HandleSse(r)
       \/ r.via = "message" /\ HandleMessage(r)
       \/ r.via = "streamable" /\ HandleStreamable(r)
       \/ r.via = "terminate" /\ HandleTerminate(r)
       \/ r.via = "stdio" /\ HandleLine(r.body)

-----------------------------------------------------------------------------
(* Every message is answered where and as often as JSON-RPC owes it: a        *)
(* request once, under its id, a notification not at all. A session's stream  *)
(* carries the answers of the posts made to it, in their order, and only      *)
(* those.                                                                     *)
AnsweredOnce ==
  /\ exchange.inline.sent = exchange.inline.owed
  /\ \A s \in Sessions : exchange.pushed[s] = exchange.owed[s]

(* A live session is one a client was told of, or one minted for a body that  *)
(* did not parse; one that finished its handshake speaks a supported version. *)
SessionsAreKnown ==
  \A s \in Table : /\ s \in exchange.known \cup exchange.lost
                   /\ exchange.table[s].initialized => exchange.table[s].version \in Supported

(* Every transport keeps the same promises to a client.                      *)
ExchangeIsSound == AnsweredOnce /\ SessionsAreKnown
=============================================================================
