----------------------------- MODULE HttpServer -----------------------------
(***************************************************************************)
(* The HTTP server: the accept loop, the connection counter and the        *)
(* shutdown of src/src/http/server.rs, the request pipeline of             *)
(* src/src/http/connection.rs, the two phases of the middleware            *)
(* (routing/engine/builder/middleware.rs) and the connection gauge of      *)
(* security/telemetry.rs.                                                  *)
(*                                                                         *)
(* Every accepted connection has a task that serves its requests one after *)
(* another and races against the shutdown signal: select! drops the future *)
(* of handle_connection at whatever await it stands. A panic of a handler  *)
(* is caught; one in a middleware or a hook unwinds the task.              *)
(***************************************************************************)
EXTENDS Integers, Sequences, FiniteSets, SequencesExt

CONSTANTS
  Conns,        (* Connections that clients open.                          *)
  Middlewares,  (* Number of middlewares of the router.                    *)
  MaxRequests,  (* Requests a connection carries, at most.                 *)
  Kinds,        (* What the requests are: see Kind.                        *)
  Panics        (* Whether middlewares, hooks and WebSocket handlers panic. *)

(* http: a route, or its 404 or 405. upgrade: a valid WebSocket upgrade.    *)
(* rejected: an upgrade with a bad version or no key, or a plain request to *)
(* a WebSocket path.                                                        *)
Kind == {"http", "upgrade", "rejected"}

ASSUME HttpServerAssumption ==
  /\ IsFiniteSet(Conns)
  /\ Middlewares \in Nat
  /\ MaxRequests \in Nat
  /\ Kinds \subseteq Kind
  /\ Panics \in BOOLEAN

VARIABLES
  server,    (* "serving", "draining" or "stopped".                        *)
  active,    (* active_connections of ignite().                            *)
  gauge,     (* telemetry.active_connections.                              *)
  standing,  (* standing[c]: where the task of c stands.                   *)
  notified,  (* notified[c]: the shutdown message waits in shutdown_rx.    *)
  requests,  (* requests[c]: the requests c may still send.                *)
  kind,      (* kind[c]: what the current request is.                      *)
  mw,        (* mw[c]: middlewares entered and not yet left.               *)
  socket,    (* socket[c]: the WebSocket session of c.                     *)
  trace      (* trace[c]: history, what was done for the current request.  *)

conn == <<standing, notified, requests, kind, mw, socket, trace>>
serverVars == <<server, active, gauge, conn>>

Serving == {"parse", "onRequest", "onResponse", "write", "stream"}
States == {"unborn", "accepted", "closing", "returned", "gone", "unwound"} \cup Serving
Stages == {"onRequest", "handler", "onResponse", "record", "answer"}

ServerTypeOK ==
  /\ server \in {"serving", "draining", "stopped"}
  /\ active \in 0..Cardinality(Conns)
  /\ gauge \in 0..Cardinality(Conns)
  /\ standing \in [Conns -> States]
  /\ notified \in [Conns -> BOOLEAN]
  /\ requests \in [Conns -> 0..MaxRequests]
  /\ kind \in [Conns -> Kind]
  /\ mw \in [Conns -> 0..Middlewares]
  /\ socket \in [Conns -> {"none", "open", "over", "panicked"}]
  /\ trace \in [Conns -> Seq(Stages \X (0..Middlewares))]

ServerInit ==
  /\ server = "serving"
  /\ active = 0
  /\ gauge = 0
  /\ standing = [c \in Conns |-> "unborn"]
  /\ notified = [c \in Conns |-> FALSE]
  /\ requests = [c \in Conns |-> MaxRequests]
  /\ kind = [c \in Conns |-> "http"]
  /\ mw = [c \in Conns |-> 0]
  /\ socket = [c \in Conns |-> "none"]
  /\ trace = [c \in Conns |-> << >>]

Goto(c, state) == standing' = [standing EXCEPT ![c] = state]
Did(c, stage, i) == trace' = [trace EXCEPT ![c] = Append(@, <<stage, i>>)]

(***************************************************************************)
(* ignite()                                                                *)
(***************************************************************************)

(* Mutation of Accept: the connection is not counted.                       *)
AcceptUncounted(c) ==
  /\ server = "serving"
  /\ standing[c] = "unborn"
  /\ Goto(c, "accepted")
  /\ UNCHANGED <<server, active, gauge, notified, requests, kind, mw, socket, trace>>

(* The counter is raised and the shutdown channel subscribed before the     *)
(* connection's task is spawned.                                            *)
Accept(c) ==
  /\ server = "serving"
  /\ standing[c] = "unborn"
  /\ active' = active + 1
  /\ Goto(c, "accepted")
  /\ UNCHANGED <<server, gauge, notified, requests, kind, mw, socket, trace>>

(* Mutation of Subscribed: the task subscribes when it first runs.          *)
SubscribedLate(c) == standing[c] \notin {"unborn", "accepted", "gone", "unwound"}

Subscribed(c) == standing[c] \notin {"unborn", "gone", "unwound"}

(* ctrl_c: every subscribed receiver gets the message, the loop is left.    *)
Shutdown ==
  /\ server = "serving"
  /\ server' = "draining"
  /\ notified' = [c \in Conns |-> Subscribed(c)]
  /\ UNCHANGED <<active, gauge, standing, requests, kind, mw, socket, trace>>

(* The drain loop sees no active connection and ignite returns.             *)
Drained ==
  /\ server = "draining"
  /\ active = 0
  /\ server' = "stopped"
  /\ UNCHANGED <<active, gauge, conn>>

(* select!: the shutdown branch wins and handle_connection is dropped.      *)
Cancel(c) ==
  /\ notified[c]
  /\ standing[c] \in Serving \cup {"accepted"}
  /\ Goto(c, "returned")
  /\ UNCHANGED <<server, active, gauge, notified, requests, kind, mw, socket, trace>>

(* active_connections.fetch_sub, the last statement of the task.            *)
Leave(c) ==
  /\ standing[c] = "returned"
  /\ active' = active - 1
  /\ Goto(c, "gone")
  /\ UNCHANGED <<server, gauge, notified, requests, kind, mw, socket, trace>>

(***************************************************************************)
(* handle_connection                                                       *)
(***************************************************************************)

Open(c) ==
  /\ standing[c] = "accepted"
  /\ gauge' = gauge + 1
  /\ Goto(c, "parse")
  /\ UNCHANGED <<server, active, notified, requests, kind, mw, socket, trace>>

(* Request::parse returned a request.                                       *)
Receive(c, k) ==
  /\ standing[c] = "parse"
  /\ requests[c] > 0
  /\ requests' = [requests EXCEPT ![c] = @ - 1]
  /\ kind' = [kind EXCEPT ![c] = k]
  /\ mw' = [mw EXCEPT ![c] = 0]
  /\ trace' = [trace EXCEPT ![c] = << >>]
  /\ Goto(c, "onRequest")
  /\ UNCHANGED <<server, active, gauge, notified, socket>>

(* The peer closed, the ten seconds expired or the request is malformed (it *)
(* is answered with a 400 no middleware sees).                              *)
ParseFails(c) ==
  /\ standing[c] = "parse"
  /\ Goto(c, "closing")
  /\ UNCHANGED <<server, active, gauge, notified, requests, kind, mw, socket, trace>>

(* Mutation of OnRequest: one middleware too many.                          *)
OnRequestBeyond(c) ==
  /\ standing[c] = "onRequest"
  /\ mw[c] <= Middlewares
  /\ mw' = [mw EXCEPT ![c] = @ + 1]
  /\ Did(c, "onRequest", mw[c] + 1)
  /\ \E state \in {"onRequest", "onResponse"} : Goto(c, state)
  /\ UNCHANGED <<server, active, gauge, notified, requests, kind, socket>>

(* Mutation of OnRequest: a middleware that answers is not counted as run.  *)
OnRequestUncounted(c) ==
  /\ standing[c] = "onRequest"
  /\ mw[c] < Middlewares
  /\ Did(c, "onRequest", mw[c] + 1)
  /\ \/ Goto(c, "onRequest") /\ mw' = [mw EXCEPT ![c] = @ + 1]
     \/ Goto(c, "onResponse") /\ UNCHANGED mw
  /\ UNCHANGED <<server, active, gauge, notified, requests, kind, socket>>

(* run_middlewares_counted: the next middleware's on_request runs, and it   *)
(* goes on (Next) or answers in the handler's place (Error).                *)
OnRequest(c) ==
  /\ standing[c] = "onRequest"
  /\ mw[c] < Middlewares
  /\ mw' = [mw EXCEPT ![c] = @ + 1]
  /\ Did(c, "onRequest", mw[c] + 1)
  /\ \E state \in {"onRequest", "onResponse"} : Goto(c, state)
  /\ UNCHANGED <<server, active, gauge, notified, requests, kind, socket>>

Passed(c) == standing[c] = "onRequest" /\ mw[c] = Middlewares

(* The handler, the error handler or the role check yields the response, or *)
(* panics and a 500 takes its place.                                        *)
Handle(c) ==
  /\ Passed(c)
  /\ kind[c] = "http"
  /\ Did(c, "handler", 0)
  /\ Goto(c, "onResponse")
  /\ UNCHANGED <<server, active, gauge, notified, requests, kind, mw, socket>>

(* Mutation of Upgrade: the gauge is released at the upgrade.               *)
UpgradeReleasing(c) ==
  /\ Passed(c)
  /\ kind[c] = "upgrade"
  /\ socket' = [socket EXCEPT ![c] = "open"]
  /\ Goto(c, "closing")
  /\ UNCHANGED <<server, active, gauge, notified, requests, kind, mw, trace>>

(* The 101 is written; the session gets a task of its own and the           *)
(* connection's task returns without releasing the gauge.                   *)
Upgrade(c) ==
  /\ Passed(c)
  /\ kind[c] = "upgrade"
  /\ \/ socket' = [socket EXCEPT ![c] = "open"] /\ Goto(c, "returned")
     \/ UNCHANGED socket /\ Goto(c, "closing")
  /\ UNCHANGED <<server, active, gauge, notified, requests, kind, mw, trace>>

(* 400 or 426 is written at once and the connection closed.                 *)
Reject(c) ==
  /\ Passed(c)
  /\ kind[c] = "rejected"
  /\ Did(c, "answer", 0)
  /\ Goto(c, "closing")
  /\ UNCHANGED <<server, active, gauge, notified, requests, kind, mw, socket>>

(* run_on_response: the first ran middlewares, the last one first.          *)
OnResponse(c) ==
  /\ standing[c] = "onResponse"
  /\ mw[c] > 0
  /\ mw' = [mw EXCEPT ![c] = @ - 1]
  /\ Did(c, "onResponse", mw[c])
  /\ UNCHANGED <<server, active, gauge, standing, notified, requests, kind, socket>>

(* log_lifecycle, run_after_hooks and telemetry.record_request.             *)
Record(c) ==
  /\ standing[c] = "onResponse"
  /\ mw[c] = 0
  /\ Did(c, "record", 0)
  /\ Goto(c, "write")
  /\ UNCHANGED <<server, active, gauge, notified, requests, kind, mw, socket>>

(* The response is written: the next request is awaited, the connection     *)
(* closed (Connection: close, or the write failed) or, after the head of an *)
(* event stream, its frames are pumped.                                     *)
Write(c) ==
  /\ standing[c] = "write"
  /\ Did(c, "answer", 0)
  /\ \E state \in {"parse", "closing", "stream"} :
       /\ state = "stream" => \E i \in 1..Len(trace[c]) : trace[c][i][1] = "handler"
       /\ Goto(c, state)
  /\ UNCHANGED <<server, active, gauge, notified, requests, kind, mw, socket>>

StreamEnds(c) ==
  /\ standing[c] = "stream"
  /\ Goto(c, "closing")
  /\ UNCHANGED <<server, active, gauge, notified, requests, kind, mw, socket, trace>>

(* telemetry.close_connection(): the subtraction saturates.                 *)
CloseConnection == gauge' = IF gauge = 0 THEN 0 ELSE gauge - 1

Close(c) ==
  /\ standing[c] = "closing"
  /\ CloseConnection
  /\ Goto(c, "returned")
  /\ UNCHANGED <<server, active, notified, requests, kind, mw, socket, trace>>

(* A middleware or a hook panics outside catch_unwind: the task is gone.    *)
Unwind(c) ==
  /\ Panics
  /\ \/ standing[c] = "onRequest" /\ mw[c] < Middlewares
     \/ standing[c] = "onResponse"
  /\ Goto(c, "unwound")
  /\ UNCHANGED <<server, active, gauge, notified, requests, kind, mw, socket, trace>>

(***************************************************************************)
(* The task of an upgraded connection                                      *)
(***************************************************************************)
SessionEnds(c) ==
  /\ socket[c] = "open"
  /\ server # "stopped"
  /\ socket' = [socket EXCEPT ![c] = "over"]
  /\ CloseConnection
  /\ UNCHANGED <<server, active, standing, notified, requests, kind, mw, trace>>

(* on_connect or on_close panics: the gauge is not released.                *)
SessionPanics(c) ==
  /\ Panics
  /\ socket[c] = "open"
  /\ server # "stopped"
  /\ socket' = [socket EXCEPT ![c] = "panicked"]
  /\ UNCHANGED <<server, active, gauge, standing, notified, requests, kind, mw, trace>>

Pipeline(c) ==
  \/ Open(c) \/ ParseFails(c) \/ OnRequest(c) \/ Handle(c) \/ Upgrade(c) \/ Reject(c)
  \/ OnResponse(c) \/ Record(c) \/ Write(c) \/ Close(c) \/ Unwind(c)
  \/ \E k \in Kinds : Receive(c, k)

ConnStep(c) == Pipeline(c) \/ StreamEnds(c) \/ Cancel(c) \/ Leave(c)

ServerNext ==
  \/ Shutdown \/ Drained
  \/ \E c \in Conns : Accept(c) \/ ConnStep(c) \/ SessionEnds(c) \/ SessionPanics(c)

(* The runtime polls every task that is ready and the drain loop. Handlers, *)
(* peers and event streams need not ever finish.                            *)
ServerFairness ==
  /\ \A c \in Conns : /\ WF_serverVars(Cancel(c)) /\ WF_serverVars(Leave(c)) /\ WF_serverVars(Close(c))
  /\ WF_serverVars(Drained)

ServerSpec == ServerInit /\ [][ServerNext]_serverVars /\ ServerFairness
-----------------------------------------------------------------------------
(***************************************************************************)
(* Properties                                                              *)
(***************************************************************************)

(* What an answered request has gone through if k middlewares ran: their    *)
(* request phases in order, the handler when all of them let it pass, their *)
(* response phases in reverse, the log, hooks and counters, the answer.     *)
Onion(k, handled) ==
  [i \in 1..k |-> <<"onRequest", i>>]
    \o (IF handled THEN << <<"handler", 0>> >> ELSE << >>)
    \o [i \in 1..k |-> <<"onResponse", k + 1 - i>>]
    \o << <<"record", 0>>, <<"answer", 0>> >>

Answered(c) == trace[c] # << >> /\ Last(trace[c]) = <<"answer", 0>>

(* The 400 or 426 at a WebSocket path is written without a response phase   *)
(* after every on_request has run, and is neither logged nor counted.       *)
CutShort(c) ==
  /\ kind[c] = "rejected"
  /\ trace[c] = [i \in 1..Middlewares |-> <<"onRequest", i>>] \o << <<"answer", 0>> >>

(* An answer - of a middleware, the handler, the error handler or a caught  *)
(* panic - has passed on_response of exactly the middlewares whose          *)
(* on_request ran, in reverse order, before it is logged and counted. The   *)
(* one answer that has not is the refusal at a WebSocket path, for which    *)
(* EveryResponseSeen states what is promised.                               *)
OnionOrder ==
  \A c \in Conns : Answered(c) =>
    \/ CutShort(c)
    \/ \E k \in 0..Middlewares, handled \in BOOLEAN :
         (handled => k = Middlewares) /\ trace[c] = Onion(k, handled)

(* on_response "runs for every request whose on_request ran - including     *)
(* rejection responses" (src/src/middleware/utils.rs:38-39), malformed      *)
(* requests and upgrades "which have no Response" apart: a response reaches *)
(* the client only after the response phase of every middleware that saw    *)
(* the request. The refusal of an upgrade is a Response and does not.       *)
EveryResponseSeen ==
  \A c \in Conns : Answered(c) =>
    \A i \in 1..Middlewares :
      <<"onRequest", i>> \in ToSet(trace[c]) => <<"onResponse", i>> \in ToSet(trace[c])

(* Until the server shuts down, the gauge counts the connections being      *)
(* served and the WebSocket sessions they turned into, on every way out of  *)
(* the connection loop; the only connections it counts for ever are those   *)
(* whose task a middleware or a hook unwound and the sessions that panicked *)
(* in on_connect or on_close.                                               *)
GaugeExact ==
  LET counted(c) == \/ standing[c] \in Serving \cup {"closing", "unwound"}
                    \/ socket[c] \in {"open", "panicked"}
  IN  server = "serving" => gauge = Cardinality({c \in Conns : counted(c)})

(* The server does not stop under a task that still serves its connection.  *)
StopsLast ==
  server = "stopped" => \A c \in Conns : standing[c] \in {"unborn", "gone"}

(* Whatever the connections are doing when the signal arrives - idle, in a  *)
(* handler that never returns, streaming, not yet polled - the drain ends,  *)
(* unless a task was unwound before it lowered the counter.                 *)
DrainEnds ==
  server = "draining" ~> server = "stopped" \/ \E c \in Conns : standing[c] = "unwound"

(* What the server counts is what is there, while it serves and when it     *)
(* stops.                                                                   *)
CountsAreTrue == ServerTypeOK /\ GaugeExact /\ StopsLast
=============================================================================
