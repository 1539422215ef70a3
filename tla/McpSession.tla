----------------------------- MODULE McpSession -----------------------------
(***************************************************************************)
(* The sessions of the MCP HTTP+SSE transport: the process-wide table of   *)
(* src/src/mcp/session.rs, the handlers of src/src/mcp/transport.rs that   *)
(* open, use and terminate a session, and the pump of src/src/http/sse.rs  *)
(* that writes a session's frames to its event stream.                     *)
(*                                                                         *)
(* The handlers run on several threads. The table is a DashMap: a look-up, *)
(* an insertion and a removal are atomic, but len() and iter() come to the *)
(* entries one after another, and miss or meet what comes and goes         *)
(* meanwhile. A session is kept alive by the table and by the requests     *)
(* that use it.                                                            *)
(***************************************************************************)
EXTENDS Integers, Sequences, FiniteSets, SequencesExt

CONSTANTS
  Clients,      (* Clients, numbered in the order in which they connect;   *)
                (* each opens one event stream, so one session.            *)
  Posts,        (* Messages, numbered in the order in which they are sent. *)
  MaxSessions,  (* max_sessions of the store (512).                        *)
  Ttl,          (* ttl of the store (900 s).                               *)
  Horizon,      (* The clock stops here.                                   *)
  Capacity,     (* BROADCAST_CAPACITY: frames a stream holds back.         *)
  Parallel      (* How many create() calls may overlap.                    *)

ASSUME McpSessionAssumption ==
  /\ IsFiniteSet(Clients)
  /\ Clients \cup Posts \subseteq Nat
  /\ {MaxSessions, Capacity, Parallel} \subseteq Nat \ {0}
  /\ {Ttl, Horizon} \subseteq Nat

VARIABLES
  now,       (* The monotonic clock.                                       *)
  table,     (* The sessions in the store, by the client they belong to.   *)
  born,      (* born[c]: when the session of c was created.                *)
  pc,        (* pc[c]: where GET /mcp/sse of c stands.                     *)
  since,     (* since[c]: the table when the pass of c over it began.      *)
  began,     (* began[c]: when it began.                                   *)
  passed,    (* passed[c]: the sessions it has come to.                    *)
  victim,    (* victim[c]: the oldest of them, to be evicted.              *)
  age,       (* age[c]: how old that one was when the pass came to it.     *)
  buffer,    (* buffer[c]: the frames the receiver of c has not read.      *)
  received,  (* received[c]: history, the frames written to c's stream.    *)
  pushed,    (* pushed[c]: history, the frames pushed while c's pump was   *)
             (* subscribed.                                                *)
  missed,    (* missed[c]: history, those pushed while it was not.         *)
  dropped,   (* dropped[c]: history, the frames its receiver lagged over.  *)
  post       (* post[p]: the request that carries p.                       *)

pass == <<since, began, passed, victim, age>>
frames == <<buffer, received, pushed, missed, dropped>>
vars == <<now, table, born, pc, pass, frames, post>>

Creating == {"prune", "count", "scan", "evict", "stamp", "insert"}
Streams == {"idle", "created", "greeted", "pumping", "closed"} \cup Creating
Unsent == [state |-> "none"]
Requests == [state : {"dispatching", "accepted", "refused"}, client : Clients]

TypeOK ==
  /\ now \in 0..Horizon
  /\ table \subseteq Clients
  /\ born \in [Clients -> 0..Horizon]
  /\ pc \in [Clients -> Streams]
  /\ since \in [Clients -> SUBSET Clients] /\ passed \in [Clients -> SUBSET Clients]
  /\ began \in [Clients -> 0..Horizon] /\ age \in [Clients -> Int]
  /\ victim \in [Clients -> Clients]
  /\ buffer \in [Clients -> Seq(Posts)]
  /\ \A c \in Clients : Len(buffer[c]) <= Capacity
  /\ received \in [Clients -> Seq(Posts)]
  /\ pushed \in [Clients -> Seq(Posts)]
  /\ missed \in [Clients -> SUBSET Posts]
  /\ dropped \in [Clients -> SUBSET Posts]
  /\ post \in [Posts -> Requests \cup {Unsent}]

Init ==
  /\ now = 0
  /\ table = {}
  /\ born = [c \in Clients |-> 0]
  /\ pc = [c \in Clients |-> "idle"]
  /\ since = [c \in Clients |-> {}]
  /\ began = [c \in Clients |-> 0]
  /\ passed = [c \in Clients |-> {}]
  /\ victim = [c \in Clients |-> c]
  /\ age = [c \in Clients |-> 0]
  /\ buffer = [c \in Clients |-> << >>]
  /\ received = [c \in Clients |-> << >>]
  /\ pushed = [c \in Clients |-> << >>]
  /\ missed = [c \in Clients |-> {}]
  /\ dropped = [c \in Clients |-> {}]
  /\ post = [p \in Posts |-> Unsent]

Goto(c, state) == pc' = [pc EXCEPT ![c] = state]

(* age() > ttl                                                              *)
Expired(c) == now - born[c] > Ttl

Tick ==
  /\ now < Horizon
  /\ now' = now + 1
  /\ UNCHANGED <<table, born, pc, pass, frames, post>>

(***************************************************************************)
(* GET /mcp/sse: handle_sse and McpSessionStore::create                    *)
(***************************************************************************)

(* create() goes over the table: for prune, for len() or for the oldest.    *)
SetPass(c, sessions, time, chosen) ==
  /\ since' = [since EXCEPT ![c] = sessions]
  /\ began' = [began EXCEPT ![c] = time]
  /\ passed' = [passed EXCEPT ![c] = {}]
  /\ victim' = [victim EXCEPT ![c] = chosen]
  /\ age' = [age EXCEPT ![c] = 0]

Begin(c, state, sessions) == SetPass(c, sessions, now, c) /\ Goto(c, state)
Leave(c, state) == SetPass(c, {}, 0, c) /\ Goto(c, state)
Choose(c) == SetPass(c, {}, 0, victim[c]) /\ Goto(c, "evict")

(* It comes to an entry, in any order and to each once; it has missed none  *)
(* that was there when it began and still is.                               *)
ComesTo(c, d) == d \notin passed[c] /\ passed' = [passed EXCEPT ![c] = @ \cup {d}]
Complete(c) == table \cap since[c] \subseteq passed[c]

Connect(c) ==
  /\ pc[c] = "idle"
  /\ \A d \in Clients : d < c => pc[d] # "idle"
  /\ Cardinality({d \in Clients : pc[d] \in Creating}) < Parallel
  /\ Begin(c, "prune", table)
  /\ UNCHANGED <<now, table, born, frames, post>>

(* prune(): a session that had expired when the pass began is dropped, one  *)
(* that came or expired meanwhile may be.                                   *)
Prune(c) ==
  /\ pc[c] = "prune"
  /\ \E gone \in SUBSET {d \in table : Expired(d)} :
       /\ {d \in table \cap since[c] : began[c] - born[d] > Ttl} \subseteq gone
       /\ table' = table \ gone
  /\ Begin(c, "count", table')
  /\ UNCHANGED <<now, born, frames, post>>

(* len(): one entry more.                                                   *)
Count(c) ==
  /\ pc[c] = "count"
  /\ \E d \in table : ComesTo(c, d)
  /\ UNCHANGED <<now, table, born, pc, since, began, victim, age, frames, post>>

(* Mutation of Counted: one session more than the ceiling.                  *)
CountedOneMore(c) ==
  /\ pc[c] = "count" /\ Complete(c)
  /\ IF Cardinality(passed[c]) <= MaxSessions THEN Leave(c, "stamp") ELSE Begin(c, "scan", table)
  /\ UNCHANGED <<now, table, born, frames, post>>

(* The condition of the loop of create().                                   *)
Counted(c) ==
  /\ pc[c] = "count" /\ Complete(c)
  /\ IF Cardinality(passed[c]) < MaxSessions THEN Leave(c, "stamp") ELSE Begin(c, "scan", table)
  /\ UNCHANGED <<now, table, born, frames, post>>

(* Mutation of Scan: the youngest session is chosen.                        *)
ScanYoungest(c) ==
  /\ pc[c] = "scan"
  /\ \E d \in table :
       /\ ComesTo(c, d)
       /\ IF passed[c] = {} \/ now - born[d] <= age[c]
          THEN victim' = [victim EXCEPT ![c] = d] /\ age' = [age EXCEPT ![c] = now - born[d]]
          ELSE UNCHANGED <<victim, age>>
  /\ UNCHANGED <<now, table, born, pc, since, began, frames, post>>

(* max_by_key: the age of each entry is read when its turn comes, and of    *)
(* two that are equally old the later one is preferred.                     *)
Scan(c) ==
  /\ pc[c] = "scan"
  /\ \E d \in table :
       /\ ComesTo(c, d)
       /\ IF now - born[d] >= age[c]
          THEN victim' = [victim EXCEPT ![c] = d] /\ age' = [age EXCEPT ![c] = now - born[d]]
          ELSE UNCHANGED <<victim, age>>
  /\ UNCHANGED <<now, table, born, pc, since, began, frames, post>>

(* None => break, without another look at the size.                         *)
FoundNone(c) ==
  /\ pc[c] = "scan" /\ Complete(c) /\ passed[c] = {}
  /\ Leave(c, "stamp")
  /\ UNCHANGED <<now, table, born, frames, post>>

FoundOldest(c) ==
  /\ pc[c] = "scan" /\ Complete(c) /\ passed[c] # {}
  /\ Choose(c)
  /\ UNCHANGED <<now, table, born, frames, post>>

Evict(c) ==
  /\ pc[c] = "evict"
  /\ table' = table \ {victim[c]}
  /\ Begin(c, "count", table')
  /\ UNCHANGED <<now, born, frames, post>>

(* McpSession::new reads the clock ...                                      *)
Stamp(c) ==
  /\ pc[c] = "stamp"
  /\ born' = [born EXCEPT ![c] = now]
  /\ Goto(c, "insert")
  /\ UNCHANGED <<now, table, pass, frames, post>>

(* ... and its session is inserted later.                                   *)
Insert(c) ==
  /\ pc[c] = "insert"
  /\ table' = table \cup {c}
  /\ Goto(c, "created")
  /\ UNCHANGED <<now, born, pass, frames, post>>

(***************************************************************************)
(* pump()                                                                  *)
(***************************************************************************)

(* The endpoint frame is written and flushed: the client knows its session. *)
WriteInitial(c) ==
  /\ pc[c] = "created"
  /\ Goto(c, "greeted")
  /\ UNCHANGED <<now, table, born, pass, frames, post>>

(* The pump subscribes and drops its own sender.                            *)
Subscribe(c) ==
  /\ pc[c] = "greeted"
  /\ Goto(c, "pumping")
  /\ UNCHANGED <<now, table, born, pass, frames, post>>

(* A frame is read and written; what was lagged over is skipped.            *)
WriteFrame(c) ==
  /\ pc[c] = "pumping"
  /\ buffer[c] # << >>
  /\ received' = [received EXCEPT ![c] = Append(@, Head(buffer[c]))]
  /\ buffer' = [buffer EXCEPT ![c] = Tail(@)]
  /\ UNCHANGED <<now, table, born, pc, pass, pushed, missed, dropped, post>>

(* Mutation of Owned: the pump keeps its own sender.                        *)
OwnedByPump(c) == pc[c] = "pumping"

(* Somebody still owns the session, and with it the last sender.            *)
Owned(c) ==
  \/ c \in table
  \/ \E p \in Posts : post[p] = [state |-> "dispatching", client |-> c]

(* recv() reports Closed: the session is gone and every frame was read.     *)
StreamCloses(c) ==
  /\ pc[c] = "pumping"
  /\ buffer[c] = << >>
  /\ ~ Owned(c)
  /\ Goto(c, "closed")
  /\ UNCHANGED <<now, table, born, pass, frames, post>>

(* The peer is gone: a write fails. The session stays in the table.         *)
Disconnect(c) ==
  /\ pc[c] \in {"created", "greeted", "pumping"}
  /\ Goto(c, "closed")
  /\ UNCHANGED <<now, table, born, pass, frames, post>>

(***************************************************************************)
(* POST /mcp/message and DELETE /mcp                                       *)
(***************************************************************************)

(* The endpoint frame names the session: the client posts from then on.     *)
Knows(c) == pc[c] \in {"greeted", "pumping"}

Carry(p, state, c) == post' = [post EXCEPT ![p] = [state |-> state, client |-> c]]

(* handle_message: McpSessionStore::get finds the session, or drops it as   *)
(* expired and answers 404.                                                 *)
Post(p, c) ==
  /\ post[p] = Unsent
  /\ \A q \in Posts : q < p => post[q] # Unsent
  /\ Knows(c)
  /\ IF c \in table /\ ~ Expired(c)
     THEN /\ Carry(p, "dispatching", c)
          /\ UNCHANGED table
     ELSE /\ Carry(p, "refused", c)
          /\ table' = table \ {c}
  /\ UNCHANGED <<now, born, pc, pass, frames>>

(* Mutation of Broadcast: a slow receiver's frames pile up.                 *)
BroadcastUnbounded(p, c) ==
  buffer' = [buffer EXCEPT ![c] = Append(@, p)] /\ UNCHANGED dropped

(* Mutation of Broadcast: what finds a full buffer is refused.              *)
BroadcastRefusing(p, c) ==
  /\ buffer' = [buffer EXCEPT ![c] = IF Len(@) < Capacity THEN Append(@, p) ELSE @]
  /\ UNCHANGED dropped

(* A receiver that holds Capacity frames already loses the oldest.          *)
Broadcast(p, c) ==
  IF Len(buffer[c]) < Capacity
  THEN buffer' = [buffer EXCEPT ![c] = Append(@, p)] /\ UNCHANGED dropped
  ELSE /\ buffer' = [buffer EXCEPT ![c] = Append(Tail(@), p)]
       /\ dropped' = [dropped EXCEPT ![c] = @ \cup {Head(buffer[c])}]

(* serve_with_session: the response is pushed on the session's stream, then *)
(* the POST is answered with 202. Without a receiver the frame is gone.     *)
Push(p) ==
  LET c == post[p].client IN
  /\ post[p].state = "dispatching"
  /\ Carry(p, "accepted", c)
  /\ IF pc[c] = "pumping"
     THEN /\ pushed' = [pushed EXCEPT ![c] = Append(@, p)]
          /\ Broadcast(p, c)
          /\ UNCHANGED missed
     ELSE missed' = [missed EXCEPT ![c] = @ \cup {p}] /\ UNCHANGED <<buffer, pushed, dropped>>
  /\ UNCHANGED <<now, table, born, pc, pass, received>>

(* handle_terminate                                                         *)
Terminate(c) ==
  /\ Knows(c)
  /\ c \in table
  /\ table' = table \ {c}
  /\ UNCHANGED <<now, born, pc, pass, frames, post>>

Handler(c) ==
  \/ Prune(c) \/ Count(c) \/ Counted(c) \/ Scan(c) \/ FoundNone(c) \/ FoundOldest(c) \/ Evict(c)
  \/ Stamp(c) \/ Insert(c)
Pump(c) == WriteInitial(c) \/ Subscribe(c) \/ WriteFrame(c) \/ StreamCloses(c)

Next ==
  \/ Tick
  \/ \E c \in Clients : Connect(c) \/ Handler(c) \/ Pump(c) \/ Disconnect(c) \/ Terminate(c)
  \/ \E p \in Posts : Push(p) \/ \E c \in Clients : Post(p, c)

(* Handlers and pumps run; a connected client reads what it is sent.        *)
Fairness ==
  /\ \A c \in Clients : WF_vars(Handler(c)) /\ WF_vars(Pump(c))
  /\ \A p \in Posts : WF_vars(Push(p))

Spec == Init /\ [][Next]_vars /\ Fairness
-----------------------------------------------------------------------------
(***************************************************************************)
(* Properties                                                              *)
(***************************************************************************)

(* "Hard ceiling on concurrent sessions" (session.rs:11): create() tests    *)
(* the size and inserts later, so each call that overlaps another may take  *)
(* the table one session over the ceiling, and never more, though len()     *)
(* counts a table that changes under it and a scan may come to no session.  *)
TableCapped == Cardinality(table) <= MaxSessions + (Parallel - 1)

(* The response of an accepted POST is pushed "down the session's SSE       *)
(* stream" (transport.rs:103-104): as long as the client stays connected,   *)
(* it was written there, waits to be, or its receiver lagged over it. The   *)
(* code does not keep this of a response pushed between the endpoint frame  *)
(* and the subscription (sse.rs:153-158).                                   *)
EveryAnswerStreams ==
  \A p \in Posts : LET c == post[p].client IN
    post[p] # Unsent /\ post[p].state = "accepted" /\ pc[c] = "pumping" =>
      p \in ToSet(received[c]) \cup ToSet(buffer[c]) \cup dropped[c]

(* The response of an accepted POST is pushed, but to nobody unless the     *)
(* client's pump was subscribed at that moment.                             *)
AcceptedIsPushed ==
  \A p \in Posts : LET c == post[p].client IN
    post[p] # Unsent /\ post[p].state = "accepted" => p \in ToSet(pushed[c]) \cup missed[c]

(* What is in both sequences stands in the same order in both, each once.   *)
SameOrder(s, t) ==
  \A k, l \in 1..Len(s), i, j \in 1..Len(t) :
    s[k] = t[i] /\ s[l] = t[j] => (k < l <=> i < j)

(* A stream carries what was pushed since its pump subscribed, in the order *)
(* of the pushes and each at most once; it skips a response only when       *)
(* Capacity newer ones were waiting.                                        *)
StreamInOrder ==
  \A c \in Clients :
    LET seen == received[c] \o buffer[c] IN
    pc[c] = "pumping" =>
      /\ ToSet(seen) = ToSet(pushed[c]) \ dropped[c]
      /\ SameOrder(seen, pushed[c])
      /\ \A p \in dropped[c] : \E i \in 1..Len(pushed[c]) :
           pushed[c][i] = p /\ i + Capacity <= Len(pushed[c])

(* What create() evicts is the oldest of the sessions that its pass over    *)
(* the table cannot have missed, give or take the time the pass took: the   *)
(* ages are read one after another. A session that is inserted while the    *)
(* pass goes on may be older and stay, since its clock is read before it is *)
(* inserted: "evicting the oldest" (session.rs:110) is not kept of those.   *)
OldestEvicted ==
  [][\A c \in Clients : pc[c] = "scan" /\ pc'[c] = "evict" =>
       \A d \in table \cap since[c] : born[victim'[c]] - born[d] <= now - began[c]]_vars

(* A session that left the table - terminated, evicted or expired - takes   *)
(* its event stream with it, once no request uses it any more.              *)
StreamEndsWithSession ==
  \A c \in Clients : (pc[c] = "pumping" /\ c \notin table) ~> pc[c] = "closed"

(* What a client posts once its pump is subscribed is answered on its       *)
(* stream, in order, or lagged over.                                        *)
AnswersArrive == AcceptedIsPushed /\ StreamInOrder

(* The table of sessions and the streams beside it stay within their sizes. *)
WithinBounds == TypeOK /\ TableCapped
=============================================================================
