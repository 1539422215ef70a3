------------------------------ MODULE WebSocket ------------------------------
(***************************************************************************)
(* One WebSocket connection of src/src/routing/websocket.rs: the read loop *)
(* and the teardown of WsConnection::run, the worker task that calls the   *)
(* handler, the writer task, and the WsSink that the handler and anybody   *)
(* who kept a clone of it send through.                                    *)
(*                                                                         *)
(* Three bounded queues connect them: incoming (read loop to worker), data *)
(* and ctrl (sink to writer). The peer is free to send, to stop reading    *)
(* and to go away; timeouts may fire at any time after they are armed.     *)
(***************************************************************************)
EXTENDS Integers, Sequences, FiniteSets, SequencesExt

CONSTANTS
  InCap,        (* INCOMING_QUEUE_CAPACITY                                 *)
  OutCap,       (* OUTGOING_QUEUE_CAPACITY                                 *)
  CtrlCap,      (* CONTROL_QUEUE_CAPACITY                                  *)
  MaxFrames     (* Messages and pings of the peer and frames the           *)
                (* application sends, at most, taken together.             *)

ASSUME WebSocketAssumption ==
  /\ {InCap, OutCap, CtrlCap} \subseteq Nat \ {0}
  /\ MaxFrames \in Nat

VARIABLES
  reader,    (* Where run() stands.                                        *)
  item,      (* What run() has read and offers to the incoming queue.      *)
  incoming,  (* The incoming queue, oldest first.                          *)
  worker,    (* Where the worker task stands.                              *)
  aborted,   (* The tasks run() has called abort() on.                     *)
  data,      (* The queue of data frames (and of the transport's pongs).   *)
  ctrl,      (* The queue of pings and closes.                             *)
  writer,    (* Where the writer task stands.                              *)
  writing,   (* The frame writer_loop is writing.                          *)
  wire,      (* History: the frames written to the socket, in order.       *)
  sent,      (* History: the frames the sink accepted, in order.           *)
  arrived,   (* History: how many messages and pings were read.            *)
  messages,  (* History: how many of them are messages.                    *)
  handled    (* History: the messages on_message was called with.          *)

in == <<reader, item, incoming, worker, arrived, messages, handled>>
out == <<data, ctrl, writer, writing, wire, sent>>
vars == <<in, out, aborted>>

Items == [kind : {"message", "close", "error"}, n : Nat]
Item(kind, n) == [kind |-> kind, n |-> n]

(* at: how long the wire was when the frame was accepted.                   *)
Senders == {"app", "on_close", "run"}
Frames == [kind : {"data", "ping", "close"}, n : Nat, at : Nat, by : Senders]
None == [kind |-> "none"]

Running == {"idle", "handling"}
ReaderStates == {"connect", "reading", "offer", "join", "onClose", "sendClose", "flush", "done"}

TypeOK ==
  /\ reader \in ReaderStates
  /\ item \in Items
  /\ incoming \in Seq(Items) /\ Len(incoming) <= InCap
  /\ worker \in Running \cup {"unborn", "finished", "panicked", "aborted"}
  /\ aborted \subseteq {"worker", "writer"}
  /\ data \in Seq(Frames) /\ Len(data) <= OutCap
  /\ ctrl \in Seq(Frames) /\ Len(ctrl) <= CtrlCap
  /\ writer \in {"unborn", "select", "writing", "gone"}
  /\ writing \in Frames \cup {None}
  /\ wire \in Seq(Frames)
  /\ sent \in Seq(Frames)
  /\ arrived \in 0..MaxFrames
  /\ messages \in 0..arrived
  /\ handled \in Seq(1..messages)

Init ==
  /\ reader = "connect"
  /\ item = Item("message", 0)
  /\ incoming = << >>
  /\ worker = "unborn"
  /\ aborted = {}
  /\ data = << >>
  /\ ctrl = << >>
  /\ writer = "unborn"
  /\ writing = None
  /\ wire = << >>
  /\ sent = << >>
  /\ arrived = 0
  /\ messages = 0
  /\ handled = << >>

MoreFrames == arrived + Len(sent) < MaxFrames

(***************************************************************************)
(* The sink. A send on a full queue (Backpressure) or to a writer that is  *)
(* gone (SendFailed) changes nothing.                                      *)
(***************************************************************************)
(* Mutation of Accepts: one frame more than the queue holds.                *)
AcceptsOneMore(q, cap) == Len(q) <= cap /\ writer # "gone"

Accepts(q, cap) == Len(q) < cap /\ writer # "gone"

SendRaw(kind, by) ==
  LET frame == [kind |-> kind, n |-> Len(sent) + 1, at |-> Len(wire), by |-> by] IN
  /\ sent' = Append(sent, frame)
  /\ IF kind \in {"ping", "close"}
     THEN Accepts(ctrl, CtrlCap) /\ ctrl' = Append(ctrl, frame) /\ UNCHANGED data
     ELSE Accepts(data, OutCap) /\ data' = Append(data, frame) /\ UNCHANGED ctrl
  /\ UNCHANGED <<writer, writing, wire>>

(* Whoever holds a clone of the sink sends: the hooks, and any task the     *)
(* application gave one to, before, during and after run().                 *)
Send(by, kind) ==
  /\ MoreFrames
  /\ by = "on_close" => reader = "onClose"
  /\ SendRaw(kind, by)
  /\ UNCHANGED <<in, aborted>>

(***************************************************************************)
(* run(): the read loop                                                    *)
(***************************************************************************)

(* on_connect returns; the writer and the worker are spawned.               *)
Connected ==
  /\ reader = "connect"
  /\ reader' = "reading"
  /\ writer' = "select"
  /\ worker' = "idle"
  /\ UNCHANGED <<item, incoming, arrived, messages, handled, aborted>>
  /\ UNCHANGED <<data, ctrl, writing, wire, sent>>

ReadMessage ==
  /\ reader = "reading"
  /\ MoreFrames
  /\ arrived' = arrived + 1
  /\ messages' = messages + 1
  /\ item' = Item("message", messages + 1)
  /\ reader' = "offer"
  /\ UNCHANGED <<incoming, worker, handled, out, aborted>>

(* A ping is answered through the data queue; a full one drops the pong.    *)
ReadPing ==
  /\ reader = "reading"
  /\ MoreFrames
  /\ arrived' = arrived + 1
  /\ IF Accepts(data, OutCap) THEN SendRaw("data", "run") ELSE UNCHANGED out
  /\ UNCHANGED <<reader, item, incoming, worker, messages, handled, aborted>>

(* A close frame or a socket error is the last thing read.                  *)
ReadTerminal(kind) ==
  /\ reader = "reading"
  /\ item' = Item(kind, 0)
  /\ reader' = "offer"
  /\ UNCHANGED <<incoming, worker, arrived, messages, handled, out, aborted>>

EndOfStream ==
  /\ reader = "reading"
  /\ reader' = "join"
  /\ UNCHANGED <<item, incoming, worker, arrived, messages, handled, out, aborted>>

(* incoming_tx.send(..).await: waits for room, for as long as it takes.     *)
Offer ==
  /\ reader = "offer"
  /\ worker \in Running
  /\ Len(incoming) < InCap
  /\ incoming' = Append(incoming, item)
  /\ reader' = IF item.kind = "message" THEN "reading" ELSE "join"
  /\ UNCHANGED <<item, worker, arrived, messages, handled, out, aborted>>

OfferFails ==
  /\ reader = "offer"
  /\ worker \notin Running
  /\ reader' = "join"
  /\ UNCHANGED <<item, incoming, worker, arrived, messages, handled, out, aborted>>

(***************************************************************************)
(* The worker                                                              *)
(***************************************************************************)

(* recv and dispatch: on_message for a message (on_error if it does not     *)
(* parse), on_error for an error, nothing for a close.                      *)
Take ==
  /\ worker = "idle"
  /\ incoming # << >>
  /\ incoming' = Tail(incoming)
  /\ worker' = IF Head(incoming).kind = "close" THEN "idle" ELSE "handling"
  /\ handled' = IF Head(incoming).kind = "message"
                THEN Append(handled, Head(incoming).n) ELSE handled
  /\ UNCHANGED <<reader, item, arrived, messages, out, aborted>>

WorkerMoves(from, to) ==
  /\ worker \in from
  /\ worker' = to
  /\ UNCHANGED <<reader, item, incoming, arrived, messages, handled, out, aborted>>

HookReturns == WorkerMoves({"handling"}, "idle")
HookPanics == WorkerMoves({"handling"}, "panicked")

(* Mutation of WorkerEnds: the worker ends before its queue is drained.     *)
WorkerEndsEarly ==
  /\ reader \notin {"connect", "reading", "offer"}
  /\ WorkerMoves({"idle"}, "finished")

(* recv() returned None: run() dropped its end and the queue is empty.      *)
WorkerEnds ==
  /\ reader \notin {"connect", "reading", "offer"}
  /\ incoming = << >>
  /\ WorkerMoves({"idle"}, "finished")

(* abort() takes effect when the task reaches an await.                     *)
WorkerStops == "worker" \in aborted /\ WorkerMoves(Running, "aborted")

(***************************************************************************)
(* The writer                                                              *)
(***************************************************************************)

(* Mutation of Select: select! without the bias to the control queue.       *)
SelectUnbiased ==
  /\ writer = "select"
  /\ \/ /\ ctrl # << >>
        /\ writing' = Head(ctrl)
        /\ ctrl' = Tail(ctrl)
        /\ UNCHANGED data
     \/ /\ data # << >>
        /\ writing' = Head(data)
        /\ data' = Tail(data)
        /\ UNCHANGED ctrl
  /\ writer' = "writing"
  /\ UNCHANGED <<wire, sent, in, aborted>>

(* The biased select! of writer_loop: ctrl first.                           *)
Select ==
  /\ writer = "select"
  /\ \/ /\ ctrl # << >>
        /\ writing' = Head(ctrl)
        /\ ctrl' = Tail(ctrl)
        /\ UNCHANGED data
     \/ /\ ctrl = << >>
        /\ data # << >>
        /\ writing' = Head(data)
        /\ data' = Tail(data)
        /\ UNCHANGED ctrl
  /\ writer' = "writing"
  /\ UNCHANGED <<wire, sent, in, aborted>>

WriterLeaves == writing' = None /\ UNCHANGED <<data, ctrl, sent, in, aborted>>

(* Mutation of WriteFrame: the writer goes on after a close frame.          *)
WriteFrameOn ==
  /\ writer = "writing"
  /\ wire' = Append(wire, writing)
  /\ writer' = "select"
  /\ WriterLeaves

WriteFrame ==
  /\ writer = "writing"
  /\ wire' = Append(wire, writing)
  /\ writer' = IF writing.kind = "close" THEN "gone" ELSE "select"
  /\ WriterLeaves

WriteFails ==
  /\ writer = "writing"
  /\ writer' = "gone"
  /\ WriterLeaves /\ UNCHANGED wire

WriterStops ==
  /\ "writer" \in aborted
  /\ writer \in {"select", "writing"}
  /\ writer' = "gone"
  /\ WriterLeaves /\ UNCHANGED wire

(***************************************************************************)
(* run(): the teardown                                                     *)
(***************************************************************************)
ReaderMoves(from, to) ==
  /\ reader = from
  /\ reader' = to
  /\ UNCHANGED <<item, incoming, worker, arrived, messages, handled>>

(* The worker is awaited for half a second, then aborted. abort() does not  *)
(* wait: the worker may still be inside a hook.                             *)
JoinWorker ==
  /\ ReaderMoves("join", "onClose")
  /\ aborted' = IF worker \in Running THEN {"worker"} ELSE aborted
  /\ UNCHANGED out

Closed == ReaderMoves("onClose", "sendClose") /\ UNCHANGED <<out, aborted>>

(* Mutation of SendClose: without the timeout it waits for room.            *)
SendCloseWaiting ==
  /\ ReaderMoves("sendClose", "flush")
  /\ \/ /\ Accepts(ctrl, CtrlCap)
        /\ ctrl' = Append(ctrl, [kind |-> "close", n |-> 0, at |-> Len(wire), by |-> "run"])
        /\ UNCHANGED <<data, writer, writing, wire, sent>>
     \/ writer = "gone" /\ UNCHANGED out
  /\ UNCHANGED aborted

(* ctrl.send(Close).await: bounded by the timeout.                          *)
SendClose ==
  /\ ReaderMoves("sendClose", "flush")
  /\ IF Accepts(ctrl, CtrlCap)
     THEN /\ ctrl' = Append(ctrl, [kind |-> "close", n |-> 0, at |-> Len(wire), by |-> "run"])
          /\ UNCHANGED <<data, writer, writing, wire, sent>>
     ELSE UNCHANGED out
  /\ UNCHANGED aborted

(* The writer is awaited for half a second, then aborted.                   *)
JoinWriter ==
  /\ ReaderMoves("flush", "done")
  /\ aborted' = IF writer = "gone" THEN aborted ELSE aborted \cup {"writer"}
  /\ UNCHANGED out

Reading == \E kind \in {"close", "error"} : ReadTerminal(kind)
Teardown == Offer \/ OfferFails \/ JoinWorker \/ Closed \/ SendClose \/ JoinWriter
WorkerStep == Take \/ HookReturns \/ HookPanics \/ WorkerEnds \/ WorkerStops
WriterStep == Select \/ WriteFrame \/ WriteFails \/ WriterStops

Next ==
  \/ Connected \/ ReadMessage \/ ReadPing \/ Reading \/ EndOfStream
  \/ Teardown \/ WorkerStep \/ WriterStep
  \/ \E by \in {"app", "on_close"}, kind \in {"data", "ping", "close"} : Send(by, kind)

(* The runtime polls the tasks and its timers; on_close returns. Any other  *)
(* hook may hang, and the peer need not send, read or close anything, so a  *)
(* write may stay where it is for ever.                                     *)
Fairness ==
  /\ WF_vars(Teardown)
  /\ WF_vars(Take) /\ WF_vars(WorkerEnds) /\ WF_vars(WorkerStops)
  /\ WF_vars(Select) /\ WF_vars(WriterStops)

Spec == Init /\ [][Next]_vars /\ Fairness
-----------------------------------------------------------------------------
(***************************************************************************)
(* Properties                                                              *)
(***************************************************************************)

(* "messages are handled in the order they arrived" (websocket.rs:187),     *)
(* each once; and a worker that ended of itself has handled all of them.    *)
HandledInOrder ==
  /\ handled = [i \in 1..Len(handled) |-> i]
  /\ worker = "finished" => Len(handled) = messages

IsControl(f) == f.kind \in {"ping", "close"}

(* Frames the sink accepted for the same queue; run()'s own close has no n. *)
SameQueue(f, g) == f.n # 0 /\ g.n # 0 /\ (IsControl(f) <=> IsControl(g))

(* Every frame the sink accepted reaches the wire once and in the order of  *)
(* its queue, for as long as the writer lives; what is on the wire when it  *)
(* is gone is the first part of it, and nothing else. Nothing follows a     *)
(* close frame.                                                             *)
WireOrder ==
  /\ \A i, j \in 1..Len(wire) : i < j /\ SameQueue(wire[i], wire[j]) => wire[i].n < wire[j].n
  /\ \A i \in 1..Len(wire) : wire[i].n # 0 => wire[i].n \in 1..Len(sent) /\ wire[i] = sent[wire[i].n]
  /\ \A k, l \in 1..Len(sent) :
       k < l /\ SameQueue(sent[k], sent[l]) /\ sent[l] \in ToSet(wire) => sent[k] \in ToSet(wire)
  /\ writer # "gone" => ToSet(sent) \subseteq ToSet(wire) \cup {writing} \cup ToSet(data) \cup ToSet(ctrl)
  /\ \A i \in 1..Len(wire) : wire[i].kind = "close" => i = Len(wire)

(* "a close or ping is never stuck behind a backlog of application data"    *)
(* (websocket.rs:514): between the acceptance of a control frame and its    *)
(* write at most one data frame, the one being written, goes out.           *)
ControlNotStuck ==
  LET overtakers(f, end) == {i \in (f.at + 1)..end : ~ IsControl(wire[i])} IN
  /\ \A i \in 1..Len(wire) :
       IsControl(wire[i]) => Cardinality(overtakers(wire[i], i)) <= 1
  /\ \A i \in 1..Len(ctrl) : Cardinality(overtakers(ctrl[i], Len(wire))) <= 1

(* Once the peer is gone the connection is torn down, whatever the writer   *)
(* is stuck in and however long a hook takes; a hook that never returns can *)
(* only hold up a read loop whose incoming queue is full.                   *)
LeftLoop == reader \notin {"connect", "reading", "offer"}
PeerGone == LeftLoop \/ (reader = "offer" /\ item.kind # "message")
TeardownEnds ==
  /\ LeftLoop ~> (reader = "done" /\ writer = "gone" /\ worker \notin Running)
  /\ (PeerGone ~> reader = "done") \/ <>[](worker = "handling")

(* What a session promises its two ends: frames leave and messages are      *)
(* handled in order, and none after the end.                                *)
InOrder == TypeOK /\ WireOrder /\ HandledInOrder
=============================================================================
