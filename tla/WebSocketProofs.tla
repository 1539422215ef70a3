-------------------------- MODULE WebSocketProofs --------------------------
(***************************************************************************)
(* Theorems about WebSocket for every capacity of its three queues and any *)
(* number of frames, and about what is said over HTTP before and beside it *)
(* (HttpMessages) for texts, forms and headers of any length.              *)
(***************************************************************************)
EXTENDS WebSocket, HttpMessages, FiniteSetTheorems, WellFoundedInduction, SequenceTheorems, TLAPS

-----------------------------------------------------------------------------
(* Sequences: the first element and the others, and one element more.       *)

LEMMA Behind ==
  ASSUME NEW S, NEW s \in Seq(S), s # << >>
  PROVE  /\ Len(s) \in Nat \ {0} /\ Head(s) = s[1] /\ Head(s) \in S
         /\ Tail(s) \in Seq(S) /\ Len(Tail(s)) = Len(s) - 1
         /\ \A k \in 1..Len(Tail(s)) : Tail(s)[k] = s[k + 1] /\ k + 1 \in 1..Len(s)
OBVIOUS

LEMMA Longer ==
  ASSUME NEW S, NEW s \in Seq(S), NEW e \in S
  PROVE  /\ Append(s, e) \in Seq(S) /\ Len(s) \in Nat /\ Len(Append(s, e)) = Len(s) + 1
         /\ Append(s, e)[Len(s) + 1] = e
         /\ \A k \in 1..Len(s) : Append(s, e)[k] = s[k] /\ k \in 1..Len(Append(s, e))
         /\ \A k \in 1..Len(Append(s, e)) : k \in 1..Len(s) \/ k = Len(s) + 1
OBVIOUS

-----------------------------------------------------------------------------
(* What comes in                                                            *)

TypeIn ==
  /\ reader \in ReaderStates
  /\ item \in Items
  /\ incoming \in Seq(Items) /\ Len(incoming) <= InCap
  /\ worker \in Running \cup {"unborn", "finished", "panicked", "aborted"}
  /\ arrived \in 0..MaxFrames
  /\ messages \in 0..arrived
  /\ handled \in Seq(1..messages)

(* The messages that wait: only the last item can be something else.        *)
Queued ==
  IF incoming # << >> /\ incoming[Len(incoming)].kind # "message"
  THEN Len(incoming) - 1 ELSE Len(incoming)
Pending == IF reader = "offer" /\ item.kind = "message" THEN 1 ELSE 0

(* The messages handled, those that wait and the one on offer are the       *)
(* messages read, in their order, unless the worker died.                   *)
Inbound ==
  /\ reader = "connect" <=> worker = "unborn"
  /\ worker = "finished" => LeftLoop /\ incoming = << >>
  /\ handled = [i \in 1..Len(handled) |-> i]
  /\ \A i \in 1..Len(incoming) :
       IF incoming[i].kind = "message"
       THEN incoming[i].n = Len(handled) + i /\ incoming[i].n \in 1..messages
       ELSE i = Len(incoming) /\ LeftLoop
  /\ reader = "offer" /\ item.kind = "message" => item.n = messages /\ messages \in Nat \ {0}
  /\ worker \in Running \cup {"unborn", "finished"} => messages = Len(handled) + Queued + Pending

InInv == TypeIn /\ Inbound

LEMMA InInit == Init => InInv
<1> SUFFICES ASSUME Init PROVE InInv
  OBVIOUS
<1>1. /\ reader = "connect" /\ item = Item("message", 0) /\ incoming = << >> /\ worker = "unborn"
      /\ arrived = 0 /\ messages = 0 /\ handled = << >>
  BY DEF Init
<1>2. TypeIn
  BY <1>1, WebSocketAssumption DEF TypeIn, ReaderStates, Items, Item, Running
<1>3. Queued = 0 /\ Pending = 0 /\ Len(incoming) = 0 /\ Len(handled) = 0
  BY <1>1 DEF Queued, Pending
<1>4. handled = [i \in 1..Len(handled) |-> i]
  BY <1>1
<1>5. Inbound
  BY <1>1, <1>3, <1>4 DEF Inbound
<1> QED
  BY <1>2, <1>5 DEF InInv

(* run() and the worker change their places, the messages stay.             *)
LEMMA InMoves ==
  ASSUME InInv, UNCHANGED <<incoming, messages, handled>>, arrived' \in arrived..MaxFrames,
         reader' \in ReaderStates, item' \in Items,
         worker' \in Running \cup {"unborn", "finished", "panicked", "aborted"},
         LeftLoop => LeftLoop',
         reader' = "connect" <=> worker' = "unborn",
         worker' = "finished" => LeftLoop' /\ incoming = << >>,
         reader' = "offer" /\ item'.kind = "message" =>
           item'.n = messages /\ messages \in Nat \ {0},
         worker' \in Running \cup {"unborn", "finished"} =>
           worker \in Running \cup {"unborn", "finished"} /\ Pending' = Pending
  PROVE  InInv'
<1>1. TypeIn'
  BY WebSocketAssumption DEF InInv, TypeIn
<1>2. Queued' = Queued
  BY DEF Queued
<1>3. Inbound'
  BY <1>2 DEF InInv, Inbound
<1> QED
  BY <1>1, <1>3 DEF InInv

LEMMA InRead ==
  ASSUME InInv, Len(sent) \in Nat, ReadMessage
  PROVE  InInv'
<1>1. /\ reader = "reading" /\ arrived + Len(sent) < MaxFrames /\ arrived' = arrived + 1
      /\ messages' = messages + 1 /\ item' = Item("message", messages + 1) /\ reader' = "offer"
      /\ UNCHANGED <<incoming, worker, handled>>
  BY DEF ReadMessage, MoreFrames
<1>2. /\ messages \in Nat /\ arrived \in Nat /\ MaxFrames \in Nat /\ messages <= arrived
      /\ handled \in Seq(1..messages)
  BY WebSocketAssumption DEF InInv, TypeIn
<1>3. /\ item' \in Items /\ item'.kind = "message" /\ item'.n = messages'
  BY <1>1, <1>2 DEF Items, Item
<1>4. handled \in Seq(1..messages')
  <2>1. \A i \in 1..Len(handled) : handled[i] \in 1..(messages + 1)
    BY <1>2
  <2>2. handled \in Seq(1..(messages + 1))
    BY <1>2, <2>1
  <2> QED
    BY <1>1, <2>2
<1>5. TypeIn'
  BY <1>1, <1>2, <1>3, <1>4 DEF InInv, TypeIn, ReaderStates
<1>6. Queued' = Queued /\ Pending = 0 /\ Pending' = 1 /\ Queued \in Int /\ Len(handled) \in Nat
  BY <1>1, <1>3 DEF Queued, Pending, InInv, TypeIn
<1>7. worker \in Running \cup {"unborn", "finished"} => messages' = Len(handled) + Queued' + Pending'
  BY <1>1, <1>2, <1>6 DEF InInv, Inbound
<1>8. \A i \in 1..Len(incoming) :
       IF incoming[i].kind = "message"
       THEN incoming[i].n = Len(handled) + i /\ incoming[i].n \in 1..messages'
       ELSE i = Len(incoming) /\ LeftLoop'
  BY <1>1, <1>2 DEF InInv, Inbound, LeftLoop
<1>9. Inbound'
  BY <1>1, <1>2, <1>3, <1>7, <1>8 DEF InInv, Inbound, LeftLoop
<1> QED
  BY <1>5, <1>9 DEF InInv

LEMMA InOffer ==
  ASSUME InInv, Offer
  PROVE  InInv'
<1>1. /\ reader = "offer" /\ worker \in Running /\ Len(incoming) < InCap
      /\ incoming' = Append(incoming, item)
      /\ reader' = IF item.kind = "message" THEN "reading" ELSE "join"
      /\ UNCHANGED <<item, worker, arrived, messages, handled>>
  BY DEF Offer
<1>2. /\ item \in Items /\ incoming \in Seq(Items) /\ Len(incoming) \in Nat /\ InCap \in Nat
      /\ handled \in Seq(1..messages) /\ Len(handled) \in Nat /\ messages \in Nat
  BY WebSocketAssumption DEF InInv, TypeIn
<1>3. /\ incoming' \in Seq(Items) /\ Len(incoming') = Len(incoming) + 1
      /\ incoming'[Len(incoming) + 1] = item
      /\ \A k \in 1..Len(incoming) : incoming'[k] = incoming[k]
      /\ \A k \in 1..Len(incoming') : k \in 1..Len(incoming) \/ k = Len(incoming) + 1
  BY <1>1, <1>2, Longer
<1>4. TypeIn'
  BY <1>1, <1>2, <1>3 DEF InInv, TypeIn, ReaderStates
<1>5. ~ LeftLoop /\ \A i \in 1..Len(incoming) : incoming[i].kind = "message"
  BY <1>1 DEF InInv, Inbound, LeftLoop
<1>6. Queued = Len(incoming)
  BY <1>2, <1>5 DEF Queued
<1>7. /\ messages = Len(handled) + Len(incoming) + Pending
      /\ \A i \in 1..Len(incoming) : incoming[i].n = Len(handled) + i /\ incoming[i].n \in 1..messages
      /\ item.kind = "message" => item.n = messages /\ messages \in Nat \ {0}
  BY <1>1, <1>5, <1>6 DEF InInv, Inbound
<1>8. Pending' = 0
  BY <1>1 DEF Pending
<1>9. incoming' # << >> /\ incoming'[Len(incoming')] = item
  BY <1>2, <1>3
<1>10. messages = Len(handled) + Queued' + Pending'
  <2>1. CASE item.kind = "message"
    <3>1. Queued' = Len(incoming) + 1 /\ Pending = 1
      BY <1>1, <1>3, <1>9, <2>1 DEF Queued, Pending
    <3> QED
      BY <1>2, <1>7, <1>8, <3>1
  <2>2. CASE item.kind # "message"
    <3>1. Queued' = (Len(incoming) + 1) - 1 /\ Pending = 0
      BY <1>1, <1>3, <1>9, <2>2 DEF Queued, Pending
    <3> QED
      BY <1>2, <1>7, <1>8, <3>1
  <2> QED
    BY <2>1, <2>2
<1>11. \A i \in 1..Len(incoming') :
         IF incoming'[i].kind = "message"
         THEN incoming'[i].n = Len(handled) + i /\ incoming'[i].n \in 1..messages
         ELSE i = Len(incoming') /\ LeftLoop'
  <2> SUFFICES ASSUME NEW i \in 1..Len(incoming')
               PROVE  IF incoming'[i].kind = "message"
                      THEN incoming'[i].n = Len(handled) + i /\ incoming'[i].n \in 1..messages
                      ELSE i = Len(incoming') /\ LeftLoop'
    OBVIOUS
  <2>1. CASE i \in 1..Len(incoming)
    BY <1>3, <1>5, <1>7, <2>1
  <2>2. CASE i = Len(incoming) + 1
    <3>1. CASE item.kind = "message"
      <4>1. Pending = 1
        BY <1>1, <3>1 DEF Pending
      <4>2. item.n = Len(handled) + i /\ item.n \in 1..messages
        BY <1>2, <1>7, <2>2, <3>1, <4>1
      <4> QED
        BY <1>3, <2>2, <3>1, <4>2
    <3>2. CASE item.kind # "message"
      BY <1>1, <1>3, <2>2, <3>2 DEF LeftLoop
    <3> QED
      BY <3>1, <3>2
  <2> QED
    BY <1>3, <2>1, <2>2
<1>12. Inbound'
  BY <1>1, <1>10, <1>11 DEF InInv, Inbound, Running
<1> QED
  BY <1>4, <1>12 DEF InInv

LEMMA InTake ==
  ASSUME InInv, Take
  PROVE  InInv'
<1>1. /\ worker = "idle" /\ incoming # << >> /\ incoming' = Tail(incoming)
      /\ worker' \in Running
      /\ handled' = IF Head(incoming).kind = "message"
                    THEN Append(handled, Head(incoming).n) ELSE handled
      /\ UNCHANGED <<reader, item, arrived, messages>>
  BY DEF Take, Running
<1>2. /\ incoming \in Seq(Items) /\ Len(incoming) <= InCap /\ InCap \in Nat
      /\ handled \in Seq(1..messages) /\ Len(handled) \in Nat /\ messages \in Nat
  BY WebSocketAssumption DEF InInv, TypeIn
<1>3. /\ Len(incoming) \in Nat \ {0} /\ Head(incoming) = incoming[1]
      /\ incoming' \in Seq(Items) /\ Len(incoming') = Len(incoming) - 1
      /\ \A k \in 1..Len(incoming') : incoming'[k] = incoming[k + 1] /\ k + 1 \in 1..Len(incoming)
  BY <1>1, <1>2, Behind
<1>4. \A i \in 1..Len(incoming) :
       IF incoming[i].kind = "message"
       THEN incoming[i].n = Len(handled) + i /\ incoming[i].n \in 1..messages
       ELSE i = Len(incoming) /\ LeftLoop
  BY DEF InInv, Inbound
<1>5. messages = Len(handled) + Queued + Pending /\ Pending' = Pending /\ LeftLoop' = LeftLoop /\ Pending \in Nat
  BY <1>1 DEF InInv, Inbound, Running, Pending, LeftLoop
<1>6. handled = [i \in 1..Len(handled) |-> i]
  BY DEF InInv, Inbound
<1>7. CASE incoming[1].kind = "message"
  <2>1. incoming[1].n = Len(handled) + 1 /\ incoming[1].n \in 1..messages
    BY <1>3, <1>4, <1>7
  <2>2. handled' = Append(handled, Len(handled) + 1) /\ Len(handled) + 1 \in 1..messages
    BY <1>1, <1>3, <1>7, <2>1
  <2>3. handled' \in Seq(1..messages) /\ Len(handled') = Len(handled) + 1
    BY <1>2, <2>2
  <2>4. handled' = [i \in 1..Len(handled') |-> i]
    BY <1>2, <1>6, <2>2, <2>3
  <2>5. Queued' = Queued - 1 /\ Queued \in Int
    <3>1. CASE Len(incoming) = 1
      <4>1. incoming' = << >> /\ Len(incoming') = 0
        BY <1>3, <3>1
      <4>2. Queued' = 0 /\ Queued = 1
        BY <1>1, <1>7, <3>1, <4>1 DEF Queued
      <4> QED
        BY <4>2
    <3>2. CASE Len(incoming) # 1
      <4>1. /\ incoming' # << >> /\ Len(incoming') \in 1..Len(incoming')
            /\ Len(incoming') + 1 = Len(incoming)
        BY <1>3, <3>2
      <4>2. incoming'[Len(incoming')] = incoming[Len(incoming)]
        BY <1>3, <4>1
      <4> QED
        BY <1>1, <1>3, <4>1, <4>2 DEF Queued
    <3> QED
      BY <3>1, <3>2
  <2>6. messages = Len(handled') + Queued' + Pending'
    BY <1>2, <1>5, <2>3, <2>5
  <2>7. \A i \in 1..Len(incoming') :
         IF incoming'[i].kind = "message"
         THEN incoming'[i].n = Len(handled') + i /\ incoming'[i].n \in 1..messages
         ELSE i = Len(incoming') /\ LeftLoop'
    <3> SUFFICES ASSUME NEW i \in 1..Len(incoming')
                 PROVE  IF incoming'[i].kind = "message"
                        THEN incoming'[i].n = Len(handled') + i /\ incoming'[i].n \in 1..messages
                        ELSE i = Len(incoming') /\ LeftLoop'
      OBVIOUS
    <3>1. incoming'[i] = incoming[i + 1] /\ i + 1 \in 1..Len(incoming) /\ i \in Nat
      BY <1>3
    <3>2. IF incoming'[i].kind = "message"
          THEN incoming'[i].n = Len(handled) + (i + 1) /\ incoming'[i].n \in 1..messages
          ELSE i + 1 = Len(incoming) /\ LeftLoop
      BY <1>4, <3>1
    <3>3. Len(handled) + (i + 1) = Len(handled') + i /\ (i + 1 = Len(incoming) => i = Len(incoming'))
      BY <1>2, <1>3, <2>3, <3>1
    <3> QED
      BY <1>5, <3>2, <3>3
  <2>8. TypeIn'
    BY <1>1, <1>2, <1>3, <2>3 DEF InInv, TypeIn
  <2>9. Inbound'
    BY <1>1, <2>4, <2>6, <2>7 DEF InInv, Inbound, Running
  <2> QED
    BY <2>8, <2>9 DEF InInv
<1>8. CASE incoming[1].kind # "message"
  <2>1. Len(incoming) = 1 /\ LeftLoop
    BY <1>3, <1>4, <1>8
  <2>2. incoming' = << >> /\ Len(incoming') = 0 /\ handled' = handled
    BY <1>1, <1>3, <1>8, <2>1
  <2>3. Queued' = 0 /\ Queued = 0
    BY <1>1, <1>8, <2>1, <2>2 DEF Queued
  <2>4. TypeIn'
    BY <1>1, <1>2, <1>3, <2>2 DEF InInv, TypeIn
  <2>5. messages = Len(handled') + Queued' + Pending'
    BY <1>5, <2>2, <2>3
  <2>6. handled' = [i \in 1..Len(handled') |-> i]
    BY <1>6, <2>2
  <2>7. \A i \in 1..Len(incoming') : FALSE
    BY <2>2
  <2>8. Inbound'
    BY <1>1, <2>2, <2>5, <2>6, <2>7 DEF InInv, Inbound, Running
  <2> QED
    BY <2>4, <2>8 DEF InInv
<1> QED
  BY <1>7, <1>8

LEMMA InNext ==
  ASSUME InInv, Len(sent) \in Nat, [Next]_vars
  PROVE  InInv'
<1> USE DEF Running
<1>1. /\ arrived \in Nat /\ arrived <= MaxFrames /\ MaxFrames \in Nat /\ arrived \in arrived..MaxFrames
      /\ reader \in ReaderStates /\ item \in Items
      /\ worker \in Running \cup {"unborn", "finished", "panicked", "aborted"}
  BY WebSocketAssumption DEF InInv, TypeIn
<1>2. /\ reader = "connect" <=> worker = "unborn"
      /\ worker = "finished" => LeftLoop /\ incoming = << >>
      /\ reader = "offer" /\ item.kind = "message" => item.n = messages /\ messages \in Nat \ {0}
  BY DEF InInv, Inbound
<1>3. CASE Connected
  <2>1. Pending' = Pending
    BY <1>3 DEF Connected, Pending
  <2> QED
    BY <1>1, <1>2, <1>3, <2>1, InMoves DEF Connected, LeftLoop, ReaderStates
<1>4. CASE ReadMessage
  BY <1>4, InRead
<1>5. CASE ReadPing
  <2>1. arrived' \in arrived..MaxFrames
    BY <1>1, <1>5 DEF ReadPing, MoreFrames
  <2> QED
    BY <1>1, <1>2, <1>5, <2>1, InMoves DEF ReadPing, LeftLoop, Pending
<1>6. CASE Reading
  <2>1. PICK kind \in {"close", "error"} : ReadTerminal(kind)
    BY <1>6 DEF Reading
  <2>2. item' \in Items /\ item'.kind # "message"
    BY <2>1 DEF ReadTerminal, Items, Item
  <2>3. Pending' = Pending
    BY <2>1, <2>2 DEF ReadTerminal, Pending
  <2> QED
    BY <1>1, <1>2, <2>1, <2>2, <2>3, InMoves DEF ReadTerminal, LeftLoop, ReaderStates
<1>7. CASE EndOfStream
  BY <1>1, <1>2, <1>7, InMoves DEF EndOfStream, LeftLoop, ReaderStates, Pending
<1>8. CASE Offer
  BY <1>8, InOffer
<1>9. CASE OfferFails
  BY <1>1, <1>2, <1>9, InMoves DEF OfferFails, LeftLoop, ReaderStates
<1>10. CASE JoinWorker \/ Closed \/ SendClose \/ JoinWriter
  BY <1>1, <1>2, <1>10, InMoves
     DEF JoinWorker, Closed, SendClose, JoinWriter, ReaderMoves, LeftLoop, ReaderStates, Pending
<1>11. CASE Take
  BY <1>11, InTake
<1>12. CASE HookReturns \/ HookPanics
  BY <1>1, <1>2, <1>12, InMoves DEF HookReturns, HookPanics, WorkerMoves, LeftLoop, Pending
<1>13. CASE WorkerEnds
  BY <1>1, <1>2, <1>13, InMoves DEF WorkerEnds, WorkerMoves, LeftLoop, Pending
<1>14. CASE WorkerStops
  BY <1>1, <1>2, <1>14, InMoves DEF WorkerStops, WorkerMoves, LeftLoop, Pending
<1>15. CASE UNCHANGED in
  <2>1. UNCHANGED <<reader, item, incoming, worker, arrived, messages, handled>>
    BY <1>15 DEF in
  <2> QED
    BY <1>1, <1>2, <2>1, InMoves DEF LeftLoop, Pending
<1>16. CASE WriterStep
  BY <1>15, <1>16 DEF WriterStep, Select, WriteFrame, WriteFails, WriterStops, WriterLeaves
<1>17. CASE \E by \in {"app", "on_close"}, kind \in {"data", "ping", "close"} : Send(by, kind)
  BY <1>15, <1>17 DEF Send
<1>18. CASE UNCHANGED vars
  BY <1>15, <1>18 DEF vars
<1> QED
  BY <1>3, <1>4, <1>5, <1>6, <1>7, <1>8, <1>9, <1>10, <1>11, <1>12, <1>13, <1>14, <1>16, <1>17, <1>18
     DEF Next, Teardown, WorkerStep

-----------------------------------------------------------------------------
(* What goes out                                                            *)

TypeOut ==
  /\ data \in Seq(Frames) /\ Len(data) <= OutCap
  /\ ctrl \in Seq(Frames) /\ Len(ctrl) <= CtrlCap
  /\ writer \in {"unborn", "select", "writing", "gone"}
  /\ IF writer = "writing" THEN writing \in Frames ELSE writing = None
  /\ wire \in Seq(Frames)
  /\ sent \in Seq(Frames)

(* A frame is one the sink accepted, or the close of run().                 *)
Copy(f) == f.n # 0 => f.n \in 1..Len(sent) /\ f = sent[f.n]

Faithful ==
  /\ \A k \in 1..Len(sent) : sent[k].n = k
  /\ \A i \in 1..Len(wire) : Copy(wire[i])
  /\ writer = "writing" => Copy(writing)
  /\ \A i \in 1..Len(data) : Copy(data[i]) /\ ~ IsControl(data[i])
  /\ \A i \in 1..Len(ctrl) : Copy(ctrl[i]) /\ IsControl(ctrl[i])

(* The frames of a queue go the same way one behind the other: out of the   *)
(* queue, through the writer, along the wire.                               *)
Ahead(f, g) == SameQueue(f, g) => f.n < g.n

Waits(q) ==
  /\ \A i, j \in 1..Len(q) : i < j => Ahead(q[i], q[j])
  /\ \A i \in 1..Len(wire), j \in 1..Len(q) : Ahead(wire[i], q[j])
  /\ writer = "writing" => \A j \in 1..Len(q) : Ahead(writing, q[j])

Ordered ==
  /\ \A i, j \in 1..Len(wire) : i < j => Ahead(wire[i], wire[j])
  /\ writer = "writing" => \A i \in 1..Len(wire) : Ahead(wire[i], writing)
  /\ Waits(data)
  /\ Waits(ctrl)

(* No accepted frame is lost while the writer lives, and none ever reaches  *)
(* the wire before those of its queue that were accepted earlier.           *)
OnWire(f) == \E i \in 1..Len(wire) : wire[i] = f
Somewhere(f) ==
  \/ OnWire(f)
  \/ writer = "writing" /\ writing = f
  \/ \E i \in 1..Len(data) : data[i] = f
  \/ \E i \in 1..Len(ctrl) : ctrl[i] = f

Kept ==
  /\ writer # "gone" => \A k \in 1..Len(sent) : Somewhere(sent[k])
  /\ \A k, l \in 1..Len(sent) :
       k < l /\ SameQueue(sent[k], sent[l]) /\ OnWire(sent[l]) => OnWire(sent[k])
  /\ \A i \in 1..Len(wire) : wire[i].kind = "close" => i = Len(wire) /\ writer = "gone"

(* What the wire got since a control frame was accepted: at most the first  *)
(* frame is data, the one that was being written.                           *)
Passed(f, end) == f.at <= end /\ \A i \in 1..end : i >= f.at + 2 => IsControl(wire[i])

Overtaken ==
  /\ \A i \in 1..Len(wire) : IsControl(wire[i]) => Passed(wire[i], i)
  /\ writer = "writing" /\ IsControl(writing) => Passed(writing, Len(wire))
  /\ \A i \in 1..Len(ctrl) :
       /\ Passed(ctrl[i], Len(wire))
       /\ writer = "writing" /\ ~ IsControl(writing) => Len(wire) = ctrl[i].at

OutInv == TypeOut /\ Faithful /\ Ordered /\ Kept /\ Overtaken

LEMMA OutInit == Init => OutInv
<1> SUFFICES ASSUME Init PROVE OutInv
  OBVIOUS
<1>1. /\ data = << >> /\ ctrl = << >> /\ writer = "unborn" /\ writing = None /\ wire = << >> /\ sent = << >>
      /\ Len(data) = 0 /\ Len(ctrl) = 0 /\ Len(wire) = 0 /\ Len(sent) = 0
  BY DEF Init
<1>2. TypeOut
  BY <1>1, WebSocketAssumption DEF TypeOut
<1>3. Faithful /\ Ordered /\ Kept /\ Overtaken
  BY <1>1 DEF Faithful, Ordered, Waits, Kept, Overtaken
<1> QED
  BY <1>2, <1>3 DEF OutInv

(* The writer is spawned, or stops.                                         *)
LEMMA OutMoves ==
  ASSUME OutInv, UNCHANGED <<data, ctrl, wire, sent>>,
         \/ UNCHANGED <<writer, writing>>
         \/ writer = "unborn" /\ writer' = "select" /\ writing' = writing
         \/ writer' = "gone" /\ writing' = None
  PROVE  OutInv'
<1>1. TypeOut'
  BY DEF OutInv, TypeOut
<1>2. Faithful'
  BY DEF OutInv, Faithful, Copy
<1>3. Ordered'
  BY DEF OutInv, Ordered, Waits
<1>4. Kept'
  BY DEF OutInv, Kept, Somewhere, OnWire
<1>5. Overtaken'
  BY DEF OutInv, Overtaken, Passed
<1> QED
  BY <1>1, <1>2, <1>3, <1>4, <1>5 DEF OutInv

(* A queue takes a frame that comes after all those of its kind.            *)
LEMMA WaitsMore ==
  ASSUME NEW q \in Seq(Frames), NEW f \in Frames, wire \in Seq(Frames), Waits(q),
         UNCHANGED <<wire, writer, writing>>,
         \A i \in 1..Len(q) : Ahead(q[i], f),
         \A i \in 1..Len(wire) : Ahead(wire[i], f),
         writer = "writing" => Ahead(writing, f)
  PROVE  Waits(Append(q, f))'
<1> DEFINE r == Append(q, f)
<1>1. /\ r[Len(q) + 1] = f /\ Len(q) \in Nat /\ Len(r) = Len(q) + 1
      /\ \A k \in 1..Len(q) : r[k] = q[k]
      /\ \A k \in 1..Len(r) : k \in 1..Len(q) \/ k = Len(q) + 1
  BY Longer
<1> HIDE DEF r
<1>2. ASSUME NEW i \in 1..Len(r), NEW j \in 1..Len(r), i < j PROVE Ahead(r[i], r[j])
  <2>1. i \in 1..Len(q)
    BY <1>1, <1>2
  <2>2. CASE j \in 1..Len(q)
    BY <1>1, <1>2, <2>1, <2>2 DEF Waits
  <2>3. CASE j = Len(q) + 1
    BY <1>1, <2>1, <2>3
  <2> QED
    BY <1>1, <2>2, <2>3
<1>3. \A i \in 1..Len(wire), j \in 1..Len(r) : Ahead(wire[i], r[j])
  BY <1>1 DEF Waits
<1>4. writer = "writing" => \A j \in 1..Len(r) : Ahead(writing, r[j])
  BY <1>1 DEF Waits
<1>5. Waits(r)'
  BY <1>2, <1>3, <1>4 DEF Waits
<1> QED
  BY <1>5 DEF r

(* The sink accepts a frame, or the queue of control frames run()'s close.  *)
LEMMA OutAccepts ==
  ASSUME OutInv, NEW f \in Frames, f.at = Len(wire), writer # "gone",
         UNCHANGED <<writer, writing, wire>>,
         \/ f.n = 0 /\ sent' = sent
         \/ f.n = Len(sent) + 1 /\ sent' = Append(sent, f),
         \/ IsControl(f) /\ Len(ctrl) < CtrlCap /\ ctrl' = Append(ctrl, f) /\ data' = data
         \/ ~ IsControl(f) /\ Len(data) < OutCap /\ data' = Append(data, f) /\ ctrl' = ctrl
  PROVE  OutInv'
<1>1. /\ data \in Seq(Frames) /\ ctrl \in Seq(Frames) /\ wire \in Seq(Frames) /\ sent \in Seq(Frames)
      /\ Len(sent) \in Nat /\ Len(wire) \in Nat /\ Len(data) \in Nat /\ Len(ctrl) \in Nat
      /\ OutCap \in Nat /\ CtrlCap \in Nat
      /\ Len(data) <= OutCap /\ Len(ctrl) <= CtrlCap
      /\ writer = "writing" => writing \in Frames
  BY WebSocketAssumption DEF OutInv, TypeOut
<1>2. /\ Len(sent') \in Nat /\ Len(sent) <= Len(sent') /\ sent' \in Seq(Frames)
      /\ \A k \in 1..Len(sent) : sent'[k] = sent[k]
      /\ \A k \in 1..Len(sent') : k \in 1..Len(sent) \/ (k = Len(sent) + 1 /\ f.n = k /\ sent'[k] = f)
      /\ f.n # 0 => f.n = Len(sent) + 1 /\ f.n \in 1..Len(sent') /\ sent'[f.n] = f
  <2>1. CASE f.n = 0 /\ sent' = sent
    BY <1>1, <2>1
  <2>2. CASE f.n = Len(sent) + 1 /\ sent' = Append(sent, f)
    <3>1. /\ sent' \in Seq(Frames) /\ Len(sent') = Len(sent) + 1 /\ sent'[Len(sent) + 1] = f
          /\ \A k \in 1..Len(sent) : sent'[k] = sent[k]
          /\ \A k \in 1..Len(sent') : k \in 1..Len(sent) \/ k = Len(sent) + 1
      BY <1>1, <2>2, Longer
    <3> QED
      BY <1>1, <2>2, <3>1
  <2> QED
    BY <2>1, <2>2
<1>3. /\ ctrl' \in Seq(Frames) /\ Len(ctrl') <= CtrlCap
      /\ \A k \in 1..Len(ctrl) : ctrl'[k] = ctrl[k] /\ k \in 1..Len(ctrl')
      /\ \A k \in 1..Len(ctrl') : k \in 1..Len(ctrl) \/ (ctrl'[k] = f /\ IsControl(f))
      /\ IsControl(f) => \E k \in 1..Len(ctrl') : ctrl'[k] = f
  <2>1. CASE ~ IsControl(f) /\ ctrl' = ctrl
    BY <1>1, <2>1
  <2>2. CASE IsControl(f) /\ Len(ctrl) < CtrlCap /\ ctrl' = Append(ctrl, f)
    <3>1. /\ ctrl' \in Seq(Frames) /\ Len(ctrl') = Len(ctrl) + 1 /\ ctrl'[Len(ctrl) + 1] = f
          /\ \A k \in 1..Len(ctrl) : ctrl'[k] = ctrl[k] /\ k \in 1..Len(ctrl')
          /\ \A k \in 1..Len(ctrl') : k \in 1..Len(ctrl) \/ k = Len(ctrl) + 1
      BY <1>1, <2>2, Longer
    <3>2. Len(ctrl') <= CtrlCap /\ Len(ctrl) + 1 \in 1..Len(ctrl')
      BY <1>1, <2>2, <3>1
    <3> QED
      BY <2>2, <3>1, <3>2
  <2> QED
    BY <2>1, <2>2
<1>4. /\ data' \in Seq(Frames) /\ Len(data') <= OutCap
      /\ \A k \in 1..Len(data) : data'[k] = data[k] /\ k \in 1..Len(data')
      /\ \A k \in 1..Len(data') : k \in 1..Len(data) \/ (data'[k] = f /\ ~ IsControl(f))
      /\ ~ IsControl(f) => \E k \in 1..Len(data') : data'[k] = f
  <2>1. CASE IsControl(f) /\ data' = data
    BY <1>1, <2>1
  <2>2. CASE ~ IsControl(f) /\ Len(data) < OutCap /\ data' = Append(data, f)
    <3>1. /\ data' \in Seq(Frames) /\ Len(data') = Len(data) + 1 /\ data'[Len(data) + 1] = f
          /\ \A k \in 1..Len(data) : data'[k] = data[k] /\ k \in 1..Len(data')
          /\ \A k \in 1..Len(data') : k \in 1..Len(data) \/ k = Len(data) + 1
      BY <1>1, <2>2, Longer
    <3>2. Len(data') <= OutCap /\ Len(data) + 1 \in 1..Len(data')
      BY <1>1, <2>2, <3>1
    <3> QED
      BY <2>2, <3>1, <3>2
  <2> QED
    BY <2>1, <2>2
<1>5. TypeOut'
  BY <1>1, <1>2, <1>3, <1>4 DEF OutInv, TypeOut
<1>6. \A g : Copy(g) => (g.n # 0 => g.n \in 1..Len(sent') /\ g = sent'[g.n])
  BY <1>1, <1>2 DEF Copy
<1>7. /\ \A k \in 1..Len(sent) : sent[k].n = k
      /\ \A i \in 1..Len(wire) : Copy(wire[i])
      /\ writer = "writing" => Copy(writing)
      /\ \A i \in 1..Len(data) : Copy(data[i]) /\ ~ IsControl(data[i])
      /\ \A i \in 1..Len(ctrl) : Copy(ctrl[i]) /\ IsControl(ctrl[i])
  BY DEF OutInv, Faithful
<1>8. Faithful'
  <2>1. \A k \in 1..Len(sent') : sent'[k].n = k
    BY <1>2, <1>7
  <2>2. \A i \in 1..Len(wire) : Copy(wire[i])'
    BY <1>6, <1>7 DEF Copy
  <2>3. writer = "writing" => Copy(writing)'
    BY <1>6, <1>7 DEF Copy
  <2>4. \A i \in 1..Len(data') : Copy(data[i])' /\ ~ IsControl(data'[i])
    BY <1>2, <1>4, <1>6, <1>7 DEF Copy
  <2>5. \A i \in 1..Len(ctrl') : Copy(ctrl[i])' /\ IsControl(ctrl'[i])
    BY <1>2, <1>3, <1>6, <1>7 DEF Copy
  <2> QED
    BY <2>1, <2>2, <2>3, <2>4, <2>5 DEF Faithful
<1>9. \A g \in Frames : Copy(g) => Ahead(g, f)
  BY <1>1, <1>2 DEF Copy, Ahead, SameQueue
<1>10. /\ \A i \in 1..Len(wire) : wire[i] \in Frames
       /\ \A i \in 1..Len(data) : data[i] \in Frames
       /\ \A i \in 1..Len(ctrl) : ctrl[i] \in Frames
  BY <1>1
<1>11. /\ \A i \in 1..Len(wire) : Ahead(wire[i], f)
       /\ writer = "writing" => Ahead(writing, f)
       /\ \A i \in 1..Len(data) : Ahead(data[i], f)
       /\ \A i \in 1..Len(ctrl) : Ahead(ctrl[i], f)
  BY <1>1, <1>7, <1>9, <1>10
<1>12. Waits(data) /\ Waits(ctrl)
  BY DEF OutInv, Ordered
<1>13. Waits(data)'
  <2>1. CASE data' = data
    BY <1>12, <2>1 DEF Waits
  <2>2. CASE data' = Append(data, f)
    <3>1. PICK q \in Seq(Frames) : q = data
      BY <1>1
    <3>2. Waits(q) /\ (\A i \in 1..Len(q) : Ahead(q[i], f)) /\ data' = Append(q, f)
      BY <1>11, <1>12, <2>2, <3>1
    <3>3. Waits(Append(q, f))'
      BY <1>1, <1>11, <3>2, WaitsMore
    <3> QED
      BY <3>2, <3>3 DEF Waits
  <2> QED
    BY <2>1, <2>2
<1>14. Waits(ctrl)'
  <2>1. CASE ctrl' = ctrl
    BY <1>12, <2>1 DEF Waits
  <2>2. CASE ctrl' = Append(ctrl, f)
    <3>1. PICK q \in Seq(Frames) : q = ctrl
      BY <1>1
    <3>2. Waits(q) /\ (\A i \in 1..Len(q) : Ahead(q[i], f)) /\ ctrl' = Append(q, f)
      BY <1>11, <1>12, <2>2, <3>1
    <3>3. Waits(Append(q, f))'
      BY <1>1, <1>11, <3>2, WaitsMore
    <3> QED
      BY <3>2, <3>3 DEF Waits
  <2> QED
    BY <2>1, <2>2
<1>15. Ordered'
  BY <1>13, <1>14 DEF OutInv, Ordered
<1>16. Kept'
  <2>1. \A g : Somewhere(g) => (OnWire(g) \/ (writer = "writing" /\ writing = g)
                \/ (\E i \in 1..Len(data') : data'[i] = g) \/ (\E i \in 1..Len(ctrl') : ctrl'[i] = g))
    BY <1>3, <1>4 DEF Somewhere
  <2>2. \A k \in 1..Len(sent') : Somewhere(sent[k])'
    <3> SUFFICES ASSUME NEW k \in 1..Len(sent') PROVE Somewhere(sent[k])'
      OBVIOUS
    <3>1. CASE k \in 1..Len(sent)
      <4>1. Somewhere(sent[k]) /\ sent'[k] = sent[k]
        BY <1>2, <3>1 DEF OutInv, Kept
      <4>2. PICK g : g = sent[k]
        OBVIOUS
      <4>3. Somewhere(g) /\ sent'[k] = g
        BY <4>1, <4>2
      <4> QED
        BY <2>1, <4>3 DEF Somewhere, OnWire
    <3>2. CASE sent'[k] = f
      BY <1>3, <1>4, <3>2 DEF Somewhere
    <3> QED
      BY <1>2, <3>1, <3>2
  <2>3. f.n # 0 => ~ OnWire(f)
    BY <1>1, <1>2, <1>7 DEF OnWire, Copy
  <2>4. ASSUME NEW k \in 1..Len(sent'), NEW l \in 1..Len(sent'), k < l,
               SameQueue(sent'[k], sent'[l]), OnWire(sent'[l])
        PROVE  OnWire(sent'[k])
    <3>1. l \in 1..Len(sent) /\ sent'[l] = sent[l]
      BY <1>2, <2>3, <2>4
    <3>2. k \in 1..Len(sent) /\ sent'[k] = sent[k]
      BY <1>1, <1>2, <2>4, <3>1
    <3> QED
      BY <2>4, <3>1, <3>2 DEF OutInv, Kept
  <2>5. \A k, l \in 1..Len(sent') :
          k < l /\ SameQueue(sent'[k], sent'[l]) /\ OnWire(sent[l])' => OnWire(sent[k])'
    BY <2>4 DEF OnWire
  <2> QED
    BY <2>2, <2>5 DEF OutInv, Kept
<1>17. Overtaken'
  <2>1. Passed(f, Len(wire))
    BY <1>1 DEF Passed
  <2>2. \A i \in 1..Len(ctrl') :
          /\ Passed(ctrl'[i], Len(wire))
          /\ writer = "writing" /\ ~ IsControl(writing) => Len(wire) = ctrl'[i].at
    BY <1>3, <2>1 DEF OutInv, Overtaken
  <2> QED
    BY <2>2 DEF OutInv, Overtaken, Passed
<1> QED
  BY <1>5, <1>8, <1>15, <1>16, <1>17 DEF OutInv

(* The writer takes the oldest frame of a queue.                            *)
LEMMA OutSelectCtrl ==
  ASSUME OutInv, writer = "select", ctrl # << >>, writing' = Head(ctrl), ctrl' = Tail(ctrl),
         writer' = "writing", UNCHANGED <<data, wire, sent>>
  PROVE  OutInv'
<1>1. /\ ctrl \in Seq(Frames) /\ data \in Seq(Frames) /\ wire \in Seq(Frames)
      /\ Len(ctrl) \in Nat /\ Len(wire) \in Nat /\ Len(ctrl) <= CtrlCap
      /\ {OutCap, CtrlCap} \subseteq Nat
  BY WebSocketAssumption DEF OutInv, TypeOut
<1>2. /\ writing' = ctrl[1] /\ writing' \in Frames /\ 1 \in 1..Len(ctrl) /\ Len(ctrl) \in Nat \ {0}
      /\ ctrl' \in Seq(Frames) /\ Len(ctrl') = Len(ctrl) - 1
      /\ \A k \in 1..Len(ctrl') : ctrl'[k] = ctrl[k + 1] /\ k + 1 \in 1..Len(ctrl) /\ 1 < k + 1
      /\ \A k \in 1..Len(ctrl) : k = 1 \/ (k - 1 \in 1..Len(ctrl') /\ ctrl'[k - 1] = ctrl[k])
  BY <1>1, Behind
<1>3. TypeOut'
  BY <1>1, <1>2 DEF OutInv, TypeOut
<1>4. Faithful'
  BY <1>2 DEF OutInv, Faithful, Copy
<1>5. Waits(ctrl) /\ Waits(data) /\ (\A i \in 1..Len(data) : ~ IsControl(data[i])) /\ IsControl(ctrl[1])
  BY <1>2 DEF OutInv, Ordered, Faithful
<1>6. Waits(ctrl)'
  <2>1. \A i, j \in 1..Len(ctrl') : i < j => Ahead(ctrl'[i], ctrl'[j])
    <3> SUFFICES ASSUME NEW i \in 1..Len(ctrl'), NEW j \in 1..Len(ctrl'), i < j
                 PROVE  Ahead(ctrl'[i], ctrl'[j])
      OBVIOUS
    <3>1. i + 1 < j + 1
      OBVIOUS
    <3> QED
      BY <1>2, <1>5, <3>1 DEF Waits
  <2>2. \A i \in 1..Len(wire), j \in 1..Len(ctrl') : Ahead(wire[i], ctrl'[j])
    BY <1>2, <1>5 DEF Waits
  <2>3. \A j \in 1..Len(ctrl') : Ahead(writing', ctrl'[j])
    BY <1>2, <1>5 DEF Waits
  <2> QED
    BY <2>1, <2>2, <2>3 DEF Waits
<1>7. Waits(data)'
  BY <1>2, <1>5 DEF Waits, Ahead, SameQueue
<1>8. Ordered'
  BY <1>2, <1>5, <1>6, <1>7 DEF OutInv, Ordered, Waits
<1>9. Kept'
  <2>1. \A g : Somewhere(g) => (OnWire(g) \/ writing' = g
                \/ (\E i \in 1..Len(ctrl') : ctrl'[i] = g) \/ (\E i \in 1..Len(data) : data[i] = g))
    BY <1>2 DEF Somewhere
  <2>2. \A k \in 1..Len(sent) : Somewhere(sent[k])
    BY DEF OutInv, Kept
  <2>3. \A k \in 1..Len(sent') : Somewhere(sent[k])'
    BY <2>1, <2>2, ZenonT(30) DEF Somewhere, OnWire
  <2> QED
    BY <2>3 DEF OutInv, Kept, OnWire
<1>10. Overtaken'
  BY <1>2, <1>5 DEF OutInv, Overtaken, Passed
<1> QED
  BY <1>3, <1>4, <1>8, <1>9, <1>10 DEF OutInv

(* Of the data queue only when no control frame waits.                      *)
LEMMA OutSelectData ==
  ASSUME OutInv, writer = "select", ctrl = << >>, data # << >>, writing' = Head(data), data' = Tail(data),
         writer' = "writing", UNCHANGED <<ctrl, wire, sent>>
  PROVE  OutInv'
<1>1. /\ data \in Seq(Frames) /\ ctrl \in Seq(Frames) /\ wire \in Seq(Frames)
      /\ Len(data) \in Nat /\ Len(wire) \in Nat /\ Len(data) <= OutCap
      /\ {OutCap, CtrlCap} \subseteq Nat
  BY WebSocketAssumption DEF OutInv, TypeOut
<1>2. /\ writing' = data[1] /\ writing' \in Frames /\ 1 \in 1..Len(data) /\ Len(data) \in Nat \ {0}
      /\ data' \in Seq(Frames) /\ Len(data') = Len(data) - 1
      /\ \A k \in 1..Len(data') : data'[k] = data[k + 1] /\ k + 1 \in 1..Len(data) /\ 1 < k + 1
      /\ \A k \in 1..Len(data) : k = 1 \/ (k - 1 \in 1..Len(data') /\ data'[k - 1] = data[k])
  BY <1>1, Behind
<1>3. TypeOut'
  BY <1>1, <1>2 DEF OutInv, TypeOut
<1>4. Faithful'
  BY <1>2 DEF OutInv, Faithful, Copy
<1>5. Waits(data) /\ Waits(ctrl) /\ (\A i \in 1..Len(ctrl) : FALSE) /\ ~ IsControl(data[1])
  BY <1>2 DEF OutInv, Ordered, Faithful
<1>6. Waits(data)'
  <2>1. \A i, j \in 1..Len(data') : i < j => Ahead(data'[i], data'[j])
    <3> SUFFICES ASSUME NEW i \in 1..Len(data'), NEW j \in 1..Len(data'), i < j
                 PROVE  Ahead(data'[i], data'[j])
      OBVIOUS
    <3>1. i + 1 < j + 1
      OBVIOUS
    <3> QED
      BY <1>2, <1>5, <3>1 DEF Waits
  <2>2. \A i \in 1..Len(wire), j \in 1..Len(data') : Ahead(wire[i], data'[j])
    BY <1>2, <1>5 DEF Waits
  <2>3. \A j \in 1..Len(data') : Ahead(writing', data'[j])
    BY <1>2, <1>5 DEF Waits
  <2> QED
    BY <2>1, <2>2, <2>3 DEF Waits
<1>7. Waits(ctrl)'
  BY <1>2, <1>5 DEF Waits, Ahead, SameQueue
<1>8. Ordered'
  BY <1>2, <1>5, <1>6, <1>7 DEF OutInv, Ordered, Waits
<1>9. Kept'
  <2>1. \A g : Somewhere(g) => (OnWire(g) \/ writing' = g
                \/ (\E i \in 1..Len(data') : data'[i] = g) \/ (\E i \in 1..Len(ctrl) : ctrl[i] = g))
    BY <1>2 DEF Somewhere
  <2>2. \A k \in 1..Len(sent) : Somewhere(sent[k])
    BY DEF OutInv, Kept
  <2>3. \A k \in 1..Len(sent') : Somewhere(sent[k])'
    BY <2>1, <2>2, ZenonT(30) DEF Somewhere, OnWire
  <2> QED
    BY <2>3 DEF OutInv, Kept, OnWire
<1>10. Overtaken'
  BY <1>2, <1>5 DEF OutInv, Overtaken, Passed
<1> QED
  BY <1>3, <1>4, <1>8, <1>9, <1>10 DEF OutInv

(* The frame being written is on the wire, behind all the others.           *)
LEMMA OutWrites ==
  ASSUME OutInv, WriteFrame
  PROVE  OutInv'
<1>1. /\ writer = "writing" /\ wire' = Append(wire, writing) /\ writing' = None
      /\ writer' = IF writing.kind = "close" THEN "gone" ELSE "select"
      /\ UNCHANGED <<data, ctrl, sent>>
  BY DEF WriteFrame, WriterLeaves
<1>2. /\ wire \in Seq(Frames) /\ writing \in Frames /\ Len(wire) \in Nat
      /\ sent \in Seq(Frames) /\ Len(sent) \in Nat
  BY <1>1 DEF OutInv, TypeOut
<1>3. /\ wire' \in Seq(Frames) /\ Len(wire') = Len(wire) + 1 /\ wire'[Len(wire) + 1] = writing
      /\ \A k \in 1..Len(wire) : wire'[k] = wire[k] /\ k \in 1..Len(wire')
      /\ \A k \in 1..Len(wire') : k \in 1..Len(wire) \/ k = Len(wire) + 1
      /\ Len(wire) + 1 \in 1..Len(wire')
  BY <1>1, <1>2, Longer
<1>4. TypeOut'
  BY <1>1, <1>3 DEF OutInv, TypeOut
<1>5. Faithful'
  BY <1>1, <1>3 DEF OutInv, Faithful, Copy
<1>6. /\ Waits(data) /\ Waits(ctrl)
      /\ \A i \in 1..Len(wire) : Ahead(wire[i], writing)
      /\ \A i, j \in 1..Len(wire) : i < j => Ahead(wire[i], wire[j])
  BY <1>1 DEF OutInv, Ordered
<1>7. \A i, j \in 1..Len(wire') : i < j => Ahead(wire'[i], wire'[j])
  <2> SUFFICES ASSUME NEW i \in 1..Len(wire'), NEW j \in 1..Len(wire'), i < j
               PROVE  Ahead(wire'[i], wire'[j])
    OBVIOUS
  <2>1. i \in 1..Len(wire) /\ wire'[i] = wire[i]
    BY <1>2, <1>3
  <2>2. CASE j \in 1..Len(wire)
    BY <1>3, <1>6, <2>1, <2>2
  <2>3. CASE j = Len(wire) + 1
    BY <1>3, <1>6, <2>1, <2>3
  <2> QED
    BY <1>3, <2>2, <2>3
<1>8. Waits(data)' /\ Waits(ctrl)'
  BY <1>1, <1>3, <1>6 DEF Waits
<1>9. Ordered'
  BY <1>1, <1>7, <1>8 DEF Ordered
<1>10. \A g : OnWire(g) \/ g = writing <=> \E i \in 1..Len(wire') : wire'[i] = g
  BY <1>3 DEF OnWire
<1>11. \A k, l \in 1..Len(sent) : k < l /\ SameQueue(sent[k], sent[l]) /\ sent[l] = writing => OnWire(sent[k])
  <2> SUFFICES ASSUME NEW k \in 1..Len(sent), NEW l \in 1..Len(sent), k < l,
                      SameQueue(sent[k], sent[l]), sent[l] = writing, ~ OnWire(sent[k])
               PROVE  FALSE
    OBVIOUS
  <2>1. sent[k].n = k /\ writing.n = l /\ k \in Nat /\ l \in Nat
    BY DEF OutInv, Faithful
  <2>2. sent[k] # writing /\ Somewhere(sent[k])
    BY <1>1, <2>1 DEF OutInv, Kept
  <2>3. PICK f : f = sent[k]
    OBVIOUS
  <2>4. ~ Ahead(writing, f)
    BY <2>1, <2>3 DEF Ahead, SameQueue
  <2>5. (\E i \in 1..Len(data) : data[i] = f) \/ (\E i \in 1..Len(ctrl) : ctrl[i] = f)
    BY <2>2, <2>3 DEF Somewhere
  <2> QED
    BY <1>1, <1>6, <2>4, <2>5 DEF Waits
<1>12. Kept'
  <2>1. \A k \in 1..Len(sent) : Somewhere(sent[k])
    BY <1>1 DEF OutInv, Kept
  <2>2. \A k \in 1..Len(sent') : Somewhere(sent[k])'
    BY <1>1, <1>10, <2>1 DEF Somewhere, OnWire
  <2>3. \A k, l \in 1..Len(sent) : k < l /\ SameQueue(sent[k], sent[l]) /\ OnWire(sent[l]) => OnWire(sent[k])
    BY DEF OutInv, Kept
  <2>4. \A k, l \in 1..Len(sent') :
          k < l /\ SameQueue(sent'[k], sent'[l]) /\ OnWire(sent[l])' => OnWire(sent[k])'
    <3> SUFFICES ASSUME NEW k \in 1..Len(sent), NEW l \in 1..Len(sent), k < l,
                        SameQueue(sent[k], sent[l]), OnWire(sent[l])'
                 PROVE  OnWire(sent[k])'
      BY <1>1
    <3>1. OnWire(sent[l]) \/ sent[l] = writing
      BY <1>1, <1>10 DEF OnWire
    <3>2. OnWire(sent[k])
      BY <1>11, <2>3, <3>1
    <3> QED
      BY <1>1, <1>10, <3>2 DEF OnWire
  <2>5. \A i \in 1..Len(wire) : wire[i].kind # "close"
    BY <1>1 DEF OutInv, Kept
  <2>6. \A i \in 1..Len(wire') : wire'[i].kind = "close" => i = Len(wire') /\ writer' = "gone"
    BY <1>1, <1>3, <2>5
  <2> QED
    BY <2>2, <2>4, <2>6 DEF Kept
<1>13. Overtaken'
  <2>1. /\ \A i \in 1..Len(wire) : IsControl(wire[i]) => Passed(wire[i], i)
        /\ IsControl(writing) => Passed(writing, Len(wire))
        /\ \A i \in 1..Len(ctrl) :
             /\ Passed(ctrl[i], Len(wire))
             /\ ~ IsControl(writing) => Len(wire) = ctrl[i].at
    BY <1>1 DEF OutInv, Overtaken
  <2>2. /\ writing.at \in Nat
        /\ \A i \in 1..Len(ctrl) : ctrl[i].at \in Nat
    <3>1. \A f \in Frames : f.at \in Nat
      BY DEF Frames
    <3>2. \A i \in 1..Len(ctrl) : ctrl[i] \in Frames
      BY DEF OutInv, TypeOut
    <3> QED
      BY <1>2, <3>1, <3>2
  <2>3. ASSUME NEW i \in 1..Len(wire), IsControl(wire[i]) PROVE Passed(wire[i], i)'
    <3>1. i \in Nat /\ i <= Len(wire) /\ wire'[i] = wire[i] /\ Passed(wire[i], i)
      BY <1>2, <1>3, <2>1, <2>3
    <3>2. \A k \in 1..i : wire'[k] = wire[k]
      BY <1>2, <1>3, <3>1
    <3> QED
      BY <3>1, <3>2 DEF Passed
  <2>4. \A i \in 1..Len(wire') : IsControl(wire'[i]) => Passed(wire[i], i)'
    <3>1. ASSUME NEW i \in 1..Len(wire'), i = Len(wire) + 1, IsControl(wire'[i])
          PROVE  Passed(wire[i], i)'
      <4>1. PICK n \in Nat : n = writing.at
        BY <2>2
      <4>2. n <= Len(wire) /\ \A k \in 1..Len(wire) : k >= n + 2 => IsControl(wire[k])
        BY <1>3, <2>1, <3>1, <4>1 DEF Passed
      <4>3. n <= i /\ \A k \in 1..i : k >= n + 2 => IsControl(wire'[k])
        BY <1>2, <1>3, <3>1, <4>2
      <4> QED
        BY <1>3, <3>1, <4>1, <4>3 DEF Passed
    <3> QED
      BY <1>3, <2>3, <3>1
  <2>5. \A i \in 1..Len(ctrl) : Passed(ctrl[i], Len(wire))'
    <3> SUFFICES ASSUME NEW i \in 1..Len(ctrl) PROVE Passed(ctrl[i], Len(wire))'
      OBVIOUS
    <3>1. PICK n \in Nat : n = ctrl[i].at
      BY <2>2
    <3>2. n <= Len(wire) /\ \A k \in 1..Len(wire) : k >= n + 2 => IsControl(wire[k])
      BY <2>1, <3>1 DEF Passed
    <3>3. IsControl(writing) \/ n = Len(wire)
      BY <2>1, <3>1
    <3>4. n <= Len(wire') /\ \A k \in 1..Len(wire') : k >= n + 2 => IsControl(wire'[k])
      BY <1>2, <1>3, <3>2, <3>3
    <3> QED
      BY <1>1, <3>1, <3>4 DEF Passed
  <2> QED
    BY <1>1, <2>4, <2>5 DEF Overtaken
<1> QED
  BY <1>4, <1>5, <1>9, <1>12, <1>13 DEF OutInv

LEMMA OutNext ==
  ASSUME OutInv, reader = "connect" => writer = "unborn", [Next]_vars
  PROVE  OutInv'
<1>1. CASE UNCHANGED out
  BY <1>1, OutMoves DEF out
<1>2. ASSUME NEW kind \in {"data", "ping", "close"}, NEW by \in Senders, SendRaw(kind, by)
      PROVE  OutInv'
  <2>1. Len(sent) \in Nat /\ Len(wire) \in Nat
    BY DEF OutInv, TypeOut
  <2>2. PICK f : f = [kind |-> kind, n |-> Len(sent) + 1, at |-> Len(wire), by |-> by]
    OBVIOUS
  <2>3. f \in Frames /\ f.at = Len(wire) /\ f.n = Len(sent) + 1 /\ (IsControl(f) <=> kind \in {"ping", "close"})
    BY <2>1, <2>2 DEF Frames, IsControl
  <2>4. /\ sent' = Append(sent, f) /\ UNCHANGED <<writer, writing, wire>> /\ writer # "gone"
        /\ \/ IsControl(f) /\ Len(ctrl) < CtrlCap /\ ctrl' = Append(ctrl, f) /\ data' = data
           \/ ~ IsControl(f) /\ Len(data) < OutCap /\ data' = Append(data, f) /\ ctrl' = ctrl
    BY <1>2, <2>2, <2>3 DEF SendRaw, Accepts
  <2> QED
    BY <2>3, <2>4, OutAccepts
<1>3. CASE Connected
  BY <1>3, OutMoves DEF Connected
<1>4. CASE ReadMessage \/ Reading \/ EndOfStream \/ Offer \/ OfferFails \/ JoinWorker \/ Closed \/ JoinWriter
  BY <1>1, <1>4 DEF ReadMessage, Reading, ReadTerminal, EndOfStream, Offer, OfferFails, JoinWorker, Closed, JoinWriter
<1>5. CASE ReadPing
  BY <1>1, <1>2, <1>5 DEF ReadPing, Senders
<1>6. CASE SendClose
  <2>1. CASE UNCHANGED out
    BY <1>1, <2>1
  <2>2. CASE /\ Accepts(ctrl, CtrlCap)
             /\ ctrl' = Append(ctrl, [kind |-> "close", n |-> 0, at |-> Len(wire), by |-> "run"])
             /\ UNCHANGED <<data, writer, writing, wire, sent>>
    <3>1. PICK f : f = [kind |-> "close", n |-> 0, at |-> Len(wire), by |-> "run"]
      OBVIOUS
    <3>2. Len(wire) \in Nat
      BY DEF OutInv, TypeOut
    <3>3. f \in Frames /\ f.at = Len(wire) /\ f.n = 0 /\ IsControl(f)
      BY <3>1, <3>2 DEF Frames, IsControl, Senders
    <3> QED
      BY <2>2, <3>1, <3>3, OutAccepts DEF Accepts
  <2> QED
    BY <1>6, <2>1, <2>2 DEF SendClose
<1>7. CASE WorkerStep
  BY <1>1, <1>7 DEF WorkerStep, Take, HookReturns, HookPanics, WorkerEnds, WorkerStops, WorkerMoves
<1>8. CASE Select
  BY <1>8, OutSelectCtrl, OutSelectData DEF Select
<1>9. CASE WriteFrame
  BY <1>9, OutWrites
<1>10. CASE WriteFails \/ WriterStops
  BY <1>10, OutMoves DEF WriteFails, WriterStops, WriterLeaves
<1>11. CASE \E by \in {"app", "on_close"}, kind \in {"data", "ping", "close"} : Send(by, kind)
  BY <1>2, <1>11 DEF Send, Senders
<1>12. CASE UNCHANGED vars
  BY <1>1, <1>12 DEF vars
<1> QED
  BY <1>3, <1>4, <1>5, <1>6, <1>7, <1>8, <1>9, <1>10, <1>11, <1>12 DEF Next, Teardown, WriterStep

-----------------------------------------------------------------------------
(* The two directions and the tasks together                                *)

Started ==
  /\ reader = "connect" => writer = "unborn"
  /\ aborted \subseteq {"worker", "writer"}

Inv == InInv /\ OutInv /\ Started

LEMMA InvNext == Inv /\ [Next]_vars => Inv'
<1> SUFFICES ASSUME Inv, [Next]_vars PROVE Inv'
  OBVIOUS
<1>1. InInv /\ OutInv /\ Started /\ Len(sent) \in Nat
  BY DEF Inv, OutInv, TypeOut
<1>2. InInv'
  BY <1>1, InNext
<1>3. OutInv'
  BY <1>1, OutNext DEF Started
<1>4. Started'
  <2>1. CASE UNCHANGED <<reader, writer, aborted>>
    BY <1>1, <2>1 DEF Started
  <2>2. CASE Connected \/ ReadMessage \/ ReadPing \/ Reading \/ EndOfStream
    BY <1>1, <2>1, <2>2
       DEF Connected, ReadMessage, ReadPing, Reading, ReadTerminal, EndOfStream, SendRaw, out, Started
  <2>3. CASE Offer \/ OfferFails
    BY <1>1, <2>3 DEF Offer, OfferFails, out, Started
  <2>4. CASE JoinWorker \/ Closed \/ SendClose \/ JoinWriter
    BY <1>1, <2>4 DEF JoinWorker, Closed, SendClose, JoinWriter, ReaderMoves, out, Started
  <2>5. CASE WorkerStep
    BY <2>1, <2>5 DEF WorkerStep, Take, HookReturns, HookPanics, WorkerEnds, WorkerStops, WorkerMoves, out
  <2>6. CASE WriterStep
    BY <1>1, <2>6 DEF WriterStep, Select, WriteFrame, WriteFails, WriterStops, WriterLeaves, in, Started
  <2>7. CASE \E by \in {"app", "on_close"}, kind \in {"data", "ping", "close"} : Send(by, kind)
    BY <2>1, <2>7 DEF Send, SendRaw, in
  <2>8. CASE UNCHANGED vars
    BY <2>1, <2>8 DEF vars, in, out
  <2> QED
    BY <2>2, <2>3, <2>4, <2>5, <2>6, <2>7, <2>8 DEF Next, Teardown
<1> QED
  BY <1>2, <1>3, <1>4 DEF Inv

(* The bookkeeping of a session is sound in every reachable state: see      *)
(* InInv for the messages that come in, OutInv for the frames that go out.  *)
THEOREM SessionInvariant == Spec => []Inv
<1>1. Init => Inv
  BY InInit, OutInit DEF Init, Inv, Started
<1> QED
  BY <1>1, InvNext, PTL DEF Spec

(* Messages are handled in the order they arrived, each once, and all of    *)
(* them when the worker ends of itself; frames reach the wire as they were  *)
(* accepted, in the order of their queue, with none left out, and nothing   *)
(* follows a close (websocket.rs, the read loop, the worker, writer_loop).  *)
THEOREM InOrderSound == Spec => []InOrder
<1>1. Inv => InOrder
  <2> SUFFICES ASSUME Inv PROVE InOrder
    OBVIOUS
  <2>1. TypeOK
    BY DEF Inv, InInv, TypeIn, OutInv, TypeOut, Started, TypeOK
  <2>2. HandledInOrder
    <3>1. worker = "finished" => Queued = 0 /\ Pending = 0
      BY DEF Inv, InInv, Inbound, Queued, Pending, LeftLoop
    <3>2. Len(handled) \in Nat /\ handled = [i \in 1..Len(handled) |-> i]
      BY DEF Inv, InInv, TypeIn, Inbound
    <3>3. worker = "finished" => messages = Len(handled) + Queued + Pending
      BY DEF Inv, InInv, Inbound
    <3> QED
      BY <3>1, <3>2, <3>3 DEF HandledInOrder
  <2>3. WireOrder
    <3>1. \A i, j \in 1..Len(wire) : i < j /\ SameQueue(wire[i], wire[j]) => wire[i].n < wire[j].n
      BY DEF Inv, OutInv, Ordered, Ahead
    <3>2. \A i \in 1..Len(wire) : wire[i].n # 0 => wire[i].n \in 1..Len(sent) /\ wire[i] = sent[wire[i].n]
      BY DEF Inv, OutInv, Faithful, Copy
    <3>3. \A f : f \in ToSet(wire) <=> OnWire(f)
      BY DEF ToSet, OnWire
    <3>4. \A k, l \in 1..Len(sent) :
            k < l /\ SameQueue(sent[k], sent[l]) /\ sent[l] \in ToSet(wire) => sent[k] \in ToSet(wire)
      BY <3>3 DEF Inv, OutInv, Kept
    <3>5. \A f : Somewhere(f) => f \in ToSet(wire) \cup {writing} \cup ToSet(data) \cup ToSet(ctrl)
      BY <3>3 DEF Somewhere, ToSet
    <3>6. writer # "gone" => ToSet(sent) \subseteq ToSet(wire) \cup {writing} \cup ToSet(data) \cup ToSet(ctrl)
      <4>1. writer # "gone" => \A f \in ToSet(sent) : Somewhere(f)
        BY DEF Inv, OutInv, Kept, ToSet
      <4> QED
        BY <3>5, <4>1
    <3>7. \A i \in 1..Len(wire) : wire[i].kind = "close" => i = Len(wire)
      BY DEF Inv, OutInv, Kept
    <3> QED
      BY <3>1, <3>2, <3>4, <3>6, <3>7 DEF WireOrder
  <2> QED
    BY <2>1, <2>2, <2>3 DEF InOrder
<1> QED
  BY <1>1, SessionInvariant, PTL

(* A control frame waits for one data frame at most, the one that was being *)
(* written when it was accepted (the biased select! of writer_loop).        *)
THEOREM ControlSound == Spec => []ControlNotStuck
<1>1. ASSUME NEW f \in Frames, NEW end \in Nat, Passed(f, end)
      PROVE  Cardinality({i \in (f.at + 1)..end : ~ IsControl(wire[i])}) <= 1
  <2>1. PICK n \in Nat : n = f.at
    BY DEF Frames
  <2>2. PICK late : late = {i \in (n + 1)..end : ~ IsControl(wire[i])}
    OBVIOUS
  <2>3. late \subseteq {n + 1}
    <3> SUFFICES ASSUME NEW i \in late PROVE i = n + 1
      OBVIOUS
    <3>1. i \in (n + 1)..end /\ ~ IsControl(wire[i])
      BY <2>2
    <3>2. ~ (i >= n + 2)
      BY <1>1, <2>1, <3>1 DEF Passed
    <3> QED
      BY <3>1, <3>2
  <2>4. IsFiniteSet({n + 1}) /\ Cardinality({n + 1}) = 1
    BY FS_Singleton
  <2>5. Cardinality(late) <= Cardinality({n + 1})
    BY <2>3, <2>4, FS_Subset
  <2> QED
    BY <2>1, <2>2, <2>4, <2>5
<1>2. Inv => ControlNotStuck
  <2> SUFFICES ASSUME Inv PROVE ControlNotStuck
    OBVIOUS
  <2>1. /\ Len(wire) \in Nat
        /\ \A i \in 1..Len(wire) : wire[i] \in Frames /\ i \in Nat
        /\ \A i \in 1..Len(ctrl) : ctrl[i] \in Frames
    BY DEF Inv, OutInv, TypeOut
  <2>2. /\ \A i \in 1..Len(wire) : IsControl(wire[i]) => Passed(wire[i], i)
        /\ \A i \in 1..Len(ctrl) : Passed(ctrl[i], Len(wire))
    BY DEF Inv, OutInv, Overtaken
  <2> QED
    BY <1>1, <2>1, <2>2 DEF ControlNotStuck
<1> QED
  BY <1>2, SessionInvariant, PTL
-----------------------------------------------------------------------------
(***************************************************************************)
(* What messages mean (HttpMessages)                                       *)
(***************************************************************************)
(* What holds of 0 and of the next of each number holds up to n.            *)
LEMMA CountingUp ==
  ASSUME NEW n \in Nat, NEW P, 0 \in P, \A i \in 0..(n - 1) : i \in P => i + 1 \in P
  PROVE  \A i \in 0..n : i \in P
<1> DEFINE Wrong == {i \in 0..n : i \notin P}
<1>1. CASE Wrong = {} BY <1>1
<1>2. CASE Wrong # {}
  <2>1. Wrong \in SUBSET Nat OBVIOUS
  <2>2. PICK i \in Wrong : \A j \in Wrong : ~ (<<j, i>> \in OpToRel(<, Nat))
    BY <1>2, <2>1, WFMin, NatLessThanWellFounded
  <2>3. i \in 0..n /\ i \notin P OBVIOUS
  <2>4. i # 0 BY <2>3
  <2>5. i - 1 \in 0..(n - 1) /\ i - 1 \in 0..n /\ i - 1 < i /\ (i - 1) + 1 = i BY <2>3, <2>4
  <2>6. i - 1 \notin Wrong BY <2>1, <2>2, <2>5 DEF OpToRel
  <2>7. i - 1 \in P BY <2>5, <2>6
  <2> QED BY <2>3, <2>5, <2>7
<1> QED BY <1>1, <1>2

(* A step F that is taken for each of the first k members of a sequence.    *)
IsRun(h, D, base, text, F, k) ==
  /\ h \in [0..k -> D] /\ h[0] = base
  /\ \A i \in 1..k : h[i] = F[<<h[i - 1], text[i]>>]

LEMMA RunsExist ==
  ASSUME NEW D, NEW base \in D, NEW C, NEW text \in Seq(C), NEW F \in [D \X C -> D]
  PROVE  \E h : IsRun(h, D, base, text, F, Len(text))
<1> DEFINE n == Len(text)
           P == {k \in 0..n : \E h : IsRun(h, D, base, text, F, k)}
<1>1. n \in Nat /\ \A i \in 1..n : text[i] \in C OBVIOUS
<1> HIDE DEF n
<1>2. 0 \in P
  <2> DEFINE first == [i \in 0..0 |-> base]
  <2>1. first \in [0..0 -> D] /\ first[0] = base OBVIOUS
  <2> HIDE DEF first
  <2>2. IsRun(first, D, base, text, F, 0) BY <2>1 DEF IsRun
  <2> QED BY <1>1, <2>2
<1>3. ASSUME NEW k \in 0..(n - 1), k \in P PROVE k + 1 \in P
  <2>1. PICK h : IsRun(h, D, base, text, F, k) BY <1>3
  <2>2. h \in [0..k -> D] /\ h[0] = base /\ \A i \in 1..k : h[i] = F[<<h[i - 1], text[i]>>] BY <2>1 DEF IsRun
  <2>3. k \in Nat /\ k + 1 \in 1..n /\ h[k] \in D /\ text[k + 1] \in C BY <1>1, <2>2
  <2> DEFINE g == [i \in 0..(k + 1) |-> IF i = k + 1 THEN F[<<h[k], text[k + 1]>>] ELSE h[i]]
  <2>4. F[<<h[k], text[k + 1]>>] \in D BY <2>3
  <2>5. \A i \in 0..k : g[i] = h[i] BY <2>3
  <2>6. g[k + 1] = F[<<h[k], text[k + 1]>>] BY <2>3
  <2>7. g \in [0..(k + 1) -> D] BY <2>2, <2>3, <2>4
  <2> HIDE DEF g
  <2>8. ASSUME NEW i \in 1..(k + 1) PROVE g[i] = F[<<g[i - 1], text[i]>>]
    <3>1. CASE i = k + 1 BY <2>3, <2>5, <2>6, <3>1
    <3>2. CASE i # k + 1
      <4>1. i \in 1..k /\ i \in 0..k /\ i - 1 \in 0..k BY <2>3, <3>2
      <4> QED BY <2>2, <2>5, <4>1
    <3> QED BY <3>1, <3>2
  <2>9. g[0] = base BY <2>2, <2>3, <2>5
  <2>10. IsRun(g, D, base, text, F, k + 1) BY <2>7, <2>8, <2>9 DEF IsRun
  <2>11. k + 1 \in 0..n BY <1>1
  <2> QED BY <2>10, <2>11
<1> HIDE DEF P
<1>4. \A i \in 0..n : i \in P BY <1>1, <1>2, <1>3, CountingUp
<1>5. n \in 0..n BY <1>1
<1>6. n \in P BY <1>4, <1>5
<1> QED BY <1>6 DEF P, n

(* Texts, cut by a separator.                                               *)
CutRun(h, text, sep) == h = [i \in 0..Len(text) |-> IF i = 0 THEN << << >> >> ELSE Parted(h[i - 1], text[i], sep)]
Pieces(C) == Seq(Seq(C)) \ {<< >>}

LEMMA PartedPieces ==
  ASSUME NEW C, NEW sep, NEW done \in Pieces(C \ {sep}), NEW c \in C
  PROVE  Parted(done, c, sep) \in Pieces(C \ {sep})
<1>1. done \in Seq(Seq(C \ {sep})) /\ done # << >> BY DEF Pieces
<1>2. Len(done) \in Nat \ {0} /\ Len(done) \in DOMAIN done /\ done[Len(done)] \in Seq(C \ {sep}) BY <1>1
<1>3. CASE c = sep
  <2>1. << >> \in Seq(C \ {sep}) OBVIOUS
  <2>2. Parted(done, c, sep) = Append(done, << >>) BY <1>3 DEF Parted
  <2>3. Append(done, << >>) \in Seq(Seq(C \ {sep})) /\ Append(done, << >>) # << >> BY <1>1, <2>1
  <2> QED BY <2>2, <2>3 DEF Pieces
<1>4. CASE c # sep
  <2> DEFINE last == Append(done[Len(done)], c)
  <2>1. last \in Seq(C \ {sep}) BY <1>2, <1>4
  <2>2. Parted(done, c, sep) = [done EXCEPT ![Len(done)] = last] BY <1>4 DEF Parted
  <2> HIDE DEF last
  <2>3. [done EXCEPT ![Len(done)] = last] \in Seq(Seq(C \ {sep})) /\ Len([done EXCEPT ![Len(done)] = last]) = Len(done)
    BY <1>1, <1>2, <2>1
  <2>4. [done EXCEPT ![Len(done)] = last] # << >> BY <1>2, <2>3
  <2> QED BY <2>2, <2>3, <2>4 DEF Pieces
<1> QED BY <1>3, <1>4

LEMMA CutRuns ==
  ASSUME NEW C, NEW text \in Seq(C), NEW sep
  PROVE  \E h : CutRun(h, text, sep) /\ \A i \in 0..Len(text) : h[i] \in Pieces(C \ {sep})
<1> DEFINE D == Pieces(C \ {sep})
           F == [x \in D \X C |-> Parted(x[1], x[2], sep)]
<1>1. F \in [D \X C -> D]
  <2>1. ASSUME NEW x \in D \X C PROVE Parted(x[1], x[2], sep) \in D
    <3>1. x[1] \in D /\ x[2] \in C OBVIOUS
    <3> HIDE DEF D
    <3> QED BY <3>1, PartedPieces DEF D
  <2> HIDE DEF D
  <2> QED BY <2>1
<1>2. << << >> >> \in D
  <2>1. << >> \in Seq(C \ {sep}) OBVIOUS
  <2>2. << << >> >> \in Seq(Seq(C \ {sep})) /\ << << >> >> # << >> BY <2>1
  <2> QED BY <2>2 DEF Pieces
<1>3. \A d \in D : \A c \in C : F[<<d, c>>] = Parted(d, c, sep) OBVIOUS
<1> HIDE DEF D, F
<1>9. PICK h : IsRun(h, D, << << >> >>, text, F, Len(text)) BY <1>1, <1>2, RunsExist
<1>4. h \in [0..Len(text) -> D] /\ h[0] = << << >> >> /\ \A i \in 1..Len(text) : h[i] = F[<<h[i - 1], text[i]>>]
  BY <1>9 DEF IsRun
<1>5. Len(text) \in Nat /\ \A i \in 1..Len(text) : text[i] \in C OBVIOUS
<1>6. ASSUME NEW i \in 0..Len(text) PROVE h[i] = IF i = 0 THEN << << >> >> ELSE Parted(h[i - 1], text[i], sep)
  <2>1. CASE i = 0 BY <1>4, <2>1
  <2>2. CASE i # 0
    <3>1. i \in 1..Len(text) /\ i - 1 \in 0..Len(text) BY <1>5, <2>2
    <3>2. h[i - 1] \in D /\ text[i] \in C BY <1>4, <1>5, <3>1
    <3> QED BY <1>3, <1>4, <2>2, <3>1, <3>2
  <2> QED BY <2>1, <2>2
<1>7. h = [i \in 0..Len(text) |-> h[i]] BY <1>4
<1>8. CutRun(h, text, sep) BY <1>6, <1>7 DEF CutRun
<1> QED BY <1>4, <1>8 DEF D

(* There is but one run.                                                    *)
CutsOn(h, text, sep, n) == h[0] = << << >> >> /\ \A i \in 1..n : h[i] = Parted(h[i - 1], text[i], sep)
LEMMA OneCutRun ==
  ASSUME NEW n \in Nat, NEW text, NEW sep, NEW g, NEW h, CutsOn(g, text, sep, n), CutsOn(h, text, sep, n)
  PROVE  g[n] = h[n]
<1> DEFINE P == {i \in 0..n : g[i] = h[i]}
<1>1. 0 \in P BY DEF CutsOn
<1>2. ASSUME NEW i \in 0..(n - 1), i \in P PROVE i + 1 \in P
  <2>1. i + 1 \in 1..n /\ i + 1 \in 0..n /\ (i + 1) - 1 = i OBVIOUS
  <2>2. g[i + 1] = Parted(g[i], text[i + 1], sep) /\ h[i + 1] = Parted(h[i], text[i + 1], sep) BY <2>1 DEF CutsOn
  <2> QED BY <1>2, <2>1, <2>2
<1>3. n \in 0..n OBVIOUS
<1> HIDE DEF P
<1>4. n \in P BY <1>1, <1>2, <1>3, CountingUp
<1> QED BY <1>4 DEF P

LEMMA CutSteps ==
  ASSUME NEW text, NEW n \in Nat, n = Len(text), NEW sep, NEW h, CutRun(h, text, sep)
  PROVE  CutsOn(h, text, sep, n)
BY DEF CutRun, CutsOn

LEMMA CutIsRun ==
  ASSUME NEW C, NEW text \in Seq(C), NEW sep, NEW h, CutRun(h, text, sep)
  PROVE  Split(text, sep) = h[Len(text)]
<1> DEFINE g == CHOOSE g : CutRun(g, text, sep)
           n == Len(text)
<1>1. Split(text, sep) = g[n] BY DEF Split, CutRun
<1>2. CutRun(g, text, sep) OBVIOUS
<1>3. n \in Nat /\ n = Len(text) OBVIOUS
<1> HIDE DEF g, n
<1>4. CutsOn(g, text, sep, n) BY <1>2, <1>3, CutSteps
<1>5. CutsOn(h, text, sep, n) BY <1>3, CutSteps
<1>6. g[n] = h[n] BY <1>3, <1>4, <1>5, OneCutRun
<1> QED BY <1>1, <1>3, <1>6

(* Nothing is cut into one empty piece.                                     *)
LEMMA CutNothing == ASSUME NEW sep PROVE Split(<< >>, sep) = << << >> >>
<1>1. PICK h : CutRun(h, << >>, sep)
  <2>1. << >> \in Seq({}) OBVIOUS
  <2> QED BY <2>1, CutRuns
<1>2. << >> \in Seq({}) /\ Len(<< >>) = 0 OBVIOUS
<1>3. Split(<< >>, sep) = h[0] BY <1>1, <1>2, CutIsRun
<1> QED BY <1>1, <1>2, <1>3 DEF CutRun

(* The pieces have members of the text, and no separator.                   *)
LEMMA CutTyped ==
  ASSUME NEW C, NEW text \in Seq(C), NEW sep
  PROVE  Split(text, sep) \in Pieces(C \ {sep})
<1>1. PICK h : CutRun(h, text, sep) /\ \A i \in 0..Len(text) : h[i] \in Pieces(C \ {sep}) BY CutRuns
<1>2. Split(text, sep) = h[Len(text)] BY <1>1, CutIsRun
<1>3. Len(text) \in 0..Len(text) OBVIOUS
<1> QED BY <1>1, <1>2, <1>3

(* One member more.                                                         *)
LEMMA CutMore ==
  ASSUME NEW C, NEW text \in Seq(C), NEW c \in C, NEW sep
  PROVE  Split(Append(text, c), sep) = Parted(Split(text, sep), c, sep)
<1> DEFINE more == Append(text, c)
           n == Len(text)
<1>1. more \in Seq(C) /\ Len(more) = n + 1 /\ n \in Nat /\ more[n + 1] = c /\ \A i \in 1..n : more[i] = text[i]
  OBVIOUS
<1> HIDE DEF more, n
<1>2. PICK h : CutRun(h, more, sep) BY <1>1, CutRuns
<1>3. Split(more, sep) = h[n + 1] BY <1>1, <1>2, CutIsRun
<1>4. h[0] = << << >> >> /\ \A i \in 1..(n + 1) : h[i] = Parted(h[i - 1], more[i], sep)
  <2>1. \A i \in 0..(n + 1) : h[i] = IF i = 0 THEN << << >> >> ELSE Parted(h[i - 1], more[i], sep) BY <1>1, <1>2 DEF CutRun
  <2>2. 0 \in 0..(n + 1) /\ \A i \in 1..(n + 1) : i \in 0..(n + 1) /\ i # 0 BY <1>1
  <2> QED BY <2>1, <2>2
<1> DEFINE g == [i \in 0..n |-> h[i]]
<1>5. CutRun(g, text, sep)
  <2>1. ASSUME NEW i \in 0..n PROVE h[i] = IF i = 0 THEN << << >> >> ELSE Parted(g[i - 1], text[i], sep)
    <3>1. CASE i = 0 BY <1>4, <3>1
    <3>2. CASE i # 0
      <4>1. i \in 1..n /\ i \in 1..(n + 1) /\ i - 1 \in 0..n BY <1>1, <3>2
      <4>2. g[i - 1] = h[i - 1] BY <4>1
      <4>3. more[i] = text[i] BY <1>1, <4>1
      <4> QED BY <1>4, <3>2, <4>1, <4>2, <4>3
    <3> QED BY <3>1, <3>2
  <2> QED BY <2>1 DEF CutRun, n
<1>6. Split(text, sep) = g[n] BY <1>5, CutIsRun DEF n
<1>7. g[n] = h[n] BY <1>1
<1>8. h[n + 1] = Parted(h[n], more[n + 1], sep)
  <2>1. n + 1 \in 1..(n + 1) /\ (n + 1) - 1 = n BY <1>1
  <2> QED BY <1>4, <2>1
<1> QED BY <1>1, <1>3, <1>6, <1>7, <1>8 DEF more

(* A text that goes on without a separator goes on with its last piece.     *)
LEMMA LastChanged ==
  ASSUME NEW T, NEW s \in Seq(T), NEW x \in T, NEW y \in T
  PROVE  [Append(s, x) EXCEPT ![Len(Append(s, x))] = y] = Append(s, y)
<1> DEFINE d == Append(s, x)
           e == [d EXCEPT ![Len(d)] = y]
           f == Append(s, y)
           m == Len(s)
<1>1. m \in Nat /\ d \in Seq(T) /\ Len(d) = m + 1 /\ \A i \in 1..m : d[i] = s[i] OBVIOUS
<1>2. f \in Seq(T) /\ Len(f) = m + 1 /\ f[m + 1] = y /\ \A i \in 1..m : f[i] = s[i] OBVIOUS
<1> HIDE DEF d, f, m
<1>3. DOMAIN d = 1..(m + 1) BY <1>1
<1>4. e = [i \in 1..(m + 1) |-> IF i = m + 1 THEN y ELSE d[i]] BY <1>1, <1>3
<1>5. f = [i \in 1..(m + 1) |-> f[i]] BY <1>2
<1>6. \A i \in 1..(m + 1) : f[i] = IF i = m + 1 THEN y ELSE d[i] BY <1>1, <1>2
<1> QED BY <1>4, <1>5, <1>6 DEF d, f, m

CutInto(text, sep, done, last) == Split(text, sep) = Append(done, last)
LEMMA CutOn ==
  ASSUME NEW C, NEW text \in Seq(C), NEW sep, NEW done \in Seq(Seq(C)), CutInto(text, sep, done, << >>),
         NEW word \in Seq(C \ {sep})
  PROVE  CutInto(text \o word, sep, done, word)
<1> DEFINE Part(k) == SubSeq(word, 1, k)
           P == {k \in 0..Len(word) : CutInto(text \o Part(k), sep, done, Part(k))}
           n == Len(word)
<1>1. n \in Nat /\ word \in Seq(C) /\ \A i \in 1..n : word[i] \in C /\ word[i] # sep OBVIOUS
<1>2. Part(0) = << >> /\ Part(n) = word BY <1>1
<1>3. \A k \in 0..n : Part(k) \in Seq(C) BY <1>1
<1>4. \A k \in 0..(n - 1) : Part(k + 1) = Append(Part(k), word[k + 1]) BY <1>1
<1>5. 0 \in P
  <2>1. text \o << >> = text OBVIOUS
  <2>2. Part(0) = << >> BY <1>2
  <2>3. 0 \in 0..Len(word) BY <1>1
  <2> HIDE DEF Part
  <2>4. text \o Part(0) = text BY <2>1, <2>2
  <2>5. CutInto(text \o Part(0), sep, done, Part(0)) BY <2>2, <2>4
  <2> QED BY <2>3, <2>5
<1>6. ASSUME NEW k \in 0..(n - 1), k \in P PROVE k + 1 \in P
  <2> DEFINE u == Part(k)
             c == word[k + 1]
             v == text \o u
  <2>1. u \in Seq(C) /\ c \in C /\ c # sep /\ k + 1 \in 0..n
    <3>1. k \in 0..n /\ k + 1 \in 1..n BY <1>1
    <3> HIDE DEF Part
    <3> QED BY <1>1, <1>3, <3>1
  <2>2. Part(k + 1) = Append(u, c) BY <1>4
  <2>3. Split(v, sep) = Append(done, u) BY <1>6 DEF CutInto
  <2> HIDE DEF Part, u, c
  <2>4. v \in Seq(C) BY <2>1
  <2>5. text \o Append(u, c) = Append(v, c) BY <2>1
  <2> HIDE DEF v
  <2>6. Split(Append(v, c), sep) = Parted(Append(done, u), c, sep) BY <2>1, <2>3, <2>4, CutMore
  <2>7. Parted(Append(done, u), c, sep) = Append(done, Append(u, c))
    <3> DEFINE d == Append(done, u)
               w == Append(u, c)
    <3>1. d \in Seq(Seq(C)) /\ Len(d) = Len(done) + 1 /\ d[Len(d)] = u BY <2>1
    <3>2. Parted(d, c, sep) = [d EXCEPT ![Len(d)] = w] BY <2>1, <3>1 DEF Parted
    <3>3. w \in Seq(C) BY <2>1
    <3> HIDE DEF w
    <3> HIDE DEF d
    <3>4. [d EXCEPT ![Len(d)] = w] = Append(done, w) BY <2>1, <3>3, LastChanged DEF d
    <3> QED BY <3>2, <3>4 DEF d, w
  <2>8. CutInto(text \o Part(k + 1), sep, done, Part(k + 1)) BY <2>2, <2>5, <2>6, <2>7 DEF CutInto
  <2> QED BY <2>1, <2>8
<1>7. n \in 0..n BY <1>1
<1> HIDE DEF P, Part, n
<1>8. n \in P BY <1>1, <1>5, <1>6, <1>7, CountingUp
<1> QED BY <1>2, <1>8 DEF P

LEMMA CutWord ==
  ASSUME NEW C, NEW text \in Seq(C), NEW sep \in C, NEW word \in Seq(C \ {sep})
  PROVE  Split(Append(text, sep) \o word, sep) = Append(Split(text, sep), word)
<1>1. Append(text, sep) \in Seq(C) OBVIOUS
<1>2. Split(Append(text, sep), sep) = Append(Split(text, sep), << >>) BY CutMore DEF Parted
<1>3. Split(text, sep) \in Seq(Seq(C))
  <2>1. Split(text, sep) \in Seq(Seq(C \ {sep})) BY CutTyped DEF Pieces
  <2>2. Seq(C \ {sep}) \subseteq Seq(C) OBVIOUS
  <2> QED BY <2>1, <2>2, SeqMonotonic
<1>4. CutInto(Append(text, sep), sep, Split(text, sep), << >>) BY <1>2 DEF CutInto
<1>5. CutInto(Append(text, sep) \o word, sep, Split(text, sep), word) BY <1>1, <1>3, <1>4, CutOn
<1> QED BY <1>5 DEF CutInto

(* A text without a separator is one piece.                                 *)
LEMMA CutWhole ==
  ASSUME NEW C, NEW sep, NEW word \in Seq(C \ {sep})
  PROVE  Split(word, sep) = <<word>>
<1> DEFINE nothing == << >>
<1>1. nothing \in Seq(C) /\ nothing \in Seq(Seq(C)) /\ Append(nothing, << >>) = << << >> >> OBVIOUS
<1>2. CutInto(nothing, sep, nothing, << >>) BY <1>1, CutNothing DEF CutInto
<1>3. nothing \o word = word /\ Append(nothing, word) = <<word>> OBVIOUS
<1> HIDE DEF nothing
<1>4. CutInto(nothing \o word, sep, nothing, word) BY <1>1, <1>2, CutOn
<1> QED BY <1>3, <1>4 DEF CutInto
-----------------------------------------------------------------------------
(* HttpMessages: no path leaves the root.                                   *)

(* What is kept of a path are names: neither empty nor dots.                *)
PathNames(C) == {s \in Seq(C \ {"/"}) : s # << >> /\ s # <<".">> /\ s # <<".", ".">>}
WalkRun(h, segments) == h = [i \in 0..Len(segments) |-> IF i = 0 THEN << >> ELSE Walked(h[i - 1], segments[i])]
WalksOn(h, segments, n) == h[0] = << >> /\ \A i \in 1..n : h[i] = Walked(h[i - 1], segments[i])

LEMMA WalkedNames ==
  ASSUME NEW C, NEW stack \in Seq(PathNames(C)), NEW s \in Seq(C \ {"/"})
  PROVE  Walked(stack, s) \in Seq(PathNames(C))
<1>1. CASE s \in {<< >>, <<".">>} BY <1>1 DEF Walked
<1>2. CASE s = <<".", ".">>
  <2>1. Walked(stack, s) = SubSeq(stack, 1, Len(stack) - 1)
    <3>1. s # << >> /\ s # <<".">> BY <1>2
    <3> QED BY <1>2, <3>1 DEF Walked
  <2>2. SubSeq(stack, 1, Len(stack) - 1) \in Seq(PathNames(C))
    <3>1. Len(stack) \in Nat OBVIOUS
    <3>2. \A i \in 1..(Len(stack) - 1) : stack[i] \in PathNames(C) BY <3>1
    <3> QED BY <3>1, <3>2, SubSeqProperties
  <2> QED BY <2>1, <2>2
<1>3. CASE s \notin {<< >>, <<".">>, <<".", ".">>}
  <2>1. s \in PathNames(C) BY <1>3 DEF PathNames
  <2>2. Walked(stack, s) = Append(stack, s) BY <1>3 DEF Walked
  <2> QED BY <2>1, <2>2
<1> QED BY <1>1, <1>2, <1>3

LEMMA WalkRuns ==
  ASSUME NEW C, NEW segments \in Seq(Seq(C \ {"/"}))
  PROVE  \E h : WalkRun(h, segments) /\ \A i \in 0..Len(segments) : h[i] \in Seq(PathNames(C))
<1> DEFINE D == Seq(PathNames(C))
           S == Seq(C \ {"/"})
           F == [x \in D \X S |-> Walked(x[1], x[2])]
<1>0. segments \in Seq(S) OBVIOUS
<1>1. F \in [D \X S -> D]
  <2>1. ASSUME NEW x \in D \X S PROVE Walked(x[1], x[2]) \in D
    <3>1. x[1] \in D /\ x[2] \in S OBVIOUS
    <3> QED BY <3>1, WalkedNames
  <2> HIDE DEF D, S
  <2> QED BY <2>1
<1>2. << >> \in D OBVIOUS
<1>3. \A d \in D : \A s \in S : F[<<d, s>>] = Walked(d, s) OBVIOUS
<1> HIDE DEF D, F, S
<1>9. PICK h : IsRun(h, D, << >>, segments, F, Len(segments)) BY <1>0, <1>1, <1>2, RunsExist
<1>4. h \in [0..Len(segments) -> D] /\ h[0] = << >> /\ \A i \in 1..Len(segments) : h[i] = F[<<h[i - 1], segments[i]>>]
  BY <1>9 DEF IsRun
<1>5. Len(segments) \in Nat /\ \A i \in 1..Len(segments) : segments[i] \in S BY <1>0
<1>6. ASSUME NEW i \in 0..Len(segments) PROVE h[i] = IF i = 0 THEN << >> ELSE Walked(h[i - 1], segments[i])
  <2>1. CASE i = 0 BY <1>4, <2>1
  <2>2. CASE i # 0
    <3>1. i \in 1..Len(segments) /\ i - 1 \in 0..Len(segments) BY <1>5, <2>2
    <3>2. h[i - 1] \in D /\ segments[i] \in S BY <1>4, <1>5, <3>1
    <3> QED BY <1>3, <1>4, <2>2, <3>1, <3>2
  <2> QED BY <2>1, <2>2
<1>7. h = [i \in 0..Len(segments) |-> h[i]] BY <1>4
<1>8. WalkRun(h, segments) BY <1>6, <1>7 DEF WalkRun
<1> QED BY <1>4, <1>8 DEF D

LEMMA OneWalkRun ==
  ASSUME NEW n \in Nat, NEW segments, NEW g, NEW h, WalksOn(g, segments, n), WalksOn(h, segments, n)
  PROVE  g[n] = h[n]
<1> DEFINE P == {i \in 0..n : g[i] = h[i]}
<1>1. 0 \in P BY DEF WalksOn
<1>2. ASSUME NEW i \in 0..(n - 1), i \in P PROVE i + 1 \in P
  <2>1. i + 1 \in 1..n /\ i + 1 \in 0..n /\ (i + 1) - 1 = i OBVIOUS
  <2>2. g[i + 1] = Walked(g[i], segments[i + 1]) /\ h[i + 1] = Walked(h[i], segments[i + 1]) BY <2>1 DEF WalksOn
  <2> QED BY <1>2, <2>1, <2>2
<1>3. n \in 0..n OBVIOUS
<1> HIDE DEF P
<1>4. n \in P BY <1>1, <1>2, <1>3, CountingUp
<1> QED BY <1>4 DEF P

LEMMA WalkSteps ==
  ASSUME NEW segments, NEW n \in Nat, n = Len(segments), NEW h, WalkRun(h, segments)
  PROVE  WalksOn(h, segments, n)
BY DEF WalkRun, WalksOn

LEMMA WalkIsRun ==
  ASSUME NEW T, NEW segments \in Seq(T), NEW h, WalkRun(h, segments)
  PROVE  Remaining(segments) = h[Len(segments)]
<1> DEFINE g == CHOOSE g : WalkRun(g, segments)
           n == Len(segments)
<1>1. Remaining(segments) = g[n] BY DEF Remaining, WalkRun
<1>2. WalkRun(g, segments) OBVIOUS
<1>3. n \in Nat /\ n = Len(segments) OBVIOUS
<1> HIDE DEF g, n
<1>4. WalksOn(g, segments, n) BY <1>2, <1>3, WalkSteps
<1>5. WalksOn(h, segments, n) BY <1>3, WalkSteps
<1>6. g[n] = h[n] BY <1>3, <1>4, <1>5, OneWalkRun
<1> QED BY <1>1, <1>3, <1>6

(* What is kept are names, ...                                              *)
LEMMA KeptNames ==
  ASSUME NEW C, NEW segments \in Seq(Seq(C \ {"/"}))
  PROVE  Remaining(segments) \in Seq(PathNames(C))
<1>1. PICK h : WalkRun(h, segments) /\ \A i \in 0..Len(segments) : h[i] \in Seq(PathNames(C)) BY WalkRuns
<1>2. Remaining(segments) = h[Len(segments)] BY <1>1, WalkIsRun
<1>3. Len(segments) \in 0..Len(segments) OBVIOUS
<1> QED BY <1>1, <1>2, <1>3

(* ... and names are all kept.                                              *)
LEMMA NamesKept ==
  ASSUME NEW C, NEW names \in Seq(PathNames(C))
  PROVE  Remaining(<< << >> >> \o names) = names
<1> DEFINE n == Len(names)
           segments == << << >> >> \o names
           Part(k) == SubSeq(names, 1, k)
<1>1. n \in Nat /\ \A i \in 1..n : names[i] \in PathNames(C) OBVIOUS
<1>2. segments \in Seq(Seq(C \ {"/"})) /\ Len(segments) = n + 1 /\ segments[1] = << >> /\ \A i \in 1..n : segments[i + 1] = names[i]
  <2> DEFINE one == << << >> >>
             T == Seq(C \ {"/"})
  <2>1. << >> \in T OBVIOUS
  <2>2. one \in Seq(T) /\ Len(one) = 1 /\ one[1] = << >> BY <2>1
  <2>3. names \in Seq(T)
    <3>1. PathNames(C) \subseteq T BY DEF PathNames
    <3> QED BY <3>1, SeqMonotonic
  <2> HIDE DEF one, T
  <2>4. one \o names \in Seq(T) /\ Len(one \o names) = 1 + n
        /\ \A i \in 1..(1 + n) : (one \o names)[i] = IF i <= 1 THEN one[i] ELSE names[i - 1]
    <3>1. one \in Seq(T) /\ names \in Seq(T) BY <2>2, <2>3
    <3>2. one \o names \in Seq(T) /\ Len(one \o names) = Len(one) + Len(names)
          /\ \A i \in 1..(Len(one) + Len(names)) : (one \o names)[i] = IF i <= Len(one) THEN one[i] ELSE names[i - Len(one)]
      BY <3>1, ConcatProperties
    <3> QED BY <2>2, <3>2
  <2>5. \A i \in 1..n : i + 1 \in 1..(1 + n) /\ ~ (i + 1 <= 1) /\ (i + 1) - 1 = i BY <1>1
  <2>6. \A i \in 1..n : (one \o names)[i + 1] = names[i] BY <2>4, <2>5
  <2>7. 1 \in 1..(1 + n) BY <1>1
  <2> QED BY <1>1, <2>2, <2>4, <2>6, <2>7 DEF one, T
<1>3. PICK h : WalkRun(h, segments) BY <1>2, WalkRuns
<1>4. Remaining(segments) = h[n + 1] BY <1>2, <1>3, WalkIsRun
<1> HIDE DEF segments
<1>12. n + 1 \in Nat /\ n + 1 = Len(segments) BY <1>1, <1>2
<1>5. WalksOn(h, segments, n + 1) BY <1>3, <1>12, WalkSteps
<1>6. Part(0) = << >> /\ Part(n) = names BY <1>1
<1>7. \A k \in 0..(n - 1) : Part(k + 1) = Append(Part(k), names[k + 1]) BY <1>1
<1> DEFINE P == {k \in 0..n : h[k + 1] = Part(k)}
<1> HIDE DEF n, Part
<1>8. 0 \in P
  <2>1. h[1] = Walked(h[0], segments[1]) /\ h[0] = << >>
    <3>1. 1 \in 1..(n + 1) /\ 1 - 1 = 0 BY <1>1
    <3> QED BY <1>5, <3>1 DEF WalksOn
  <2>2. h[1] = << >> BY <1>2, <2>1 DEF Walked
  <2> QED BY <1>1, <1>6, <2>2
<1>9. ASSUME NEW k \in 0..(n - 1), k \in P PROVE k + 1 \in P
  <2>1. k + 1 \in 1..n /\ k + 1 \in 0..n /\ k + 2 \in 1..(n + 1) /\ (k + 2) - 1 = k + 1 /\ (k + 1) + 1 = k + 2 BY <1>1
  <2>2. h[k + 2] = Walked(h[k + 1], segments[k + 2]) BY <1>5, <2>1 DEF WalksOn
  <2>3. segments[k + 2] = names[k + 1] /\ names[k + 1] \in PathNames(C) BY <1>1, <1>2, <2>1
  <2>4. Walked(h[k + 1], names[k + 1]) = Append(h[k + 1], names[k + 1]) BY <2>3 DEF Walked, PathNames
  <2>5. h[k + 1] = Part(k) BY <1>9
  <2>6. h[(k + 1) + 1] = Part(k + 1) BY <1>7, <2>1, <2>2, <2>3, <2>4, <2>5
  <2> QED BY <2>1, <2>6
<1> HIDE DEF P
<1>10. n \in 0..n BY <1>1
<1>11. n \in P BY <1>1, <1>8, <1>9, <1>10, CountingUp
<1> QED BY <1>4, <1>6, <1>11 DEF P, segments

(* A clean path r and the names in it: nowhere two slashes, none at the end.*)
CleanPath(C, r, names) ==
  /\ r \in Seq(C \cup {"/"}) /\ Split(r, "/") = << << >> >> \o names
  /\ \A j \in 1..(Len(r) - 1) : ~ (r[j] = "/" /\ r[j + 1] = "/")
  /\ r # << >> => r[Len(r)] # "/"

LEMMA EmptyIsClean == ASSUME NEW C PROVE CleanPath(C, << >>, << >>)
<1>1. << >> \in Seq(C \cup {"/"}) /\ Len(<< >>) = 0 /\ << << >> >> \o << >> = << << >> >> OBVIOUS
<1> QED BY <1>1, CutNothing DEF CleanPath

LEMMA OneNameMore ==
  ASSUME NEW C, NEW r, NEW names \in Seq(PathNames(C)), CleanPath(C, r, names), NEW w \in PathNames(C)
  PROVE  CleanPath(C, r \o (<<"/">> \o w), Append(names, w))
<1> DEFINE D == C \cup {"/"}
           s == Append(r, "/")
           p == s \o w
           k == Len(r)
           m == Len(w)
<1>1. r \in Seq(D) /\ "/" \in D /\ w \in Seq(D \ {"/"}) /\ w \in Seq(D) /\ w # << >>
  <2>1. w \in Seq(C \ {"/"}) /\ w # << >> BY DEF PathNames
  <2>2. C \ {"/"} = D \ {"/"} /\ D \ {"/"} \subseteq D OBVIOUS
  <2>3. r \in Seq(D) BY DEF CleanPath
  <2> HIDE DEF D
  <2>4. w \in Seq(D \ {"/"}) BY <2>1, <2>2
  <2>5. w \in Seq(D) BY <2>2, <2>4, SeqMonotonic
  <2>6. "/" \in D BY DEF D
  <2> QED BY <2>1, <2>3, <2>4, <2>5, <2>6
<1> HIDE DEF D
<1>2. r \o (<<"/">> \o w) = p BY <1>1
<1>3. s \in Seq(D) /\ Len(s) = k + 1 /\ k \in Nat /\ s[k + 1] = "/" /\ \A i \in 1..k : s[i] = r[i] BY <1>1
<1>4. m \in Nat \ {0} /\ \A i \in 1..m : w[i] # "/" BY <1>1
<1>5. Split(p, "/") = Append(Split(r, "/"), w) BY <1>1, CutWord
<1>6. Split(p, "/") = << << >> >> \o Append(names, w)
  <2>1. Split(r, "/") = << << >> >> \o names BY DEF CleanPath
  <2> DEFINE one == << << >> >>
             T == Seq(C)
  <2>2. one \in Seq(T) /\ names \in Seq(T) /\ w \in T
    <3>1. PathNames(C) \subseteq T
      <4>1. Seq(C \ {"/"}) \subseteq Seq(C) OBVIOUS
      <4> QED BY <4>1 DEF PathNames
    <3>2. << >> \in T OBVIOUS
    <3> HIDE DEF T
    <3>3. names \in Seq(T) BY <3>1, SeqMonotonic
    <3>4. one \in Seq(T) BY <3>2
    <3> QED BY <3>1, <3>3, <3>4
  <2> HIDE DEF one, T
  <2>3. Append(one \o names, w) = one \o Append(names, w) BY <2>2
  <2> QED BY <1>5, <2>1, <2>3 DEF one
<1> HIDE DEF s
<1>7. p \in Seq(D) /\ Len(p) = k + 1 + m /\ \A i \in 1..(k + 1 + m) : p[i] = IF i <= k + 1 THEN s[i] ELSE w[i - (k + 1)]
  <2>1. s \in Seq(D) /\ w \in Seq(D) BY <1>1, <1>3
  <2>2. s \o w \in Seq(D) /\ Len(s \o w) = Len(s) + Len(w)
        /\ \A i \in 1..(Len(s) + Len(w)) : (s \o w)[i] = IF i <= Len(s) THEN s[i] ELSE w[i - Len(s)]
    BY <2>1, ConcatProperties
  <2> QED BY <1>3, <2>2
<1> HIDE DEF p, k, m
<1>8. \A i \in 1..m : p[k + 1 + i] = w[i]
  <2>1. \A i \in 1..m : k + 1 + i \in 1..(k + 1 + m) /\ ~ (k + 1 + i <= k + 1) /\ (k + 1 + i) - (k + 1) = i BY <1>3, <1>4
  <2> QED BY <1>7, <2>1
<1>9. p[k + 1] = "/" /\ \A i \in 1..k : p[i] = r[i]
  <2>1. k + 1 \in 1..(k + 1 + m) /\ k + 1 <= k + 1 BY <1>3, <1>4
  <2>2. \A i \in 1..k : i \in 1..(k + 1 + m) /\ i <= k + 1 BY <1>3, <1>4
  <2> QED BY <1>3, <1>7, <2>1, <2>2
<1>10. p # << >> /\ p[Len(p)] # "/"
  <2>1. m \in 1..m BY <1>4
  <2>2. p[k + 1 + m] = w[m] BY <1>8, <2>1
  <2>3. Len(p) # 0 BY <1>3, <1>4, <1>7
  <2> QED BY <1>4, <1>7, <2>1, <2>2, <2>3
<1>11. ASSUME NEW j \in 1..(Len(p) - 1) PROVE ~ (p[j] = "/" /\ p[j + 1] = "/")
  <2>1. j \in 1..(k + m) BY <1>3, <1>4, <1>7
  <2>2. CASE j < k
    <3>1. j \in 1..(k - 1) /\ j \in 1..k /\ j + 1 \in 1..k BY <1>3, <2>1, <2>2
    <3>2. p[j] = r[j] /\ p[j + 1] = r[j + 1] BY <1>9, <3>1
    <3>3. ~ (r[j] = "/" /\ r[j + 1] = "/") BY <3>1 DEF CleanPath, k
    <3> QED BY <3>2, <3>3
  <2>3. CASE j = k
    <3>1. k \in 1..k /\ r # << >> BY <1>1, <1>3, <2>1, <2>3 DEF k
    <3>2. r[k] # "/" BY <3>1 DEF CleanPath, k
    <3> QED BY <1>9, <2>3, <3>1, <3>2
  <2>4. CASE j > k
    <3>1. j - k \in 1..m /\ k + 1 + (j - k) = j + 1 BY <1>3, <1>4, <2>1, <2>4
    <3>2. p[j + 1] = w[j - k] BY <1>8, <3>1
    <3> QED BY <1>4, <3>1, <3>2
  <2> QED BY <1>3, <2>1, <2>2, <2>3, <2>4
<1>12. CleanPath(C, p, Append(names, w)) BY <1>6, <1>7, <1>10, <1>11 DEF CleanPath, D
<1> QED BY <1>2, <1>12

(* A run of the recursion of FlattenSeq over the first n sequences.          *)
FlattenRun(g, ss, n) == g = [i \in 1..n |-> IF i = 1 THEN ss[i] ELSE g[i - 1] \o ss[i]]

LEMMA RunsOn ==
  ASSUME NEW ss, NEW n \in Nat \ {0}
  PROVE  \E g : FlattenRun(g, ss, n)
<1> DEFINE Wrong == {m \in Nat \ {0} : ~ \E g : FlattenRun(g, ss, m)}
<1>1. CASE n \in Wrong
  <2>1. Wrong \in SUBSET Nat OBVIOUS
  <2> HIDE DEF Wrong
  <2>2. PICK m \in Wrong : \A j \in Wrong : ~ (<<j, m>> \in OpToRel(<, Nat))
    BY <1>1, <2>1, WFMin, NatLessThanWellFounded
  <2>3. \A j \in Wrong : ~(j < m) BY <2>1, <2>2 DEF OpToRel
  <2>4. m \in Nat \ {0} /\ ~ \E g : FlattenRun(g, ss, m) BY DEF Wrong
  <2>5. CASE m = 1
    <3> DEFINE g == [i \in 1..m |-> ss[i]]
    <3>1. \A i \in 1..m : i = 1 BY <2>5
    <3>2. g = [i \in 1..m |-> IF i = 1 THEN ss[i] ELSE g[i - 1] \o ss[i]] BY <3>1
    <3> QED BY <2>4, <3>2 DEF FlattenRun
  <2>6. CASE m # 1
    <3>1. m - 1 \in Nat \ {0} /\ m - 1 < m BY <2>4, <2>6
    <3>2. m - 1 \notin Wrong BY <2>3, <3>1
    <3>3. PICK h : FlattenRun(h, ss, m - 1) BY <3>1, <3>2 DEF Wrong
    <3> DEFINE g == [i \in 1..m |-> IF i = m THEN h[m - 1] \o ss[m] ELSE h[i]]
    <3>4. ASSUME NEW i \in 1..m
          PROVE  g[i] = IF i = 1 THEN ss[i] ELSE g[i - 1] \o ss[i]
      <4>1. CASE i = m
        <5>1. m - 1 \in 1..m /\ m - 1 # m BY <2>4, <3>1
        <5>2. g[m - 1] = h[m - 1] BY <5>1
        <5>3. g[i] = h[m - 1] \o ss[m] BY <4>1
        <5> QED BY <4>1, <5>2, <5>3, <2>6
      <4>2. CASE i # m
        <5>1. i \in 1..(m - 1) BY <2>4, <4>2, <3>1
        <5>2. h[i] = IF i = 1 THEN ss[i] ELSE h[i - 1] \o ss[i] BY <3>3, <5>1 DEF FlattenRun
        <5>3. i # 1 => g[i - 1] = h[i - 1] BY <2>4, <5>1, <3>1
        <5>4. g[i] = h[i] BY <4>2
        <5> QED BY <5>2, <5>3, <5>4
      <4> QED BY <4>1, <4>2
    <3>5. g = [i \in 1..m |-> IF i = 1 THEN ss[i] ELSE g[i - 1] \o ss[i]] BY <3>4
    <3> QED BY <2>4, <3>5 DEF FlattenRun
  <2> QED BY <2>5, <2>6
<1> QED BY <1>1

LEMMA FlattenRuns ==
  ASSUME NEW ss, Len(ss) \in Nat \ {0}
  PROVE  \E g : FlattenRun(g, ss, Len(ss)) /\ FlattenSeq(ss) = g[Len(ss)]
<1> DEFINE n == Len(ss)
           g == CHOOSE g : g = [i \in 1..n |-> IF i = 1 THEN ss[i] ELSE g[i - 1] \o ss[i]]
<1>1. FlattenSeq(ss) = g[n] BY DEF FlattenSeq
<1>2. PICK h : h = [i \in 1..n |-> IF i = 1 THEN ss[i] ELSE h[i - 1] \o ss[i]] BY RunsOn DEF FlattenRun
<1>3. FlattenRun(g, ss, n) BY <1>2 DEF FlattenRun
<1> QED BY <1>1, <1>3


LEMMA RootedClean ==
  ASSUME NEW C, NEW names \in Seq(PathNames(C)), names # << >>
  PROVE  CleanPath(C, Slashed(names), names)
<1> DEFINE ss == [i \in DOMAIN names |-> <<"/">> \o names[i]]
           n == Len(names)
           Part(k) == SubSeq(names, 1, k)
<1>1. n \in Nat \ {0} /\ DOMAIN names = 1..n /\ Len(ss) = n /\ \A i \in 1..n : names[i] \in PathNames(C) OBVIOUS
<1>2. \A i \in 1..n : ss[i] = <<"/">> \o names[i] BY <1>1
<1>3. Slashed(names) = FlattenSeq(ss) BY DEF Slashed
<1>4. Part(0) = << >> /\ Part(n) = names /\ \A k \in 0..n : Part(k) \in Seq(PathNames(C))
  BY <1>1
<1>5. \A k \in 0..(n - 1) : Part(k + 1) = Append(Part(k), names[k + 1]) BY <1>1
<1> HIDE DEF ss, n, Part
<1>6. PICK g : FlattenRun(g, ss, n) /\ FlattenSeq(ss) = g[n] BY <1>1, FlattenRuns
<1>7. \A i \in 1..n : g[i] = IF i = 1 THEN ss[i] ELSE g[i - 1] \o ss[i] BY <1>6 DEF FlattenRun
<1> DEFINE P == {k \in 0..n : k > 0 => CleanPath(C, g[k], Part(k))}
<1>8. 0 \in P BY <1>1
<1>9. ASSUME NEW k \in 0..(n - 1), k \in P PROVE k + 1 \in P
  <2>1. k \in Nat /\ k + 1 \in 1..n /\ k + 1 \in 0..n /\ k \in 0..n /\ (k + 1) - 1 = k BY <1>1
  <2>2. names[k + 1] \in PathNames(C) /\ Part(k) \in Seq(PathNames(C)) /\ Part(k + 1) = Append(Part(k), names[k + 1])
    BY <1>1, <1>4, <1>5, <2>1
  <2> DEFINE w == names[k + 1]
  <2>5. w \in PathNames(C) /\ Part(k + 1) = Append(Part(k), w) BY <2>2
  <2>6. ss[k + 1] = <<"/">> \o w BY <1>2, <2>1
  <2> HIDE DEF w
  <2>3. CASE k = 0
    <3> DEFINE nothing == << >>
    <3>0. g[k + 1] = ss[k + 1] BY <1>7, <2>1, <2>3
    <3>1. g[k + 1] = <<"/">> \o w BY <2>6, <3>0
    <3>2. nothing \o (<<"/">> \o w) = <<"/">> \o w
      <4>1. w \in Seq(C) BY <2>5 DEF PathNames
      <4>2. <<"/">> \in Seq({"/"}) OBVIOUS
      <4>3. Seq({"/"}) \subseteq Seq(C \cup {"/"}) /\ Seq(C) \subseteq Seq(C \cup {"/"}) OBVIOUS
      <4>4. <<"/">> \o w \in Seq(C \cup {"/"}) BY <4>1, <4>2, <4>3
      <4> QED BY <4>4
    <3>3. CleanPath(C, nothing, nothing) /\ nothing \in Seq(PathNames(C)) BY EmptyIsClean
    <3>4. Part(k) = nothing BY <1>4, <2>3
    <3> HIDE DEF nothing
    <3>5. CleanPath(C, nothing \o (<<"/">> \o w), Append(nothing, w)) BY <2>5, <3>3, OneNameMore
    <3>6. CleanPath(C, g[k + 1], Part(k + 1)) BY <2>5, <3>1, <3>2, <3>4, <3>5
    <3> QED BY <2>1, <3>6
  <2>4. CASE k # 0
    <3>1. CleanPath(C, g[k], Part(k)) BY <1>9, <2>1, <2>4
    <3>2. g[k + 1] = g[k] \o ss[k + 1]
      <4>1. k + 1 # 1 BY <2>1, <2>4
      <4> QED BY <1>7, <2>1, <4>1
    <3>3. CleanPath(C, g[k] \o (<<"/">> \o w), Append(Part(k), w)) BY <2>2, <2>5, <3>1, OneNameMore
    <3>4. CleanPath(C, g[k + 1], Part(k + 1)) BY <2>5, <2>6, <3>2, <3>3
    <3> QED BY <2>1, <3>4
  <2> QED BY <2>3, <2>4
<1>10. n \in 0..n /\ n > 0 BY <1>1
<1> HIDE DEF P
<1>11. n \in P BY <1>1, <1>8, <1>9, <1>10, CountingUp
<1>12. CleanPath(C, g[n], Part(n)) BY <1>10, <1>11 DEF P
<1> QED BY <1>3, <1>4, <1>6, <1>12

(* A path of which the router can rely on what it is.                       *)
IsCanonical(path) ==
  /\ \A s \in ToSet(Split(path, "/")) : s # <<".">> /\ s # <<".", ".">>
  /\ ~ HasPart(path, <<"/", "/">>)
  /\ SanitizePath(path) = path

LEMMA HasOne ==
  ASSUME NEW C, NEW text \in Seq(C), NEW c
  PROVE  HasPart(text, <<c>>) <=> \E i \in 1..Len(text) : text[i] = c
<1>1. Len(<<c>>) = 1 /\ Len(text) \in Nat OBVIOUS
<1>2. ASSUME NEW i \in 1..Len(text) PROVE SubSeq(text, i, i) = <<text[i]>>
  <2> DEFINE s == SubSeq(text, i, i)
  <2>1. s \in Seq(C) /\ Len(s) = 1 /\ s[1] = text[i] BY <1>1
  <2> HIDE DEF s
  <2>2. s = <<text[i]>> BY <2>1
  <2> QED BY <2>2 DEF s
<1>3. Len(text) - 1 + 1 = Len(text) /\ \A i \in 1..Len(text) : i + 1 - 1 = i BY <1>1
<1>4. HasPart(text, <<c>>) <=> \E i \in 1..Len(text) : SubSeq(text, i, i) = <<c>> BY <1>1, <1>3 DEF HasPart
<1>5. \A x : <<x>> = <<c>> <=> x = c OBVIOUS
<1> QED BY <1>2, <1>4, <1>5

LEMMA HasTwo ==
  ASSUME NEW C, NEW text \in Seq(C), NEW c, HasPart(text, <<c, c>>)
  PROVE  \E j \in 1..(Len(text) - 1) : text[j] = c /\ text[j + 1] = c
<1>1. Len(<<c, c>>) = 2 /\ Len(text) \in Nat OBVIOUS
<1>2. PICK i \in 1..(Len(text) - 2 + 1) : SubSeq(text, i, i + 2 - 1) = <<c, c>> BY <1>1 DEF HasPart
<1>3. i \in 1..(Len(text) - 1) /\ i + 2 - 1 = i + 1 BY <1>1
<1>4. SubSeq(text, i, i + 1)[1] = text[i] /\ SubSeq(text, i, i + 1)[2] = text[i + 1]
  <2>1. \A k \in i..(i + 1) : text[k] \in C BY <1>1, <1>3
  <2>2. /\ Len(SubSeq(text, i, i + 1)) = 2
        /\ \A k \in 1..2 : SubSeq(text, i, i + 1)[k] = text[i + k - 1]
    BY <1>1, <1>3
  <2>3. i + 1 - 1 = i /\ i + 2 - 1 = i + 1 BY <1>3
  <2> QED BY <2>2, <2>3
<1>5. SubSeq(text, i, i + 1) = <<c, c>> BY <1>2, <1>3
<1>6. <<c, c>>[1] = c /\ <<c, c>>[2] = c OBVIOUS
<1>7. text[i] = c /\ text[i + 1] = c BY <1>4, <1>5, <1>6
<1> QED BY <1>3, <1>7

(* A path without dots and double slashes is canonical as it is, ...        *)
LEMMA PlainIsCanonical ==
  ASSUME NEW C, NEW path \in Seq(C), ~ HasPart(path, <<".">>), ~ HasPart(path, <<"/", "/">>)
  PROVE  IsCanonical(path)
<1> DEFINE D == C \ {"."}
<1>1. path \in Seq(D)
  <2>1. \A i \in 1..Len(path) : path[i] # "." BY HasOne
  <2>2. Len(path) \in Nat /\ path = [i \in 1..Len(path) |-> path[i]] /\ \A i \in 1..Len(path) : path[i] \in C OBVIOUS
  <2>3. path \in [1..Len(path) -> D] BY <2>1, <2>2
  <2> HIDE DEF D
  <2> QED BY <2>2, <2>3
<1>2. Split(path, "/") \in Seq(Seq(D \ {"/"})) BY <1>1, CutTyped DEF Pieces
<1>3. ASSUME NEW s \in ToSet(Split(path, "/")) PROVE s # <<".">> /\ s # <<".", ".">>
  <2>1. s \in Seq(D \ {"/"})
    <3>1. PICK i \in DOMAIN Split(path, "/") : s = Split(path, "/")[i] BY DEF ToSet
    <3> HIDE DEF D
    <3> QED BY <1>2, <3>1
  <2>2. s # << >> => s[1] # "."
    <3>1. s # << >> => 1 \in 1..Len(s) BY <2>1
    <3> QED BY <2>1, <3>1
  <2>3. <<".">>[1] = "." /\ <<".", ".">>[1] = "." /\ <<".">> # << >> /\ <<".", ".">> # << >> OBVIOUS
  <2> QED BY <2>2, <2>3
<1>4. SanitizePath(path) = path BY DEF SanitizePath
<1> QED BY <1>3, <1>4 DEF IsCanonical

(* ... so is the root, and a clean path of names.                           *)
LEMMA RootIsCanonical == IsCanonical(<<"/">>)
<1> DEFINE root == <<"/">>
<1>1. root \in Seq({"/"}) /\ Len(root) = 1 /\ root[1] = "/" OBVIOUS
<1> HIDE DEF root
<1>2. ~ HasPart(root, <<".">>)
  <2>1. \A i \in 1..Len(root) : root[i] # "." BY <1>1
  <2> QED BY <1>1, <2>1, HasOne
<1>3. ~ HasPart(root, <<"/", "/">>)
  <2>1. ~ \E j \in 1..(Len(root) - 1) : root[j] = "/" /\ root[j + 1] = "/" BY <1>1
  <2> QED BY <1>1, <2>1, HasTwo
<1>4. IsCanonical(root) BY <1>1, <1>2, <1>3, PlainIsCanonical
<1> QED BY <1>4 DEF root

LEMMA RootedIsCanonical ==
  ASSUME NEW C, NEW names \in Seq(PathNames(C)), names # << >>
  PROVE  IsCanonical(Slashed(names))
<1> DEFINE path == Slashed(names)
<1>1. CleanPath(C, path, names) BY RootedClean
<1> HIDE DEF path
<1>2. path \in Seq(C \cup {"/"}) /\ Split(path, "/") = << << >> >> \o names BY <1>1 DEF CleanPath
<1>3. ~ HasPart(path, <<"/", "/">>)
  <2>1. ~ \E j \in 1..(Len(path) - 1) : path[j] = "/" /\ path[j + 1] = "/" BY <1>1 DEF CleanPath
  <2> QED BY <1>2, <2>1, HasTwo
<1>4. ASSUME NEW s \in ToSet(Split(path, "/")) PROVE s # <<".">> /\ s # <<".", ".">>
  <2> DEFINE one == << << >> >>
             T == {<< >>} \cup PathNames(C)
  <2>1. one \in Seq(T) /\ names \in Seq(T)
    <3>1. << >> \in T /\ PathNames(C) \subseteq T OBVIOUS
    <3> HIDE DEF T
    <3>2. names \in Seq(T) BY <3>1, SeqMonotonic
    <3> QED BY <3>1, <3>2
  <2>2. Split(path, "/") = one \o names BY <1>2
  <2> HIDE DEF one, T
  <2>3. Split(path, "/") \in Seq(T)
    <3>1. one \o names \in Seq(T) BY <2>1, ConcatProperties
    <3> QED BY <2>2, <3>1
  <2>4. s \in T
    <3>1. PICK i \in DOMAIN Split(path, "/") : s = Split(path, "/")[i] BY DEF ToSet
    <3> QED BY <2>3, <3>1
  <2>5. << >> # <<".">> /\ << >> # <<".", ".">> OBVIOUS
  <2> QED BY <2>4, <2>5 DEF T, PathNames
<1>5. SanitizePath(path) = path
  <2>1. Remaining(Split(path, "/")) = names BY <1>2, NamesKept
  <2> QED BY <2>1 DEF SanitizePath, path
<1> QED BY <1>3, <1>4, <1>5 DEF IsCanonical, path

LEMMA SanitizedIsCanonical ==
  ASSUME NEW C, NEW path \in Seq(C)
  PROVE  IsCanonical(SanitizePath(path))
<1>1. CASE ~ HasPart(path, <<".">>) /\ ~ HasPart(path, <<"/", "/">>)
  <2>1. SanitizePath(path) = path BY <1>1 DEF SanitizePath
  <2>2. IsCanonical(path) BY <1>1, PlainIsCanonical
  <2> QED BY <2>1, <2>2
<1>2. CASE HasPart(path, <<".">>) \/ HasPart(path, <<"/", "/">>)
  <2> DEFINE names == Remaining(Split(path, "/"))
  <2>1. SanitizePath(path) = Slashed(names) BY <1>2 DEF SanitizePath
  <2>2. names \in Seq(PathNames(C))
    <3>1. Split(path, "/") \in Seq(Seq(C \ {"/"})) BY CutTyped DEF Pieces
    <3> QED BY <3>1, KeptNames
  <2> HIDE DEF names
  <2>3. CASE names = << >>
    <3>1. Slashed(names) = <<"/">> BY <2>3 DEF Slashed
    <3> QED BY <2>1, <3>1, RootIsCanonical
  <2>4. CASE names # << >> BY <2>1, <2>2, <2>4, RootedIsCanonical
  <2> QED BY <2>3, <2>4
<1> QED BY <1>1, <1>2

(* Whatever is decoded, it is a text.                                       *)
Octets == {" ", ".", "/", "invalid", "control"}
DecodedHere(text, g, i) ==
  IF i > Len(text) THEN << >>
  ELSE IF text[i] = "+" THEN <<" ">> \o g[i + 1]
  ELSE IF text[i] = "%" /\ i + 2 <= Len(text) /\ Octet(SubSeq(text, i + 1, i + 2)) # "none"
       THEN <<Octet(SubSeq(text, i + 1, i + 2))>> \o g[i + 3]
  ELSE <<text[i]>> \o g[i + 1]
DecodeRun(g, text) == g = [i \in 1..(Len(text) + 3) |-> DecodedHere(text, g, i)]

LEMMA OctetKnown == ASSUME NEW pair, Octet(pair) # "none" PROVE Octet(pair) \in Octets
BY DEF Octet, Octets

LEMMA DecodeRuns ==
  ASSUME NEW C, NEW text \in Seq(C)
  PROVE  \E g : DecodeRun(g, text) /\ g[1] \in Seq(C \cup Octets)
<1> DEFINE D == C \cup Octets
           n == Len(text)
           N == n + 3
           From(g, m) == g \in [m..N -> Seq(D)] /\ \A i \in m..N : g[i] = DecodedHere(text, g, i)
           P == {k \in 0..(N - 1) : \E g : From(g, N - k)}
<1>1. n \in Nat /\ N \in Nat /\ N = n + 3 /\ \A i \in 1..n : text[i] \in C OBVIOUS
<1> HIDE DEF n
<1>2. \A g : \A i \in Nat : i > n => DecodedHere(text, g, i) = << >> BY DEF DecodedHere, n
<1>3. 0 \in P
  <2> DEFINE g == [i \in N..N |-> << >>]
  <2>1. N - 0 = N /\ N > n BY <1>1
  <2>2. g \in [N..N -> Seq(D)] OBVIOUS
  <2>3. \A i \in N..N : i \in Nat /\ i > n /\ g[i] = << >> BY <1>1
  <2> HIDE DEF g
  <2>4. From(g, N) BY <1>2, <2>2, <2>3
  <2> QED BY <1>1, <2>1, <2>4
<1>4. ASSUME NEW k \in 0..((N - 1) - 1), k \in P PROVE k + 1 \in P
  <2> DEFINE m == N - k
             j == N - (k + 1)
  <2>1. m \in 2..N /\ j = m - 1 /\ j \in 1..N /\ k + 1 \in 0..(N - 1) BY <1>1
  <2>2. PICK h : From(h, m) BY <1>4
  <2> DEFINE g == [i \in j..N |-> IF i = j THEN DecodedHere(text, h, j) ELSE h[i]]
  <2> HIDE DEF N, m, j
  <2>3. h \in [m..N -> Seq(D)] /\ \A i \in m..N : h[i] = DecodedHere(text, h, i) BY <2>2
  <2>4. \A i \in m..N : i \in j..N /\ i # j /\ i \in Nat BY <1>1, <2>1
  <2>5. \A i \in m..N : g[i] = h[i] BY <2>4
  <2>6. j \in j..N BY <1>1, <2>1
  <2>7. g[j] = DecodedHere(text, h, j) BY <2>6
  <2>8. ASSUME NEW i \in j..N PROVE DecodedHere(text, g, i) = DecodedHere(text, h, i)
    <3>1. CASE i > n BY <1>1, <1>2, <2>1, <3>1
    <3>2. CASE ~ i > n
      <4>1. i + 1 \in m..N /\ i + 3 \in m..N BY <1>1, <2>1, <3>2 DEF N
      <4>2. g[i + 1] = h[i + 1] /\ g[i + 3] = h[i + 3] BY <2>5, <4>1
      <4> HIDE DEF g
      <4> QED BY <4>2 DEF DecodedHere
    <3> QED BY <3>1, <3>2
  <2>9. DecodedHere(text, h, j) \in Seq(D)
    <3>1. CASE j > n
      <4>1. DecodedHere(text, h, j) = << >> BY <1>1, <1>2, <2>1, <3>1
      <4> QED BY <4>1
    <3>2. CASE ~ j > n
      <4>1. j + 1 \in m..N /\ j + 3 \in m..N /\ j \in 1..n BY <1>1, <2>1, <3>2 DEF N
      <4>2. h[j + 1] \in Seq(D) /\ h[j + 3] \in Seq(D) /\ text[j] \in D BY <1>1, <2>3, <4>1
      <4>3. " " \in D BY DEF Octets
      <4>4. ASSUME NEW x \in D, NEW s \in Seq(D) PROVE <<x>> \o s \in Seq(D)
        <5> HIDE DEF D
        <5>1. <<x>> \in Seq(D) OBVIOUS
        <5> QED BY <5>1, ConcatProperties
      <4>5. Octet(SubSeq(text, j + 1, j + 2)) # "none" => Octet(SubSeq(text, j + 1, j + 2)) \in D BY OctetKnown
      <4> HIDE DEF D
      <4>6. CASE text[j] = "+"
        <5>1. DecodedHere(text, h, j) = <<" ">> \o h[j + 1] BY <3>2, <4>6 DEF DecodedHere, n
        <5> QED BY <4>2, <4>3, <4>4, <5>1
      <4>7. CASE text[j] # "+" /\ text[j] = "%" /\ j + 2 <= n /\ Octet(SubSeq(text, j + 1, j + 2)) # "none"
        <5>1. DecodedHere(text, h, j) = <<Octet(SubSeq(text, j + 1, j + 2))>> \o h[j + 3] BY <3>2, <4>7 DEF DecodedHere, n
        <5> QED BY <4>2, <4>4, <4>5, <4>7, <5>1
      <4>8. CASE text[j] # "+" /\ ~ (text[j] = "%" /\ j + 2 <= n /\ Octet(SubSeq(text, j + 1, j + 2)) # "none")
        <5>1. DecodedHere(text, h, j) = <<text[j]>> \o h[j + 1] BY <3>2, <4>8 DEF DecodedHere, n
        <5> QED BY <4>2, <4>4, <5>1
      <4> QED BY <4>6, <4>7, <4>8
    <3> QED BY <3>1, <3>2
  <2>10. ASSUME NEW i \in j..N PROVE g[i] = DecodedHere(text, g, i) /\ g[i] \in Seq(D)
    <3>1. CASE i = j BY <2>7, <2>8, <2>9, <3>1
    <3>2. CASE i # j
      <4>1. i \in m..N BY <1>1, <2>1, <3>2
      <4> QED BY <2>3, <2>5, <2>8, <4>1
    <3> QED BY <3>1, <3>2
  <2>11. g = [i \in j..N |-> g[i]] OBVIOUS
  <2> HIDE DEF g, D
  <2>12. From(g, j) BY <2>10, <2>11
  <2> QED BY <2>1, <2>12 DEF j
<1>5. N - 1 \in Nat /\ N - 1 \in 0..(N - 1) /\ N - (N - 1) = 1 BY <1>1
<1> HIDE DEF P, N
<1>6. N - 1 \in P BY <1>3, <1>4, <1>5, CountingUp
<1>7. \E g : From(g, 1) BY <1>5, <1>6 DEF P
<1>8. PICK g : From(g, 1) BY <1>7
<1>9. g = [i \in 1..N |-> g[i]] BY <1>8
<1>10. g = [i \in 1..N |-> DecodedHere(text, g, i)] BY <1>8, <1>9
<1>11. 1 \in 1..N BY <1>1
<1> QED BY <1>8, <1>10, <1>11 DEF DecodeRun, N, n

LEMMA OneDecodeRun ==
  ASSUME NEW C, NEW text \in Seq(C), NEW g, NEW h, DecodeRun(g, text), DecodeRun(h, text)
  PROVE  g[1] = h[1]
<1> DEFINE n == Len(text)
           N == n + 3
           P == {k \in 0..(N - 1) : \A i \in (N - k)..N : g[i] = h[i]}
<1>1. n \in Nat /\ N \in Nat /\ N = n + 3 OBVIOUS
<1>2. \A i \in 1..N : g[i] = DecodedHere(text, g, i) /\ h[i] = DecodedHere(text, h, i) BY DEF DecodeRun
<1> HIDE DEF n
<1>3. \A f : \A i \in Nat : i > n => DecodedHere(text, f, i) = << >> BY DEF DecodedHere, n
<1>4. 0 \in P
  <2>1. 0 \in 0..(N - 1) /\ N - 0 = N /\ N \in 1..N /\ N > n /\ \A i \in N..N : i = N BY <1>1
  <2> HIDE DEF N
  <2>2. g[N] = h[N] BY <1>1, <1>2, <1>3, <2>1
  <2>3. \A i \in (N - 0)..N : g[i] = h[i] BY <2>1, <2>2
  <2> QED BY <2>1, <2>3
<1>5. ASSUME NEW k \in 0..((N - 1) - 1), k \in P PROVE k + 1 \in P
  <2> DEFINE m == N - k
             j == N - (k + 1)
  <2>1. m \in 2..N /\ j = m - 1 /\ j \in 1..N /\ k + 1 \in 0..(N - 1) BY <1>1
  <2>2. \A i \in m..N : g[i] = h[i] BY <1>5
  <2> HIDE DEF N, m, j
  <2>3. DecodedHere(text, g, j) = DecodedHere(text, h, j)
    <3>1. CASE j > n BY <1>1, <1>3, <2>1, <3>1
    <3>2. CASE ~ j > n
      <4>1. j + 1 \in m..N /\ j + 3 \in m..N BY <1>1, <2>1, <3>2 DEF N
      <4>2. g[j + 1] = h[j + 1] /\ g[j + 3] = h[j + 3] BY <2>2, <4>1
      <4> QED BY <4>2 DEF DecodedHere
    <3> QED BY <3>1, <3>2
  <2>4. g[j] = h[j] BY <1>2, <2>1, <2>3
  <2>5. \A i \in j..N : i = j \/ i \in m..N BY <1>1, <2>1
  <2>6. \A i \in j..N : g[i] = h[i] BY <2>2, <2>4, <2>5
  <2> QED BY <2>1, <2>6 DEF j
<1>6. N - 1 \in Nat /\ N - 1 \in 0..(N - 1) /\ N - (N - 1) = 1 /\ 1 \in 1..N BY <1>1
<1> HIDE DEF P, N
<1>7. N - 1 \in P BY <1>4, <1>5, <1>6, CountingUp
<1>8. \A i \in (N - (N - 1))..N : g[i] = h[i] BY <1>7 DEF P
<1> QED BY <1>6, <1>8

LEMMA DecodedTyped ==
  ASSUME NEW C, NEW text \in Seq(C)
  PROVE  PercentDecode(text) \in Seq(C \cup Octets)
<1> DEFINE g == CHOOSE g : DecodeRun(g, text)
<1>1. PercentDecode(text) = IF HasPart(g[1], <<"invalid">>) THEN text ELSE g[1]
  BY DEF PercentDecode, DecodeRun, DecodedHere
<1>2. PICK h : DecodeRun(h, text) /\ h[1] \in Seq(C \cup Octets) BY DecodeRuns
<1>3. DecodeRun(g, text) BY <1>2
<1> HIDE DEF g
<1>4. g[1] = h[1] BY <1>2, <1>3, OneDecodeRun
<1>5. text \in Seq(C \cup Octets) OBVIOUS
<1> QED BY <1>1, <1>2, <1>4, <1>5

LEMMA PathCanonical ==
  ASSUME NEW C, NEW text \in Seq(C)
  PROVE  IsCanonical(Path(text))
<1> DEFINE decoded == PercentDecode(text)
<1>1. decoded \in Seq(C \cup Octets) BY DecodedTyped
<1> HIDE DEF decoded
<1>2. IsCanonical(SanitizePath(decoded)) BY <1>1, SanitizedIsCanonical
<1> QED BY <1>2 DEF Path, decoded

LEMMA BeginningOf ==
  ASSUME NEW D, NEW s, NEW n \in Nat, \A i \in 1..n : s[i] \in D
  PROVE  SubSeq(s, 1, n) \in Seq(D) /\ Len(SubSeq(s, 1, n)) = n /\ \A i \in 1..n : SubSeq(s, 1, n)[i] = s[i]
<1>1. 1 \in Int /\ n \in Int /\ n - 1 + 1 = n /\ (IF 1 <= n THEN n - 1 + 1 ELSE 0) = n /\ \A i \in 1..n : 1 + i - 1 = i
  OBVIOUS
<1>2. /\ SubSeq(s, 1, n) \in Seq(D)
      /\ Len(SubSeq(s, 1, n)) = IF 1 <= n THEN n - 1 + 1 ELSE 0
      /\ \A i \in 1..(n - 1 + 1) : SubSeq(s, 1, n)[i] = s[1 + i - 1]
  BY <1>1, SubSeqProperties
<1> QED BY <1>1, <1>2

(* The first piece is the text up to its first separator.                   *)
LEMMA CutFirst ==
  ASSUME NEW C, NEW text \in Seq(C), NEW sep
  PROVE  \E j \in 0..Len(text) : /\ Split(text, sep)[1] = SubSeq(text, 1, j)
                                 /\ j < Len(text) => text[j + 1] = sep
                                 /\ \A i \in 1..j : text[i] # sep
<1> DEFINE n == Len(text)
           Part(k) == SubSeq(text, 1, k)
           AtFirst(k) == \E j \in 0..k : /\ Split(Part(k), sep)[1] = Part(j)
                                         /\ Len(Split(Part(k), sep)) = 1 <=> j = k
                                         /\ j < k => text[j + 1] = sep
           P == {k \in 0..n : AtFirst(k)}
<1>1. n \in Nat /\ Part(0) = << >> /\ Part(n) = text /\ \A i \in 1..n : text[i] \in C OBVIOUS
<1>2. \A k \in 0..n : Part(k) \in Seq(C) BY <1>1
<1>3. \A k \in 0..(n - 1) : Part(k + 1) = Append(Part(k), text[k + 1]) BY <1>1
<1> HIDE DEF n, Part
<1>4. 0 \in P
  <2> DEFINE e == << >>
             d == << e >>
  <2>1. d[1] = e OBVIOUS
  <2> HIDE DEF d
  <2>2. Split(Part(0), sep) = d BY <1>1, CutNothing DEF d
  <2>3. Split(Part(0), sep)[1] = Part(0) BY <1>1, <2>1, <2>2
  <2>5. Len(d) = 1 BY DEF d
  <2>6. Len(Split(Part(0), sep)) = 1 BY <2>2, <2>5
  <2>4. AtFirst(0) BY <2>3, <2>6
  <2> QED BY <1>1, <2>4
<1>5. ASSUME NEW k \in 0..(n - 1), k \in P PROVE k + 1 \in P
  <2> DEFINE s == Split(Part(k), sep)
             c == text[k + 1]
  <2>0. AtFirst(k) BY <1>5
  <2>1. PICK j \in 0..k : s[1] = Part(j) /\ (Len(s) = 1 <=> j = k) /\ (j < k => text[j + 1] = sep) BY <2>0
  <2>2. k + 1 \in 1..n /\ k + 1 \in 0..n /\ k \in 0..n /\ k \in Nat BY <1>1
  <2>3. c \in C /\ Part(k) \in Seq(C) /\ Part(k + 1) = Append(Part(k), c) BY <1>1, <1>2, <1>3, <2>2
  <2> HIDE DEF c
  <2>4. s \in Seq(Seq(C \ {sep})) /\ s # << >> BY <2>3, CutTyped DEF Pieces
  <2>5. Split(Part(k + 1), sep) = Parted(s, c, sep) BY <2>3, CutMore
  <2> HIDE DEF s
  <2>6. Len(s) \in Nat \ {0} BY <2>4
  <2>7. CASE c = sep
    <3>1. Split(Part(k + 1), sep) = Append(s, << >>) BY <2>5, <2>7 DEF Parted
    <3>2. << >> \in Seq(C \ {sep}) OBVIOUS
    <3>3. Append(s, << >>)[1] = s[1] /\ Len(Append(s, << >>)) # 1 BY <2>4, <2>6, <3>2
    <3>4. j \in 0..(k + 1) /\ j # k + 1 BY <2>2
    <3>6. j < k + 1 => text[j + 1] = sep
      <4>1. j < k + 1 => j < k \/ j = k BY <2>2
      <4>2. j = k => text[j + 1] = sep BY <2>7 DEF c
      <4> QED BY <2>1, <4>1, <4>2
    <3>5. AtFirst(k + 1) BY <2>1, <3>1, <3>3, <3>4, <3>6
    <3> QED BY <2>2, <3>5
  <2>8. CASE c # sep /\ Len(s) = 1
    <3> DEFINE u == Append(s[Len(s)], c)
    <3>1. Split(Part(k + 1), sep) = [s EXCEPT ![Len(s)] = u] BY <2>5, <2>8 DEF Parted
    <3>2. u = Part(k + 1) BY <2>1, <2>3, <2>8
    <3>3. 1 \in DOMAIN s BY <2>4, <2>8
    <3> HIDE DEF u
    <3>4. [s EXCEPT ![Len(s)] = u][1] = u BY <2>8, <3>3
    <3>5. k + 1 \in 0..(k + 1) /\ ~ (k + 1 < k + 1) BY <2>2
    <3>7. Len([s EXCEPT ![Len(s)] = u]) = 1 BY <2>4, <2>8
    <3>6. AtFirst(k + 1) BY <3>1, <3>2, <3>4, <3>5, <3>7
    <3> QED BY <2>2, <3>6
  <2>9. CASE c # sep /\ Len(s) # 1
    <3> DEFINE u == Append(s[Len(s)], c)
    <3>1. Split(Part(k + 1), sep) = [s EXCEPT ![Len(s)] = u] BY <2>5, <2>9 DEF Parted
    <3> HIDE DEF u
    <3>2. 1 \in DOMAIN s BY <2>4, <2>6
    <3>3. [s EXCEPT ![Len(s)] = u][1] = s[1] BY <2>9, <3>2
    <3>4. Len([s EXCEPT ![Len(s)] = u]) = Len(s) BY <2>4
    <3>5. j \in 0..(k + 1) /\ j # k + 1 BY <2>2
    <3>7. j < k BY <2>1, <2>2, <2>9
    <3>6. AtFirst(k + 1) BY <2>1, <2>9, <3>1, <3>3, <3>4, <3>5, <3>7
    <3> QED BY <2>2, <3>6
  <2> QED BY <2>7, <2>8, <2>9
<1>6. n \in 0..n BY <1>1
<1> HIDE DEF P
<1>7. n \in P BY <1>1, <1>4, <1>5, <1>6, CountingUp
<1>8. AtFirst(n) BY <1>7 DEF P
<1>9. PICK j \in 0..n : Split(Part(n), sep)[1] = Part(j) /\ (j < n => text[j + 1] = sep) BY <1>8
<1>10. Split(text, sep)[1] = Part(j) BY <1>1, <1>9
<1>11. \A i \in 1..j : text[i] # sep
  <2>1. Split(text, sep) \in Seq(Seq(C \ {sep})) /\ Split(text, sep) # << >> BY CutTyped DEF Pieces
  <2>2. Split(text, sep)[1] \in Seq(C \ {sep})
    <3> DEFINE s == Split(text, sep)
    <3> HIDE DEF s
    <3>1. s \in Seq(Seq(C \ {sep})) /\ s # << >> BY <2>1 DEF s
    <3>2. s[1] \in Seq(C \ {sep}) BY <3>1
    <3> QED BY <3>2 DEF s
  <2>3. j \in Nat /\ \A i \in 1..j : text[i] \in C BY <1>1
  <2>4. Len(Part(j)) = j /\ \A i \in 1..j : Part(j)[i] = text[i] BY <2>3, BeginningOf DEF Part
  <2>5. \A i \in 1..j : Part(j)[i] \in C \ {sep} BY <1>10, <2>2, <2>4
  <2> QED BY <2>4, <2>5
<1> QED BY <1>9, <1>10, <1>11 DEF n, Part

(* The first place of a mark, 0 if there is none.                           *)
IsFirst(p, text, marks) ==
  \/ p = 0 /\ \A i \in 1..Len(text) : text[i] \notin marks
  \/ p \in 1..Len(text) /\ text[p] \in marks /\ \A i \in 1..(p - 1) : text[i] \notin marks

LEMMA FirstOf ==
  ASSUME NEW C, NEW text \in Seq(C), NEW I, I \in SUBSET (1..Len(text))
  PROVE  \/ I = {} /\ (IF I # {} THEN Min(I) ELSE 0) = 0
         \/ I # {} /\ Min(I) \in I /\ \A i \in 1..(Min(I) - 1) : i \notin I
<1>1. Len(text) \in Nat /\ I \in SUBSET Nat OBVIOUS
<1>2. CASE I = {} BY <1>2
<1>3. CASE I # {}
  <2>1. PICK m \in I : \A j \in I : ~ (<<j, m>> \in OpToRel(<, Nat)) BY <1>1, <1>3, WFMin, NatLessThanWellFounded
  <2>2. \A j \in I : ~ (j < m) BY <1>1, <2>1 DEF OpToRel
  <2>3. \A j \in I : m =< j BY <1>1, <2>2
  <2>4. Min(I) \in I /\ \A j \in I : Min(I) =< j BY <1>3, <2>3 DEF Min
  <2>6. Min(I) \in Nat BY <1>1, <2>4
  <2>5. \A i \in 1..(Min(I) - 1) : ~ (Min(I) =< i) BY <2>6
  <2> QED BY <1>3, <2>4, <2>5
<1> QED BY <1>2, <1>3

LEMMA FirstPlace ==
  ASSUME NEW C, NEW text \in Seq(C), NEW marks
  PROVE  IsFirst(Place(text, marks), text, marks)
<1> DEFINE I == {i \in 1..Len(text) : text[i] \in marks}
           p == Place(text, marks)
<1>1. p = IF I # {} THEN Min(I) ELSE 0 BY DEF Place, SelectInSeq
<1>2. I \in SUBSET (1..Len(text)) OBVIOUS
<1>3. Len(text) \in Nat OBVIOUS
<1> HIDE DEF p, I
<1>4. \/ I = {} /\ (IF I # {} THEN Min(I) ELSE 0) = 0
      \/ I # {} /\ Min(I) \in I /\ \A i \in 1..(Min(I) - 1) : i \notin I BY <1>2, FirstOf
<1>5. CASE I = {}
  <2>1. \A i \in 1..Len(text) : text[i] \notin marks BY <1>5 DEF I
  <2> QED BY <1>1, <1>5, <2>1 DEF IsFirst, p
<1>6. CASE I # {}
  <2>1. p \in I /\ \A i \in 1..(p - 1) : i \notin I BY <1>1, <1>4, <1>6
  <2>2. p \in 1..Len(text) /\ text[p] \in marks BY <2>1 DEF I
  <2>3. \A i \in 1..(p - 1) : i \in 1..Len(text) BY <1>3, <2>2
  <2>4. \A i \in 1..(p - 1) : text[i] \notin marks BY <2>1, <2>3 DEF I
  <2> QED BY <2>2, <2>4 DEF IsFirst, p
<1> QED BY <1>5, <1>6
(* What is trimmed on the left are the marks before anything else.          *)
LEMMA LeftTrimmed ==
  ASSUME NEW C, NEW text \in Seq(C), NEW c, NEW k \in 1..Len(text), text[k] # c, \A i \in 1..(k - 1) : text[i] = c
  PROVE  TrimmedLeft(text, c) = SubSeq(text, k, Len(text))
<1> DEFINE marks == ToSet(text) \ {c}
           p == Place(text, marks)
<1>1. IsFirst(p, text, marks) BY FirstPlace
<1>2. \A i \in 1..Len(text) : text[i] \in marks <=> text[i] # c BY DEF ToSet
<1>3. TrimmedLeft(text, c) = IF p = 0 THEN << >> ELSE SubSeq(text, p, Len(text)) BY DEF TrimmedLeft
<1>4. Len(text) \in Nat OBVIOUS
<1> HIDE DEF marks, p
<1>5. p \in 1..Len(text) /\ text[p] # c /\ \A i \in 1..(p - 1) : text[i] \notin marks BY <1>1, <1>2 DEF IsFirst
<1>6. ~ (p \in 1..(k - 1)) BY <1>5
<1>7. ~ (k \in 1..(p - 1)) BY <1>2, <1>5
<1>8. p = k BY <1>4, <1>5, <1>6, <1>7
<1> QED BY <1>3, <1>5, <1>8
-----------------------------------------------------------------------------
(* HttpMessages: a signed cookie is genuine.                                *)

(* The pieces of cookies are those of C; the rest is the signature's.       *)
IsCookie(cookie, C) ==
  /\ cookie.value \in Seq(C) /\ cookie.forged \in Seq(C)
  /\ "mac" \notin C /\ cookie.key \notin {"semicolon", "mac"}

(* What is signed, piece by piece.                                          *)
SignedAs(s, m, value, key) ==
  /\ Len(s) = m + m + 3
  /\ \A i \in 1..m : s[i] = value[i] /\ s[m + 3 + i] = value[i]
  /\ s[m + 1] = "." /\ s[m + 2] = "mac" /\ s[m + 3] = key
  /\ SubSeq(s, m + 2, m + m + 3) = Signature(value, key)
  /\ SubSeq(s, 1, m) = value

LEMMA SignedPieces ==
  ASSUME NEW C, NEW D, C \subseteq D, NEW value \in Seq(C), NEW key \in D, "." \in D, "mac" \in D
  PROVE  Signed(value, key) \in Seq(D) /\ SignedAs(Signed(value, key), Len(value), value, key)
<1> DEFINE m == Len(value)
           two == <<"mac", key>>
           dot == <<".">>
           t == value \o dot
           u == two \o value
           s == t \o u
<1>1. two \in Seq(D) /\ Len(two) = 2 /\ two[1] = "mac" /\ two[2] = key OBVIOUS
<1>2. dot \in Seq(D) /\ Len(dot) = 1 /\ dot[1] = "." OBVIOUS
<1>3. value \in Seq(D) /\ m \in Nat /\ Len(value) = m OBVIOUS
<1>4. Signed(value, key) = s /\ Signature(value, key) = u BY DEF Signed, Signature
<1> HIDE DEF m, two, dot, s, t, u
<1>5. t \in Seq(D) /\ Len(t) = m + 1 /\ t[m + 1] = "." /\ \A i \in 1..m : t[i] = value[i]
  <2>1. value \o dot \in Seq(D) /\ Len(value \o dot) = m + 1
        /\ \A i \in 1..(m + 1) : (value \o dot)[i] = IF i <= m THEN value[i] ELSE dot[i - m]
    <3>1. value \in Seq(D) /\ dot \in Seq(D) BY <1>2, <1>3
    <3>2. value \o dot \in Seq(D) /\ Len(value \o dot) = Len(value) + Len(dot)
          /\ \A i \in 1..(Len(value) + Len(dot)) : (value \o dot)[i] = IF i <= Len(value) THEN value[i] ELSE dot[i - Len(value)]
      BY <3>1, ConcatProperties
    <3> QED BY <1>2, <1>3, <3>2
  <2>2. m + 1 \in 1..(m + 1) /\ ~ (m + 1 <= m) /\ (m + 1) - m = 1 /\ \A i \in 1..m : i \in 1..(m + 1) /\ i <= m BY <1>3
  <2> QED BY <1>2, <2>1, <2>2 DEF t
<1>6. u \in Seq(D) /\ Len(u) = m + 2 /\ u[1] = "mac" /\ u[2] = key /\ \A i \in 1..m : u[2 + i] = value[i]
  <2>1. two \o value \in Seq(D) /\ Len(two \o value) = 2 + m
        /\ \A i \in 1..(2 + m) : (two \o value)[i] = IF i <= 2 THEN two[i] ELSE value[i - 2]
    <3>1. two \in Seq(D) /\ value \in Seq(D) BY <1>1, <1>3
    <3>2. two \o value \in Seq(D) /\ Len(two \o value) = Len(two) + Len(value)
          /\ \A i \in 1..(Len(two) + Len(value)) : (two \o value)[i] = IF i <= Len(two) THEN two[i] ELSE value[i - Len(two)]
      BY <3>1, ConcatProperties
    <3> QED BY <1>1, <1>3, <3>2
  <2>2. 1 \in 1..(2 + m) /\ 2 \in 1..(2 + m) /\ \A i \in 1..m : 2 + i \in 1..(2 + m) /\ ~ (2 + i <= 2) /\ (2 + i) - 2 = i BY <1>3
  <2> QED BY <1>1, <1>3, <2>1, <2>2 DEF u
<1>7. s \in Seq(D) /\ Len(s) = m + m + 3
      /\ \A i \in 1..(m + m + 3) : s[i] = IF i <= m + 1 THEN t[i] ELSE u[i - (m + 1)]
  <2>1. t \o u \in Seq(D) /\ Len(t \o u) = (m + 1) + (m + 2)
        /\ \A i \in 1..((m + 1) + (m + 2)) : (t \o u)[i] = IF i <= m + 1 THEN t[i] ELSE u[i - (m + 1)]
    <3>1. t \in Seq(D) /\ u \in Seq(D) BY <1>5, <1>6
    <3>2. Len(t) = m + 1 /\ Len(u) = m + 2 BY <1>5, <1>6
    <3>3. t \o u \in Seq(D) /\ Len(t \o u) = Len(t) + Len(u)
          /\ \A i \in 1..(Len(t) + Len(u)) : (t \o u)[i] = IF i <= Len(t) THEN t[i] ELSE u[i - Len(t)]
      BY <3>1, ConcatProperties
    <3> QED BY <3>2, <3>3
  <2> QED BY <1>3, <2>1 DEF s
<1>8. \A i \in 1..m : s[i] = value[i] /\ s[m + 3 + i] = value[i]
  <2>1. \A i \in 1..m : i \in 1..(m + m + 3) /\ i <= m + 1 /\ m + 3 + i \in 1..(m + m + 3)
                        /\ ~ (m + 3 + i <= m + 1) /\ (m + 3 + i) - (m + 1) = 2 + i BY <1>3
  <2>2. \A i \in 1..m : s[i] = t[i] /\ s[m + 3 + i] = u[2 + i] BY <1>7, <2>1
  <2> QED BY <1>5, <1>6, <2>2
<1>9. s[m + 1] = "." /\ s[m + 2] = "mac" /\ s[m + 3] = key
  <2>1. m + 1 \in 1..(m + m + 3) /\ m + 2 \in 1..(m + m + 3) /\ m + 3 \in 1..(m + m + 3)
        /\ m + 1 <= m + 1 /\ ~ (m + 2 <= m + 1) /\ ~ (m + 3 <= m + 1) /\ (m + 2) - (m + 1) = 1 /\ (m + 3) - (m + 1) = 2
    BY <1>3
  <2> QED BY <1>5, <1>6, <1>7, <2>1
<1>10. SubSeq(s, m + 2, m + m + 3) = u
  <2> DEFINE w == SubSeq(s, m + 2, m + m + 3)
  <2>1. w \in Seq(D) /\ Len(w) = m + 2 /\ \A i \in 1..(m + 2) : w[i] = s[(m + 2) + i - 1]
    <3>1. m + 2 \in Int /\ m + m + 3 \in Int /\ m + 2 <= m + m + 3 /\ (m + m + 3) - (m + 2) + 1 = m + 2 BY <1>3
    <3>2. \A i \in (m + 2)..(m + m + 3) : i \in 1..(m + m + 3) /\ s[i] \in D BY <1>3, <1>7
    <3> HIDE DEF s
    <3> QED BY <3>1, <3>2, SubSeqProperties
  <2> HIDE DEF w
  <2>2. \A i \in 1..(m + 2) : (m + 2) + i - 1 \in 1..(m + m + 3) /\ ~ ((m + 2) + i - 1 <= m + 1)
                              /\ ((m + 2) + i - 1) - (m + 1) = i BY <1>3
  <2>3. \A i \in 1..(m + 2) : w[i] = u[i] BY <1>7, <2>1, <2>2
  <2>4. u \in Seq(D) /\ Len(u) = m + 2 BY <1>6
  <2>5. w = u BY <2>1, <2>3, <2>4
  <2> QED BY <2>5 DEF w
<1>11. SubSeq(s, 1, m) = value
  <2>1. Len(SubSeq(s, 1, m)) = m /\ SubSeq(s, 1, m) \in Seq(D) /\ \A i \in 1..m : SubSeq(s, 1, m)[i] = s[i]
    BY <1>3, <1>7
  <2> QED BY <1>3, <1>8, <2>1
<1>12. SignedAs(s, m, value, key) BY <1>4, <1>7, <1>8, <1>9, <1>10, <1>11 DEF SignedAs
<1> QED BY <1>4, <1>7, <1>12 DEF m

(* Of what was signed only one piece is "mac".                              *)
LEMMA OneMac ==
  ASSUME NEW C, NEW value \in Seq(C), NEW key, "mac" \notin C, key # "mac", NEW s, SignedAs(s, Len(value), value, key)
  PROVE  \A i \in 1..Len(s) : s[i] = "mac" => i = Len(value) + 2
<1> DEFINE m == Len(value)
<1>1. m \in Nat /\ \A j \in 1..m : value[j] \in C OBVIOUS
<1>2. \A j \in 1..m : value[j] # "mac" BY <1>1
<1> HIDE DEF m
<1>3. SignedAs(s, m, value, key) BY DEF m
<1>4. Len(s) = m + m + 3 /\ \A j \in 1..m : s[j] # "mac" /\ s[m + 3 + j] # "mac" BY <1>2, <1>3 DEF SignedAs
<1>5. s[m + 1] # "mac" /\ s[m + 3] # "mac" BY <1>3 DEF SignedAs
<1>6. ASSUME NEW i \in 1..Len(s), s[i] = "mac", i # m + 2 PROVE FALSE
  <2>1. i \in 1..m \/ i = m + 1 \/ i = m + 3 \/ i > m + 3 BY <1>1, <1>4, <1>6
  <2>2. i > m + 3 => i - (m + 3) \in 1..m /\ m + 3 + (i - (m + 3)) = i BY <1>1, <1>4
  <2> QED BY <1>4, <1>5, <1>6, <2>1, <2>2
<1> QED BY <1>6 DEF m

(* What is read has a signature after its first dot.                        *)
ReadAt(q, holder, d) ==
  /\ GetSigned(q, holder) = {SubSeq(q, 1, d - 1)}
  /\ d \in 1..Len(q) /\ Len(q) = d + d + 1
  /\ q[d + 1] = "mac" /\ \A i \in 1..(d - 1) : q[d + 2 + i] = q[i]

LEMMA ReadParts ==
  ASSUME NEW D, NEW q \in Seq(D), NEW holder
  PROVE  GetSigned(q, holder) = {} \/ \E d \in 1..Len(q) : ReadAt(q, holder, d)
<1> DEFINE d == Place(q, {"."})
           v == SubSeq(q, 1, d - 1)
           r == SubSeq(q, d + 1, Len(q))
           E == D \cup {"mac", holder}
           two == <<"mac", holder>>
<1>1. CASE ~ (d # 0 /\ r = Signature(v, holder)) BY <1>1 DEF GetSigned
<1>2. CASE d # 0 /\ r = Signature(v, holder)
  <2>1. IsFirst(d, q, {"."}) BY FirstPlace
  <2>2. GetSigned(q, holder) = {v} BY <1>2 DEF GetSigned
  <2>3. two \in Seq(E) /\ Len(two) = 2 /\ two[1] = "mac" OBVIOUS
  <2>4. \A i \in 1..Len(q) : q[i] \in E OBVIOUS
  <2>5. D \subseteq E /\ Len(q) \in Nat OBVIOUS
  <2>6. r = two \o v BY <1>2 DEF Signature
  <2>7. d \in 1..Len(q) BY <1>2, <2>1 DEF IsFirst
  <2> HIDE DEF d, E, two
  <2>8. v \in Seq(E) /\ Len(v) = d - 1 /\ \A i \in 1..(d - 1) : v[i] = q[i]
    <3>1. 1 \in Int /\ d - 1 \in Int /\ (d - 1) - 1 + 1 = d - 1 /\ (IF 1 <= d - 1 THEN (d - 1) - 1 + 1 ELSE 0) = d - 1
          /\ \A i \in 1..(d - 1) : i \in 1..Len(q) /\ 1 + i - 1 = i BY <2>5, <2>7
    <3>2. \A i \in 1..(d - 1) : q[i] \in E BY <2>4, <3>1
    <3>3. /\ v \in Seq(E)
          /\ Len(v) = IF 1 <= d - 1 THEN (d - 1) - 1 + 1 ELSE 0
          /\ \A i \in 1..((d - 1) - 1 + 1) : v[i] = q[1 + i - 1]
      BY <3>1, <3>2, SubSeqProperties
    <3> HIDE DEF v
    <3> QED BY <3>1, <3>3
  <2>9. Len(r) = Len(q) - d /\ \A i \in 1..(Len(q) - d) : r[i] = q[d + i]
    <3>1. d + 1 \in Int /\ Len(q) \in Int /\ Len(q) - (d + 1) + 1 = Len(q) - d
          /\ (IF d + 1 <= Len(q) THEN Len(q) - (d + 1) + 1 ELSE 0) = Len(q) - d
          /\ (\A i \in (d + 1)..Len(q) : i \in 1..Len(q)) /\ \A i \in 1..(Len(q) - d) : (d + 1) + i - 1 = d + i BY <2>5, <2>7
    <3>2. \A i \in (d + 1)..Len(q) : q[i] \in E BY <2>4, <3>1
    <3>3. /\ Len(r) = IF d + 1 <= Len(q) THEN Len(q) - (d + 1) + 1 ELSE 0
          /\ \A i \in 1..(Len(q) - (d + 1) + 1) : r[i] = q[(d + 1) + i - 1]
      BY <3>1, <3>2, SubSeqProperties
    <3> HIDE DEF r
    <3> QED BY <3>1, <3>3
  <2> HIDE DEF v, r
  <2>10. Len(two \o v) = Len(two) + Len(v)
         /\ \A i \in 1..(Len(two) + Len(v)) : (two \o v)[i] = IF i <= Len(two) THEN two[i] ELSE v[i - Len(two)]
    <3>1. two \in Seq(E) /\ v \in Seq(E) BY <2>3, <2>8
    <3> QED BY <3>1, ConcatProperties
  <2>11. Len(r) = d + 1 /\ \A i \in 1..(d + 1) : r[i] = IF i <= 2 THEN two[i] ELSE v[i - 2]
    <3>1. Len(two) + Len(v) = d + 1 BY <2>3, <2>7, <2>8
    <3> QED BY <2>3, <2>6, <2>10, <3>1
  <2>12. Len(q) = d + d + 1 /\ Len(q) - d = d + 1
    <3>1. Len(r) = Len(q) - d BY <2>9
    <3>2. Len(r) = d + 1 BY <2>11
    <3>3. d \in Int /\ Len(q) \in Int BY <2>5, <2>7
    <3> HIDE DEF r
    <3> QED BY <3>1, <3>2, <3>3
  <2>13. q[d + 1] = "mac"
    <3>1. 1 \in 1..(d + 1) /\ 1 <= 2 BY <2>7
    <3> QED BY <2>3, <2>9, <2>11, <2>12, <3>1
  <2>14. ASSUME NEW i \in 1..(d - 1) PROVE q[d + 2 + i] = q[i]
    <3>1. 2 + i \in 1..(d + 1) /\ ~ (2 + i <= 2) /\ (2 + i) - 2 = i /\ d + (2 + i) = d + 2 + i BY <2>7
    <3>2. r[2 + i] = q[d + (2 + i)] BY <2>9, <2>12, <3>1
    <3>3. r[2 + i] = v[i] BY <2>11, <3>1
    <3> QED BY <2>8, <3>1, <3>2, <3>3
  <2>15. ReadAt(q, holder, d) BY <2>2, <2>7, <2>12, <2>13, <2>14 DEF ReadAt, v
  <2> QED BY <2>7, <2>15
<1> QED BY <1>1, <1>2

(* What a jar takes from what is shown to it is a part of it, which begins  *)
(* where there is no blank and ends where it ends or at a semicolon.        *)
IsTaken(w, text, k, j) ==
  /\ k \in Nat /\ j \in Nat /\ j =< Len(text) /\ k =< j
  /\ Len(w) = j - k /\ \A i \in 1..(j - k) : w[i] = text[k + i]
  /\ j < Len(text) => text[j + 1] = "semicolon"

LEMMA JarTakes ==
  ASSUME NEW D, NEW text \in Seq(D)
  PROVE  Incoming(text) \in Seq(D) /\ \E k \in Nat : \E j \in Nat : IsTaken(Incoming(text), text, k, j)
<1> DEFINE pair == Pair(text)
           marks == ToSet(pair) \ {"blank"}
           first == Place(pair, marks)
           w == Incoming(text)
<1>0. Len(text) \in Nat OBVIOUS
<1>1. PICK j \in 0..Len(text) : pair = SubSeq(text, 1, j) /\ (j < Len(text) => text[j + 1] = "semicolon")
  BY CutFirst DEF Pair
<1>2. j \in Nat /\ j =< Len(text) /\ \A i \in 1..j : text[i] \in D BY <1>0, <1>1
<1>3. pair \in Seq(D) /\ Len(pair) = j /\ \A i \in 1..j : pair[i] = text[i] BY <1>1, <1>2, BeginningOf
<1>4. w = IF first = 0 THEN << >> ELSE SubSeq(pair, first, Len(pair)) BY DEF Incoming, TrimmedLeft
<1> HIDE DEF pair, marks, w
<1>5. IsFirst(first, pair, marks) BY <1>3, FirstPlace
<1> HIDE DEF first
<1>6. CASE first = 0
  <2>1. w = << >> BY <1>4, <1>6
  <2>2. w \in Seq(D) /\ Len(w) = 0 BY <2>1
  <2>3. j - j = 0 /\ j =< j /\ 1..(j - j) = {} BY <1>2
  <2>4. IsTaken(w, text, j, j) BY <1>1, <1>2, <2>2, <2>3 DEF IsTaken
  <2> QED BY <1>2, <2>2, <2>4 DEF w
<1>7. CASE first # 0
  <2>1. first \in 1..j BY <1>3, <1>5, <1>7 DEF IsFirst
  <2> DEFINE k == first - 1
  <2>2. k \in Nat /\ k =< j /\ first = k + 1 /\ first =< j BY <1>2, <2>1
  <2> HIDE DEF k
  <2>3. w = SubSeq(pair, k + 1, j) BY <1>3, <1>4, <1>7, <2>2
  <2>4. /\ k + 1 \in Int /\ j \in Int /\ k + 1 =< j /\ j - (k + 1) + 1 = j - k
        /\ (\A i \in (k + 1)..j : i \in 1..j) /\ \A i \in 1..(j - k) : (k + 1) + i - 1 = k + i /\ k + i \in 1..j
    BY <1>2, <2>2
  <2>5. \A i \in (k + 1)..j : pair[i] \in D BY <1>2, <1>3, <2>4
  <2>6. /\ SubSeq(pair, k + 1, j) \in Seq(D)
        /\ Len(SubSeq(pair, k + 1, j)) = IF k + 1 <= j THEN j - (k + 1) + 1 ELSE 0
        /\ \A i \in 1..(j - (k + 1) + 1) : SubSeq(pair, k + 1, j)[i] = pair[(k + 1) + i - 1]
    BY <2>4, <2>5, SubSeqProperties
  <2>7. w \in Seq(D) /\ Len(w) = j - k /\ \A i \in 1..(j - k) : w[i] = pair[k + i] BY <2>3, <2>4, <2>6
  <2>8. \A i \in 1..(j - k) : w[i] = text[k + i] BY <1>3, <2>4, <2>7
  <2>9. IsTaken(w, text, k, j) BY <1>1, <1>2, <2>2, <2>7, <2>8 DEF IsTaken
  <2> QED BY <1>2, <2>2, <2>7, <2>9 DEF w
<1> QED BY <1>6, <1>7

(* What is shown of it reads as the value, or not at all.                   *)
IsShown(C, value, key, forged, p, posted, shown) ==
  /\ value \in Seq(C) /\ forged \in Seq(C) /\ "mac" \notin C /\ key # "mac" /\ key # "semicolon"
  /\ p \in 0..Len(Signed(value, key)) /\ posted = SubSeq(Signed(value, key), 1, p)
  /\ p < Len(Signed(value, key)) => Signed(value, key)[p + 1] = "semicolon"
  /\ \A i \in 1..p : Signed(value, key)[i] # "semicolon"
  /\ shown = forged \o SubSeq(posted, Len(forged) + 1, Len(posted))

LEMMA ShownReads ==
  ASSUME NEW C, NEW value, NEW key, NEW forged, NEW p, NEW posted, NEW shown, NEW holder,
         IsShown(C, value, key, forged, p, posted, shown)
  PROVE  GetSigned(Incoming(shown), holder) \subseteq {value}
<1> DEFINE D == C \cup {".", "mac", key}
           s == Signed(value, key)
           m == Len(value)
           f == Len(forged)
           rest == SubSeq(posted, f + 1, p)
           w == Incoming(shown)
<1>0. /\ value \in Seq(C) /\ forged \in Seq(C) /\ "mac" \notin C /\ key # "mac" /\ key # "semicolon"
      /\ p \in 0..Len(s) /\ posted = SubSeq(s, 1, p) /\ shown = forged \o SubSeq(posted, f + 1, Len(posted))
      /\ p < Len(s) => s[p + 1] = "semicolon"
      /\ \A i \in 1..p : s[i] # "semicolon" BY DEF IsShown
<1>1. s \in Seq(D) /\ SignedAs(s, m, value, key)
  <2>1. C \subseteq D /\ key \in D /\ "." \in D /\ "mac" \in D OBVIOUS
  <2> HIDE DEF D
  <2> QED BY <1>0, <2>1, SignedPieces
<1>2. m \in Nat /\ f \in Nat /\ \A i \in 1..f : forged[i] \in C BY <1>0
<1>3. forged \in Seq(D) BY <1>0
<1> HIDE DEF D, s, m, f
<1>4. Len(s) = m + m + 3 /\ \A i \in 1..m : s[m + 3 + i] = value[i] BY <1>1 DEF SignedAs
<1>5. \A i \in 1..Len(s) : s[i] = "mac" => i = m + 2 BY <1>0, <1>1, OneMac DEF m
<1>6. p \in 0..Len(s) /\ p \in Nat /\ posted = SubSeq(s, 1, p) BY <1>0, <1>2, <1>4
<1>7. posted \in Seq(D) /\ Len(posted) = p /\ \A i \in 1..p : posted[i] = s[i]
  <2>1. \A i \in 1..p : i \in 1..Len(s) /\ s[i] \in D /\ 1 + i - 1 = i BY <1>1, <1>2, <1>4, <1>6
  <2>2. 1 \in Int /\ p \in Int /\ p - 1 + 1 = p /\ (IF 1 <= p THEN p - 1 + 1 ELSE 0) = p BY <1>6
  <2> HIDE DEF s
  <2>3. /\ SubSeq(s, 1, p) \in Seq(D)
        /\ Len(SubSeq(s, 1, p)) = IF 1 <= p THEN p - 1 + 1 ELSE 0
        /\ \A i \in 1..(p - 1 + 1) : SubSeq(s, 1, p)[i] = s[1 + i - 1]
    BY <2>1, <2>2, SubSeqProperties
  <2> QED BY <1>6, <2>1, <2>2, <2>3
<1>8. shown = forged \o rest BY <1>0, <1>7
<1> HIDE DEF rest
<1>20. forged \in Seq(D) /\ rest \in Seq(D)
  <2>1. CASE f >= p
    <3>1. p \in Int /\ f + 1 \in Int /\ p < f + 1 BY <1>2, <1>6, <2>1
    <3>2. rest = << >> BY <3>1, SubSeqEmpty DEF rest
    <3> QED BY <1>3, <3>2
  <2>2. CASE f < p
    <3>1. f + 1 \in Int /\ p \in Int /\ \A i \in (f + 1)..p : i \in 1..p BY <1>2, <1>6, <2>2
    <3>2. \A i \in (f + 1)..p : posted[i] \in D BY <1>7, <3>1
    <3> QED BY <1>3, <3>1, <3>2, SubSeqProperties DEF rest
  <2> QED BY <1>2, <1>6, <2>1, <2>2
<1>21. shown \in Seq(D) BY <1>8, <1>20
<1>22. w \in Seq(D) BY <1>21, JarTakes
<1>23. PICK k \in Nat : \E j \in Nat : IsTaken(w, shown, k, j) BY <1>21, JarTakes
<1>24. PICK j \in Nat : IsTaken(w, shown, k, j) BY <1>23
<1>25. /\ j =< Len(shown) /\ k =< j /\ Len(w) = j - k /\ \A i \in 1..(j - k) : w[i] = shown[k + i]
       /\ j < Len(shown) => shown[j + 1] = "semicolon" BY <1>24 DEF IsTaken
<1> HIDE DEF w
<1>9. CASE f >= p
  <2>1. rest = << >>
    <3>1. p \in Int /\ f + 1 \in Int /\ p < f + 1 BY <1>2, <1>6, <1>9
    <3> QED BY <3>1, SubSeqEmpty DEF rest
  <2>2. shown = forged /\ Len(forged) = f BY <1>8, <2>1 DEF f
  <2>3. ASSUME NEW d \in 1..Len(w), ReadAt(w, holder, d) PROVE FALSE
    <3>1. Len(w) = d + d + 1 /\ w[d + 1] = "mac" BY <2>3 DEF ReadAt
    <3>2. d + 1 \in 1..(j - k) /\ k + (d + 1) \in 1..f BY <1>2, <1>25, <2>2, <3>1
    <3>3. shown[k + (d + 1)] = "mac" BY <1>25, <3>1, <3>2
    <3> QED BY <1>0, <1>2, <2>2, <3>2, <3>3
  <2>4. GetSigned(w, holder) = {} BY <1>22, <2>3, ReadParts
  <2> QED BY <2>4 DEF w
<1>10. CASE f < p
  <2>1. rest \in Seq(D) /\ Len(rest) = p - f /\ \A i \in 1..(p - f) : rest[i] = s[f + i]
    <3>1. f + 1 \in Int /\ p \in Int /\ p - (f + 1) + 1 = p - f /\ f + 1 <= p
          /\ (\A i \in (f + 1)..p : i \in 1..p /\ i \in 1..Len(posted))
          /\ \A i \in 1..(p - f) : (f + 1) + i - 1 = f + i /\ f + i \in 1..p BY <1>2, <1>6, <1>7, <1>10
    <3>2. \A i \in (f + 1)..p : posted[i] \in D BY <1>7, <3>1
    <3>3. /\ rest \in Seq(D)
          /\ Len(rest) = IF f + 1 <= p THEN p - (f + 1) + 1 ELSE 0
          /\ \A i \in 1..(p - (f + 1) + 1) : rest[i] = posted[(f + 1) + i - 1]
      BY <3>1, <3>2, SubSeqProperties DEF rest
    <3> QED BY <1>7, <3>1, <3>3
  <2>2. forged \in Seq(D) /\ rest \in Seq(D) BY <1>3, <2>1
  <2>3. forged \o rest \in Seq(D) /\ Len(forged \o rest) = Len(forged) + Len(rest)
        /\ \A i \in 1..(Len(forged) + Len(rest)) :
             (forged \o rest)[i] = IF i <= Len(forged) THEN forged[i] ELSE rest[i - Len(forged)]
    BY <2>2, ConcatProperties
  <2>4. Len(forged) = f /\ Len(forged) + Len(rest) = p BY <1>2, <1>6, <2>1 DEF f
  <2>5. shown \in Seq(D) /\ Len(shown) = p
        /\ \A i \in 1..p : shown[i] = IF i <= f THEN forged[i] ELSE rest[i - f] BY <1>8, <2>3, <2>4
  <2>6. ASSUME NEW i \in 1..p, i > f PROVE shown[i] = s[i]
    <3>1. ~ (i <= f) /\ i - f \in 1..(p - f) /\ f + (i - f) = i BY <1>2, <1>6, <2>6
    <3> QED BY <2>1, <2>5, <3>1
  <2>7. ASSUME NEW d \in 1..Len(w), ReadAt(w, holder, d) PROVE GetSigned(w, holder) = {value}
    <3>1. j - k = d + d + 1 /\ d \in Nat /\ d + 1 \in 1..(j - k) BY <1>25, <2>7 DEF ReadAt
    <3>2. w[d + 1] = "mac" BY <2>7 DEF ReadAt
    <3> DEFINE e == k + (d + 1)
    <3>14. e \in 1..p /\ e =< j /\ shown[e] = "mac" BY <1>6, <1>25, <2>5, <3>1, <3>2
    <3>15. e = k + d + 1 BY <3>1
    <3> HIDE DEF e
    <3>3. e > f
      <4>1. e <= f => e \in 1..f BY <1>2, <3>14
      <4>2. e <= f => shown[e] \in C BY <1>2, <2>5, <3>14, <4>1
      <4>3. ~ (e <= f) BY <1>0, <3>14, <4>2
      <4> QED BY <1>2, <3>14, <4>3
    <3>4. s[e] = "mac" /\ e \in 1..Len(s) BY <1>2, <1>6, <2>6, <3>3, <3>14
    <3>16. e = m + 2 BY <1>5, <3>4
    <3>17. p = Len(s)
      <4>1. SUFFICES ASSUME p < Len(s) PROVE FALSE BY <1>4, <1>2, <1>6
      <4>2. s[p + 1] = "semicolon" /\ p + 1 \in 1..Len(s) BY <1>0, <1>2, <1>4, <1>6, <4>1
      <4>3. p + 1 # m + 3 BY <1>0, <1>1, <4>2 DEF SignedAs
      <4>4. p + 1 > m + 3 BY <1>2, <1>6, <3>14, <3>16, <4>3
      <4> DEFINE i == p + 1 - (m + 3)
      <4>5. i \in 1..m /\ i \in 1..p /\ m + 3 + i = p + 1 BY <1>2, <1>4, <1>6, <4>2, <4>4
      <4>6. s[i] = value[i] /\ s[m + 3 + i] = value[i] BY <1>1, <4>5 DEF SignedAs
      <4> HIDE DEF i
      <4>7. s[i] = "semicolon" BY <4>2, <4>5, <4>6
      <4> QED BY <1>0, <4>5, <4>7
    <3>18. j = p
      <4>1. SUFFICES ASSUME j < p PROVE FALSE BY <1>6, <1>25, <2>5
      <4>2. j + 1 \in 1..p /\ j + 1 > f BY <1>2, <1>6, <3>3, <3>14, <4>1
      <4>3. shown[j + 1] = "semicolon" /\ shown[j + 1] = s[j + 1] BY <1>25, <2>5, <2>6, <4>1, <4>2
      <4> QED BY <1>0, <4>2, <4>3
    <3>19. p = m + m + 3 BY <1>4, <3>17
    <3>20. k = 0 /\ d = m + 1 BY <1>2, <3>1, <3>15, <3>16, <3>18, <3>19
    <3>5. d = m + 1 BY <3>20
    <3>21. Len(w) = p /\ \A i \in 1..p : w[i] = shown[i]
      <4>1. \A i \in 1..p : k + i = i BY <1>6, <3>20
      <4>2. j - k = p BY <1>6, <3>18, <3>20
      <4> QED BY <1>25, <4>1, <4>2
    <3>22. m + 2 > f /\ p = d + d + 1 BY <3>3, <3>16, <3>19, <3>20, <1>2
    <3>6. \A i \in 1..m : shown[m + 3 + i] = value[i]
      <4>1. \A i \in 1..m : m + 3 + i \in 1..p /\ m + 3 + i > f BY <1>2, <3>19, <3>22
      <4> QED BY <1>4, <2>6, <4>1
    <3>7. \A i \in 1..m : shown[i] = value[i]
      <4>1. d - 1 = m /\ d + 2 = m + 3 BY <1>2, <3>5
      <4>3. \A i \in 1..m : w[m + 3 + i] = w[i] BY <2>7, <4>1 DEF ReadAt
      <4>4. \A i \in 1..m : i \in 1..p /\ m + 3 + i \in 1..p BY <1>2, <3>19
      <4>2. \A i \in 1..m : shown[m + 3 + i] = shown[i] BY <3>21, <4>3, <4>4
      <4> QED BY <3>6, <4>2
    <3> DEFINE v == SubSeq(w, 1, d - 1)
    <3>8. v \in Seq(D) /\ Len(v) = m /\ \A i \in 1..m : v[i] = shown[i]
      <4>1. d - 1 = m /\ \A i \in 1..m : i \in 1..p BY <1>2, <3>19, <3>5
      <4>2. \A i \in 1..m : w[i] \in D BY <1>22, <3>21, <4>1
      <4>3. v \in Seq(D) /\ Len(v) = m /\ \A i \in 1..m : v[i] = w[i] BY <1>2, <4>1, <4>2, BeginningOf
      <4> QED BY <3>21, <4>1, <4>3
    <3> HIDE DEF v
    <3>9. Len(value) = m /\ value \in Seq(C) BY <1>0 DEF m
    <3>10. \A i \in 1..m : v[i] = value[i] BY <3>7, <3>8
    <3>11. v = [i \in 1..m |-> v[i]] BY <3>8
    <3>12. value = [i \in 1..m |-> value[i]] BY <3>9
    <3>13. v = value BY <3>10, <3>11, <3>12
    <3> QED BY <2>7, <3>13 DEF ReadAt, v
  <2>8. GetSigned(w, holder) \subseteq {value} BY <1>22, <2>7, ReadParts
  <2> QED BY <2>8 DEF w
<1> QED BY <1>2, <1>6, <1>9, <1>10

(* What comes back as it was set reads as it was set.                       *)
LEMMA UnchangedReads ==
  ASSUME NEW C, NEW value \in Seq(C), NEW key, key # "semicolon", "mac" \notin C,
         Readable(value)
  PROVE  GetSigned(Incoming(Pair(Signed(value, key))), key) = {value}
<1> DEFINE m == Len(value)
           s == Signed(value, key)
           E == (C \ {".", "semicolon"}) \cup {".", "mac", key}
           B == C \ {".", "semicolon"}
<1>1. m \in Nat /\ \A i \in 1..m : value[i] \in C OBVIOUS
<1>2. \A i \in 1..m : value[i] # "." /\ value[i] # "semicolon" BY HasOne DEF Readable
<1>3. value \in Seq(B)
  <2>1. value = [i \in 1..m |-> value[i]] OBVIOUS
  <2>2. value \in [1..m -> B] BY <1>1, <1>2, <2>1
  <2> HIDE DEF m, B
  <2> QED BY <1>1, <2>2
<1>4. s \in Seq(E) /\ SignedAs(s, m, value, key)
  <2>1. B \subseteq E /\ key \in E /\ "." \in E /\ "mac" \in E OBVIOUS
  <2> HIDE DEF E, B
  <2> QED BY <1>3, <2>1, SignedPieces
<1> HIDE DEF m, s
<1>14. Pair(s) = s
  <2>1. E \ {"semicolon"} = E OBVIOUS
  <2> DEFINE one == <<s>>
  <2>2. one[1] = s OBVIOUS
  <2> HIDE DEF E
  <2>3. Split(s, "semicolon") = one BY <1>4, <2>1, CutWhole
  <2> HIDE DEF one
  <2> QED BY <2>2, <2>3 DEF Pair
<1>5. Incoming(Pair(s)) = s
  <2>1. 1 \in 1..Len(s) /\ s[1] # "blank"
    <3>1. CASE m = 0
      <4>1. Len(s) = 3 /\ s[1] = "." BY <1>4, <3>1 DEF SignedAs
      <4> QED BY <4>1
    <3>2. CASE m # 0
      <4>1. Len(s) = m + m + 3 /\ 1 \in 1..m /\ s[1] = value[1] BY <1>1, <1>4, <3>2 DEF SignedAs
      <4>2. value # << >> BY <3>2 DEF m
      <4>3. value[1] # "blank" BY <4>2 DEF Readable
      <4> QED BY <1>1, <4>1, <4>3
    <3> QED BY <3>1, <3>2
  <2>2. TrimmedLeft(s, "blank") = SubSeq(s, 1, Len(s))
    <3>1. \A i \in 1..(1 - 1) : s[i] = "blank" OBVIOUS
    <3> QED BY <1>4, <2>1, <3>1, LeftTrimmed
  <2>3. SubSeq(s, 1, Len(s)) = s BY <1>4
  <2> QED BY <1>14, <2>2, <2>3 DEF Incoming
<1>6. Len(s) = m + m + 3 /\ s[m + 1] = "." /\ SubSeq(s, 1, m) = value /\ SubSeq(s, m + 2, m + m + 3) = Signature(value, key)
      /\ \A i \in 1..m : s[i] = value[i] BY <1>4 DEF SignedAs
<1>7. Place(s, {"."}) = m + 1
  <2>1. IsFirst(Place(s, {"."}), s, {"."}) BY <1>4, FirstPlace
  <2>2. m + 1 \in 1..Len(s) BY <1>1, <1>6
  <2>3. \A i \in 1..m : s[i] # "." BY <1>2, <1>6
  <2> DEFINE p == Place(s, {"."})
  <2>4. p \in 1..Len(s) /\ s[p] = "." /\ \A i \in 1..(p - 1) : s[i] # "." BY <1>6, <2>1, <2>2 DEF IsFirst
  <2> HIDE DEF p
  <2>5. ~ p \in 1..m BY <2>3, <2>4
  <2>6. p > m + 1 => m + 1 \in 1..(p - 1) BY <1>1, <2>4, <1>6
  <2>7. p = m + 1 BY <1>1, <1>6, <2>4, <2>5, <2>6
  <2> QED BY <2>7 DEF p
<1>8. m + 1 - 1 = m /\ (m + 1) + 1 = m + 2 /\ m + 1 # 0 BY <1>1
<1>13. Place(s, {"."}) - 1 = m BY <1>1, <1>7
<1>10. SubSeq(s, 1, Place(s, {"."}) - 1) = value BY <1>6, <1>13
<1>11. SubSeq(s, Place(s, {"."}) + 1, Len(s)) = Signature(value, key) BY <1>6, <1>7, <1>8
<1>12. Place(s, {"."}) # 0 BY <1>7, <1>8
<1>9. GetSigned(s, key) = {value} BY <1>10, <1>11, <1>12 DEF GetSigned
<1> QED BY <1>5, <1>9 DEF s

LEMMA GenuineCookie ==
  ASSUME NEW C, NEW cookie, IsCookie(cookie, C),
         NEW posted, posted = Pair(Signed(cookie.value, cookie.key)),
         NEW shown, shown = IF cookie.forged = << >> THEN posted
                            ELSE cookie.forged \o SubSeq(posted, Len(cookie.forged) + 1, Len(posted))
  PROVE  /\ GetSigned(Incoming(shown), cookie.reader) \subseteq {cookie.value}
         /\ cookie.key = cookie.reader /\ cookie.forged = << >> /\ Readable(cookie.value)
              => GetSigned(Incoming(shown), cookie.reader) = {cookie.value}
<1> DEFINE value == cookie.value
           key == cookie.key
           forged == cookie.forged
           s == Signed(value, key)
           D == C \cup {".", "mac", key}
<1>1. value \in Seq(C) /\ forged \in Seq(C) /\ "mac" \notin C /\ key # "semicolon" /\ key # "mac" BY DEF IsCookie
<1>2. s \in Seq(D)
  <2>1. C \subseteq D /\ key \in D /\ "." \in D /\ "mac" \in D OBVIOUS
  <2> HIDE DEF D
  <2> QED BY <1>1, <2>1, SignedPieces
<1> HIDE DEF D
<1>3. PICK p \in 0..Len(s) : /\ posted = SubSeq(s, 1, p) /\ (p < Len(s) => s[p + 1] = "semicolon")
                             /\ \A i \in 1..p : s[i] # "semicolon"
  BY <1>2, CutFirst DEF Pair
<1>4. posted \in Seq(D)
  <2>1. \A i \in 1..p : s[i] \in D BY <1>2, <1>3
  <2>2. p \in Nat BY <1>2, <1>3
  <2> HIDE DEF s
  <2> QED BY <1>3, <2>1, <2>2, BeginningOf
<1>5. shown = forged \o SubSeq(posted, Len(forged) + 1, Len(posted))
  <2>1. CASE forged = << >>
    <3>1. Len(forged) + 1 = 1 /\ shown = posted BY <2>1
    <3>2. SubSeq(posted, 1, Len(posted)) = posted BY <1>4
    <3>3. << >> \o posted = posted BY <1>4
    <3> QED BY <2>1, <3>1, <3>2, <3>3
  <2>2. CASE forged # << >> BY <2>2
  <2> QED BY <2>1, <2>2
<1>6. GetSigned(Incoming(shown), cookie.reader) \subseteq {value}
  <2>1. IsShown(C, value, key, forged, p, posted, shown) BY <1>1, <1>3, <1>5 DEF IsShown
  <2> HIDE DEF value, key, forged
  <2> QED BY <2>1, ShownReads
<1>7. ASSUME key = cookie.reader, forged = << >>, Readable(value)
      PROVE  GetSigned(Incoming(shown), cookie.reader) = {value}
  <2>1. shown = Pair(Signed(value, key)) BY <1>7
  <2> HIDE DEF value, key
  <2> QED BY <1>1, <1>7, <2>1, UnchangedReads
<1> QED BY <1>6, <1>7

(* How many of the texts up to the i-th have a name.                        *)
Named(texts, N, i, name) == {j \in texts : j =< i /\ N[j] = name}
Count(texts, N, i, name) == Cardinality(Named(texts, N, i, name))

LEMMA CountFinite ==
  ASSUME NEW n \in Nat, NEW texts \in SUBSET (1..n), NEW N, NEW i \in 0..n, NEW name
  PROVE  IsFiniteSet(Named(texts, N, i, name)) /\ Count(texts, N, i, name) \in Nat
<1>1. IsFiniteSet(1..n) BY FS_Interval
<1>2. Named(texts, N, i, name) \subseteq 1..n BY DEF Named
<1>3. IsFiniteSet(Named(texts, N, i, name)) BY <1>1, <1>2, FS_Subset
<1> QED BY <1>3, FS_CardinalityType DEF Count

LEMMA CountNext ==
  ASSUME NEW n \in Nat, NEW texts \in SUBSET (1..n), NEW N, NEW k \in 0..(n - 1), NEW name
  PROVE  /\ k + 1 \in texts /\ N[k + 1] = name => Count(texts, N, k + 1, name) = Count(texts, N, k, name) + 1
         /\ ~ (k + 1 \in texts /\ N[k + 1] = name) => Count(texts, N, k + 1, name) = Count(texts, N, k, name)
<1> DEFINE S == Named(texts, N, k, name)
           R == Named(texts, N, k + 1, name)
<1>1. k \in Nat /\ k \in 0..n /\ \A j \in texts : j \in Nat /\ (j =< k + 1 <=> j =< k \/ j = k + 1) /\ ~ (k + 1 =< k) OBVIOUS
<1>2. IsFiniteSet(S) BY <1>1, CountFinite
<1>3. ASSUME k + 1 \in texts, N[k + 1] = name PROVE Count(texts, N, k + 1, name) = Count(texts, N, k, name) + 1
  <2>1. R = S \cup {k + 1} /\ k + 1 \notin S BY <1>1, <1>3 DEF Named
  <2> QED BY <1>2, <2>1, FS_AddElement DEF Count
<1>4. ASSUME ~ (k + 1 \in texts /\ N[k + 1] = name) PROVE Count(texts, N, k + 1, name) = Count(texts, N, k, name)
  <2>1. R = S BY <1>1, <1>4 DEF Named
  <2> QED BY <2>1 DEF Count
<1> QED BY <1>3, <1>4

LEMMA CountUpto ==
  ASSUME NEW n \in Nat, NEW texts \in SUBSET (1..n), NEW N, NEW k \in 0..n, NEW i \in texts, i =< k
  PROVE  Count(texts, N, i, N[i]) \in 1..Count(texts, N, k, N[i])
<1> DEFINE S == Named(texts, N, k, N[i])
           R == Named(texts, N, i, N[i])
<1>1. i \in 0..n /\ i \in Nat /\ k \in Nat /\ \A j \in texts : j \in Nat OBVIOUS
<1>2. IsFiniteSet(S) /\ IsFiniteSet(R) /\ Cardinality(S) \in Nat /\ Cardinality(R) \in Nat BY <1>1, CountFinite DEF Count
<1>3. R \subseteq S
  <2>1. \A j \in texts : j =< i => j =< k BY <1>1
  <2> QED BY <2>1 DEF Named
<1>4. i \in R BY <1>1 DEF Named
<1>5. Cardinality(R) =< Cardinality(S) BY <1>2, <1>3, FS_Subset
<1>6. Cardinality(R) # 0 BY <1>2, <1>4, FS_EmptySet
<1> QED BY <1>2, <1>5, <1>6 DEF Count

(* The values of the first k texts are found under their names.             *)
FieldsTo(f, k, texts, N, V, W) ==
  /\ DOMAIN f = {<<N[i]>> : i \in {i \in texts : i =< k}}
  /\ \A x \in DOMAIN f : f[x] \in Seq(W)
  /\ \A i \in texts : i =< k => /\ Len(f[<<N[i]>>]) = Count(texts, N, k, N[i])
                                /\ f[<<N[i]>>][Count(texts, N, i, N[i])] = V[i]

LEMMA OneFieldMore ==
  ASSUME NEW n \in Nat, NEW texts \in SUBSET (1..n), NEW N, NEW V, NEW W, NEW k \in 0..(n - 1), NEW f, NEW g,
         FieldsTo(f, k, texts, N, V, W), k + 1 \in texts => V[k + 1] \in W,
         g = IF k + 1 \in texts THEN Add(f, <<N[k + 1]>>, V[k + 1]) ELSE f
  PROVE  FieldsTo(g, k + 1, texts, N, V, W)
<1>1. k \in Nat /\ k \in 0..n /\ k + 1 \in 0..n /\ \A j \in texts : j \in Nat /\ (j =< k + 1 <=> j =< k \/ j = k + 1) OBVIOUS
<1>2. /\ DOMAIN f = {<<N[i]>> : i \in {i \in texts : i =< k}}
      /\ \A x \in DOMAIN f : f[x] \in Seq(W)
      /\ \A i \in texts : i =< k => /\ Len(f[<<N[i]>>]) = Count(texts, N, k, N[i])
                                    /\ f[<<N[i]>>][Count(texts, N, i, N[i])] = V[i] BY DEF FieldsTo
<1>3. CASE k + 1 \notin texts
  <2>1. \A i \in texts : i =< k + 1 <=> i =< k BY <1>1, <1>3
  <2>2. \A name : Count(texts, N, k + 1, name) = Count(texts, N, k, name) BY <1>3, CountNext
  <2>3. {i \in texts : i =< k + 1} = {i \in texts : i =< k} BY <2>1
  <2> QED BY <1>2, <1>3, <2>1, <2>2, <2>3 DEF FieldsTo
<1>4. CASE k + 1 \in texts
  <2> DEFINE x == <<N[k + 1]>>
             v == V[k + 1]
             c == Count(texts, N, k, N[k + 1])
  <2>1. \A i : <<N[i]>> = x <=> N[i] = N[k + 1] OBVIOUS
  <2>2. v \in W BY <1>4
  <2>3. Count(texts, N, k + 1, N[k + 1]) = c + 1 BY <1>4, CountNext
  <2>4. \A i \in texts : N[i] # N[k + 1] => Count(texts, N, k + 1, N[i]) = Count(texts, N, k, N[i]) BY CountNext
  <2>5. {i \in texts : i =< k + 1} = {i \in texts : i =< k} \cup {k + 1} BY <1>1, <1>4
  <2>6. {<<N[i]>> : i \in {i \in texts : i =< k + 1}} = DOMAIN f \cup {x} BY <1>2, <2>5
  <2>7. c \in Nat BY <1>1, CountFinite
  <2>8. \A i \in texts : i =< k => Count(texts, N, i, N[i]) \in 1..Count(texts, N, k, N[i]) BY <1>1, CountUpto
  <2> HIDE DEF x, v, c
  <2>9. CASE x \in DOMAIN f
    <3>1. g = [f EXCEPT ![x] = Append(f[x], v)] BY <1>4, <2>9 DEF Add, x, v
    <3>2. DOMAIN g = DOMAIN f /\ DOMAIN g = DOMAIN f \cup {x} BY <2>9, <3>1
    <3>3. \A y \in DOMAIN f : g[y] = IF y = x THEN Append(f[x], v) ELSE f[y] BY <3>1
    <3>4. f[x] \in Seq(W) /\ Append(f[x], v) \in Seq(W) BY <1>2, <2>2, <2>9
    <3>5. \A y \in DOMAIN g : g[y] \in Seq(W) BY <1>2, <3>2, <3>3, <3>4
    <3>6. Len(f[x]) = c
      <4>1. PICK i \in texts : i =< k /\ x = <<N[i]>> BY <1>2, <2>9
      <4>2. N[i] = N[k + 1] BY <2>1, <4>1
      <4> QED BY <1>2, <4>1, <4>2 DEF c
    <3>7. Len(Append(f[x], v)) = c + 1 /\ Append(f[x], v)[c + 1] = v /\ \A i \in 1..c : Append(f[x], v)[i] = f[x][i]
      BY <2>2, <3>4, <3>6
    <3>8. ASSUME NEW i \in texts, i =< k + 1
          PROVE  Len(g[<<N[i]>>]) = Count(texts, N, k + 1, N[i]) /\ g[<<N[i]>>][Count(texts, N, i, N[i])] = V[i]
      <4>1. CASE i = k + 1
        <5>1. g[x] = Append(f[x], v) BY <2>9, <3>3
        <5> QED BY <2>3, <3>7, <4>1, <5>1 DEF x, v
      <4>2. CASE i # k + 1 /\ N[i] = N[k + 1]
        <5>1. i =< k BY <1>1, <3>8, <4>2
        <5>2. <<N[i]>> = x BY <2>1, <4>2
        <5>3. Count(texts, N, i, N[i]) \in 1..c BY <2>8, <4>2, <5>1 DEF c
        <5>4. f[x][Count(texts, N, i, N[i])] = V[i] BY <1>2, <5>1, <5>2
        <5>5. g[x] = Append(f[x], v) BY <2>9, <3>3
        <5> QED BY <2>3, <3>7, <4>2, <5>2, <5>3, <5>4, <5>5
      <4>3. CASE N[i] # N[k + 1]
        <5>1. i =< k BY <1>1, <3>8, <4>3
        <5>2. <<N[i]>> # x /\ <<N[i]>> \in DOMAIN f BY <1>2, <2>1, <4>3, <5>1
        <5>3. g[<<N[i]>>] = f[<<N[i]>>] BY <3>3, <5>2
        <5> QED BY <1>2, <2>4, <4>3, <5>1, <5>3
      <4> QED BY <4>1, <4>2, <4>3
    <3> QED BY <2>6, <3>2, <3>5, <3>8 DEF FieldsTo
  <2>10. CASE x \notin DOMAIN f
    <3> DEFINE one == <<v>>
    <3>1. g = [y \in DOMAIN f \cup {x} |-> IF y = x THEN one ELSE f[y]] BY <1>4, <2>10 DEF Add, x, v
    <3>2. one \in Seq(W) /\ Len(one) = 1 /\ one[1] = v BY <2>2
    <3> HIDE DEF one
    <3>3. DOMAIN g = DOMAIN f \cup {x} BY <3>1
    <3>4. \A y \in DOMAIN g : g[y] = IF y = x THEN one ELSE f[y] BY <3>1
    <3>5. \A y \in DOMAIN g : g[y] \in Seq(W) BY <1>2, <3>2, <3>3, <3>4
    <3>6. \A i \in texts : i =< k => N[i] # N[k + 1]
      <4>1. \A i \in texts : i =< k => <<N[i]>> \in DOMAIN f BY <1>2
      <4> QED BY <2>1, <2>10, <4>1
    <3>7. c = 0
      <4>1. Named(texts, N, k, N[k + 1]) = {} BY <3>6 DEF Named
      <4> QED BY <4>1, FS_EmptySet DEF c, Count
    <3>8. ASSUME NEW i \in texts, i =< k + 1
          PROVE  Len(g[<<N[i]>>]) = Count(texts, N, k + 1, N[i]) /\ g[<<N[i]>>][Count(texts, N, i, N[i])] = V[i]
      <4>1. CASE i = k + 1
        <5>1. g[x] = one BY <3>3, <3>4
        <5>2. Count(texts, N, k + 1, N[k + 1]) = 1 BY <2>3, <3>7
        <5> QED BY <3>2, <4>1, <5>1, <5>2 DEF x, v
      <4>2. CASE i # k + 1
        <5>1. i =< k BY <1>1, <3>8, <4>2
        <5>2. <<N[i]>> # x /\ <<N[i]>> \in DOMAIN f /\ N[i] # N[k + 1] BY <1>2, <2>1, <3>6, <5>1
        <5>3. g[<<N[i]>>] = f[<<N[i]>>] BY <3>3, <3>4, <5>2
        <5> QED BY <1>2, <2>4, <5>1, <5>2, <5>3
      <4> QED BY <4>1, <4>2
    <3> QED BY <2>6, <3>3, <3>5, <3>8 DEF FieldsTo
  <2> QED BY <2>9, <2>10
<1> QED BY <1>3, <1>4
-----------------------------------------------------------------------------
(* The names of a part.                                                     *)
Marks == {"semicolon", "quote", "name=", "filename=", "filename*="}
PlainTexts(field) == <<"form-data", "semicolon", "name=", field>>
Quoted(field) == <<"form-data", "semicolon", "name=", "quote", field, "quote">>
NamesFile(line) ==
  IF \E i \in 1..Len(line) : line[i] = "filename*="
  THEN \E i, j \in 1..Len(line) : /\ line[i] = "filename*=" /\ \A l \in 1..(i - 1) : line[l] # "filename*="
                                  /\ i < j /\ line[j] = "''"
  ELSE \E i \in 1..Len(line) : line[i] = "filename="
IsPart(p, C) ==
  /\ p.field \notin Marks
  /\ IF p.file THEN p.line \in Seq(C) /\ NamesFile(p.line) ELSE p.line \in {PlainTexts(p.field), Quoted(p.field)}

LEMMA PieceOf ==
  ASSUME NEW C, NEW s, NEW t \in Seq(C), NEW k \in Nat, NEW n \in Nat, Len(t) = n - k + 1, k <= n,
         \A i \in 1..Len(t) : s[k + i - 1] = t[i]
  PROVE  SubSeq(s, k, n) = t
<1> DEFINE w == SubSeq(s, k, n)
           m == Len(t)
<1>1. m \in Nat /\ m = n - k + 1 /\ \A i \in k..n : i - k + 1 \in 1..m /\ k + (i - k + 1) - 1 = i OBVIOUS
<1>2. \A i \in 1..m : t[i] \in C OBVIOUS
<1> HIDE DEF m
<1>3. \A i \in k..n : s[i] \in C BY <1>1, <1>2 DEF m
<1>4. k \in Int /\ n \in Int OBVIOUS
<1>5. w \in Seq(C) /\ Len(w) = (IF k <= n THEN n - k + 1 ELSE 0) /\ \A i \in 1..(n - k + 1) : w[i] = s[k + i - 1]
  BY <1>3, <1>4, SubSeqProperties
<1> HIDE DEF w
<1>6. w \in Seq(C) /\ Len(w) = m /\ \A i \in 1..m : w[i] = t[i] BY <1>1, <1>5 DEF m
<1>7. t \in Seq(C) /\ Len(t) = m BY DEF m
<1>8. w = t BY <1>6, <1>7
<1> QED BY <1>8 DEF w

LEMMA OneTrimmed ==
  ASSUME NEW f, NEW c, f # c
  PROVE  Trimmed(<<f>>, c) = <<f>>
<1> DEFINE one == <<f>>
<1>1. one \in Seq({f}) /\ Len(one) = 1 /\ one[1] = f OBVIOUS
<1>2. Reverse(one) = one BY DEF Reverse
<1> HIDE DEF one
<1>3. SubSeq(one, 1, Len(one)) = one BY <1>1
<1>4. 1 \in 1..Len(one) /\ one[1] # c /\ \A i \in 1..(1 - 1) : one[i] = c BY <1>1
<1>5. TrimmedLeft(one, c) = one BY <1>1, <1>3, <1>4, LeftTrimmed
<1> QED BY <1>2, <1>5 DEF Trimmed, one

LEMMA ThreeTrimmed ==
  ASSUME NEW q, NEW f, NEW c, q # c
  PROVE  Trimmed(<<q, f, q>>, c) = <<q, f, q>>
<1> DEFINE three == <<q, f, q>>
<1>1. three \in Seq({q, f}) /\ Len(three) = 3 /\ three[1] = q OBVIOUS
<1>2. Reverse(three) = three BY DEF Reverse
<1> HIDE DEF three
<1>3. SubSeq(three, 1, Len(three)) = three BY <1>1
<1>4. 1 \in 1..Len(three) /\ three[1] # c /\ \A i \in 1..(1 - 1) : three[i] = c BY <1>1
<1>5. TrimmedLeft(three, c) = three BY <1>1, <1>3, <1>4, LeftTrimmed
<1> QED BY <1>2, <1>5 DEF Trimmed, three

LEMMA QuotesTrimmed ==
  ASSUME NEW q, NEW f, q # f
  PROVE  Trimmed(<<q, f, q>>, q) = <<f>>
<1> DEFINE three == <<q, f, q>>
           two == <<f, q>>
           back == <<q, f>>
           one == <<f>>
<1>1. three \in Seq({q, f}) /\ Len(three) = 3 /\ three[1] = q /\ three[2] = f OBVIOUS
<1>2. back \in Seq({q, f}) /\ Len(back) = 2 /\ back[1] = q /\ back[2] = f OBVIOUS
<1>3. two \in Seq({q, f}) /\ Len(two) = 2 /\ two[1] = f /\ two[2] = q OBVIOUS
<1>4. one \in Seq({q, f}) /\ Len(one) = 1 /\ one[1] = f OBVIOUS
<1>5. Reverse(two) = back BY DEF Reverse
<1>6. Reverse(one) = one BY DEF Reverse
<1>11. three[3] = q OBVIOUS
<1> HIDE DEF three, two, back, one
<1>12. SubSeq(three, 2, 3) = two
  <2>1. \A i \in 1..2 : (i = 1 => 2 + i - 1 = 2) /\ (i = 2 => 2 + i - 1 = 3) /\ (i = 1 \/ i = 2) OBVIOUS
  <2>2. \A i \in 1..Len(two) : three[2 + i - 1] = two[i] BY <1>1, <1>3, <1>11, <2>1
  <2>3. 2 \in Nat /\ 3 \in Nat /\ Len(two) = 3 - 2 + 1 /\ 2 <= 3 BY <1>3
  <2> QED BY <1>3, <2>2, <2>3, PieceOf
<1>13. SubSeq(back, 2, 2) = one
  <2>1. \A i \in 1..1 : i = 1 /\ 2 + i - 1 = 2 OBVIOUS
  <2>2. \A i \in 1..Len(one) : back[2 + i - 1] = one[i] BY <1>2, <1>4, <2>1
  <2>3. 2 \in Nat /\ Len(one) = 2 - 2 + 1 /\ 2 <= 2 BY <1>4
  <2> QED BY <1>4, <2>2, <2>3, PieceOf
<1>7. 2 \in 1..Len(three) /\ three[2] # q /\ \A i \in 1..(2 - 1) : three[i] = q BY <1>1
<1>8. 2 \in 1..Len(back) /\ back[2] # q /\ \A i \in 1..(2 - 1) : back[i] = q BY <1>2
<1>9. TrimmedLeft(three, q) = two BY <1>1, <1>7, <1>12, LeftTrimmed
<1>10. TrimmedLeft(back, q) = one BY <1>2, <1>8, <1>13, LeftTrimmed
<1> QED BY <1>5, <1>6, <1>9, <1>10 DEF Trimmed, three, one

LEMMA PlacedAt ==
  ASSUME NEW C, NEW text \in Seq(C), NEW marks, NEW k \in 1..Len(text), text[k] \in marks,
         \A i \in 1..(k - 1) : text[i] \notin marks
  PROVE  Place(text, marks) = k
<1> DEFINE p == Place(text, marks)
<1>1. IsFirst(p, text, marks) BY FirstPlace
<1>2. Len(text) \in Nat OBVIOUS
<1> HIDE DEF p
<1>3. p \in 1..Len(text) /\ text[p] \in marks /\ \A i \in 1..(p - 1) : text[i] \notin marks BY <1>1 DEF IsFirst
<1>4. ~ (p \in 1..(k - 1)) /\ ~ (k \in 1..(p - 1)) BY <1>3
<1> QED BY <1>2, <1>3, <1>4 DEF p

LEMMA FoundAfter ==
  ASSUME NEW line, NEW markers, NEW k \in Nat \ {0}, NEW rest, Place(line, markers) = k,
         SubSeq(line, k + 1, Len(line)) = rest
  PROVE  After(line, markers) = {rest}
<1> DEFINE p == Place(line, markers)
<1>1. After(line, markers) = IF p = 0 THEN {} ELSE {SubSeq(line, p + 1, Len(line))} BY DEF After
<1> QED BY <1>1

LEMMA NamePlain ==
  ASSUME NEW f, f \notin Marks
  PROVE  NameOf(PlainTexts(f)) = <<f>> /\ FileNameOf(PlainTexts(f)) = {}
<1> DEFINE line == PlainTexts(f)
           one == <<f>>
<1>1. /\ line \in Seq({"form-data", "semicolon", "name=", f}) /\ Len(line) = 4 /\ line[1] = "form-data"
      /\ line[2] = "semicolon" /\ line[3] = "name=" /\ line[4] = f
  BY DEF PlainTexts
<1>2. f # "quote" /\ f # "semicolon" /\ f # "filename=" /\ f # "filename*=" BY DEF Marks
<1>3. one \in Seq({f}) /\ Len(one) = 1 /\ one[1] = f OBVIOUS
<1> HIDE DEF line, one
<1>4. After(line, {"name=", "filename="}) = {one}
  <2>1. 3 \in 1..Len(line) /\ line[3] \in {"name=", "filename="} BY <1>1
  <2>2. \A i \in 1..(3 - 1) : line[i] \notin {"name=", "filename="}
    <3>1. \A i \in 1..(3 - 1) : i = 1 \/ i = 2 OBVIOUS
    <3> QED BY <1>1, <3>1
  <2>3. Place(line, {"name=", "filename="}) = 3 BY <1>1, <2>1, <2>2, PlacedAt
  <2>4. SubSeq(line, 4, 4) = one
    <3>1. \A i \in 1..1 : i = 1 /\ 4 + i - 1 = 4 OBVIOUS
    <3>2. \A i \in 1..Len(one) : line[4 + i - 1] = one[i] BY <1>1, <1>3, <3>1
    <3>3. 4 \in Nat /\ Len(one) = 4 - 4 + 1 /\ 4 <= 4 BY <1>3
    <3> QED BY <1>3, <3>2, <3>3, PieceOf
  <2>5. SubSeq(line, 3 + 1, Len(line)) = one BY <1>1, <2>4
  <2> QED BY <2>3, <2>5, FoundAfter
<1>5. Trimmed(Trimmed(one, "semicolon"), "quote") = one BY <1>2, OneTrimmed DEF one
<1>6. Split(one, "semicolon")[1] = one
  <2> DEFINE whole == <<one>>
  <2>1. whole[1] = one OBVIOUS
  <2>2. {f} = {f} \ {"semicolon"} BY <1>2
  <2> HIDE DEF whole
  <2>3. Split(one, "semicolon") = whole BY <1>3, <2>2, CutWhole DEF whole
  <2> QED BY <2>1, <2>3
<1>7. NameOf(line) = one
  <2>1. (CHOOSE r \in {one} : TRUE) = one OBVIOUS
  <2> QED BY <1>4, <1>5, <1>6, <2>1 DEF NameOf
<1>8. \A i \in 1..Len(line) : line[i] # "filename=" /\ line[i] # "filename*="
  <2>1. \A i \in 1..4 : i = 1 \/ i = 2 \/ i = 3 \/ i = 4 OBVIOUS
  <2> QED BY <1>1, <1>2, <2>1
<1>9. FileNameOf(line) = {}
  <2>1. \A m : m \in {"filename=", "filename*="} => IsFirst(Place(line, {m}), line, {m}) BY <1>1, FirstPlace
  <2>2. Place(line, {"filename*="}) = 0 /\ Place(line, {"filename="}) = 0 BY <1>8, <2>1 DEF IsFirst
  <2>3. After(line, {"filename*="}) = {} /\ After(line, {"filename="}) = {} BY <2>2 DEF After
  <2> QED BY <2>3 DEF FileNameOf
<1> QED BY <1>7, <1>9 DEF line, one

LEMMA NameQuoted ==
  ASSUME NEW f, f \notin Marks
  PROVE  NameOf(Quoted(f)) = <<f>> /\ FileNameOf(Quoted(f)) = {}
<1> DEFINE line == Quoted(f)
           one == <<f>>
           three == <<"quote", f, "quote">>
<1>1. /\ line \in Seq({"form-data", "semicolon", "name=", "quote", f}) /\ Len(line) = 6 /\ line[1] = "form-data"
      /\ line[2] = "semicolon" /\ line[3] = "name=" /\ line[4] = "quote" /\ line[5] = f /\ line[6] = "quote"
  BY DEF Quoted
<1>2. f # "quote" /\ f # "semicolon" /\ f # "filename=" /\ f # "filename*=" BY DEF Marks
<1>3. one \in Seq({f}) /\ Len(one) = 1 /\ one[1] = f OBVIOUS
<1>10. three \in Seq({"quote", f}) /\ Len(three) = 3 /\ three[1] = "quote" /\ three[2] = f /\ three[3] = "quote" OBVIOUS
<1> HIDE DEF line, one, three
<1>4. After(line, {"name=", "filename="}) = {three}
  <2>1. 3 \in 1..Len(line) /\ line[3] \in {"name=", "filename="} BY <1>1
  <2>2. \A i \in 1..(3 - 1) : line[i] \notin {"name=", "filename="}
    <3>1. \A i \in 1..(3 - 1) : i = 1 \/ i = 2 OBVIOUS
    <3> QED BY <1>1, <3>1
  <2>3. Place(line, {"name=", "filename="}) = 3 BY <1>1, <2>1, <2>2, PlacedAt
  <2>4. SubSeq(line, 4, 6) = three
    <3>1. \A i \in 1..3 : (i = 1 => 4 + i - 1 = 4) /\ (i = 2 => 4 + i - 1 = 5) /\ (i = 3 => 4 + i - 1 = 6)
                          /\ (i = 1 \/ i = 2 \/ i = 3) OBVIOUS
    <3>2. \A i \in 1..Len(three) : line[4 + i - 1] = three[i] BY <1>1, <1>10, <3>1
    <3>3. 4 \in Nat /\ 6 \in Nat /\ Len(three) = 6 - 4 + 1 /\ 4 <= 6 BY <1>10
    <3> QED BY <1>10, <3>2, <3>3, PieceOf
  <2>5. SubSeq(line, 3 + 1, Len(line)) = three BY <1>1, <2>4
  <2> QED BY <2>3, <2>5, FoundAfter
<1>5. Trimmed(Trimmed(three, "semicolon"), "quote") = one BY <1>2, ThreeTrimmed, QuotesTrimmed DEF one, three
<1>6. Split(one, "semicolon")[1] = one
  <2> DEFINE whole == <<one>>
  <2>1. whole[1] = one OBVIOUS
  <2>2. {f} = {f} \ {"semicolon"} BY <1>2
  <2> HIDE DEF whole
  <2>3. Split(one, "semicolon") = whole BY <1>3, <2>2, CutWhole DEF whole
  <2> QED BY <2>1, <2>3
<1>7. NameOf(line) = one
  <2>1. (CHOOSE r \in {three} : TRUE) = three OBVIOUS
  <2> QED BY <1>4, <1>5, <1>6, <2>1 DEF NameOf
<1>8. \A i \in 1..Len(line) : line[i] # "filename=" /\ line[i] # "filename*="
  <2>1. \A i \in 1..6 : i = 1 \/ i = 2 \/ i = 3 \/ i = 4 \/ i = 5 \/ i = 6 OBVIOUS
  <2> QED BY <1>1, <1>2, <2>1
<1>9. FileNameOf(line) = {}
  <2>1. \A m : m \in {"filename=", "filename*="} => IsFirst(Place(line, {m}), line, {m}) BY <1>1, FirstPlace
  <2>2. Place(line, {"filename*="}) = 0 /\ Place(line, {"filename="}) = 0 BY <1>8, <2>1 DEF IsFirst
  <2>3. After(line, {"filename*="}) = {} /\ After(line, {"filename="}) = {} BY <2>2 DEF After
  <2> QED BY <2>3 DEF FileNameOf
<1> QED BY <1>7, <1>9 DEF line, one

LEMMA FileIsNamed ==
  ASSUME NEW C, NEW line \in Seq(C), NamesFile(line)
  PROVE  FileNameOf(line) # {}
<1> DEFINE n == Len(line)
           p == Place(line, {"filename*="})
           q == Place(line, {"filename="})
           r == SubSeq(line, p + 1, n)
<1>1. n \in Nat OBVIOUS
<1>2. IsFirst(p, line, {"filename*="}) /\ IsFirst(q, line, {"filename="}) BY FirstPlace
<1>3. After(line, {"filename*="}) = (IF p = 0 THEN {} ELSE {r})
      /\ After(line, {"filename="}) = (IF q = 0 THEN {} ELSE {SubSeq(line, q + 1, n)}) BY DEF After
<1> HIDE DEF n, p, q, r
<1>4. CASE \E i \in 1..n : line[i] = "filename*="
  <2>1. PICK i \in 1..n, j \in 1..n : /\ line[i] = "filename*=" /\ \A l \in 1..(i - 1) : line[l] # "filename*="
                                      /\ i < j /\ line[j] = "''" BY <1>4 DEF NamesFile, n
  <2>2. p \in 1..n /\ line[p] = "filename*=" /\ \A l \in 1..(p - 1) : line[l] # "filename*=" BY <1>2, <1>4 DEF IsFirst, n
  <2>3. ~ (p \in 1..(i - 1)) /\ ~ (i \in 1..(p - 1)) BY <2>1, <2>2
  <2>4. p = i /\ p # 0 BY <1>1, <2>1, <2>2, <2>3
  <2>5. HasPart(r, <<"''">>)
    <3>1. r \in Seq(C) /\ Len(r) = n - p /\ \A l \in 1..(n - p) : r[l] = line[p + l]
      <4>1. p + 1 \in Int /\ n \in Int /\ n - (p + 1) + 1 = n - p /\ p + 1 <= n /\ (\A l \in (p + 1)..n : l \in 1..n)
            /\ \A l \in 1..(n - p) : (p + 1) + l - 1 = p + l BY <1>1, <2>1, <2>2, <2>4
      <4>2. \A l \in (p + 1)..n : line[l] \in C BY <4>1 DEF n
      <4>3. /\ SubSeq(line, p + 1, n) \in Seq(C)
            /\ Len(SubSeq(line, p + 1, n)) = IF p + 1 <= n THEN n - (p + 1) + 1 ELSE 0
            /\ \A l \in 1..(n - (p + 1) + 1) : SubSeq(line, p + 1, n)[l] = line[(p + 1) + l - 1]
        BY <4>1, <4>2, SubSeqProperties
      <4>4. r = SubSeq(line, p + 1, n) BY DEF r
      <4> QED BY <4>1, <4>3, <4>4
    <3>2. j - p \in 1..(n - p) /\ p + (j - p) = j BY <1>1, <2>1, <2>2, <2>4
    <3>3. j - p \in 1..Len(r) /\ r[j - p] = "''" BY <2>1, <3>1, <3>2
    <3> QED BY <3>1, <3>3, HasOne
  <2>6. {s \in {r} : HasPart(s, <<"''">>)} = {r} BY <2>5
  <2>7. After(line, {"filename*="}) = {r} BY <1>3, <2>4
  <2>8. FileNameOf(line) = {Trimmed(Split(x, "''")[2], "quote") : x \in {s \in {r} : HasPart(s, <<"''">>)}}
    BY <2>7 DEF FileNameOf
  <2>9. Trimmed(Split(r, "''")[2], "quote") \in FileNameOf(line) BY <2>6, <2>8
  <2> QED BY <2>9
<1>5. CASE ~ \E i \in 1..n : line[i] = "filename*="
  <2>1. PICK i \in 1..n : line[i] = "filename=" BY <1>5 DEF NamesFile, n
  <2>2. p = 0 BY <1>2, <1>5 DEF IsFirst, n
  <2>3. q # 0 BY <1>2, <2>1 DEF IsFirst, n
  <2> QED BY <1>3, <2>2, <2>3 DEF FileNameOf
<1> QED BY <1>4, <1>5
-----------------------------------------------------------------------------
(* HttpMessages: every field arrives.                                       *)
PartsOf(C) == {p \in [field : C, file : BOOLEAN, blank : BOOLEAN, data : C, line : Seq(C)] : IsPart(p, C)}
IsForm(form, C) ==
  CASE form.type = "urlencoded" -> /\ form.pairs \in Seq(Seq(C))
                                   /\ \A i \in 1..Len(form.pairs) : Len(form.pairs[i]) \in {1, 2}
    [] form.type = "multipart" -> form.ended \in BOOLEAN /\ form.parts \in Seq(PartsOf(C))
    [] OTHER -> TRUE

(* A pair or a part adds the field that it is.                              *)
Step(type, done, p) == IF type = "urlencoded" THEN Encoded(done, p) ELSE Taken(done, p)
IsDone(done) == done = [fields |-> done.fields, files |-> done.files]

LEMMA PairAdds ==
  ASSUME NEW done, IsDone(done), NEW form, form.type = "urlencoded", NEW C, NEW p \in Seq(C), Len(p) \in {1, 2}
  PROVE  LET next == Encoded(done, p) IN
         /\ IsDone(next)
         /\ next.fields = IF IsText(form, p) THEN Add(done.fields, <<NameIn(form, p)>>, ValueIn(form, p)) ELSE done.fields
<1>1. CASE Len(p) = 1 BY <1>1 DEF Encoded, IsText
<1>2. CASE Len(p) = 2
  <2>1. Encoded(done, p) = [done EXCEPT !.fields = Add(done.fields, <<p[1]>>, p[2])] BY <1>2 DEF Encoded
  <2>2. IsText(form, p) /\ NameIn(form, p) = p[1] /\ ValueIn(form, p) = p[2] BY <1>2 DEF IsText, NameIn, ValueIn
  <2> QED BY <2>1, <2>2 DEF IsDone
<1> QED BY <1>1, <1>2

LEMMA PartAdds ==
  ASSUME NEW done, IsDone(done), NEW form, form.type # "urlencoded", NEW C, NEW p, IsPart(p, C),
         p.file \in BOOLEAN, p.blank \in BOOLEAN
  PROVE  LET next == Taken(done, p) IN
         /\ IsDone(next)
         /\ next.fields = IF IsText(form, p) THEN Add(done.fields, <<NameIn(form, p)>>, ValueIn(form, p)) ELSE done.fields
<1> DEFINE name == NameOf(p.line)
           filename == FileNameOf(p.line)
           next == Taken(done, p)
<1>1. next = IF ~ p.blank \/ name = << >> THEN done
             ELSE IF filename # {}
             THEN [done EXCEPT !.files = Add(@, name, [filename |-> CHOOSE f \in filename : TRUE, data |-> p.data])]
             ELSE IF p.data = "binary" THEN done
             ELSE [done EXCEPT !.fields = Add(@, name, p.data)]
  BY DEF Taken
<1>2. /\ IsText(form, p) <=> ~ p.file /\ p.blank /\ p.data # "binary"
      /\ NameIn(form, p) = p.field /\ ValueIn(form, p) = p.data BY DEF IsText, NameIn, ValueIn
<1>3. p.file => filename # {} BY FileIsNamed DEF IsPart
<1>4. ~ p.file => name = <<p.field>> /\ name # << >> /\ filename = {}
  <2>1. ~ p.file => p.field \notin Marks /\ (p.line = PlainTexts(p.field) \/ p.line = Quoted(p.field)) BY DEF IsPart
  <2>2. <<p.field>> # << >> OBVIOUS
  <2> QED BY <2>1, <2>2, NamePlain, NameQuoted
<1> HIDE DEF name, filename, next
<1>5. CASE ~ p.blank \/ name = << >>
  <2>1. next = done BY <1>1, <1>5
  <2>2. ~ IsText(form, p) BY <1>2, <1>4, <1>5
  <2> QED BY <2>1, <2>2 DEF next
<1>6. CASE ~ (~ p.blank \/ name = << >>) /\ filename # {}
  <2> DEFINE file == [filename |-> CHOOSE f \in filename : TRUE, data |-> p.data]
  <2>1. next = [done EXCEPT !.files = Add(done.files, name, file)] BY <1>1, <1>6
  <2> HIDE DEF file
  <2>2. next.fields = done.fields /\ IsDone(next) BY <2>1 DEF IsDone
  <2>3. ~ IsText(form, p) BY <1>2, <1>4, <1>6
  <2> QED BY <2>2, <2>3 DEF next
<1>7. CASE ~ (~ p.blank \/ name = << >>) /\ filename = {}
  <2>1. ~ p.file /\ name = <<p.field>> BY <1>3, <1>4, <1>7
  <2>2. CASE p.data = "binary"
    <3>1. next = done BY <1>1, <1>7, <2>2
    <3>2. ~ IsText(form, p) BY <1>2, <2>2
    <3> QED BY <3>1, <3>2 DEF next
  <2>3. CASE p.data # "binary"
    <3>1. next = [done EXCEPT !.fields = Add(done.fields, name, p.data)] BY <1>1, <1>7, <2>3
    <3>2. IsText(form, p) BY <1>2, <1>7, <2>1, <2>3
    <3>3. next.fields = Add(done.fields, <<p.field>>, p.data) /\ IsDone(next) BY <2>1, <3>1 DEF IsDone
    <3> QED BY <1>2, <3>2, <3>3 DEF next
  <2> QED BY <2>2, <2>3
<1> QED BY <1>5, <1>6, <1>7

ParseRun(h, type, posted, n) == h = [i \in 0..n |-> IF i = 0 THEN Empty ELSE Step(type, h[i - 1], posted[i])]

LEMMA ParseRuns ==
  ASSUME NEW type, NEW posted, NEW n \in Nat
  PROVE  \E h : ParseRun(h, type, posted, n)
<1> DEFINE P == {k \in 0..n : \E h : ParseRun(h, type, posted, k)}
<1>1. 0 \in P
  <2> DEFINE h == [i \in 0..0 |-> Empty]
  <2>1. h = [i \in 0..0 |-> IF i = 0 THEN Empty ELSE Step(type, h[i - 1], posted[i])] OBVIOUS
  <2> HIDE DEF h
  <2>2. ParseRun(h, type, posted, 0) BY <2>1 DEF ParseRun
  <2> QED BY <2>2
<1>2. ASSUME NEW k \in 0..(n - 1), k \in P PROVE k + 1 \in P
  <2>1. PICK h : ParseRun(h, type, posted, k) BY <1>2
  <2>2. k \in Nat /\ k + 1 \in 0..n /\ k + 1 # 0 /\ (k + 1) - 1 = k /\ k \in 0..k OBVIOUS
  <2>3. \A i \in 0..k : h[i] = IF i = 0 THEN Empty ELSE Step(type, h[i - 1], posted[i]) BY <2>1 DEF ParseRun
  <2> DEFINE g == [i \in 0..(k + 1) |-> IF i = k + 1 THEN Step(type, h[k], posted[k + 1]) ELSE h[i]]
  <2>4. \A i \in 0..k : g[i] = h[i] BY <2>2
  <2>5. ASSUME NEW i \in 0..(k + 1) PROVE g[i] = IF i = 0 THEN Empty ELSE Step(type, g[i - 1], posted[i])
    <3>1. CASE i = k + 1
      <4>1. g[i] = Step(type, h[k], posted[k + 1]) BY <2>2, <3>1
      <4>2. g[i - 1] = h[k] BY <2>2, <2>4, <3>1
      <4> HIDE DEF g
      <4> QED BY <2>2, <3>1, <4>1, <4>2
    <3>2. CASE i # k + 1
      <4>1. i \in 0..k /\ (i # 0 => i - 1 \in 0..k) BY <2>2, <3>2
      <4>2. g[i] = h[i] /\ (i # 0 => g[i - 1] = h[i - 1]) BY <2>4, <4>1
      <4> HIDE DEF g
      <4> QED BY <2>3, <4>1, <4>2
    <3> QED BY <3>1, <3>2
  <2>6. g = [i \in 0..(k + 1) |-> g[i]] OBVIOUS
  <2> HIDE DEF g
  <2>7. ParseRun(g, type, posted, k + 1) BY <2>5, <2>6 DEF ParseRun
  <2> QED BY <2>2, <2>7
<1>3. n \in 0..n OBVIOUS
<1> HIDE DEF P
<1>4. n \in P BY <1>1, <1>2, <1>3, CountingUp
<1> QED BY <1>4 DEF P

(* What has come in is found, whatever is left.                             *)
Texts(form, posted) == {i \in 1..Len(posted) : IsText(form, posted[i])}
NamesOf(form, posted) == [i \in 1..Len(posted) |-> NameIn(form, posted[i])]
ValuesOf(form, posted) == [i \in 1..Len(posted) |-> ValueIn(form, posted[i])]
Adds(form, posted, C) ==
  \A i \in 1..Len(posted) : \A done :
    IsDone(done) =>
      /\ IsDone(Step(form.type, done, posted[i]))
      /\ Step(form.type, done, posted[i]).fields =
           IF IsText(form, posted[i]) THEN Add(done.fields, <<NameIn(form, posted[i])>>, ValueIn(form, posted[i])) ELSE done.fields
      /\ IsText(form, posted[i]) => ValueIn(form, posted[i]) \in C

LEMMA FormRuns ==
  ASSUME NEW form, NEW posted, Len(posted) \in Nat, NEW C, Adds(form, posted, C), NEW h, ParseRun(h, form.type, posted, Len(posted))
  PROVE  FieldsTo(h[Len(posted)].fields, Len(posted), Texts(form, posted), NamesOf(form, posted), ValuesOf(form, posted), C)
<1> DEFINE n == Len(posted)
           texts == Texts(form, posted)
           N == NamesOf(form, posted)
           V == ValuesOf(form, posted)
           P == {k \in 0..n : IsDone(h[k]) /\ FieldsTo(h[k].fields, k, texts, N, V, C)}
<1>1. n \in Nat /\ texts \in SUBSET (1..n) /\ \A i \in 1..n : N[i] = NameIn(form, posted[i]) /\ V[i] = ValueIn(form, posted[i])
  BY DEF Texts, NamesOf, ValuesOf
<1>2. \A i \in 1..n : i \in texts <=> IsText(form, posted[i]) BY DEF Texts
<1>3. \A i \in 0..n : h[i] = IF i = 0 THEN Empty ELSE Step(form.type, h[i - 1], posted[i]) BY DEF ParseRun
<1>9. \A i \in 1..n : \A done :
        IsDone(done) =>
          /\ IsDone(Step(form.type, done, posted[i]))
          /\ Step(form.type, done, posted[i]).fields =
               IF IsText(form, posted[i]) THEN Add(done.fields, <<NameIn(form, posted[i])>>, ValueIn(form, posted[i])) ELSE done.fields
          /\ IsText(form, posted[i]) => ValueIn(form, posted[i]) \in C
  BY DEF Adds
<1> HIDE DEF n, texts, N, V
<1>4. 0 \in P
  <2>1. h[0] = Empty /\ 0 \in 0..n BY <1>1, <1>3
  <2>2. IsDone(Empty) /\ Empty.fields = NoFields BY DEF Empty, IsDone
  <2>3. DOMAIN NoFields = {} BY DEF NoFields
  <2>4. \A i \in texts : ~ (i =< 0) BY <1>1
  <2>5. {<<N[i]>> : i \in {i \in texts : i =< 0}} = {} BY <2>4
  <2>6. FieldsTo(NoFields, 0, texts, N, V, C) BY <2>3, <2>4, <2>5 DEF FieldsTo
  <2> QED BY <2>1, <2>2, <2>6
<1>5. ASSUME NEW k \in 0..(n - 1), k \in P PROVE k + 1 \in P
  <2>1. k + 1 \in 1..n /\ k + 1 \in 0..n /\ k + 1 # 0 /\ (k + 1) - 1 = k BY <1>1
  <2>2. h[k + 1] = Step(form.type, h[k], posted[k + 1]) BY <1>3, <2>1
  <2>3. IsDone(h[k]) /\ FieldsTo(h[k].fields, k, texts, N, V, C) BY <1>5
  <2>4. IsDone(h[k + 1]) BY <1>9, <2>1, <2>2, <2>3
  <2>5. h[k + 1].fields = IF k + 1 \in texts THEN Add(h[k].fields, <<N[k + 1]>>, V[k + 1]) ELSE h[k].fields
    BY <1>1, <1>2, <1>9, <2>1, <2>2, <2>3
  <2>6. k + 1 \in texts => V[k + 1] \in C BY <1>1, <1>2, <1>9, <2>1, <2>3
  <2> DEFINE f == h[k].fields
             g == h[k + 1].fields
  <2>7. FieldsTo(f, k, texts, N, V, C) /\ g = IF k + 1 \in texts THEN Add(f, <<N[k + 1]>>, V[k + 1]) ELSE f BY <2>3, <2>5
  <2> HIDE DEF f, g
  <2>8. FieldsTo(g, k + 1, texts, N, V, C) BY <1>1, <2>6, <2>7, OneFieldMore
  <2> QED BY <2>1, <2>4, <2>8 DEF g
<1>6. n \in 0..n BY <1>1
<1> HIDE DEF P
<1>7. n \in P BY <1>1, <1>4, <1>5, <1>6, CountingUp
<1> QED BY <1>7 DEF P, n, texts, N, V

LEMMA PairsParsed ==
  ASSUME NEW pairs, Len(pairs) \in Nat
  PROVE  \E h : ParseRun(h, "urlencoded", pairs, Len(pairs)) /\ UrlEncoded(pairs) = h[Len(pairs)]
<1> DEFINE n == Len(pairs)
           Is(h) == h = [i \in 0..n |-> IF i = 0 THEN Empty ELSE Encoded(h[i - 1], pairs[i])]
           g == CHOOSE h : Is(h)
<1>1. UrlEncoded(pairs) = g[n] BY DEF UrlEncoded
<1>2. \A h : ParseRun(h, "urlencoded", pairs, n) <=> Is(h) BY DEF ParseRun, Step
<1>3. \E h : ParseRun(h, "urlencoded", pairs, n) BY ParseRuns
<1> HIDE DEF Is
<1>4. Is(g) BY <1>2, <1>3
<1> QED BY <1>1, <1>2, <1>4

LEMMA PartsParsed ==
  ASSUME NEW parts, Len(parts) \in Nat, NEW type, type # "urlencoded"
  PROVE  \E h : ParseRun(h, type, parts, Len(parts)) /\ Multipart(parts) = h[Len(parts)]
<1> DEFINE n == Len(parts)
           Is(h) == h = [i \in 0..n |-> IF i = 0 THEN Empty ELSE Taken(h[i - 1], parts[i])]
           g == CHOOSE h : Is(h)
<1>1. Multipart(parts) = g[n] BY DEF Multipart
<1>2. \A h : ParseRun(h, type, parts, n) <=> Is(h) BY DEF ParseRun, Step
<1>3. \E h : ParseRun(h, type, parts, n) BY ParseRuns
<1> HIDE DEF Is
<1>4. Is(g) BY <1>2, <1>3
<1> QED BY <1>1, <1>2, <1>4

LEMMA FoundThen ==
  ASSUME NEW form, NEW fields, NEW C, Len(SentIn(form)) \in Nat, DOMAIN SentIn(form) = 1..Len(SentIn(form)),
         FieldsTo(fields, Len(SentIn(form)), Texts(form, SentIn(form)), NamesOf(form, SentIn(form)), ValuesOf(form, SentIn(form)), C)
  PROVE  Found(form, fields)
<1> DEFINE posted == SentIn(form)
           n == Len(posted)
           texts == Texts(form, posted)
           N == NamesOf(form, posted)
           V == ValuesOf(form, posted)
<1>1. n \in Nat /\ texts \in SUBSET (1..n) /\ texts = {i \in DOMAIN posted : IsText(form, posted[i])} BY DEF Texts
<1>2. \A i \in texts : N[i] = NameIn(form, posted[i]) /\ V[i] = ValueIn(form, posted[i]) BY DEF Texts, NamesOf, ValuesOf
<1> HIDE DEF posted, texts, N, V
<1> HIDE DEF n
<1>3. \A i, name : {j \in texts : j =< i /\ NameIn(form, posted[j]) = name} = Named(texts, N, i, name)
  BY <1>2 DEF Named
<1>4. /\ DOMAIN fields = {<<N[i]>> : i \in {i \in texts : i =< n}}
      /\ \A i \in texts : i =< n => /\ Len(fields[<<N[i]>>]) = Count(texts, N, n, N[i])
                                    /\ fields[<<N[i]>>][Count(texts, N, i, N[i])] = V[i]
  BY DEF FieldsTo, posted, texts, N, V, n
<1>5. {i \in texts : i =< n} = texts /\ \A i \in texts : i =< n BY <1>1
<1>6. DOMAIN fields = {<<NameIn(form, posted[i])>> : i \in texts} BY <1>2, <1>4, <1>5
<1>7. ASSUME NEW i \in texts
      PROVE  /\ Len(fields[<<NameIn(form, posted[i])>>]) = Cardinality({j \in texts : j =< n /\ NameIn(form, posted[j]) = NameIn(form, posted[i])})
             /\ fields[<<NameIn(form, posted[i])>>][Cardinality({j \in texts : j =< i /\ NameIn(form, posted[j]) = NameIn(form, posted[i])})] = ValueIn(form, posted[i])
  <2>1. NameIn(form, posted[i]) = N[i] /\ ValueIn(form, posted[i]) = V[i] BY <1>2
  <2>2. {j \in texts : j =< n /\ NameIn(form, posted[j]) = NameIn(form, posted[i])} = Named(texts, N, n, N[i])
        /\ {j \in texts : j =< i /\ NameIn(form, posted[j]) = NameIn(form, posted[i])} = Named(texts, N, i, N[i]) BY <1>3, <2>1
  <2>3. Len(fields[<<N[i]>>]) = Cardinality(Named(texts, N, n, N[i]))
        /\ fields[<<N[i]>>][Cardinality(Named(texts, N, i, N[i]))] = V[i] BY <1>4, <1>5 DEF Count
  <2> QED BY <2>1, <2>2, <2>3
<1> QED BY <1>1, <1>6, <1>7 DEF Found, posted, n

LEMMA FormArrives ==
  ASSUME NEW C, NEW form, IsForm(form, C)
  PROVE  Found(form, ParseFormBody(form).fields)
<1> DEFINE posted == SentIn(form)
<1>1. CASE form.type = "urlencoded"
  <2>1. posted = form.pairs /\ posted \in Seq(Seq(C)) /\ \A i \in 1..Len(posted) : Len(posted[i]) \in {1, 2} BY <1>1 DEF SentIn, IsForm
  <2>2. ParseFormBody(form) = UrlEncoded(posted) BY <1>1, <2>1 DEF ParseFormBody
  <2> HIDE DEF posted
  <2>3. Len(posted) \in Nat /\ DOMAIN posted = 1..Len(posted) /\ \A i \in 1..Len(posted) : posted[i] \in Seq(C) BY <2>1
  <2>4. PICK h : ParseRun(h, "urlencoded", posted, Len(posted)) /\ UrlEncoded(posted) = h[Len(posted)] BY <2>3, PairsParsed
  <2>5. Adds(form, posted, C)
    <3>1. ASSUME NEW i \in 1..Len(posted), NEW done, IsDone(done)
          PROVE  /\ IsDone(Step(form.type, done, posted[i]))
                 /\ Step(form.type, done, posted[i]).fields =
                      IF IsText(form, posted[i]) THEN Add(done.fields, <<NameIn(form, posted[i])>>, ValueIn(form, posted[i])) ELSE done.fields
                 /\ IsText(form, posted[i]) => ValueIn(form, posted[i]) \in C
      <4>1. Step(form.type, done, posted[i]) = Encoded(done, posted[i]) BY <1>1 DEF Step
      <4>2. posted[i] \in Seq(C) /\ Len(posted[i]) \in {1, 2} BY <2>1, <2>3
      <4>3. IsText(form, posted[i]) => posted[i][2] \in C
        <5>2. IsText(form, posted[i]) => Len(posted[i]) = 2 BY <1>1 DEF IsText
        <5>1. 2 \in 1..2 OBVIOUS
        <5>3. CASE Len(posted[i]) = 2
          <6>1. posted[i][2] \in C BY <4>2, <5>1, <5>3
          <6> QED BY <6>1
        <5> QED BY <5>2, <5>3
      <4>4. ValueIn(form, posted[i]) = posted[i][2] BY <1>1 DEF ValueIn
      <4> QED BY <1>1, <3>1, <4>1, <4>2, <4>3, <4>4, PairAdds
    <3> QED BY <3>1 DEF Adds
  <2>6. FieldsTo(h[Len(posted)].fields, Len(posted), Texts(form, posted), NamesOf(form, posted), ValuesOf(form, posted), C)
    BY <1>1, <2>3, <2>4, <2>5, FormRuns
  <2>7. Found(form, h[Len(posted)].fields) BY <2>3, <2>6, FoundThen DEF posted
  <2> QED BY <2>2, <2>4, <2>7
<1>2. CASE form.type = "multipart"
  <2>1. posted = Delimited(form) BY <1>2 DEF SentIn, Delimited, Front
  <2>2. form.parts \in Seq(PartsOf(C)) BY <1>2 DEF IsForm
  <2>3. posted \in Seq(PartsOf(C))
    <3>1. Len(form.parts) \in Nat BY <2>2
    <3>2. SubSeq(form.parts, 1, Len(form.parts) - 1) \in Seq(PartsOf(C))
      <4>1. \A i \in 1..(Len(form.parts) - 1) : form.parts[i] \in PartsOf(C) BY <2>2, <3>1
      <4>2. 1 \in Int /\ Len(form.parts) - 1 \in Int BY <3>1
      <4> QED BY <4>1, <4>2, SubSeqProperties
    <3> QED BY <2>1, <2>2, <3>2 DEF Delimited
  <2>4. ParseFormBody(form) = Multipart(posted) BY <1>2, <2>1 DEF ParseFormBody
  <2> HIDE DEF posted
  <2>5. Len(posted) \in Nat /\ DOMAIN posted = 1..Len(posted) /\ \A i \in 1..Len(posted) : posted[i] \in PartsOf(C) BY <2>3
  <2>6. PICK h : ParseRun(h, form.type, posted, Len(posted)) /\ Multipart(posted) = h[Len(posted)] BY <1>2, <2>5, PartsParsed
  <2>7. Adds(form, posted, C)
    <3>1. ASSUME NEW i \in 1..Len(posted), NEW done, IsDone(done)
          PROVE  /\ IsDone(Step(form.type, done, posted[i]))
                 /\ Step(form.type, done, posted[i]).fields =
                      IF IsText(form, posted[i]) THEN Add(done.fields, <<NameIn(form, posted[i])>>, ValueIn(form, posted[i])) ELSE done.fields
                 /\ IsText(form, posted[i]) => ValueIn(form, posted[i]) \in C
      <4>1. Step(form.type, done, posted[i]) = Taken(done, posted[i]) BY <1>2 DEF Step
      <4>2. IsPart(posted[i], C) /\ posted[i].file \in BOOLEAN /\ posted[i].blank \in BOOLEAN /\ posted[i].data \in C
        BY <2>5 DEF PartsOf
      <4>3. ValueIn(form, posted[i]) = posted[i].data /\ form.type # "urlencoded" BY <1>2 DEF ValueIn
      <4> QED BY <3>1, <4>1, <4>2, <4>3, PartAdds
    <3> QED BY <3>1 DEF Adds
  <2>8. FieldsTo(h[Len(posted)].fields, Len(posted), Texts(form, posted), NamesOf(form, posted), ValuesOf(form, posted), C)
    BY <2>5, <2>6, <2>7, FormRuns
  <2>9. Found(form, h[Len(posted)].fields) BY <2>5, <2>8, FoundThen DEF posted
  <2> QED BY <2>4, <2>6, <2>9
<1>3. CASE form.type # "urlencoded" /\ form.type # "multipart"
  <2>1. posted = << >> /\ ParseFormBody(form) = Empty BY <1>3 DEF SentIn, ParseFormBody
  <2>2. Empty.fields = NoFields /\ DOMAIN NoFields = {} BY DEF Empty, NoFields
  <2>3. DOMAIN posted = {} BY <2>1
  <2> HIDE DEF posted
  <2> QED BY <2>1, <2>2, <2>3 DEF Found, posted
<1> QED BY <1>1, <1>2, <1>3
-----------------------------------------------------------------------------
(* HttpMessages: what of a response's headers is written as it is.          *)
Rest(rest, h) == IF h[1] \in Computed THEN rest ELSE Append(rest, h)
RestRun(h, headers, n) == h = [i \in 0..n |-> IF i = 0 THEN << >> ELSE Rest(h[i - 1], headers[i])]
RestsOn(h, headers, n) == h[0] = << >> /\ \A i \in 1..n : h[i] = Rest(h[i - 1], headers[i])

LEMMA RestRuns ==
  ASSUME NEW T, NEW headers \in Seq(T)
  PROVE  \E h : RestRun(h, headers, Len(headers)) /\ \A i \in 0..Len(headers) : h[i] \in Seq(T)
<1> DEFINE D == Seq(T)
           F == [x \in D \X T |-> Rest(x[1], x[2])]
           nothing == << >>
           n == Len(headers)
<1>1. F \in [D \X T -> D]
  <2>1. ASSUME NEW s \in D, NEW h \in T PROVE Rest(s, h) \in D
    <3>1. s \in Seq(T) /\ Append(s, h) \in Seq(T) OBVIOUS
    <3> QED BY <3>1 DEF Rest
  <2> HIDE DEF D
  <2> QED BY <2>1
<1>2. nothing \in D OBVIOUS
<1>3. \A d \in D : \A c \in T : F[<<d, c>>] = Rest(d, c) OBVIOUS
<1>4. n \in Nat /\ \A i \in 1..n : headers[i] \in T OBVIOUS
<1> HIDE DEF D, F, nothing
<1>5. PICK h : IsRun(h, D, nothing, headers, F, n) BY <1>1, <1>2, RunsExist
<1> HIDE DEF n
<1>6. h \in [0..n -> D] /\ h[0] = nothing /\ \A i \in 1..n : h[i] = F[<<h[i - 1], headers[i]>>] BY <1>5 DEF IsRun
<1>7. ASSUME NEW i \in 0..n PROVE h[i] = IF i = 0 THEN nothing ELSE Rest(h[i - 1], headers[i])
  <2>1. CASE i = 0 BY <1>6, <2>1
  <2>2. CASE i # 0
    <3>1. i \in 1..n /\ i - 1 \in 0..n BY <1>4, <2>2
    <3>2. h[i - 1] \in D /\ headers[i] \in T BY <1>4, <1>6, <3>1
    <3> QED BY <1>3, <1>6, <2>2, <3>1, <3>2
  <2> QED BY <2>1, <2>2
<1>8. h = [i \in 0..n |-> h[i]] BY <1>6
<1>9. RestRun(h, headers, n) BY <1>7, <1>8 DEF RestRun, nothing
<1> QED BY <1>6, <1>9 DEF D, n

LEMMA OneRestRun ==
  ASSUME NEW n \in Nat, NEW headers, NEW g, NEW h, RestsOn(g, headers, n), RestsOn(h, headers, n)
  PROVE  g[n] = h[n]
<1> DEFINE P == {i \in 0..n : g[i] = h[i]}
<1>1. 0 \in P BY DEF RestsOn
<1>2. ASSUME NEW i \in 0..(n - 1), i \in P PROVE i + 1 \in P
  <2>1. i + 1 \in 1..n /\ i + 1 \in 0..n /\ (i + 1) - 1 = i OBVIOUS
  <2>2. g[i + 1] = Rest(g[i], headers[i + 1]) /\ h[i + 1] = Rest(h[i], headers[i + 1]) BY <2>1 DEF RestsOn
  <2> QED BY <1>2, <2>1, <2>2
<1>3. n \in 0..n OBVIOUS
<1> HIDE DEF P
<1>4. n \in P BY <1>1, <1>2, <1>3, CountingUp
<1> QED BY <1>4 DEF P

LEMMA RestIsRun ==
  ASSUME NEW T, NEW headers \in Seq(T), NEW h, RestRun(h, headers, Len(headers))
  PROVE  Others(headers) = h[Len(headers)]
<1> DEFINE n == Len(headers)
           g == CHOOSE g : RestRun(g, headers, n)
<1>1. Others(headers) = g[n] BY DEF Others, RestRun, Rest
<1>2. n \in Nat OBVIOUS
<1>3. RestRun(g, headers, n) OBVIOUS
<1> HIDE DEF g, n
<1>4. RestsOn(g, headers, n) /\ RestsOn(h, headers, n)
  <2>1. \A i \in 0..n : g[i] = IF i = 0 THEN << >> ELSE Rest(g[i - 1], headers[i]) BY <1>3 DEF RestRun
  <2>2. \A i \in 0..n : h[i] = IF i = 0 THEN << >> ELSE Rest(h[i - 1], headers[i]) BY DEF RestRun, n
  <2>3. 0 \in 0..n /\ \A i \in 1..n : i \in 0..n /\ i # 0 BY <1>2
  <2> QED BY <2>1, <2>2, <2>3 DEF RestsOn
<1>5. g[n] = h[n] BY <1>2, <1>4, OneRestRun
<1> QED BY <1>1, <1>5 DEF n

LEMMA RestTyped ==
  ASSUME NEW T, NEW headers \in Seq(T)
  PROVE  Others(headers) \in Seq(T)
<1>1. PICK h : RestRun(h, headers, Len(headers)) /\ \A i \in 0..Len(headers) : h[i] \in Seq(T) BY RestRuns
<1>2. Len(headers) \in 0..Len(headers) OBVIOUS
<1> QED BY <1>1, <1>2, RestIsRun

LEMMA NoRest == Others(<< >>) = << >>
<1> DEFINE nothing == << >>
<1>1. nothing \in Seq({}) /\ Len(nothing) = 0 OBVIOUS
<1> HIDE DEF nothing
<1>2. PICK h : RestRun(h, nothing, Len(nothing)) BY <1>1, RestRuns
<1>3. h[0] = << >> BY <1>1, <1>2 DEF RestRun
<1>4. Others(nothing) = h[0] BY <1>1, <1>2, RestIsRun
<1> QED BY <1>3, <1>4 DEF nothing

LEMMA RestMore ==
  ASSUME NEW T, NEW headers \in Seq(T), NEW c \in T
  PROVE  Others(Append(headers, c)) = Rest(Others(headers), c)
<1> DEFINE more == Append(headers, c)
           n == Len(headers)
<1>1. more \in Seq(T) /\ Len(more) = n + 1 /\ n \in Nat /\ more[n + 1] = c /\ \A i \in 1..n : more[i] = headers[i]
  OBVIOUS
<1> HIDE DEF more, n
<1>2. PICK h : RestRun(h, more, n + 1) BY <1>1, RestRuns
<1>3. Others(more) = h[n + 1] BY <1>1, <1>2, RestIsRun
<1>4. h[0] = << >> /\ \A i \in 1..(n + 1) : h[i] = Rest(h[i - 1], more[i]) BY <1>1, <1>2 DEF RestRun
<1> DEFINE g == [i \in 0..n |-> h[i]]
<1>5. RestRun(g, headers, n)
  <2>1. ASSUME NEW i \in 0..n PROVE h[i] = IF i = 0 THEN << >> ELSE Rest(g[i - 1], headers[i])
    <3>1. CASE i = 0 BY <1>4, <3>1
    <3>2. CASE i # 0
      <4>1. i \in 1..n /\ i \in 1..(n + 1) /\ i - 1 \in 0..n BY <1>1, <3>2
      <4>2. g[i - 1] = h[i - 1] BY <4>1
      <4>3. more[i] = headers[i] BY <1>1, <4>1
      <4> QED BY <1>4, <3>2, <4>1, <4>2, <4>3
    <3> QED BY <3>1, <3>2
  <2> QED BY <2>1 DEF RestRun
<1>6. Others(headers) = g[n] BY <1>5, RestIsRun DEF n
<1>7. g[n] = h[n] BY <1>1
<1>8. h[n + 1] = Rest(h[n], more[n + 1])
  <2>1. n + 1 \in 1..(n + 1) /\ (n + 1) - 1 = n BY <1>1
  <2> QED BY <1>4, <2>1
<1> QED BY <1>1, <1>3, <1>6, <1>7, <1>8 DEF more

AppendsBehind(s, t, c) == Append(s \o t, c) = s \o Append(t, c)

LEMMA AppendBehind ==
  ASSUME NEW T, NEW s \in Seq(T), NEW t \in Seq(T), NEW c \in T
  PROVE  AppendsBehind(s, t, c)
BY DEF AppendsBehind

(* More headers are written behind, or not at all.                          *)
LEMMA RestBehind ==
  ASSUME NEW T, NEW headers \in Seq(T), NEW more \in Seq(T)
  PROVE  /\ (\A i \in 1..Len(more) : more[i][1] \notin Computed) => Others(headers \o more) = Others(headers) \o more
         /\ (\A i \in 1..Len(more) : more[i][1] \in Computed) => Others(headers \o more) = Others(headers)
<1> DEFINE n == Len(more)
           Part(k) == SubSeq(more, 1, k)
           rest == Others(headers)
<1>1. n \in Nat /\ Part(0) = << >> /\ Part(n) = more /\ \A i \in 1..n : more[i] \in T OBVIOUS
<1>2. \A k \in 0..n : Part(k) \in Seq(T) BY <1>1
<1>3. \A k \in 0..(n - 1) : Part(k + 1) = Append(Part(k), more[k + 1]) BY <1>1
<1>4. rest \in Seq(T) BY RestTyped
<1>5. headers \o << >> = headers /\ rest \o << >> = rest BY <1>4
<1> HIDE DEF n, Part, rest
<1>6. ASSUME NEW k \in 0..(n - 1)
      PROVE  Others(headers \o Part(k + 1)) = Rest(Others(headers \o Part(k)), more[k + 1])
  <2>1. k + 1 \in 1..n /\ k \in 0..n BY <1>1
  <2> DEFINE u == Part(k)
             c == more[k + 1]
  <2>2. u \in Seq(T) /\ c \in T /\ Part(k + 1) = Append(u, c) BY <1>1, <1>2, <1>3, <2>1
  <2> HIDE DEF u, c
  <2> DEFINE v == headers \o u
  <2>3. v \in Seq(T) BY <2>2
  <2>4. headers \o Append(u, c) = Append(v, c) BY <2>2
  <2> HIDE DEF v
  <2>5. Others(Append(v, c)) = Rest(Others(v), c) BY <2>2, <2>3, RestMore
  <2> QED BY <2>2, <2>4, <2>5 DEF u, c, v
<1>7. ASSUME \A i \in 1..n : more[i][1] \notin Computed PROVE Others(headers \o more) = rest \o more
  <2> DEFINE P == {k \in 0..n : Others(headers \o Part(k)) = rest \o Part(k)}
  <2>1. 0 \in P
    <3>1. 0 \in 0..n BY <1>1
    <3>2. headers \o Part(0) = headers /\ rest \o Part(0) = rest BY <1>1, <1>5
    <3> QED BY <3>1, <3>2 DEF rest
  <2>2. ASSUME NEW k \in 0..(n - 1), k \in P PROVE k + 1 \in P
    <3>1. k + 1 \in 1..n /\ k + 1 \in 0..n /\ k \in 0..n BY <1>1
    <3>2. Others(headers \o Part(k + 1)) = Rest(rest \o Part(k), more[k + 1]) BY <1>6, <2>2
    <3>3. Rest(rest \o Part(k), more[k + 1]) = Append(rest \o Part(k), more[k + 1]) BY <1>7, <3>1 DEF Rest
    <3> DEFINE u == Part(k)
               c == more[k + 1]
    <3>4. u \in Seq(T) /\ c \in T BY <1>1, <1>2, <3>1
    <3> HIDE DEF u, c
    <3>5. rest \in Seq(T) /\ u \in Seq(T) /\ c \in T BY <1>4, <3>4
    <3>7. Append(rest \o u, c) = rest \o Append(u, c)
      <4>1. AppendsBehind(rest, u, c) BY <3>5, AppendBehind
      <4> QED BY <4>1 DEF AppendsBehind
    <3>6. Others(headers \o Part(k + 1)) = rest \o Part(k + 1) BY <1>3, <3>2, <3>3, <3>7 DEF u, c
    <3> QED BY <3>1, <3>6
  <2>3. n \in 0..n BY <1>1
  <2> HIDE DEF P
  <2>4. n \in P BY <1>1, <2>1, <2>2, <2>3, CountingUp
  <2> QED BY <1>1, <2>4 DEF P
<1>8. ASSUME \A i \in 1..n : more[i][1] \in Computed PROVE Others(headers \o more) = rest
  <2> DEFINE P == {k \in 0..n : Others(headers \o Part(k)) = rest}
  <2>1. 0 \in P
    <3>1. 0 \in 0..n BY <1>1
    <3>2. headers \o Part(0) = headers BY <1>1, <1>5
    <3> QED BY <3>1, <3>2 DEF rest
  <2>2. ASSUME NEW k \in 0..(n - 1), k \in P PROVE k + 1 \in P
    <3>1. k + 1 \in 1..n /\ k + 1 \in 0..n BY <1>1
    <3>2. Others(headers \o Part(k + 1)) = Rest(rest, more[k + 1]) BY <1>6, <2>2
    <3>3. Rest(rest, more[k + 1]) = rest BY <1>8, <3>1 DEF Rest
    <3> QED BY <3>1, <3>2, <3>3
  <2>3. n \in 0..n BY <1>1
  <2> HIDE DEF P
  <2>4. n \in P BY <1>1, <2>1, <2>2, <2>3, CountingUp
  <2> QED BY <1>1, <2>4 DEF P
<1> QED BY <1>7, <1>8 DEF n, rest

(* What is written is a header, and none that is computed.                  *)
LEMMA RestNamed ==
  ASSUME NEW T, NEW headers \in Seq(T)
  PROVE  \A i \in 1..Len(Others(headers)) :
           /\ Others(headers)[i][1] \notin Computed
           /\ \E j \in 1..Len(headers) : Others(headers)[i] = headers[j]
<1> DEFINE n == Len(headers)
           Part(k) == SubSeq(headers, 1, k)
           From(s, k) == \A i \in 1..Len(s) : s[i][1] \notin Computed /\ \E j \in 1..k : s[i] = headers[j]
           P == {k \in 0..n : From(Others(Part(k)), k)}
<1>1. n \in Nat /\ Part(0) = << >> /\ Part(n) = headers /\ \A i \in 1..n : headers[i] \in T OBVIOUS
<1>2. \A k \in 0..n : Part(k) \in Seq(T) BY <1>1
<1>3. \A k \in 0..(n - 1) : Part(k + 1) = Append(Part(k), headers[k + 1]) BY <1>1
<1> HIDE DEF n, Part
<1>4. 0 \in P
  <2>1. Others(Part(0)) = << >> /\ 0 \in 0..n BY <1>1, NoRest
  <2>2. Len(<< >>) = 0 OBVIOUS
  <2> QED BY <2>1, <2>2
<1>5. ASSUME NEW k \in 0..(n - 1), k \in P PROVE k + 1 \in P
  <2> DEFINE s == Others(Part(k))
             c == headers[k + 1]
             t == Others(Part(k + 1))
  <2>1. k + 1 \in 1..n /\ k + 1 \in 0..n /\ k \in 0..n /\ k + 1 \in 1..(k + 1) /\ \A j \in 1..k : j \in 1..(k + 1) BY <1>1
  <2>2. Part(k) \in Seq(T) /\ c \in T /\ Part(k + 1) = Append(Part(k), c) BY <1>1, <1>2, <1>3, <2>1
  <2> HIDE DEF c
  <2>3. t = Rest(s, c) BY <2>2, RestMore
  <2>4. s \in Seq(T) BY <2>2, RestTyped
  <2>5. \A i \in 1..Len(s) : s[i][1] \notin Computed /\ \E j \in 1..k : s[i] = headers[j] BY <1>5
  <2>9. k + 1 \in 1..(k + 1) /\ c = headers[k + 1] BY <2>1 DEF c
  <2> HIDE DEF s, t
  <2>6. CASE c[1] \in Computed
    <3>1. t = s BY <2>3, <2>6 DEF Rest
    <3>2. From(t, k + 1) BY <2>1, <2>5, <3>1
    <3> QED BY <2>1, <3>2 DEF t
  <2>7. CASE c[1] \notin Computed
    <3>1. t = Append(s, c) BY <2>3, <2>7 DEF Rest
    <3>2. Len(t) = Len(s) + 1 /\ t[Len(s) + 1] = c /\ Len(s) \in Nat /\ \A i \in 1..Len(s) : t[i] = s[i] BY <2>2, <2>4, <3>1
    <3>3. ASSUME NEW i \in 1..Len(t) PROVE t[i][1] \notin Computed /\ \E j \in 1..(k + 1) : t[i] = headers[j]
      <4>1. CASE i = Len(s) + 1 BY <2>7, <2>9, <3>2, <4>1
      <4>2. CASE i # Len(s) + 1
        <5>1. i \in 1..Len(s) /\ t[i] = s[i] BY <3>2, <4>2
        <5>2. PICK j \in 1..k : s[i] = headers[j] BY <2>5, <5>1
        <5> QED BY <2>1, <2>5, <5>1, <5>2
      <4> QED BY <4>1, <4>2
    <3>4. From(t, k + 1) BY <3>3
    <3> QED BY <2>1, <3>4 DEF t
  <2> QED BY <2>6, <2>7
<1>6. n \in 0..n BY <1>1
<1> HIDE DEF P
<1>7. n \in P BY <1>1, <1>4, <1>5, <1>6, CountingUp
<1> QED BY <1>1, <1>7 DEF P, n
-----------------------------------------------------------------------------
(* HttpMessages: the headers of a reply, and what a middleware may add.      *)
Makers == {"new", "static_file", "asset", "json", "sse", "redirect", "markup", "data"}
Words == {"text/html", "application/json", "none", "text/event-stream", "by-extension", "asset", "no-cache", "keep-alive",
          "no", "nosniff", "DENY", "target", "length"}
BuiltNames == {"content-type", "location", "cache-control", "connection", "x-accel-buffering", "x-content-type-options",
               "x-frame-options"}
HeaderLine(key, value) == <<key[1], key[2], value>>

(* The values of middlewares are those of V: no other line has one of them. *)
IsReply(input, X, V) ==
  /\ input.maker \in Makers
  /\ input.more \in Seq(X) /\ \A i \in 1..Len(input.more) : input.more[i][1] # "set-cookie" /\ input.more[i][3] \notin V
  /\ IsFiniteSet(DOMAIN input.middlewares)
  /\ \A key \in DOMAIN input.middlewares : /\ key = <<key[1], key[2]>> /\ key[1] # "set-cookie"
                                           /\ input.middlewares[key] \in Seq(V)
  /\ "set-cookie" \notin input.client
  /\ IsFiniteSet(input.jar) /\ input.jar \cap V = {} /\ Words \cap V = {}

BuiltLines == BuiltNames \X {"Usual"} \X Words

LEMMA BuiltTyped ==
  ASSUME NEW maker \in Makers
  PROVE  Built(maker).headers \in Seq(BuiltLines)
<1>1. \A type \in Words : Typed(type) \in Seq(BuiltLines) BY DEF Typed, Header, BuiltLines, BuiltNames
<1>2. NoSniff \in BuiltLines /\ Deny \in BuiltLines BY DEF NoSniff, Deny, Header, BuiltLines, BuiltNames, Words
<1>3. "text/html" \in Words /\ "application/json" \in Words /\ "text/event-stream" \in Words /\ "asset" \in Words BY DEF Words
<1>4. <<NoSniff>> \in Seq(BuiltLines) /\ <<NoSniff, Deny>> \in Seq(BuiltLines) BY <1>2
<1>5. <<Header("location", "target")>> \in Seq(BuiltLines)
  <2>1. Header("location", "target") \in BuiltLines BY DEF Header, BuiltLines, BuiltNames, Words
  <2> QED BY <2>1
<1>6. <<Header("cache-control", "no-cache"), Header("connection", "keep-alive"), Header("x-accel-buffering", "no"), NoSniff>>
        \in Seq(BuiltLines)
  <2>1. Header("cache-control", "no-cache") \in BuiltLines BY DEF Header, BuiltLines, BuiltNames, Words
  <2>2. Header("connection", "keep-alive") \in BuiltLines BY DEF Header, BuiltLines, BuiltNames, Words
  <2>3. Header("x-accel-buffering", "no") \in BuiltLines BY DEF Header, BuiltLines, BuiltNames, Words
  <2> HIDE DEF BuiltLines
  <2> QED BY <1>2, <2>1, <2>2, <2>3
<1>7. \A s, t \in Seq(BuiltLines) : s \o t \in Seq(BuiltLines)
  <2> HIDE DEF BuiltLines
  <2> QED OBVIOUS
<1>8. \A type \in Words : Typed(type) \o <<NoSniff>> \in Seq(BuiltLines) /\ Typed(type) \o <<NoSniff, Deny>> \in Seq(BuiltLines)
  BY <1>1, <1>4, <1>7
<1>9. CASE maker = "new" \/ maker = "static_file" BY <1>4, <1>9 DEF Built
<1>10. CASE maker = "asset" BY <1>3, <1>8, <1>10 DEF Built, Asset
<1>11. CASE maker = "json" BY <1>3, <1>8, <1>11 DEF Built, Json, JsonHeaders
<1>12. CASE maker = "sse" BY <1>1, <1>3, <1>6, <1>7, <1>12 DEF Built, EventStream
<1>13. CASE maker = "redirect"
  <2>1. <<Header("location", "target")>> \o Typed("text/html") \in Seq(BuiltLines) BY <1>1, <1>3, <1>5, <1>7
  <2>2. <<Header("location", "target")>> \o Typed("text/html") \o <<NoSniff, Deny>> \in Seq(BuiltLines) BY <1>4, <1>7, <2>1
  <2> QED BY <1>13, <2>2 DEF Built, Redirect
<1>14. CASE maker = "markup" \/ maker = "data"
  <2>1. Built(maker) = Payload(maker) BY <1>14 DEF Built
  <2>2. Converted(maker).type \in Words BY <1>3, <1>14 DEF Converted
  <2> QED BY <1>8, <2>1, <2>2 DEF Payload
<1> QED BY <1>9, <1>10, <1>11, <1>12, <1>13, <1>14 DEF Makers

Base(input) == Built(input.maker).headers \o input.more

LEMMA BaseTyped ==
  ASSUME NEW X, NEW V, NEW input, IsReply(input, X, V)
  PROVE  /\ Base(input) \in Seq(BuiltLines \cup X)
         /\ \A i \in 1..Len(Base(input)) : Base(input)[i][1] # "set-cookie" /\ Base(input)[i][3] \notin V
<1> DEFINE T == BuiltLines \cup X
           s == Built(input.maker).headers
           t == input.more
<1>1. s \in Seq(BuiltLines) BY BuiltTyped DEF IsReply
<1>2. t \in Seq(X) /\ \A i \in 1..Len(t) : t[i][1] # "set-cookie" /\ t[i][3] \notin V BY DEF IsReply
<1>3. Words \cap V = {} BY DEF IsReply
<1>4. \A i \in 1..Len(s) : s[i][1] # "set-cookie" /\ s[i][3] \notin V
  <2>1. \A h \in BuiltLines : h[1] # "set-cookie" /\ h[3] \notin V
    <3>1. \A h \in BuiltLines : h[1] \in BuiltNames /\ h[3] \in Words BY DEF BuiltLines
    <3>2. "set-cookie" \notin BuiltNames BY DEF BuiltNames
    <3> QED BY <1>3, <3>1, <3>2
  <2> HIDE DEF s
  <2> QED BY <1>1, <2>1
<1>5. s \in Seq(T) /\ t \in Seq(T)
  <2>1. BuiltLines \subseteq T /\ X \subseteq T OBVIOUS
  <2> HIDE DEF T, s, t
  <2> QED BY <1>1, <1>2, <2>1, SeqMonotonic
<1> HIDE DEF T, s, t
<1>6. /\ s \o t \in Seq(T)
      /\ Len(s \o t) = Len(s) + Len(t)
      /\ \A i \in 1..(Len(s) + Len(t)) : (s \o t)[i] = IF i <= Len(s) THEN s[i] ELSE t[i - Len(s)]
  BY <1>5, ConcatProperties
<1>7. Len(s) \in Nat /\ Len(t) \in Nat BY <1>5
<1>8. ASSUME NEW i \in 1..Len(s \o t) PROVE (s \o t)[i][1] # "set-cookie" /\ (s \o t)[i][3] \notin V
  <2>1. i <= Len(s) => i \in 1..Len(s) BY <1>6, <1>7
  <2>2. ~ (i <= Len(s)) => i - Len(s) \in 1..Len(t) BY <1>6, <1>7
  <2> QED BY <1>2, <1>4, <1>6, <2>1, <2>2
<1> QED BY <1>6, <1>8 DEF Base, s, t, T
-----------------------------------------------------------------------------
(* HttpMessages: the headers of middlewares, entry after entry.             *)
Brought(key, values) == [i \in DOMAIN values |-> HeaderLine(key, values[i])]
MergesOn(h, headers, keys, middlewares, client) ==
  /\ h[0] = headers
  /\ \A i \in 1..Len(keys) : h[i] = Merged(h[i - 1], keys[i], middlewares[keys[i]], client)

LEMMA MergedIs ==
  ASSUME NEW s, NEW key, NEW values, NEW client
  PROVE  Merged(s, key, values, client) =
           IF key[1] \in client \/ key[1] \in HeaderNames(s) THEN s ELSE s \o Brought(key, values)
BY DEF Merged, Brought, HeaderLine

LEMMA MergeRuns ==
  ASSUME NEW T, NEW headers \in Seq(T), NEW middlewares, NEW client, NEW keys \in Seq(DOMAIN middlewares),
         \A key \in DOMAIN middlewares : Brought(key, middlewares[key]) \in Seq(T)
  PROVE  \E h : /\ MergesOn(h, headers, keys, middlewares, client)
                /\ MergedAll(headers, keys, middlewares, client) = h[Len(keys)]
<1> DEFINE D == Seq(T)
           K == DOMAIN middlewares
           F == [x \in D \X K |-> Merged(x[1], x[2], middlewares[x[2]], client)]
           n == Len(keys)
           Runs(h) == h = [i \in 0..n |-> IF i = 0 THEN headers ELSE Merged(h[i - 1], keys[i], middlewares[keys[i]], client)]
           g == CHOOSE g : Runs(g)
<1>1. F \in [D \X K -> D]
  <2>1. ASSUME NEW s \in D, NEW key \in K PROVE Merged(s, key, middlewares[key], client) \in D
    <3> DEFINE a == Brought(key, middlewares[key])
    <3>1. s \in Seq(T) /\ a \in Seq(T) OBVIOUS
    <3>2. Merged(s, key, middlewares[key], client) = s \/ Merged(s, key, middlewares[key], client) = s \o a BY MergedIs
    <3> HIDE DEF a
    <3>3. s \o a \in Seq(T) BY <3>1
    <3> QED BY <3>1, <3>2, <3>3
  <2> HIDE DEF D, K
  <2> QED BY <2>1
<1>2. headers \in D /\ keys \in Seq(K) OBVIOUS
<1>3. \A d \in D : \A c \in K : F[<<d, c>>] = Merged(d, c, middlewares[c], client) OBVIOUS
<1>4. n \in Nat /\ \A i \in 1..n : keys[i] \in K OBVIOUS
<1> HIDE DEF D, K, F
<1>5. PICK h : IsRun(h, D, headers, keys, F, n) BY <1>1, <1>2, RunsExist
<1> HIDE DEF n
<1>6. h \in [0..n -> D] /\ h[0] = headers /\ \A i \in 1..n : h[i] = F[<<h[i - 1], keys[i]>>] BY <1>5 DEF IsRun
<1>7. ASSUME NEW i \in 0..n PROVE h[i] = IF i = 0 THEN headers ELSE Merged(h[i - 1], keys[i], middlewares[keys[i]], client)
  <2>1. CASE i = 0 BY <1>6, <2>1
  <2>2. CASE i # 0
    <3>1. i \in 1..n /\ i - 1 \in 0..n BY <1>4, <2>2
    <3>2. h[i - 1] \in D /\ keys[i] \in K BY <1>4, <1>6, <3>1
    <3> QED BY <1>3, <1>6, <2>2, <3>1, <3>2
  <2> QED BY <2>1, <2>2
<1>8. h = [i \in 0..n |-> h[i]] BY <1>6
<1>9. Runs(h) BY <1>7, <1>8
<1>10. Runs(g) BY <1>9
<1>11. MergedAll(headers, keys, middlewares, client) = g[n] BY DEF MergedAll, n
<1> HIDE DEF g
<1>12. \A i \in 0..n : g[i] = IF i = 0 THEN headers ELSE Merged(g[i - 1], keys[i], middlewares[keys[i]], client) BY <1>10
<1>13. 0 \in 0..n /\ \A i \in 1..n : i \in 0..n /\ i # 0 BY <1>4
<1>14. MergesOn(g, headers, keys, middlewares, client) BY <1>12, <1>13 DEF MergesOn, n
<1> QED BY <1>11, <1>14 DEF n

(* The lines that an entry has brought stand together.                      *)
Block(o, key, values) ==
  \E k \in 0..Len(o) : /\ k + Len(values) =< Len(o)
                       /\ \A i \in 1..Len(o) : o[i][1] = key[1] <=> i \in (k + 1)..(k + Len(values))
                       /\ \A i \in 1..Len(values) : o[k + i] = HeaderLine(key, values[i])

AreBrought(t, key, values) ==
  /\ Len(t) = Len(values)
  /\ \A i \in 1..Len(values) : t[i] = HeaderLine(key, values[i]) /\ t[i][1] = key[1]

LEMMA BroughtTyped ==
  ASSUME NEW T, NEW V, NEW key, NEW values \in Seq(V), \A v \in V : HeaderLine(key, v) \in T
  PROVE  Brought(key, values) \in Seq(T) /\ AreBrought(Brought(key, values), key, values)
<1>1. DOMAIN values = 1..Len(values) /\ Len(values) \in Nat /\ \A i \in 1..Len(values) : values[i] \in V OBVIOUS
<1>2. Brought(key, values) = [i \in 1..Len(values) |-> HeaderLine(key, values[i])] BY <1>1 DEF Brought
<1>3. \A i \in 1..Len(values) : HeaderLine(key, values[i]) \in T BY <1>1
<1>4. Brought(key, values) \in [1..Len(values) -> T] BY <1>2, <1>3
<1>5. Brought(key, values) \in Seq(T) /\ Len(Brought(key, values)) = Len(values) BY <1>1, <1>4
<1>6. \A v : HeaderLine(key, v)[1] = key[1] BY DEF HeaderLine
<1> QED BY <1>2, <1>5, <1>6 DEF AreBrought

LEMMA NamesBehind ==
  ASSUME NEW T, NEW s \in Seq(T), NEW t \in Seq(T)
  PROVE  /\ HeaderNames(s) \subseteq HeaderNames(s \o t)
         /\ \A name \in HeaderNames(s \o t) : name \in HeaderNames(s) \/ \E i \in 1..Len(t) : t[i][1] = name
<1>1. /\ s \o t \in Seq(T)
      /\ Len(s \o t) = Len(s) + Len(t)
      /\ \A i \in 1..(Len(s) + Len(t)) : (s \o t)[i] = IF i <= Len(s) THEN s[i] ELSE t[i - Len(s)]
  BY ConcatProperties
<1>2. Len(s) \in Nat /\ Len(t) \in Nat /\ DOMAIN s = 1..Len(s) /\ DOMAIN (s \o t) = 1..Len(s \o t) BY <1>1
<1> DEFINE u == s \o t
<1> HIDE DEF u
<1>3. \A i \in 1..Len(s) : i \in 1..Len(u) /\ u[i] = s[i] BY <1>1, <1>2 DEF u
<1>4. \A i \in 1..Len(u) : (u[i] = s[i] /\ i \in 1..Len(s)) \/ (i - Len(s) \in 1..Len(t) /\ u[i] = t[i - Len(s)]) BY <1>1, <1>2 DEF u
<1> QED BY <1>2, <1>3, <1>4 DEF HeaderNames, u

LEMMA BlockNew ==
  ASSUME NEW T, NEW V, NEW o \in Seq(T), NEW key, NEW values \in Seq(V), \A v \in V : HeaderLine(key, v) \in T,
         \A i \in 1..Len(o) : o[i][1] # key[1]
  PROVE  Block(o \o Brought(key, values), key, values)
<1> DEFINE t == Brought(key, values)
           k == Len(o)
           n == Len(values)
           u == o \o t
<1>1. t \in Seq(T) /\ Len(t) = n /\ \A i \in 1..n : t[i] = HeaderLine(key, values[i]) /\ t[i][1] = key[1]
  <2>1. t \in Seq(T) /\ AreBrought(t, key, values) BY BroughtTyped
  <2> QED BY <2>1 DEF AreBrought
<1> HIDE DEF t
<1>12. o \in Seq(T) /\ t \in Seq(T) BY <1>1
<1>2. /\ o \o t \in Seq(T)
      /\ Len(o \o t) = Len(o) + Len(t)
      /\ \A i \in 1..(Len(o) + Len(t)) : (o \o t)[i] = IF i <= Len(o) THEN o[i] ELSE t[i - Len(o)]
  BY <1>12, ConcatProperties
<1>3. k \in Nat /\ n \in Nat OBVIOUS
<1>4. Len(u) = k + n /\ (\A i \in 1..k : u[i] = o[i]) /\ \A i \in (k + 1)..(k + n) : u[i] = t[i - k] /\ i - k \in 1..n
  BY <1>1, <1>2, <1>3
<1> HIDE DEF u, k, n
<1>5. \A i \in 1..n : k + i \in (k + 1)..(k + n) /\ (k + i) - k = i BY <1>3
<1>6. \A i \in 1..n : u[k + i] = HeaderLine(key, values[i]) BY <1>1, <1>4, <1>5
<1>7. \A i \in 1..(k + n) : i \in 1..k \/ i \in (k + 1)..(k + n) BY <1>3
<1>8. \A i \in 1..k : i \notin (k + 1)..(k + n) BY <1>3
<1>9. \A i \in 1..Len(u) : u[i][1] = key[1] <=> i \in (k + 1)..(k + n)
  <2>1. \A i \in 1..k : u[i][1] # key[1] BY <1>4 DEF k
  <2>2. \A i \in (k + 1)..(k + n) : u[i][1] = key[1] BY <1>1, <1>4
  <2> QED BY <1>4, <1>7, <1>8, <2>1, <2>2
<1>10. k \in 0..Len(u) /\ k + n =< Len(u) BY <1>3, <1>4
<1>11. \E j \in 0..Len(u) : /\ j + n =< Len(u)
                            /\ \A i \in 1..Len(u) : u[i][1] = key[1] <=> i \in (j + 1)..(j + n)
                            /\ \A i \in 1..n : u[j + i] = HeaderLine(key, values[i])
  BY <1>6, <1>9, <1>10
<1> QED BY <1>11 DEF Block, u, t, n

LEMMA BlockBehind ==
  ASSUME NEW T, NEW V, NEW o \in Seq(T), NEW t \in Seq(T), NEW key, NEW values \in Seq(V), Block(o, key, values),
         \A i \in 1..Len(t) : t[i][1] # key[1]
  PROVE  Block(o \o t, key, values)
<1> DEFINE n == Len(values)
           u == o \o t
<1>1. PICK k \in 0..Len(o) : /\ k + n =< Len(o)
                             /\ \A i \in 1..Len(o) : o[i][1] = key[1] <=> i \in (k + 1)..(k + n)
                             /\ \A i \in 1..n : o[k + i] = HeaderLine(key, values[i])
  BY DEF Block
<1>2. /\ o \o t \in Seq(T)
      /\ Len(o \o t) = Len(o) + Len(t)
      /\ \A i \in 1..(Len(o) + Len(t)) : (o \o t)[i] = IF i <= Len(o) THEN o[i] ELSE t[i - Len(o)]
  BY ConcatProperties
<1>3. Len(o) \in Nat /\ Len(t) \in Nat /\ n \in Nat /\ k \in Nat OBVIOUS
<1>4. Len(u) = Len(o) + Len(t) /\ \A i \in 1..Len(o) : u[i] = o[i] BY <1>2, <1>3
<1>5. \A i \in 1..Len(u) : i \in 1..Len(o) \/ (~ (i <= Len(o)) /\ i - Len(o) \in 1..Len(t) /\ u[i] = t[i - Len(o)]) BY <1>2, <1>3
<1> HIDE DEF u, n
<1>6. \A i \in 1..Len(u) : u[i][1] = key[1] <=> i \in (k + 1)..(k + n)
  <2> SUFFICES ASSUME NEW i \in 1..Len(u) PROVE u[i][1] = key[1] <=> i \in (k + 1)..(k + n) OBVIOUS
  <2>1. CASE i \in 1..Len(o) BY <1>1, <1>4, <2>1
  <2>2. CASE ~ (i <= Len(o)) /\ i - Len(o) \in 1..Len(t) /\ u[i] = t[i - Len(o)]
    <3>1. u[i][1] # key[1] BY <2>2
    <3>2. i \notin (k + 1)..(k + n) BY <1>1, <1>3, <2>2
    <3> QED BY <3>1, <3>2
  <2> QED BY <1>5, <2>1, <2>2
<1>7. \A i \in 1..n : k + i \in 1..Len(o) BY <1>1, <1>3
<1>8. \A i \in 1..n : u[k + i] = HeaderLine(key, values[i]) BY <1>1, <1>4, <1>7
<1>9. k \in 0..Len(u) /\ k + n =< Len(u) BY <1>1, <1>3, <1>4
<1>10. \E j \in 0..Len(u) : /\ j + n =< Len(u)
                            /\ \A i \in 1..Len(u) : u[i][1] = key[1] <=> i \in (j + 1)..(j + n)
                            /\ \A i \in 1..n : u[j + i] = HeaderLine(key, values[i])
  BY <1>6, <1>8, <1>9
<1> QED BY <1>10 DEF Block, u, n

(* Where a line comes from, and an entry that comes through whole.          *)
FromHandler(h, input) == \E j \in 1..Len(Base(input)) : h = Base(input)[j]
FromMiddleware(h, input) ==
  \E key \in DOMAIN input.middlewares : \E i \in 1..Len(input.middlewares[key]) :
    h = HeaderLine(key, input.middlewares[key][i]) /\ key[1] \notin Handlers(input) \cup input.client
Free(key, input) ==
  key[1] \notin Handlers(input) \cup input.client \cup Computed /\ Alone(key, DOMAIN input.middlewares)

Merging(s, seen, input, T) ==
  /\ s \in Seq(T)
  /\ Handlers(input) \subseteq HeaderNames(s)
  /\ \A i \in 1..Len(s) : FromHandler(s[i], input) \/ FromMiddleware(s[i], input)
  /\ \A key \in DOMAIN input.middlewares :
       Free(key, input) => \/ key \notin seen /\ key[1] \notin HeaderNames(s)
                           \/ Block(Others(s), key, input.middlewares[key])

LEMMA MergeStays ==
  ASSUME NEW T, NEW input, NEW s, NEW seen, NEW q \in DOMAIN input.middlewares,
         q[1] \in input.client \cup HeaderNames(s), Merging(s, seen, input, T)
  PROVE  Merging(s, seen \cup {q}, input, T)
<1>1. ASSUME NEW key \in DOMAIN input.middlewares, Free(key, input)
      PROVE  (key \notin seen \cup {q} /\ key[1] \notin HeaderNames(s)) \/ Block(Others(s), key, input.middlewares[key])
  <2>1. (key \notin seen /\ key[1] \notin HeaderNames(s)) \/ Block(Others(s), key, input.middlewares[key])
    BY <1>1 DEF Merging
  <2>2. key[1] \notin input.client BY <1>1 DEF Free
  <2> QED BY <2>1, <2>2
<1> QED BY <1>1 DEF Merging

LEMMA MergeAdds ==
  ASSUME NEW T, NEW V, NEW input, NEW s, NEW seen, NEW q \in DOMAIN input.middlewares,
         \A key \in DOMAIN input.middlewares : input.middlewares[key] \in Seq(V) /\ \A v \in V : HeaderLine(key, v) \in T,
         q[1] \notin input.client \cup HeaderNames(s), Merging(s, seen, input, T)
  PROVE  Merging(s \o Brought(q, input.middlewares[q]), seen \cup {q}, input, T)
<1> DEFINE w == input.middlewares[q]
           t == Brought(q, w)
           u == s \o t
           o == Others(s)
<1>1. /\ s \in Seq(T)
      /\ Handlers(input) \subseteq HeaderNames(s)
      /\ \A i \in 1..Len(s) : FromHandler(s[i], input) \/ FromMiddleware(s[i], input)
  BY DEF Merging
<1>2. w \in Seq(V) /\ \A v \in V : HeaderLine(q, v) \in T OBVIOUS
<1> HIDE DEF w
<1>3. t \in Seq(T) /\ AreBrought(t, q, w) BY <1>2, BroughtTyped
<1> HIDE DEF t
<1>4. Len(t) = Len(w) /\ \A i \in 1..Len(t) : t[i] = HeaderLine(q, w[i]) /\ t[i][1] = q[1] BY <1>3 DEF AreBrought
<1>5. s \in Seq(T) /\ t \in Seq(T) BY <1>1, <1>3
<1>6. /\ s \o t \in Seq(T)
      /\ Len(s \o t) = Len(s) + Len(t)
      /\ \A i \in 1..(Len(s) + Len(t)) : (s \o t)[i] = IF i <= Len(s) THEN s[i] ELSE t[i - Len(s)]
  BY <1>5, ConcatProperties
<1>7. /\ HeaderNames(s) \subseteq HeaderNames(s \o t)
      /\ \A name \in HeaderNames(s \o t) : name \in HeaderNames(s) \/ \E i \in 1..Len(t) : t[i][1] = name
  BY <1>5, NamesBehind
<1>8. Len(s) \in Nat /\ Len(t) \in Nat BY <1>5
<1>9. o \in Seq(T) BY <1>1, RestTyped
<1>10. \A i \in 1..Len(o) : o[i][1] \in HeaderNames(s)
  <2>1. \A i \in 1..Len(o) : \E j \in 1..Len(s) : o[i] = s[j] BY <1>1, RestNamed
  <2>2. \A j \in 1..Len(s) : s[j][1] \in HeaderNames(s) BY <1>1 DEF HeaderNames
  <2> QED BY <2>1, <2>2
<1>11. /\ (\A i \in 1..Len(t) : t[i][1] \notin Computed) => Others(s \o t) = Others(s) \o t
       /\ (\A i \in 1..Len(t) : t[i][1] \in Computed) => Others(s \o t) = Others(s)
  BY <1>5, RestBehind
<1> HIDE DEF o
<1>12. ASSUME NEW i \in 1..Len(u) PROVE FromHandler(u[i], input) \/ FromMiddleware(u[i], input)
  <2>1. CASE i <= Len(s)
    <3>1. i \in 1..Len(s) /\ u[i] = s[i] BY <1>6, <1>8, <2>1
    <3> QED BY <1>1, <3>1
  <2>2. CASE ~ (i <= Len(s))
    <3>1. i - Len(s) \in 1..Len(w) /\ u[i] = t[i - Len(s)] BY <1>4, <1>6, <1>8, <2>2
    <3>2. u[i] = HeaderLine(q, w[i - Len(s)]) BY <1>4, <3>1
    <3>3. q[1] \notin Handlers(input) \cup input.client BY <1>1
    <3> HIDE DEF u
    <3> QED BY <3>1, <3>2, <3>3 DEF FromMiddleware, w
  <2> QED BY <2>1, <2>2
<1> HIDE DEF u
<1>13. ASSUME NEW key \in DOMAIN input.middlewares, Free(key, input)
       PROVE  (key \notin seen \cup {q} /\ key[1] \notin HeaderNames(u)) \/ Block(Others(u), key, input.middlewares[key])
  <2> DEFINE values == input.middlewares[key]
  <2>1. (key \notin seen /\ key[1] \notin HeaderNames(s)) \/ Block(o, key, values) BY <1>13 DEF Merging, o
  <2>2. key[1] \notin Computed /\ Alone(key, DOMAIN input.middlewares) BY <1>13 DEF Free
  <2>3. values \in Seq(V) /\ \A v \in V : HeaderLine(key, v) \in T OBVIOUS
  <2>4. CASE key = q
    <3>1. Others(u) = o \o t BY <1>4, <1>11, <2>2, <2>4 DEF u, o
    <3>2. \A i \in 1..Len(o) : o[i][1] # q[1] BY <1>10
    <3>3. Block(o \o Brought(q, w), q, w) BY <1>2, <1>9, <3>2, BlockNew
    <3> QED BY <2>4, <3>1, <3>3 DEF t, w
  <2>5. CASE key # q
    <3>1. q[1] # key[1] BY <2>2, <2>5 DEF Alone
    <3>2. \A i \in 1..Len(t) : t[i][1] # key[1] BY <1>4, <3>1
    <3>3. CASE key \notin seen /\ key[1] \notin HeaderNames(s)
      <4>1. key[1] \notin HeaderNames(u) BY <1>7, <3>2, <3>3 DEF u
      <4> QED BY <2>5, <3>3, <4>1
    <3>4. CASE Block(o, key, values)
      <4>1. CASE q[1] \in Computed
        <5>1. Others(u) = o BY <1>4, <1>11, <4>1 DEF u, o
        <5> QED BY <3>4, <5>1
      <4>2. CASE q[1] \notin Computed
        <5>1. Others(u) = o \o t BY <1>4, <1>11, <4>2 DEF u, o
        <5> HIDE DEF values
        <5>2. Block(o \o t, key, values) BY <1>5, <1>9, <2>3, <3>2, <3>4, BlockBehind
        <5> QED BY <5>1, <5>2 DEF values
      <4> QED BY <4>1, <4>2
    <3> QED BY <2>1, <3>3, <3>4
  <2> QED BY <2>4, <2>5
<1>14. Handlers(input) \subseteq HeaderNames(u) BY <1>1, <1>7 DEF u
<1>15. u \in Seq(T) BY <1>6 DEF u
<1>16. Merging(u, seen \cup {q}, input, T) BY <1>12, <1>13, <1>14, <1>15 DEF Merging
<1> QED BY <1>16 DEF u, t, w

AllLines(input, X, V) == BuiltLines \cup X \cup {HeaderLine(key, v) : key \in DOMAIN input.middlewares, v \in V}

LEMMA HandlersAre ==
  ASSUME NEW input
  PROVE  Handlers(input) = HeaderNames(Base(input))
BY DEF Handlers, Base

LEMMA OrderIs ==
  ASSUME NEW S, IsFiniteSet(S), NEW order \in Orders(S)
  PROVE  order \in Seq(S) /\ ToSet(order) = S /\ {order[i] : i \in 1..Len(order)} = S
<1> DEFINE n == Cardinality(S)
<1>1. n \in Nat BY FS_CardinalityType
<1> HIDE DEF n
<1>2. order \in [1..n -> S] /\ ToSet(order) = S BY DEF Orders, n
<1>3. order \in Seq(S) BY <1>1, <1>2
<1>4. ToSet(order) = {order[i] : i \in DOMAIN order} BY DEF ToSet
<1>5. DOMAIN order = 1..Len(order) BY <1>3
<1> QED BY <1>2, <1>3, <1>4, <1>5

LEMMA MergeIsSound ==
  ASSUME NEW X, NEW V, NEW input, IsReply(input, X, V), NEW keys \in Orders(DOMAIN input.middlewares)
  PROVE  Merging(MergedAll(Base(input), keys, input.middlewares, input.client), DOMAIN input.middlewares,
                 input, AllLines(input, X, V))
<1> DEFINE T == AllLines(input, X, V)
           K == DOMAIN input.middlewares
           entries == input.middlewares
           base == Base(input)
           n == Len(keys)
           Seen(k) == {keys[i] : i \in 1..k}
           end == MergedAll(base, keys, entries, input.client)
<1>1. IsFiniteSet(K) /\ \A key \in K : entries[key] \in Seq(V) BY DEF IsReply
<1>2. keys \in Seq(K) /\ {keys[i] : i \in 1..Len(keys)} = K BY <1>1, OrderIs
<1>3. \A key \in K : \A v \in V : HeaderLine(key, v) \in T BY DEF AllLines
<1>4. base \in Seq(T)
  <2>1. base \in Seq(BuiltLines \cup X) BY BaseTyped
  <2>2. BuiltLines \cup X \subseteq T BY DEF AllLines
  <2> HIDE DEF T, base
  <2> QED BY <2>1, <2>2, SeqMonotonic
<1> HIDE DEF T
<1>5. \A key \in K : Brought(key, entries[key]) \in Seq(T)
  <2> SUFFICES ASSUME NEW key \in K PROVE Brought(key, entries[key]) \in Seq(T) OBVIOUS
  <2> DEFINE w == entries[key]
  <2>1. w \in Seq(V) /\ \A v \in V : HeaderLine(key, v) \in T BY <1>1, <1>3
  <2> HIDE DEF w
  <2>2. Brought(key, w) \in Seq(T) BY <2>1, BroughtTyped
  <2> QED BY <2>2 DEF w
<1> HIDE DEF base
<1>6. PICK h : MergesOn(h, base, keys, entries, input.client) /\ end = h[n] BY <1>2, <1>4, <1>5, MergeRuns
<1>7. h[0] = base /\ \A i \in 1..n : h[i] = Merged(h[i - 1], keys[i], entries[keys[i]], input.client) BY <1>6 DEF MergesOn
<1>8. n \in Nat /\ \A i \in 1..n : keys[i] \in K BY <1>2
<1> DEFINE P == {k \in 0..n : Merging(h[k], Seen(k), input, T)}
<1> HIDE DEF n, end
<1>9. 0 \in P
  <2>1. Handlers(input) \subseteq HeaderNames(base) BY HandlersAre DEF base
  <2>2. \A i \in 1..Len(base) : FromHandler(base[i], input) BY DEF FromHandler, base
  <2>3. ASSUME NEW key \in K, Free(key, input) PROVE key \notin Seen(0) /\ key[1] \notin HeaderNames(base)
    <3>1. key[1] \notin HeaderNames(base) BY <2>3, HandlersAre DEF Free, base
    <3>2. 1..0 = {} OBVIOUS
    <3> QED BY <3>1, <3>2
  <2> HIDE DEF Seen
  <2>4. Merging(base, Seen(0), input, T) BY <1>4, <2>1, <2>2, <2>3 DEF Merging
  <2>5. 0 \in 0..n BY <1>8
  <2> QED BY <1>7, <2>4, <2>5
<1>10. ASSUME NEW k \in 0..(n - 1), k \in P PROVE k + 1 \in P
  <2> DEFINE q == keys[k + 1]
             s == h[k]
  <2>1. k + 1 \in 1..n /\ k + 1 \in 0..n /\ (k + 1) - 1 = k BY <1>8
  <2>2. Seen(k + 1) = Seen(k) \cup {q}
    <3>1. 1..(k + 1) = (1..k) \cup {k + 1} BY <1>8
    <3> QED BY <3>1
  <2>3. Merging(s, Seen(k), input, T) BY <1>10
  <2> HIDE DEF Seen
  <2>4. h[k + 1] = Merged(s, q, entries[q], input.client) BY <1>7, <2>1
  <2>5. q \in K BY <1>8, <2>1
  <2> HIDE DEF q, s
  <2>6. CASE q[1] \in input.client \cup HeaderNames(s)
    <3>1. h[k + 1] = s BY <2>4, <2>6, MergedIs
    <3>2. Merging(s, Seen(k) \cup {q}, input, T) BY <2>3, <2>5, <2>6, MergeStays
    <3> QED BY <2>1, <2>2, <3>1, <3>2
  <2>7. CASE q[1] \notin input.client \cup HeaderNames(s)
    <3>1. h[k + 1] = s \o Brought(q, entries[q]) BY <2>4, <2>7, MergedIs
    <3>2. \A key \in K : entries[key] \in Seq(V) /\ \A v \in V : HeaderLine(key, v) \in T BY <1>1, <1>3
    <3>3. Merging(s \o Brought(q, entries[q]), Seen(k) \cup {q}, input, T) BY <2>3, <2>5, <2>7, <3>2, MergeAdds
    <3> QED BY <2>1, <2>2, <3>1, <3>3
  <2> QED BY <2>6, <2>7
<1>11. n \in 0..n BY <1>8
<1>12. Seen(n) = K BY <1>2 DEF n
<1> HIDE DEF P, Seen
<1>13. n \in P BY <1>8, <1>9, <1>10, <1>11, CountingUp
<1>14. Merging(end, K, input, T) BY <1>6, <1>12, <1>13 DEF P
<1> QED BY <1>14 DEF end, T, base

(* A head: what is computed, the lines of handlers and middlewares, cookies.*)
Opening(x, stream) == Typed(x) \o (IF stream THEN << >> ELSE <<Header("content-length", "length")>>)
HeadOf(x, stream, o, cookies) == Opening(x, stream) \o o \o [i \in DOMAIN cookies |-> Header("set-cookie", cookies[i])]
HeadParts(head, x, o, cookies, b) ==
  /\ b \in {1, 2} /\ Len(o) \in Nat /\ Len(cookies) \in Nat
  /\ DOMAIN head = 1..(b + Len(o) + Len(cookies)) /\ Len(head) = b + Len(o) + Len(cookies)
  /\ head[1] = Header("content-type", x)
  /\ \A i \in 2..b : head[i] = Header("content-length", "length")
  /\ \A i \in 1..Len(o) : head[b + i] = o[i]
  /\ \A i \in 1..Len(cookies) : head[b + Len(o) + i] = Header("set-cookie", cookies[i])

LEMMA PartsOfHead ==
  ASSUME NEW S, NEW T, NEW x, NEW stream \in BOOLEAN, NEW o \in Seq(T), NEW cookies \in Seq(S)
  PROVE  \E b : HeadParts(HeadOf(x, stream, o, cookies), x, o, cookies, b)
<1> DEFINE A == {Header("content-type", x), Header("content-length", "length")}
           C == {Header("set-cookie", c) : c \in S}
           U == A \cup T \cup C
           p == Opening(x, stream)
           t == [i \in DOMAIN cookies |-> Header("set-cookie", cookies[i])]
           b == IF stream THEN 1 ELSE 2
<1>1. /\ p \in Seq(A) /\ Len(p) = b /\ p[1] = Header("content-type", x)
      /\ \A i \in 2..b : p[i] = Header("content-length", "length")
  <2> DEFINE one == <<Header("content-type", x)>>
             two == <<Header("content-length", "length")>>
             nothing == << >>
             first == Header("content-type", x)
             second == Header("content-length", "length")
  <2>1. p = one \o (IF stream THEN nothing ELSE two) BY DEF Opening, Typed
  <2>2. first \in A /\ second \in A OBVIOUS
  <2> HIDE DEF first, second, A
  <2>3. one = <<first>> /\ two = <<second>> BY DEF first, second
  <2>4. one \in Seq(A) /\ Len(one) = 1 /\ one[1] = first BY <2>2, <2>3
  <2>5. two \in Seq(A) /\ Len(two) = 1 /\ two[1] = second BY <2>2, <2>3
  <2> HIDE DEF one, two, p
  <2>6. CASE stream
    <3>1. p = one BY <2>1, <2>4, <2>6
    <3>2. b = 1 /\ 2..b = {} BY <2>6
    <3> QED BY <2>4, <3>1, <3>2 DEF first
  <2>7. CASE ~ stream
    <3>1. p = one \o two BY <2>1, <2>7
    <3>2. b = 2 /\ 2..b = {2} BY <2>7
    <3>4. one \in Seq(A) /\ two \in Seq(A) BY <2>4, <2>5
    <3>5. /\ one \o two \in Seq(A)
          /\ Len(one \o two) = Len(one) + Len(two)
          /\ \A i \in 1..(Len(one) + Len(two)) : (one \o two)[i] = IF i <= Len(one) THEN one[i] ELSE two[i - Len(one)]
      BY <3>4, ConcatProperties
    <3>3. p \in Seq(A) /\ Len(p) = 2 /\ p[1] = first /\ p[2] = second BY <2>4, <2>5, <3>1, <3>5
    <3> QED BY <3>2, <3>3 DEF first, second
  <2> QED BY <2>6, <2>7
<1>2. Len(cookies) \in Nat /\ DOMAIN cookies = 1..Len(cookies) /\ \A i \in 1..Len(cookies) : cookies[i] \in S OBVIOUS
<1>3. t \in Seq(C) /\ Len(t) = Len(cookies) /\ \A i \in 1..Len(cookies) : t[i] = Header("set-cookie", cookies[i])
  <2>1. t = [i \in 1..Len(cookies) |-> Header("set-cookie", cookies[i])] BY <1>2
  <2>2. \A i \in 1..Len(cookies) : Header("set-cookie", cookies[i]) \in C BY <1>2
  <2> HIDE DEF C, t
  <2>3. t \in [1..Len(cookies) -> C] BY <2>1, <2>2
  <2> QED BY <1>2, <2>1, <2>3
<1>4. A \subseteq U /\ T \subseteq U /\ C \subseteq U OBVIOUS
<1>5. HeadOf(x, stream, o, cookies) = p \o o \o t BY DEF HeadOf
<1>6. b \in {1, 2} OBVIOUS
<1> HIDE DEF p, t, A, C, U, b
<1>7. p \in Seq(U) /\ o \in Seq(U) /\ t \in Seq(U) BY <1>1, <1>3, <1>4, SeqMonotonic
<1>8. Len(p) = b /\ Len(o) \in Nat /\ Len(t) = Len(cookies) BY <1>1, <1>3
<1> DEFINE r == p \o o
           head == r \o t
<1>9. p \in Seq(U) /\ o \in Seq(U) BY <1>7
<1>10. /\ p \o o \in Seq(U)
       /\ Len(p \o o) = Len(p) + Len(o)
       /\ \A i \in 1..(Len(p) + Len(o)) : (p \o o)[i] = IF i <= Len(p) THEN p[i] ELSE o[i - Len(p)]
  BY <1>9, ConcatProperties
<1>11. r \in Seq(U) /\ Len(r) = b + Len(o) /\ \A i \in 1..(b + Len(o)) : r[i] = IF i <= b THEN p[i] ELSE o[i - b]
  BY <1>8, <1>10
<1> HIDE DEF r
<1>12. r \in Seq(U) /\ t \in Seq(U) BY <1>7, <1>11
<1>13. /\ r \o t \in Seq(U)
       /\ Len(r \o t) = Len(r) + Len(t)
       /\ \A i \in 1..(Len(r) + Len(t)) : (r \o t)[i] = IF i <= Len(r) THEN r[i] ELSE t[i - Len(r)]
  BY <1>12, ConcatProperties
<1> DEFINE m == Len(o)
           n == Len(cookies)
<1>14. m \in Nat /\ n \in Nat /\ Len(r) = b + m /\ Len(t) = n BY <1>2, <1>8, <1>11
<1>15. head \in Seq(U) /\ Len(head) = b + m + n /\ \A i \in 1..(b + m + n) : head[i] = IF i <= b + m THEN r[i] ELSE t[i - (b + m)]
  BY <1>13, <1>14
<1>16. \A i \in 1..(b + m) : r[i] = IF i <= b THEN p[i] ELSE o[i - b] BY <1>11
<1>17. DOMAIN head = 1..(b + m + n) BY <1>15
<1> HIDE DEF head, m, n
<1>18. \A i \in 1..b : i \in 1..(b + m) /\ i \in 1..(b + m + n) /\ i <= b + m /\ i <= b BY <1>6, <1>14
<1>19. \A i \in 1..m : b + i \in 1..(b + m) /\ b + i \in 1..(b + m + n) /\ b + i <= b + m /\ ~ (b + i <= b) /\ (b + i) - b = i BY <1>6, <1>14
<1>20. \A i \in 1..n : b + m + i \in 1..(b + m + n) /\ ~ (b + m + i <= b + m) /\ (b + m + i) - (b + m) = i BY <1>6, <1>14
<1>21. 1 \in 1..b /\ \A i \in 2..b : i \in 1..b BY <1>6
<1>22. head[1] = Header("content-type", x) BY <1>1, <1>15, <1>16, <1>18, <1>21
<1>23. \A i \in 2..b : head[i] = Header("content-length", "length") BY <1>1, <1>15, <1>16, <1>18, <1>21
<1>24. \A i \in 1..m : head[b + i] = o[i] BY <1>15, <1>16, <1>19
<1>25. \A i \in 1..n : head[b + m + i] = Header("set-cookie", cookies[i]) BY <1>3, <1>15, <1>20 DEF n
<1>26. HeadParts(head, x, o, cookies, b) BY <1>6, <1>14, <1>15, <1>17, <1>22, <1>23, <1>24, <1>25 DEF HeadParts, m, n
<1> QED BY <1>5, <1>26 DEF head, r

(* The type that a head shows is never one of a middleware's, where the     *)
(* handler has set one.                                                     *)
LEMMA TypeIs ==
  ASSUME NEW X, NEW V, NEW T, NEW input, IsReply(input, X, V), NEW s, Merging(s, DOMAIN input.middlewares, input, T),
         NEW response, response.headers = s, response.variant = Built(input.maker).variant,
         "content-type" \in Handlers(input)
  PROVE  HeadType(response) \notin V
<1>1. Words \cap V = {} BY DEF IsReply
<1>2. CASE response.variant = "Stream"
  <2>1. "text/event-stream" \in Words BY DEF Words
  <2> QED BY <1>1, <1>2, <2>1 DEF HeadType
<1>3. CASE response.variant # "Stream"
  <2> DEFINE names == [j \in DOMAIN s |-> s[j][1]]
             N == {s[j][1] : j \in DOMAIN s}
             i == Place(names, {"content-type"})
             implied == Implied(response.variant)
  <2>1. HeadType(response) = IF i = 0 THEN implied ELSE s[i][3] BY <1>3 DEF HeadType, FirstType
  <2>2. s \in Seq(T) BY DEF Merging
  <2>3. names \in Seq(N) /\ Len(names) = Len(s) /\ \A j \in 1..Len(s) : names[j] = s[j][1]
    <3>1. DOMAIN s = 1..Len(s) /\ Len(s) \in Nat BY <2>2
    <3>2. names \in [1..Len(s) -> N] BY <3>1
    <3> QED BY <3>1, <3>2
  <2> HIDE DEF names, N
  <2>4. IsFirst(i, names, {"content-type"}) BY <2>3, FirstPlace
  <2>5. "content-type" \in HeaderNames(s) BY DEF Merging
  <2>6. \E j \in 1..Len(s) : s[j][1] = "content-type"
    <3>1. DOMAIN s = 1..Len(s) BY <2>2
    <3> QED BY <2>5, <3>1 DEF HeaderNames
  <2>7. i \in 1..Len(s) /\ s[i][1] = "content-type" BY <2>3, <2>4, <2>6 DEF IsFirst
  <2> HIDE DEF i
  <2>8. FromHandler(s[i], input) \/ FromMiddleware(s[i], input) BY <2>7 DEF Merging
  <2>9. ~ FromMiddleware(s[i], input)
    <3> SUFFICES ASSUME FromMiddleware(s[i], input) PROVE FALSE OBVIOUS
    <3>1. PICK key \in DOMAIN input.middlewares : \E j \in 1..Len(input.middlewares[key]) :
            s[i] = HeaderLine(key, input.middlewares[key][j]) /\ key[1] \notin Handlers(input) \cup input.client
      BY DEF FromMiddleware
    <3>2. s[i][1] = key[1] BY <3>1 DEF HeaderLine
    <3> QED BY <2>7, <3>1, <3>2
  <2>10. \A j \in 1..Len(Base(input)) : Base(input)[j][3] \notin V BY BaseTyped
  <2>11. s[i][3] \notin V BY <2>8, <2>9, <2>10 DEF FromHandler
  <2>12. i # 0 BY <2>7
  <2> QED BY <2>1, <2>11, <2>12
<1> QED BY <1>2, <1>3

(* Where a line of a head is, by its name.                                  *)
LEMMA PlacesInHead ==
  ASSUME NEW head, NEW x, NEW o, NEW cookies, NEW b, HeadParts(head, x, o, cookies, b)
  PROVE  \A i \in 1..Len(head) :
           \/ i = 1 /\ head[i][1] = "content-type" /\ head[i][2] = "Usual" /\ head[i][3] = x
           \/ i = 2 /\ head[i][1] = "content-length" /\ head[i][3] = "length"
           \/ i - b \in 1..Len(o) /\ head[i] = o[i - b] /\ b + (i - b) = i
           \/ /\ i - (b + Len(o)) \in 1..Len(cookies)
              /\ head[i][1] = "set-cookie" /\ head[i][3] = cookies[i - (b + Len(o))]
<1> DEFINE m == Len(o)
           n == Len(cookies)
<1> SUFFICES ASSUME NEW i \in 1..Len(head)
             PROVE  \/ i = 1 /\ head[i][1] = "content-type" /\ head[i][2] = "Usual" /\ head[i][3] = x
                    \/ i = 2 /\ head[i][1] = "content-length" /\ head[i][3] = "length"
                    \/ i - b \in 1..m /\ head[i] = o[i - b] /\ b + (i - b) = i
                    \/ i - (b + m) \in 1..n /\ head[i][1] = "set-cookie" /\ head[i][3] = cookies[i - (b + m)]
  OBVIOUS
<1>1. /\ b \in {1, 2} /\ m \in Nat /\ n \in Nat
      /\ Len(head) = b + m + n
      /\ head[1] = Header("content-type", x)
      /\ \A j \in 2..b : head[j] = Header("content-length", "length")
      /\ \A j \in 1..m : head[b + j] = o[j]
      /\ \A j \in 1..n : head[b + m + j] = Header("set-cookie", cookies[j])
  BY DEF HeadParts
<1> HIDE DEF m, n
<1>2. \A name, value : Header(name, value)[1] = name /\ Header(name, value)[2] = "Usual" /\ Header(name, value)[3] = value
  BY DEF Header
<1>3. CASE i = 1 BY <1>1, <1>2, <1>3
<1>4. CASE i = 2 /\ b = 2
  <2>1. 2 \in 2..b BY <1>4
  <2> QED BY <1>1, <1>2, <1>4, <2>1
<1>5. CASE i - b \in 1..m
  <2>1. b + (i - b) = i BY <1>1
  <2>2. head[b + (i - b)] = o[i - b] BY <1>1, <1>5
  <2> QED BY <1>5, <2>1, <2>2
<1>6. CASE i - (b + m) \in 1..n
  <2>1. b + m + (i - (b + m)) = i BY <1>1
  <2>2. head[b + m + (i - (b + m))] = Header("set-cookie", cookies[i - (b + m)]) BY <1>1, <1>6
  <2> QED BY <1>2, <1>6, <2>1, <2>2
<1>7. i = 1 \/ (i = 2 /\ b = 2) \/ i - b \in 1..m \/ i - (b + m) \in 1..n BY <1>1
<1> QED BY <1>3, <1>4, <1>5, <1>6, <1>7

(* What a line of a finalized response is.                                  *)
LineIs(h, i, x, b, o, input) ==
  \/ i = 1 /\ h[1] = "content-type" /\ h[3] = x
  \/ h[1] = "content-length" /\ h[3] = "length"
  \/ /\ i - b \in 1..Len(o) /\ h = o[i - b] /\ h[1] \notin Computed \cup {"set-cookie"}
     /\ FromHandler(h, input) \/ FromMiddleware(h, input)
  \/ h[1] = "set-cookie" /\ h[3] \in input.jar

LEMMA LinesAre ==
  ASSUME NEW X, NEW V, NEW T, NEW input, IsReply(input, X, V), NEW s, Merging(s, DOMAIN input.middlewares, input, T),
         NEW head, NEW x, NEW cookies \in Seq(input.jar), NEW b, HeadParts(head, x, Others(s), cookies, b)
  PROVE  \A i \in 1..Len(head) : LineIs(head[i], i, x, b, Others(s), input)
<1> DEFINE o == Others(s)
<1>1. s \in Seq(T) BY DEF Merging
<1>2. \A j \in 1..Len(o) : o[j][1] \notin Computed /\ \E k \in 1..Len(s) : o[j] = s[k] BY <1>1, RestNamed
<1>3. \A k \in 1..Len(s) : FromHandler(s[k], input) \/ FromMiddleware(s[k], input) BY DEF Merging
<1>4. ASSUME NEW h, FromHandler(h, input) \/ FromMiddleware(h, input) PROVE h[1] # "set-cookie"
  <2>1. CASE FromHandler(h, input)
    <3>1. \A j \in 1..Len(Base(input)) : Base(input)[j][1] # "set-cookie" BY BaseTyped
    <3> QED BY <2>1, <3>1 DEF FromHandler
  <2>2. CASE FromMiddleware(h, input)
    <3>1. PICK key \in DOMAIN input.middlewares : \E j \in 1..Len(input.middlewares[key]) : h = HeaderLine(key, input.middlewares[key][j])
      BY <2>2 DEF FromMiddleware
    <3>2. h[1] = key[1] BY <3>1 DEF HeaderLine
    <3>3. key[1] # "set-cookie" BY <3>1 DEF IsReply
    <3> QED BY <3>2, <3>3
  <2> QED BY <1>4, <2>1, <2>2
<1> HIDE DEF o
<1>5. \A j \in 1..Len(o) : /\ o[j][1] \notin Computed \cup {"set-cookie"}
                           /\ FromHandler(o[j], input) \/ FromMiddleware(o[j], input)
  BY <1>2, <1>3, <1>4
<1>6. \A j \in 1..Len(cookies) : cookies[j] \in input.jar OBVIOUS
<1>7. \A i \in 1..Len(head) :
           \/ i = 1 /\ head[i][1] = "content-type" /\ head[i][2] = "Usual" /\ head[i][3] = x
           \/ i = 2 /\ head[i][1] = "content-length" /\ head[i][3] = "length"
           \/ i - b \in 1..Len(o) /\ head[i] = o[i - b] /\ b + (i - b) = i
           \/ /\ i - (b + Len(o)) \in 1..Len(cookies)
              /\ head[i][1] = "set-cookie" /\ head[i][3] = cookies[i - (b + Len(o))]
  BY PlacesInHead DEF o
<1>8. ASSUME NEW i \in 1..Len(head) PROVE LineIs(head[i], i, x, b, o, input)
  <2>1. CASE i = 1 /\ head[i][1] = "content-type" /\ head[i][3] = x BY <2>1 DEF LineIs
  <2>2. CASE head[i][1] = "content-length" /\ head[i][3] = "length" BY <2>2 DEF LineIs
  <2>3. CASE i - b \in 1..Len(o) /\ head[i] = o[i - b] BY <1>5, <2>3 DEF LineIs
  <2>4. CASE /\ i - (b + Len(o)) \in 1..Len(cookies)
             /\ head[i][1] = "set-cookie" /\ head[i][3] = cookies[i - (b + Len(o))] BY <1>6, <2>4 DEF LineIs
  <2> QED BY <1>7, <2>1, <2>2, <2>3, <2>4
<1> QED BY <1>8 DEF o

Lined(head, x, b, o, input, V) ==
  /\ DOMAIN head = 1..Len(head) /\ \A i \in 1..Len(head) : LineIs(head[i], i, x, b, o, input)
  /\ "content-type" \in Handlers(input) => x \notin V
Stands(head, key, values) ==
  \E k \in 0..Len(head) : /\ Written(head, key, values) = (k + 1)..(k + Len(values))
                          /\ \A i \in DOMAIN values : head[k + i][3] = values[i]

(* The values of an entry under a name of the handler's are not written.    *)
LEMMA NoneWritten ==
  ASSUME NEW X, NEW V, NEW T, NEW input, IsReply(input, X, V), NEW head, NEW x, NEW b, NEW o,
         Lined(head, x, b, o, input, V),
         NEW key \in DOMAIN input.middlewares, key[1] \in Handlers(input) \cup {"content-length"}
  PROVE  Written(head, key, input.middlewares[key]) = {}
<1> DEFINE values == input.middlewares[key]
<1>1. ToSet(values) \subseteq V
  <2>1. values \in Seq(V) BY DEF IsReply
  <2> HIDE DEF values
  <2>2. ToSet(values) = {values[i] : i \in DOMAIN values} /\ DOMAIN values = 1..Len(values) BY <2>1 DEF ToSet
  <2> QED BY <2>1, <2>2
<1> SUFFICES ASSUME NEW i \in 1..Len(head), <<head[i][1], head[i][2]>> = key, head[i][3] \in ToSet(values) PROVE FALSE
  BY DEF Written, Lined
<1> HIDE DEF values
<1>2. key = <<key[1], key[2]>> /\ key[1] # "set-cookie" /\ Words \cap V = {} BY DEF IsReply
<1>3. head[i][1] = key[1] /\ head[i][3] \in V BY <1>1, <1>2
<1>4. LineIs(head[i], i, x, b, o, input) BY DEF Lined
<1>5. CASE head[i][1] = "content-type" /\ head[i][3] = x BY <1>3, <1>5 DEF Lined
<1>6. CASE head[i][1] = "content-length" /\ head[i][3] = "length"
  <2>1. "length" \in Words BY DEF Words
  <2> QED BY <1>2, <1>3, <1>6, <2>1
<1>7. CASE head[i][1] \notin Computed /\ (FromHandler(head[i], input) \/ FromMiddleware(head[i], input))
  <2>1. key[1] \in Handlers(input) BY <1>3, <1>7 DEF Computed
  <2>2. CASE FromHandler(head[i], input)
    <3>1. \A j \in 1..Len(Base(input)) : Base(input)[j][3] \notin V BY BaseTyped
    <3> QED BY <1>3, <2>2, <3>1 DEF FromHandler
  <2>3. CASE FromMiddleware(head[i], input)
    <3>1. PICK k \in DOMAIN input.middlewares : \E j \in 1..Len(input.middlewares[k]) :
            head[i] = HeaderLine(k, input.middlewares[k][j]) /\ k[1] \notin Handlers(input) \cup input.client
      BY <2>3 DEF FromMiddleware
    <3>2. head[i][1] = k[1] BY <3>1 DEF HeaderLine
    <3> QED BY <1>3, <2>1, <3>1, <3>2
  <2> QED BY <1>7, <2>2, <2>3
<1>8. CASE head[i][1] = "set-cookie" BY <1>2, <1>3, <1>8
<1> QED BY <1>4, <1>5, <1>6, <1>7, <1>8 DEF LineIs

(* The values of a free entry are written one behind the other.             *)
LEMMA AllWritten ==
  ASSUME NEW X, NEW V, NEW T, NEW input, IsReply(input, X, V), NEW s, Merging(s, DOMAIN input.middlewares, input, T),
         NEW head, NEW x, NEW cookies \in Seq(input.jar), NEW b, HeadParts(head, x, Others(s), cookies, b),
         NEW key \in DOMAIN input.middlewares, Free(key, input)
  PROVE  Stands(head, key, input.middlewares[key])
<1> DEFINE values == input.middlewares[key]
           o == Others(s)
           n == Len(values)
           W == Written(head, key, values)
<1>1. Block(o, key, values) BY DEF Merging
<1>2. values \in Seq(V) /\ key = <<key[1], key[2]>> /\ key[1] # "set-cookie" BY DEF IsReply
<1>3. key[1] \notin Computed BY DEF Free
<1>4. /\ b \in {1, 2} /\ Len(o) \in Nat /\ Len(cookies) \in Nat
      /\ DOMAIN head = 1..(b + Len(o) + Len(cookies)) /\ Len(head) = b + Len(o) + Len(cookies)
      /\ \A i \in 1..Len(o) : head[b + i] = o[i]
  BY DEF HeadParts
<1>5. \A i \in 1..Len(head) : LineIs(head[i], i, x, b, o, input) BY LinesAre
<1> HIDE DEF o, values
<1>6. n \in Nat /\ DOMAIN values = 1..n /\ ToSet(values) = {values[i] : i \in 1..n} BY <1>2 DEF ToSet
<1>7. PICK k \in 0..Len(o) : /\ k + n =< Len(o)
                             /\ \A i \in 1..Len(o) : o[i][1] = key[1] <=> i \in (k + 1)..(k + n)
                             /\ \A i \in 1..n : o[k + i] = HeaderLine(key, values[i])
  BY <1>1 DEF Block
<1> DEFINE e == b + k
<1>8. e \in 0..Len(head) /\ k \in Nat /\ e + n =< Len(head) BY <1>4, <1>6, <1>7
<1>9. \A i \in 1..n : k + i \in 1..Len(o) /\ b + (k + i) = e + i /\ e + i \in DOMAIN head BY <1>4, <1>6, <1>7
<1>10. \A i \in 1..n : head[e + i] = HeaderLine(key, values[i]) BY <1>4, <1>7, <1>9
<1> HIDE DEF n
<1>11. ASSUME NEW j \in W PROVE j \in (e + 1)..(e + n)
  <2>1. j \in 1..Len(head) /\ <<head[j][1], head[j][2]>> = key BY <1>4 DEF Written
  <2>2. head[j][1] = key[1] BY <1>2, <2>1
  <2>3. j - b \in 1..Len(o) /\ head[j] = o[j - b] BY <1>2, <1>3, <1>5, <2>1, <2>2 DEF LineIs, Computed
  <2>4. j - b \in (k + 1)..(k + n) BY <1>7, <2>2, <2>3
  <2> QED BY <1>4, <1>6, <1>8, <2>1, <2>4
<1>12. ASSUME NEW j \in (e + 1)..(e + n) PROVE j \in W
  <2>1. j - e \in 1..n /\ e + (j - e) = j BY <1>4, <1>6, <1>8
  <2>2. head[j] = HeaderLine(key, values[j - e]) /\ j \in DOMAIN head BY <1>9, <1>10, <2>1
  <2>3. <<head[j][1], head[j][2]>> = key /\ head[j][3] = values[j - e] BY <1>2, <2>2 DEF HeaderLine
  <2>4. head[j][3] \in ToSet(values) BY <1>6, <2>1, <2>3
  <2> QED BY <2>2, <2>3, <2>4 DEF Written
<1>13. \A i \in DOMAIN values : head[e + i][3] = values[i] BY <1>6, <1>10 DEF HeaderLine
<1> HIDE DEF W, e
<1>14. W = (e + 1)..(e + n) BY <1>11, <1>12
<1>15. \E j \in 0..Len(head) : W = (j + 1)..(j + n) /\ \A i \in DOMAIN values : head[j + i][3] = values[i]
  BY <1>8, <1>13, <1>14
<1> QED BY <1>15 DEF Stands, W, n, values

LEMMA HeadKept ==
  ASSUME NEW X, NEW V, NEW T, NEW input, IsReply(input, X, V), NEW s, Merging(s, DOMAIN input.middlewares, input, T),
         NEW response, response.headers = s, response.variant = Built(input.maker).variant,
         NEW cookies \in Orders(input.jar)
  PROVE  HeadKeeps(ResponseHead(response, cookies), input)
<1> DEFINE stream == response.variant = "Stream"
           x == HeadType(response)
           o == Others(s)
           head == ResponseHead(response, cookies)
<1>1. head = HeadOf(x, stream, o, cookies) BY DEF ResponseHead, HeadOf, Opening
<1>2. s \in Seq(T) BY DEF Merging
<1>3. o \in Seq(T) BY <1>2, RestTyped
<1>4. cookies \in Seq(input.jar) /\ {cookies[i] : i \in 1..Len(cookies)} = input.jar BY OrderIs DEF IsReply
<1>5. "content-type" \in Handlers(input) => x \notin V BY TypeIs
<1>6. stream \in BOOLEAN OBVIOUS
<1> HIDE DEF x, stream, head
<1>7. PICK b : HeadParts(head, x, o, cookies, b) BY <1>1, <1>3, <1>4, <1>6, PartsOfHead
<1>8. \A i \in 1..Len(head) : LineIs(head[i], i, x, b, o, input) BY <1>4, <1>7, LinesAre
<1>9. /\ b \in {1, 2} /\ Len(o) \in Nat /\ Len(cookies) \in Nat
      /\ DOMAIN head = 1..(b + Len(o) + Len(cookies)) /\ Len(head) = b + Len(o) + Len(cookies)
      /\ head[1] = Header("content-type", x)
      /\ \A i \in 1..Len(cookies) : head[b + Len(o) + i] = Header("set-cookie", cookies[i])
  BY <1>7 DEF HeadParts
<1>10. DOMAIN head = 1..Len(head) /\ 1 \in DOMAIN head BY <1>9
<1>11. \A name, value : Header(name, value)[1] = name /\ Header(name, value)[3] = value BY DEF Header
<1>12. Cardinality(Lines(head, "content-type")) = 1
  <2>1. ASSUME NEW i \in 1..Len(head), head[i][1] = "content-type" PROVE i = 1
    <3>1. LineIs(head[i], i, x, b, o, input) BY <1>8
    <3> QED BY <2>1, <3>1 DEF LineIs, Computed
  <2>2. Lines(head, "content-type") = {1} BY <1>9, <1>10, <1>11, <2>1 DEF Lines
  <2> QED BY <2>2, FS_Singleton
<1>13. ASSUME NEW name \in input.client \ (Handlers(input) \cup Computed) PROVE Lines(head, name) = {}
  <2> SUFFICES ASSUME NEW i \in 1..Len(head), head[i][1] = name PROVE FALSE BY <1>10 DEF Lines
  <2>1. LineIs(head[i], i, x, b, o, input) BY <1>8
  <2>2. name # "content-type" /\ name # "content-length" BY DEF Computed
  <2>3. name # "set-cookie" BY DEF IsReply
  <2>4. FromHandler(head[i], input) \/ FromMiddleware(head[i], input) BY <2>1, <2>2, <2>3 DEF LineIs
  <2>5. CASE FromHandler(head[i], input)
    <3>1. PICK j \in 1..Len(Base(input)) : head[i] = Base(input)[j] BY <2>5 DEF FromHandler
    <3>2. Base(input)[j][1] \in HeaderNames(Base(input))
      <4>1. Base(input) \in Seq(BuiltLines \cup X) BY BaseTyped
      <4>2. DOMAIN Base(input) = 1..Len(Base(input)) BY <4>1
      <4> QED BY <4>2 DEF HeaderNames
    <3> QED BY <3>1, <3>2, HandlersAre
  <2>6. CASE FromMiddleware(head[i], input)
    <3>1. PICK k \in DOMAIN input.middlewares : \E j \in 1..Len(input.middlewares[k]) :
            head[i] = HeaderLine(k, input.middlewares[k][j]) /\ k[1] \notin Handlers(input) \cup input.client
      BY <2>6 DEF FromMiddleware
    <3>2. head[i][1] = k[1] BY <3>1 DEF HeaderLine
    <3> QED BY <3>1, <3>2
  <2> QED BY <2>4, <2>5, <2>6
<1>14. ASSUME NEW key \in DOMAIN input.middlewares, key[1] \in Handlers(input) \cup {"content-length"}
       PROVE  Written(head, key, input.middlewares[key]) = {}
  <2>1. Lined(head, x, b, o, input, V) BY <1>5, <1>8, <1>10 DEF Lined
  <2> QED BY <1>14, <2>1, NoneWritten
<1>15. ASSUME NEW key \in DOMAIN input.middlewares,
              key[1] \notin Handlers(input) \cup input.client \cup Computed, Alone(key, DOMAIN input.middlewares)
       PROVE  Stands(head, key, input.middlewares[key])
  <2>1. Free(key, input) BY <1>15 DEF Free
  <2> QED BY <1>4, <1>7, <2>1, AllWritten
<1>16. {head[i][3] : i \in Lines(head, "set-cookie")} = input.jar
  <2>1. ASSUME NEW i \in Lines(head, "set-cookie") PROVE head[i][3] \in input.jar
    <3>1. i \in 1..Len(head) /\ head[i][1] = "set-cookie" BY <1>10 DEF Lines
    <3>2. LineIs(head[i], i, x, b, o, input) BY <1>8, <3>1
    <3> QED BY <3>1, <3>2 DEF LineIs
  <2>2. ASSUME NEW c \in input.jar PROVE \E i \in Lines(head, "set-cookie") : head[i][3] = c
    <3>1. PICK j \in 1..Len(cookies) : cookies[j] = c BY <1>4
    <3>2. b + Len(o) + j \in DOMAIN head BY <1>9, <3>1
    <3>3. head[b + Len(o) + j] = Header("set-cookie", c) BY <1>9, <3>1
    <3>4. b + Len(o) + j \in Lines(head, "set-cookie") BY <1>11, <3>2, <3>3 DEF Lines
    <3> QED BY <1>11, <3>3, <3>4
  <2> QED BY <2>1, <2>2
<1> QED BY <1>12, <1>13, <1>14, <1>15, <1>16 DEF HeadKeeps, Stands, head

(* What Build makes and Finalize completes keeps what HeadIsSound says.     *)
LEMMA ReplyKept ==
  ASSUME NEW X, NEW V, NEW input, IsReply(input, X, V),
         NEW made, made.variant = Built(input.maker).variant, made.headers = Base(input),
         made = [variant |-> made.variant, headers |-> made.headers],
         NEW keys \in Orders(DOMAIN input.middlewares), NEW cookies \in Orders(input.jar)
  PROVE  HeadKeeps(ResponseHead([made EXCEPT !.headers = MergedAll(made.headers, keys, input.middlewares, input.client)],
                                cookies), input)
<1> DEFINE s == MergedAll(Base(input), keys, input.middlewares, input.client)
           response == [made EXCEPT !.headers = s]
<1>1. Merging(s, DOMAIN input.middlewares, input, AllLines(input, X, V)) BY MergeIsSound
<1> HIDE DEF s
<1>2. response.headers = s /\ response.variant = Built(input.maker).variant OBVIOUS
<1> HIDE DEF response
<1>3. HeadKeeps(ResponseHead(response, cookies), input) BY <1>1, <1>2, HeadKept
<1> QED BY <1>3 DEF response, s

LEMMA BuiltIs ==
  ASSUME NEW maker \in Makers
  PROVE  Built(maker) = [variant |-> Built(maker).variant, headers |-> Built(maker).headers]
<1>1. CASE maker = "new" \/ maker = "static_file" BY <1>1 DEF Built
<1>2. CASE maker = "asset" BY <1>2 DEF Built, Asset
<1>3. CASE maker = "json" BY <1>3 DEF Built, Json
<1>4. CASE maker = "sse" BY <1>4 DEF Built, EventStream
<1>5. CASE maker = "redirect" BY <1>5 DEF Built, Redirect
<1>6. CASE maker = "markup" \/ maker = "data" BY <1>6 DEF Built, Payload
<1> QED BY <1>1, <1>2, <1>3, <1>4, <1>5, <1>6 DEF Makers

(* A message begins as one of its kind, and what is built of a reply is     *)
(* what its constructor and its handler set.                                *)
MessageTyped(C, X, V) ==
  CASE message.about = "path" -> message.input \in Seq(C)
    [] message.about = "form" -> IsForm(message.input, C)
    [] message.about = "reply" -> IsReply(message.input, X, V)
    [] OTHER -> IsCookie(message.input, C)
MadeIs(made, input) ==
  /\ made = [variant |-> made.variant, headers |-> made.headers]
  /\ made.variant = Built(input.maker).variant /\ made.headers = Base(input)
MessageInv(C, X, V) ==
  /\ message = [about |-> message.about, input |-> message.input, stage |-> message.stage, output |-> message.output]
  /\ message.about \in {"path", "form", "reply", "cookie"} /\ message.stage \in {"in", "built", "out"}
  /\ MessageTyped(C, X, V)
  /\ message.stage = "built" => message.about = "reply" /\ MadeIs(message.output, message.input)
  /\ MessagesAreSound

LEMMA MessageStarts ==
  ASSUME NEW C, NEW X, NEW V, NEW paths, NEW forms, NEW answers, NEW cookies,
         paths \subseteq Seq(C), \A form \in forms : IsForm(form, C),
         \A reply \in answers : IsReply(reply, X, V), \A cookie \in cookies : IsCookie(cookie, C)
  PROVE  MessagesInit(paths, forms, answers, cookies) => MessageInv(C, X, V)
<1> SUFFICES ASSUME MessagesInit(paths, forms, answers, cookies) PROVE MessageInv(C, X, V) OBVIOUS
<1>1. /\ message = [about |-> message.about, input |-> message.input, stage |-> message.stage, output |-> message.output]
      /\ message.about \in {"path", "form", "reply", "cookie"} /\ message.stage = "in"
      /\ MessageTyped(C, X, V)
  <2>1. CASE \E path \in paths : MessageInit("path", path) BY <2>1 DEF MessageInit, MessageTyped
  <2>2. CASE \E form \in forms : MessageInit("form", form) BY <2>2 DEF MessageInit, MessageTyped
  <2>3. CASE \E reply \in answers : MessageInit("reply", reply) BY <2>3 DEF MessageInit, MessageTyped
  <2>4. CASE \E cookie \in cookies : MessageInit("cookie", cookie) BY <2>4 DEF MessageInit, MessageTyped
  <2> QED BY <2>1, <2>2, <2>3, <2>4 DEF MessagesInit
<1>2. MessagesAreSound BY <1>1 DEF MessagesAreSound, PathIsCanonical, FieldsArrive, HeadIsSound, SignedIsGenuine
<1> QED BY <1>1, <1>2 DEF MessageInv

(* A step keeps what a message is about and what came in.                   *)
LEMMA MessageGoesOn ==
  ASSUME NEW C, NEW X, NEW V, MessageInv(C, X, V), NEW stage \in {"built", "out"}, NEW output, Becomes(stage, output)
  PROVE  /\ message' = [about |-> message'.about, input |-> message'.input, stage |-> message'.stage, output |-> message'.output]
         /\ message'.about = message.about /\ message'.input = message.input
         /\ message'.stage = stage /\ message'.output = output
         /\ MessageTyped(C, X, V)'
<1>1. message = [about |-> message.about, input |-> message.input, stage |-> message.stage, output |-> message.output]
  BY DEF MessageInv
<1>2. message' = [message EXCEPT !.stage = stage, !.output = output] BY DEF Becomes
<1>3. message' = [about |-> message.about, input |-> message.input, stage |-> stage, output |-> output] BY <1>1, <1>2
<1>4. MessageTyped(C, X, V) BY DEF MessageInv
<1>5. message'.about = message.about /\ message'.input = message.input /\ message'.stage = stage /\ message'.output = output
  BY <1>3
<1> QED BY <1>3, <1>4, <1>5 DEF MessageTyped

LEMMA MessageSteps ==
  ASSUME NEW C, NEW X, NEW V, MessageInv(C, X, V), [MessagesNext]_message
  PROVE  MessageInv(C, X, V)'
<1> DEFINE input == message.input
<1>1. MessageTyped(C, X, V) BY DEF MessageInv
<1>2. CASE ParsePath
  <2> DEFINE path == Path(input)
  <2>1. message.about = "path" /\ Becomes("out", path) BY <1>2 DEF ParsePath
  <2>2. IsCanonical(path)
    <3>1. input \in Seq(C) BY <1>1, <2>1 DEF MessageTyped
    <3> QED BY <3>1, PathCanonical
  <2> HIDE DEF path
  <2>3. /\ message' = [about |-> message'.about, input |-> message'.input, stage |-> message'.stage, output |-> message'.output]
        /\ message'.about = "path" /\ message'.stage = "out" /\ message'.output = path /\ MessageTyped(C, X, V)'
    BY <2>1, MessageGoesOn
  <2>4. PathIsCanonical' BY <2>2, <2>3 DEF PathIsCanonical, IsCanonical
  <2>5. MessagesAreSound' BY <2>3, <2>4 DEF MessagesAreSound, FieldsArrive, HeadIsSound, SignedIsGenuine
  <2> QED BY <2>3, <2>5 DEF MessageInv
<1>3. CASE ParseForm
  <2> DEFINE parsed == ParseFormBody(input)
  <2>1. message.about = "form" /\ Becomes("out", parsed) BY <1>3 DEF ParseForm
  <2>2. Found(input, parsed.fields)
    <3>1. IsForm(input, C) BY <1>1, <2>1 DEF MessageTyped
    <3> QED BY <3>1, FormArrives
  <2> HIDE DEF parsed
  <2>3. /\ message' = [about |-> message'.about, input |-> message'.input, stage |-> message'.stage, output |-> message'.output]
        /\ message'.about = "form" /\ message'.stage = "out" /\ message'.output = parsed /\ message'.input = input
        /\ MessageTyped(C, X, V)'
    BY <2>1, MessageGoesOn
  <2>4. FieldsArrive' BY <2>2, <2>3 DEF FieldsArrive
  <2>5. MessagesAreSound' BY <2>3, <2>4 DEF MessagesAreSound, PathIsCanonical, HeadIsSound, SignedIsGenuine
  <2> QED BY <2>3, <2>5 DEF MessageInv
<1>4. CASE Build
  <2> DEFINE built == Built(input.maker)
             made == [built EXCEPT !.headers = built.headers \o input.more]
  <2>1. message.about = "reply" /\ Becomes("built", made) BY <1>4 DEF Build
  <2>2. IsReply(input, X, V) BY <1>1, <2>1 DEF MessageTyped
  <2>3. built = [variant |-> built.variant, headers |-> built.headers] BY <2>2, BuiltIs DEF IsReply
  <2>4. MadeIs(made, input)
    <3> DEFINE h == built.headers \o input.more
    <3>1. h = Base(input) BY DEF Base
    <3> HIDE DEF built, h
    <3>2. made = [built EXCEPT !.headers = h] BY DEF h
    <3> HIDE DEF made
    <3>3. made = [variant |-> built.variant, headers |-> h] BY <2>3, <3>2
    <3>4. made.variant = Built(input.maker).variant BY <3>3 DEF built
    <3> QED BY <3>1, <3>3, <3>4 DEF MadeIs
  <2> HIDE DEF made
  <2>5. /\ message' = [about |-> message'.about, input |-> message'.input, stage |-> message'.stage, output |-> message'.output]
        /\ message'.about = "reply" /\ message'.stage = "built" /\ message'.output = made /\ message'.input = input
        /\ MessageTyped(C, X, V)'
    BY <2>1, MessageGoesOn
  <2>6. MessagesAreSound' BY <2>5 DEF MessagesAreSound, PathIsCanonical, FieldsArrive, HeadIsSound, SignedIsGenuine
  <2> QED BY <2>4, <2>5, <2>6 DEF MessageInv
<1>5. CASE Finalize
  <2> DEFINE made == message.output
  <2>1. message.stage = "built" BY <1>5 DEF Finalize
  <2>2. message.about = "reply" /\ MadeIs(made, input) BY <2>1 DEF MessageInv
  <2>3. IsReply(input, X, V) BY <1>1, <2>2 DEF MessageTyped
  <2>4. PICK keys \in Orders(DOMAIN input.middlewares), cookies \in Orders(input.jar) :
          Becomes("out", ResponseHead([made EXCEPT !.headers = MergedAll(made.headers, keys, input.middlewares, input.client)],
                                      cookies))
    BY <1>5 DEF Finalize
  <2> DEFINE head == ResponseHead([made EXCEPT !.headers = MergedAll(made.headers, keys, input.middlewares, input.client)], cookies)
  <2>5. HeadKeeps(head, input) BY <2>2, <2>3, ReplyKept DEF MadeIs
  <2>6. Becomes("out", head) BY <2>4
  <2> HIDE DEF head
  <2>7. /\ message' = [about |-> message'.about, input |-> message'.input, stage |-> message'.stage, output |-> message'.output]
        /\ message'.about = "reply" /\ message'.stage = "out" /\ message'.output = head /\ message'.input = input
        /\ MessageTyped(C, X, V)'
    BY <2>2, <2>6, MessageGoesOn
  <2>8. HeadIsSound' BY <2>5, <2>7 DEF HeadIsSound
  <2>9. MessagesAreSound' BY <2>7, <2>8 DEF MessagesAreSound, PathIsCanonical, FieldsArrive, SignedIsGenuine
  <2> QED BY <2>7, <2>9 DEF MessageInv
<1>6. CASE ReadCookie
  <2> DEFINE posted == Pair(Signed(input.value, input.key))
             shown == IF input.forged = << >> THEN posted
                      ELSE input.forged \o SubSeq(posted, Len(input.forged) + 1, Len(posted))
             read == GetSigned(Incoming(shown), input.reader)
  <2>1. message.about = "cookie" /\ Becomes("out", read) BY <1>6 DEF ReadCookie
  <2>2. IsCookie(input, C) BY <1>1, <2>1 DEF MessageTyped
  <2>3. /\ read \subseteq {input.value}
        /\ input.key = input.reader /\ input.forged = << >> /\ Readable(input.value) => read = {input.value}
    BY <2>2, GenuineCookie
  <2> HIDE DEF read
  <2>4. /\ message' = [about |-> message'.about, input |-> message'.input, stage |-> message'.stage, output |-> message'.output]
        /\ message'.about = "cookie" /\ message'.stage = "out" /\ message'.output = read /\ message'.input = input
        /\ MessageTyped(C, X, V)'
    BY <2>1, MessageGoesOn
  <2>5. SignedIsGenuine' BY <2>3, <2>4 DEF SignedIsGenuine
  <2>6. MessagesAreSound' BY <2>4, <2>5 DEF MessagesAreSound, PathIsCanonical, FieldsArrive, HeadIsSound
  <2> QED BY <2>4, <2>6 DEF MessageInv
<1>7. CASE UNCHANGED message
  BY <1>7 DEF MessageInv, MessageTyped, MessagesAreSound, PathIsCanonical, FieldsArrive, HeadIsSound, SignedIsGenuine
<1> QED BY <1>2, <1>3, <1>4, <1>5, <1>6, <1>7 DEF MessagesNext

(* What a request's path is cleaned to, every field of a form that came     *)
(* whole, every head of a response and every signed cookie are as the code  *)
(* behind them relies on (http/request.rs, form.rs, response.rs,            *)
(* security/cookies.rs), whatever the texts, their length and the order of  *)
(* the maps.                                                                *)
THEOREM MessagesSound ==
  ASSUME NEW C, NEW X, NEW V, NEW paths, NEW forms, NEW answers, NEW cookies,
         paths \subseteq Seq(C), \A form \in forms : IsForm(form, C),
         \A reply \in answers : IsReply(reply, X, V), \A cookie \in cookies : IsCookie(cookie, C)
  PROVE  MessagesInit(paths, forms, answers, cookies) /\ [][MessagesNext]_message => []MessagesAreSound
<1>1. MessagesInit(paths, forms, answers, cookies) => MessageInv(C, X, V) BY MessageStarts
<1>2. MessageInv(C, X, V) => MessagesAreSound BY DEF MessageInv
<1>3. MessageInv(C, X, V) /\ [MessagesNext]_message => MessageInv(C, X, V)' BY MessageSteps
<1> QED BY <1>1, <1>2, <1>3, PTL
=============================================================================
